-------------------------- MODULE StunBinding_proof -------------------------
(***************************************************************************)
(* Proofs about a STUN binding, for any servers, numbers of requests,      *)
(* retransmissions, mappings and failures: whatever it waits for is due,   *)
(* the address it finds is fresh, it asks again at most three times, no    *)
(* server twice, and to the application it is one request at a time        *)
(* (StunRequests).                                                         *)
(*                                                                         *)
(* There is a lemma for each operator on the members of the binding; it    *)
(* says what the invariant needs of the members after it.                  *)
(***************************************************************************)
EXTENDS StunBinding, SequenceTheorems, WellFoundedInduction, TLAPS

TransactionData ==
    [ sendCount : Nat, retransmit : BOOLEAN, disableSending : BOOLEAN,
      sending : BOOLEAN, timer : BOOLEAN ]

\* The members, with the servers from some set
Data(S) ==
    [ state : State, publicAddr : Nat, server : S, errorBuffer : SUBSET Error,
      errorCount : Nat, id : Nat, exists : BOOLEAN, transaction : TransactionData,
      timer : BOOLEAN, since : Nat ]

\* The sender owes a callback or the timer runs, and so it does whenever the
\* sender calls back.
Due(t) == (t.sending \/ t.timer) /\ (t.retransmit \/ t.timer)

\* A transaction exists exactly in GetAddress, and something is due to it.
Sound(b) ==
    \/ b.state = "GetAddress" /\ b.exists = TRUE /\ Due(b.transaction)
    \/ b.state # "GetAddress" /\ b.exists = FALSE /\ b.transaction = NoTransaction

\* A response under way is one to a request that was made, and if to the one
\* under way, no older than it.
Timely(b) ==
    /\ b.id <= Len(requests) /\ b.since <= mapped
    /\ \A m \in responses :
          /\ m.id \in DOMAIN requests /\ m.answer \in Answer /\ m.addr \in Nat
          /\ m.id = b.id => b.since <= m.addr

\* The inductive invariant
BInv ==
    /\ \E S : None \in S /\ binding \in Data(S) /\ requests \in Seq(S)
    /\ mapped \in Nat
    /\ Sound(binding)
    /\ Timely(binding)

\* What a step may do to the application's view and to the address
Step ==
    /\ \/ Asked' = Asked /\ callbacks' = callbacks
       \/ ~Asked /\ Asked' /\ callbacks' = callbacks
       \/ Asked /\ ~Asked' /\ callbacks' = callbacks
       \/ Asked /\ ~Asked' /\ \E o \in {"resolved"} \cup Error : callbacks' = Append(callbacks, o)
       \/ ~Asked /\ ~Asked' /\ callbacks' = Append(callbacks, "general")
       \/ Asked' = Asked /\ callbacks # <<>> /\ callbacks' = Tail(callbacks)
    /\ binding'.publicAddr \in {0, binding.publicAddr} \/ binding.since <= binding'.publicAddr

-----------------------------------------------------------------------------
(* Operators on the members *)

LEMMA NewTransactionDue ==
    NewTransaction \in TransactionData /\ Due(NewTransaction)
BY DEF NewTransaction, TransactionData, Due

LEMMA NoTransactionType == NoTransaction \in TransactionData
BY DEF NoTransaction, NewTransaction, TransactionData

\* The members after an operator that ends what was under way
Quiet(b) == b.state # "GetAddress" /\ b.exists = FALSE /\ b.transaction = NoTransaction

LEMMA DeleteTransactionGives ==
    ASSUME NEW S, NEW b \in Data(S)
    PROVE  LET n == DeleteTransaction(b)
           IN  /\ n \in Data(S)
               /\ n.exists = FALSE /\ n.transaction = NoTransaction
               /\ n.state = b.state /\ n.publicAddr = b.publicAddr /\ n.id = b.id
               /\ n.since = b.since /\ n.server = b.server /\ n.errorCount = b.errorCount
BY NoTransactionType DEF DeleteTransaction, Data

LEMMA FreeRequestDataGives ==
    ASSUME NEW S, NEW b \in Data(S)
    PROVE  LET n == FreeRequestData(b)
           IN  /\ n \in Data(S)
               /\ n.exists = FALSE /\ n.transaction = NoTransaction /\ n.id = 0
               /\ n.state = b.state /\ n.publicAddr = b.publicAddr /\ n.since = b.since
<1> DEFINE d == DeleteTransaction(b)
<1>1. /\ d \in Data(S) /\ d.exists = FALSE /\ d.transaction = NoTransaction
      /\ d.state = b.state /\ d.publicAddr = b.publicAddr /\ d.since = b.since
  BY DeleteTransactionGives
<1> HIDE DEF d
<1>2. FreeRequestData(b) = [d EXCEPT !.id = 0]
  BY DEF FreeRequestData, d
<1> QED
  BY <1>1, <1>2 DEF Data

LEMMA TerminateSilentGives ==
    ASSUME NEW S, None \in S, NEW b \in Data(S)
    PROVE  LET n == TerminateSilent(b)
           IN  /\ n \in Data(S) /\ Quiet(n)
               /\ n.state = "Init" /\ n.id = 0 /\ n.publicAddr = 0 /\ n.since = b.since
<1> DEFINE f == FreeRequestData(b)
<1>1. /\ f \in Data(S) /\ f.exists = FALSE /\ f.transaction = NoTransaction /\ f.id = 0
      /\ f.since = b.since
  BY FreeRequestDataGives
<1> HIDE DEF f
<1>2. TerminateSilent(b) = [f EXCEPT !.publicAddr = 0, !.server = None, !.errorCount = 0,
                                     !.state = "Init"]
  BY DEF TerminateSilent, f
<1>3. "Init" \in State
  BY DEF State
<1> QED
  BY <1>1, <1>2, <1>3 DEF Data, Quiet

LEMMA RequestGives ==
    ASSUME NEW S, NEW b \in Data(S), NEW T, requests \in Seq(T), mapped \in Nat
    PROVE  LET n == Request(b)
           IN  /\ n \in Data(S) /\ Sound(n) /\ n.state = "GetAddress"
               /\ n.id = Len(requests) + 1 /\ n.since = mapped
               /\ n.publicAddr = b.publicAddr
<1>1. Len(requests) + 1 \in Nat
  BY LenProperties
<1>2. "GetAddress" \in State
  BY DEF State
<1> QED
  BY <1>1, <1>2, NewTransactionDue DEF Request, Data, Sound

LEMMA RequestFailsGives ==
    ASSUME NEW S, NEW b \in Data(S), NEW T, requests \in Seq(T)
    PROVE  LET n == RequestFails(b)
           IN  /\ n \in Data(S) /\ Quiet(n) /\ n.state = "GetSharedSecret"
               /\ n.id = Len(requests) + 1 /\ n.since = b.since
               /\ n.publicAddr = b.publicAddr
<1> DEFINE d == DeleteTransaction(b)
<1>1. /\ d \in Data(S) /\ d.exists = FALSE /\ d.transaction = NoTransaction
      /\ d.publicAddr = b.publicAddr /\ d.since = b.since
  BY DeleteTransactionGives
<1> HIDE DEF d
<1>2. RequestFails(b) = [d EXCEPT !.id = Len(requests) + 1, !.state = "GetSharedSecret"]
  BY DEF RequestFails, d
<1>3. Len(requests) + 1 \in Nat
  BY LenProperties
<1>4. "GetSharedSecret" \in State
  BY DEF State
<1> QED
  BY <1>1, <1>2, <1>3, <1>4 DEF Data, Quiet

LEMMA CancelledGives ==
    ASSUME NEW S, None \in S, NEW b \in Data(S)
    PROVE  LET n == Cancelled(b)
           IN  /\ n \in Data(S) /\ Quiet(n) /\ n.state \in {"Init", "Active"}
               /\ n.id \in {0, b.id} /\ n.since = b.since
               /\ n.publicAddr \in {0, b.publicAddr}
<1>1. CASE b.publicAddr # 0
  <2> DEFINE d == DeleteTransaction(b)
  <2>1. /\ d \in Data(S) /\ d.exists = FALSE /\ d.transaction = NoTransaction
        /\ d.publicAddr = b.publicAddr /\ d.since = b.since /\ d.id = b.id
    BY DeleteTransactionGives
  <2> HIDE DEF d
  <2>2. Cancelled(b) = [d EXCEPT !.state = "Active"]
    BY <1>1 DEF Cancelled, d
  <2>3. "Active" \in State
    BY DEF State
  <2> QED
    BY <2>1, <2>2, <2>3 DEF Data, Quiet
<1>2. CASE b.publicAddr = 0
  BY <1>2, TerminateSilentGives DEF Cancelled
<1> QED
  BY <1>1, <1>2

-----------------------------------------------------------------------------
(* Parts of the steps *)

LEMMA QuietIsSound ==
    ASSUME NEW b, Quiet(b) PROVE Sound(b)
BY DEF Quiet, Sound

\* The requests and responses after a step that makes at most one request
LEMMA TimelyKept ==
    ASSUME BInv, mapped' = mapped, responses' = responses,
           NEW S, requests \in Seq(S), binding'.since \in Nat,
           \/ requests' = requests
           \/ \E s \in S : requests' = Append(requests, s),
           \/ binding'.id = 0 /\ binding'.since <= mapped
           \/ binding'.id = binding.id /\ binding'.since = binding.since
           \/ /\ binding'.id = Len(requests) + 1 /\ binding'.since <= mapped
              /\ requests' # requests
    PROVE  Timely(binding)'
<1>1. Len(requests) \in Nat /\ DOMAIN requests = 1 .. Len(requests)
  BY LenProperties
<1>2. \/ Len(requests') = Len(requests)
      \/ Len(requests') = Len(requests) + 1
  BY AppendProperties
<1>3. DOMAIN requests \subseteq DOMAIN requests'
  BY <1>1, AppendProperties
<1>4. requests' # requests => Len(requests') = Len(requests) + 1
  BY AppendProperties
<1>5. Timely(binding) /\ binding.id \in Nat /\ binding.since \in Nat /\ mapped \in Nat
  BY DEF BInv, Data
<1>6. binding'.id <= Len(requests') /\ binding'.since <= mapped'
  BY <1>1, <1>2, <1>4, <1>5 DEF Timely
<1>7. ASSUME NEW m \in responses'
      PROVE  /\ m.id \in DOMAIN requests' /\ m.answer \in Answer /\ m.addr \in Nat
             /\ m.id = binding'.id => binding'.since <= m.addr
  <2>1. m.id \in DOMAIN requests /\ m.answer \in Answer /\ m.addr \in Nat
        /\ (m.id = binding.id => binding.since <= m.addr)
    BY <1>5, <1>7 DEF Timely
  <2>2. m.id \in 1 .. Len(requests)
    BY <2>1, <1>1
  <2>3. m.id = binding'.id => binding'.id = binding.id /\ binding'.since = binding.since
    BY <2>2, <1>1
  <2> QED
    BY <2>1, <2>3, <1>3
<1> QED
  BY <1>6, <1>7 DEF Timely

\* A request that is under way ends with an outcome.
LEMMA TerminateStep ==
    ASSUME BInv, binding.state = "GetAddress", mapped' = mapped, responses' = responses,
           NEW S, None \in S, NEW b \in Data(S), b.since = binding.since, requests \in Seq(S),
           NEW error \in Error,
           binding' = TerminateSilent(b), requests' = requests,
           callbacks' = Append(callbacks, error)
    PROVE  BInv' /\ Step
<1>1. /\ binding' \in Data(S) /\ Quiet(binding') /\ binding'.state = "Init"
      /\ binding'.id = 0 /\ binding'.publicAddr = 0 /\ binding'.since = b.since
  BY TerminateSilentGives
<1>2. Sound(binding)'
  BY <1>1, QuietIsSound DEF Sound, Quiet
<1>3. binding'.since \in Nat /\ binding'.since <= mapped
  BY <1>1 DEF Data, BInv, Timely
<1>4. Timely(binding)'
  BY <1>1, <1>3, TimelyKept
<1>5. BInv'
  BY <1>1, <1>2, <1>4 DEF BInv
<1>6. Asked /\ ~Asked'
  BY <1>1 DEF Asked
<1> QED
  BY <1>1, <1>5, <1>6 DEF Step

\* It is made again, or that leaves.
LEMMA RetryStep ==
    ASSUME BInv, binding.state = "GetAddress", mapped' = mapped, responses' = responses,
           NEW S, None \in S, NEW b \in Data(S), b.since = binding.since, requests \in Seq(S),
           b.publicAddr = binding.publicAddr,
           Retry(b)
    PROVE  BInv' /\ Step
<1>1. CASE /\ binding' = Request(b)
           /\ requests' = Append(requests, b.server)
           /\ UNCHANGED <<callbacks, failures>>
  <2>0. mapped \in Nat
    BY DEF BInv
  <2>1. /\ binding' \in Data(S) /\ Sound(binding') /\ binding'.state = "GetAddress"
        /\ binding'.id = Len(requests) + 1 /\ binding'.since = mapped
        /\ binding'.publicAddr = b.publicAddr
    BY <1>1, <2>0, RequestGives
  <2>2. b.server \in S
    BY DEF Data
  <2>3. requests' \in Seq(S) /\ Len(requests') = Len(requests) + 1 /\ Len(requests) \in Nat
    BY <1>1, <2>2, AppendProperties, LenProperties
  <2>4. requests' # requests
    BY <2>3
  <2>5. Timely(binding)'
    BY <1>1, <2>0, <2>1, <2>2, <2>4, TimelyKept
  <2>6. BInv'
    BY <2>0, <2>1, <2>3, <2>5 DEF BInv
  <2>7. Asked' = Asked /\ callbacks' = callbacks
    BY <1>1, <2>1 DEF Asked
  <2> QED
    BY <2>1, <2>6, <2>7 DEF Step
<1>2. CASE /\ Fails
           /\ binding' = TerminateSilent(b)
           /\ Tell("failed")
           /\ UNCHANGED requests
  <2>1. "failed" \in Error
    BY DEF Error
  <2> QED
    BY <1>2, <2>1, TerminateStep DEF Tell
<1> QED
  BY <1>1, <1>2 DEF Retry

\* Wider sets of servers
LEMMA Wider ==
    ASSUME NEW S, NEW T, S \subseteq T
    PROVE  Data(S) \subseteq Data(T) /\ Seq(S) \subseteq Seq(T)
<1>1. ASSUME NEW b \in Data(S) PROVE b \in Data(T)
  BY DEF Data
<1>2. ASSUME NEW s \in Seq(S) PROVE s \in Seq(T)
  <2>1. Len(s) \in Nat /\ s \in [1 .. Len(s) -> S]
    BY LenProperties
  <2>2. s \in [1 .. Len(s) -> T]
    BY <2>1
  <2> QED
    BY <2>1, <2>2, SeqDef
<1> QED
  BY <1>1, <1>2

\* The error of a request under way
LEMMA TransactionErrorStep ==
    ASSUME BInv, binding.state = "GetAddress", mapped' = mapped, responses' = responses,
           NEW error \in Error, TransactionError(error)
    PROVE  BInv' /\ Step
<1>1. PICK S : None \in S /\ binding \in Data(S) /\ requests \in Seq(S)
  BY DEF BInv
<1> DEFINE h == Head(OtherAddresses(binding.server))
           T == S \cup {h}
           b == [binding EXCEPT !.errorBuffer = @ \cup {error}]
           d == DeleteTransaction(b)
           n == [d EXCEPT !.server = IF error = "timedOut" THEN Head(OtherAddresses(@)) ELSE @,
                          !.errorCount = IF error \in Positive THEN @ + 1 ELSE @,
                          !.timer = @ \/ error = "500"]
<1>2. None \in T /\ requests \in Seq(T)
  BY <1>1, Wider
<1>3. /\ b \in Data(S) /\ b.since = binding.since /\ b.publicAddr = binding.publicAddr
      /\ b.server = binding.server
  BY <1>1 DEF Data
<1>4. CASE Ends(error)
  <2>1. Terminate(b, error)
    BY <1>4 DEF TransactionError
  <2> QED
    BY <2>1, <1>1, <1>3, TerminateStep DEF Terminate, Tell
<1>5. CASE ~Ends(error)
  <2>1. Retry(n)
    BY <1>5 DEF TransactionError
  <2>2. /\ d \in Data(S) /\ d.since = binding.since /\ d.publicAddr = binding.publicAddr
        /\ d.server = binding.server
    BY <1>3, DeleteTransactionGives
  <2> HIDE DEF d, b
  <2>3. d \in Data(T) /\ d.server \in T /\ d.errorCount \in Nat /\ d.timer \in BOOLEAN
    BY <2>2, Wider DEF Data
  <2> DEFINE s == IF error = "timedOut" THEN h ELSE d.server
             c == IF error \in Positive THEN d.errorCount + 1 ELSE d.errorCount
             t == d.timer \/ error = "500"
  <2>4. s \in T /\ c \in Nat /\ t \in BOOLEAN
    BY <2>3
  <2>5. n = [d EXCEPT !.server = s, !.errorCount = c, !.timer = t]
    BY <2>2, <2>3 DEF Data
  <2> HIDE DEF s, c, t, n
  <2>6. n \in Data(T) /\ n.since = d.since /\ n.publicAddr = d.publicAddr
    BY <2>3, <2>4, <2>5 DEF Data
  <2> HIDE DEF T
  <2> QED
    BY <2>1, <2>2, <2>6, <1>2, RetryStep
<1> QED
  BY <1>4, <1>5

\* A step that changes the transaction only
LEMMA TransactionStep ==
    ASSUME BInv, binding.state = "GetAddress",
           NEW t \in TransactionData, Due(t),
           binding' = [binding EXCEPT !.transaction = t],
           UNCHANGED <<mapped, responses, requests, callbacks>>
    PROVE  BInv' /\ Step
<1>1. PICK S : None \in S /\ binding \in Data(S) /\ requests \in Seq(S)
  BY DEF BInv
<1>2. /\ binding' \in Data(S) /\ binding'.transaction = t
      /\ binding'.state = binding.state /\ binding'.exists = binding.exists
      /\ binding'.id = binding.id /\ binding'.since = binding.since
      /\ binding'.publicAddr = binding.publicAddr
  BY <1>1 DEF Data
<1>3. Sound(binding)'
  BY <1>2 DEF Sound, BInv
<1>4. Timely(binding)'
  BY <1>1, <1>2, TimelyKept DEF Data
<1>5. BInv'
  BY <1>1, <1>2, <1>3, <1>4 DEF BInv
<1> QED
  BY <1>2, <1>5 DEF Step, Asked

\* A transaction of which something is due belongs to GetAddress.
LEMMA InGetAddress ==
    ASSUME BInv,
           \/ binding.exists \/ binding.transaction.sending \/ binding.transaction.timer
    PROVE  /\ binding.state = "GetAddress" /\ Due(binding.transaction)
           /\ binding.transaction \in TransactionData
<1>1. PICK S : binding \in Data(S)
  BY DEF BInv
<1>2. binding.transaction \in TransactionData /\ binding.exists \in BOOLEAN
  BY <1>1 DEF Data
<1>3. NoTransaction.sending = FALSE /\ NoTransaction.timer = FALSE
  BY DEF NoTransaction, NewTransaction
<1>4. binding.exists = FALSE => ~binding.exists
  BY <1>2
<1> QED
  BY <1>2, <1>3, <1>4 DEF BInv, Sound

-----------------------------------------------------------------------------
(* The actions *)

LEMMA SendRequestStep == ASSUME BInv, SendRequest PROVE BInv' /\ Step
<1>1. PICK S : None \in S /\ binding \in Data(S) /\ requests \in Seq(S)
  BY DEF BInv
<1> DEFINE b == IF binding.state = "Init" THEN [binding EXCEPT !.server = Head(udpAddresses)]
                ELSE binding
           T == S \cup {Head(udpAddresses)}
<1>2. None \in T /\ requests \in Seq(T) /\ binding \in Data(T)
  BY <1>1, Wider
<1>3. /\ b \in Data(T) /\ b.server \in T
      /\ b.since = binding.since /\ b.publicAddr = binding.publicAddr
  BY <1>2 DEF Data
<1>4. \/ /\ binding' = Request(b)
         /\ requests' = Append(requests, b.server)
      \/ /\ binding' = RequestFails(b)
         /\ requests' = Append(requests, None)
  BY DEF SendRequest
<1> HIDE DEF b, T
<1>5. /\ mapped \in Nat /\ binding.since \in Nat /\ binding.since <= mapped
      /\ mapped' = mapped /\ responses' = responses /\ callbacks' = callbacks
      /\ binding.state \in {"Init", "Active"}
  BY <1>1 DEF BInv, Timely, Data, SendRequest, Asked
<1>6. /\ binding' \in Data(T) /\ Sound(binding') /\ binding'.state \notin {"Init", "Active"}
      /\ binding'.id = Len(requests) + 1 /\ binding'.publicAddr = binding.publicAddr
      /\ binding'.since \in Nat /\ binding'.since <= mapped
  <2>1. CASE binding' = Request(b)
    <3>1. /\ Request(b) \in Data(T) /\ Sound(Request(b)) /\ Request(b).state = "GetAddress"
          /\ Request(b).id = Len(requests) + 1 /\ Request(b).since = mapped
          /\ Request(b).publicAddr = b.publicAddr
      BY <1>2, <1>3, <1>5, RequestGives
    <3> QED
      BY <2>1, <3>1, <1>3, <1>5
  <2>2. CASE binding' = RequestFails(b)
    <3> DEFINE f == RequestFails(b)
    <3>1. /\ f \in Data(T) /\ Quiet(f) /\ f.state = "GetSharedSecret"
          /\ f.id = Len(requests) + 1 /\ f.since = b.since /\ f.publicAddr = b.publicAddr
      BY <1>2, <1>3, RequestFailsGives
    <3>2. Sound(f)
      BY <3>1, QuietIsSound
    <3> QED
      BY <2>2, <3>1, <3>2, <1>3, <1>5
  <2> QED
    BY <1>4, <2>1, <2>2
<1>7. /\ \E s \in T : requests' = Append(requests, s)
      /\ requests' \in Seq(T) /\ requests' # requests
  BY <1>2, <1>3, <1>4, AppendProperties, LenProperties
<1>8. Timely(binding)'
  BY <1>2, <1>5, <1>6, <1>7, TimelyKept
<1>9. BInv'
  BY <1>2, <1>5, <1>6, <1>7, <1>8 DEF BInv, Sound
<1> QED
  BY <1>5, <1>6, <1>9 DEF Step, Asked

LEMMA CancelRequestStep == ASSUME BInv, CancelRequest PROVE BInv' /\ Step
<1>1. PICK S : None \in S /\ binding \in Data(S) /\ requests \in Seq(S)
  BY DEF BInv
<1>2. /\ binding' = Cancelled(binding) /\ requests' = requests
      /\ mapped' = mapped /\ responses' = responses /\ callbacks' = callbacks
  BY DEF CancelRequest
<1>3. /\ binding' \in Data(S) /\ Quiet(binding') /\ binding'.state \in {"Init", "Active"}
      /\ binding'.id \in {0, binding.id} /\ binding'.since = binding.since
      /\ binding'.publicAddr \in {0, binding.publicAddr}
  BY <1>1, <1>2, CancelledGives
<1>4. binding.since \in Nat /\ binding.since <= mapped
  BY <1>1 DEF BInv, Timely, Data
<1>5. Timely(binding)'
  BY <1>1, <1>2, <1>3, <1>4, TimelyKept
<1>6. BInv'
  BY <1>1, <1>2, <1>3, <1>5, QuietIsSound DEF BInv, Sound, Quiet
<1> QED
  BY <1>2, <1>3, <1>6 DEF Step, Asked

LEMMA SilenceStep == ASSUME BInv, Silence PROVE BInv' /\ Step
<1> DEFINE t == CancelRetransmission(binding.transaction)
<1>1. binding.state = "GetAddress" /\ Due(binding.transaction)
      /\ binding.transaction \in TransactionData
  BY InGetAddress DEF Silence
<1>2. t \in TransactionData /\ Due(t)
  BY <1>1 DEF CancelRetransmission, TransactionData, Due
<1>3. /\ binding' = [binding EXCEPT !.transaction = t]
      /\ UNCHANGED <<mapped, responses, requests, callbacks>>
  BY DEF Silence
<1> QED
  BY <1>1, <1>2, <1>3, TransactionStep

LEMMA MessageSentStep == ASSUME BInv, MessageSent PROVE BInv' /\ Step
<1> DEFINE t == UNSAFUdpMessageSent(binding.transaction)
<1>1. binding.state = "GetAddress" /\ Due(binding.transaction)
      /\ binding.transaction \in TransactionData
  BY InGetAddress DEF MessageSent
<1> DEFINE u == binding.transaction
           c == u.sendCount + 1
           r == u.timer \/ u.retransmit
<1>2. t \in TransactionData /\ Due(t)
  <2>1. /\ u \in TransactionData /\ u.sendCount \in Nat
        /\ u.retransmit \in BOOLEAN /\ u.timer \in BOOLEAN
    BY <1>1 DEF TransactionData
  <2>2. c \in Nat /\ r \in BOOLEAN
    BY <2>1
  <2>3. r /\ (u.retransmit \/ r)
    BY <1>1 DEF Due
  <2>4. t = [u EXCEPT !.sending = FALSE, !.sendCount = c, !.timer = r]
    BY <2>1 DEF UNSAFUdpMessageSent, TransactionData
  <2> HIDE DEF t, u, c, r
  <2>5. t \in TransactionData /\ t.timer = r /\ t.retransmit = u.retransmit
    BY <2>1, <2>2, <2>4 DEF TransactionData
  <2> QED
    BY <2>3, <2>5 DEF Due
<1>3. /\ binding' = [binding EXCEPT !.transaction = t]
      /\ UNCHANGED <<mapped, responses, requests, callbacks>>
  BY DEF MessageSent
<1> QED
  BY <1>1, <1>2, <1>3, TransactionStep

LEMMA MessageSentFailureStep == ASSUME BInv, MessageSentFailure PROVE BInv' /\ Step
<1>1. PICK S : None \in S /\ binding \in Data(S) /\ requests \in Seq(S)
  BY DEF BInv
<1> DEFINE b == [binding EXCEPT !.errorBuffer = @ \cup {"failed"}]
<1>2. "failed" \in Error
  BY DEF Error
<1>3. b \in Data(S) /\ b.since = binding.since
  BY <1>1, <1>2 DEF Data
<1>4. binding.state = "GetAddress"
  BY InGetAddress DEF MessageSentFailure
<1>5. /\ binding' = TerminateSilent(b) /\ callbacks' = Append(callbacks, "failed")
      /\ UNCHANGED <<mapped, requests, responses>>
  BY DEF MessageSentFailure, Tell
<1> HIDE DEF b
<1> QED
  BY <1>1, <1>2, <1>3, <1>4, <1>5, TerminateStep

LEMMA TransactionTimerStep == ASSUME BInv, TransactionTimerExpires PROVE BInv' /\ Step
<1>1. binding.state = "GetAddress" /\ Due(binding.transaction)
      /\ binding.transaction \in TransactionData
  BY InGetAddress DEF TransactionTimerExpires
<1>2. mapped' = mapped /\ responses' = responses
  BY DEF TransactionTimerExpires
<1>3. CASE TransactionError("timedOut")
  BY <1>1, <1>2, <1>3, TransactionErrorStep DEF Error
<1>4. CASE /\ ~TimedOut(binding.transaction)
           /\ binding' = [binding EXCEPT !.transaction = Retransmit(@)]
           /\ UNCHANGED <<udpAddresses, callbacks, requests, failures>>
  <2> DEFINE t == Retransmit(binding.transaction)
  <2>1. binding.transaction.retransmit
    BY <1>4 DEF TimedOut
  <2>2. t \in TransactionData /\ Due(t)
    BY <1>1, <2>1 DEF Retransmit, SendAgain, TransactionData, Due
  <2>3. binding' = [binding EXCEPT !.transaction = t]
    BY <1>4
  <2> HIDE DEF t
  <2> QED
    BY <1>1, <1>2, <1>4, <2>2, <2>3, TransactionStep
<1> QED
  BY <1>3, <1>4 DEF TransactionTimerExpires

LEMMA BindingTimerStep == ASSUME BInv, BindingTimerExpires PROVE BInv' /\ Step
<1>1. PICK S : None \in S /\ binding \in Data(S) /\ requests \in Seq(S)
  BY DEF BInv
<1> DEFINE n == TerminateSilent(binding)
<1>2. /\ n \in Data(S) /\ Quiet(n) /\ n.state = "Init"
      /\ n.id = 0 /\ n.publicAddr = 0 /\ n.since = binding.since
  BY <1>1, TerminateSilentGives
<1> HIDE DEF n
<1>3. binding' = [n EXCEPT !.timer = FALSE]
  BY DEF BindingTimerExpires, n
<1>4. /\ binding' \in Data(S) /\ Quiet(binding') /\ binding'.state = "Init"
      /\ binding'.id = 0 /\ binding'.publicAddr = 0 /\ binding'.since = binding.since
  BY <1>2, <1>3 DEF Data, Quiet
<1>5. requests' = requests /\ mapped' = mapped /\ responses' = responses
  BY DEF BindingTimerExpires
<1>6. binding.since \in Nat /\ binding.since <= mapped
  BY <1>1 DEF BInv, Timely, Data
<1>7. Timely(binding)'
  BY <1>1, <1>4, <1>5, <1>6, TimelyKept
<1>8. BInv'
  BY <1>1, <1>4, <1>5, <1>7, QuietIsSound DEF BInv, Sound, Quiet
<1>9. callbacks' = IF binding.state = "Init" THEN callbacks ELSE Append(callbacks, "general")
  BY DEF BindingTimerExpires
<1>10. "general" \in Error
  BY DEF Error
<1> QED
  BY <1>4, <1>8, <1>9, <1>10 DEF Step, Asked

\* Steps that leave the binding and its requests alone
LEMMA BindingKept ==
    ASSUME BInv, binding' = binding, requests' = requests, mapped' \in Nat, Timely(binding)'
    PROVE  BInv'
BY DEF BInv, Sound

LEMMA CallbackStep == ASSUME BInv, Callback PROVE BInv' /\ Step
<1>1. UNCHANGED <<binding, requests, mapped, responses>>
  BY DEF Callback
<1>2. mapped' \in Nat /\ Timely(binding)'
  BY <1>1 DEF BInv, Timely
<1>3. callbacks # <<>> /\ callbacks' = Tail(callbacks)
  BY DEF Callback
<1> QED
  BY <1>1, <1>2, <1>3, BindingKept DEF Step, Asked

LEMMA IcmpErrorStep == ASSUME BInv, IcmpError PROVE BInv' /\ Step
<1>1. mapped' = mapped /\ responses' = responses
  BY DEF IcmpError
<1>2. CASE binding.exists /\ TransactionError("timedOut")
  <2>1. binding.state = "GetAddress"
    BY <1>2, InGetAddress
  <2> QED
    BY <1>1, <1>2, <2>1, TransactionErrorStep DEF Error
<1>3. CASE UNCHANGED <<binding, callbacks, requests, failures>>
  <2>1. mapped' \in Nat /\ Timely(binding)'
    BY <1>1, <1>3 DEF BInv, Timely
  <2> QED
    BY <1>3, <2>1, BindingKept DEF Step, Asked
<1> QED
  BY <1>2, <1>3 DEF IcmpError

LEMMA RespondStep == ASSUME BInv, Respond PROVE BInv' /\ Step
<1>1. UNCHANGED <<binding, callbacks, mapped, requests>>
  BY DEF Respond
<1>2. PICK id \in DOMAIN requests, answer \in Answer :
         responses' = {[id |-> id, answer |-> answer, addr |-> mapped]}
  BY DEF Respond
<1>3. binding.since <= mapped /\ mapped \in Nat /\ binding.id <= Len(requests)
  BY DEF BInv, Timely
<1>4. mapped' \in Nat /\ Timely(binding)'
  BY <1>1, <1>2, <1>3 DEF Timely
<1> QED
  BY <1>1, <1>4, BindingKept DEF Step, Asked

LEMMA LoseStep == ASSUME BInv, Lose PROVE BInv' /\ Step
<1>1. UNCHANGED <<binding, callbacks, mapped, requests>> /\ responses' = {}
  BY DEF Lose
<1>2. mapped' \in Nat /\ Timely(binding)'
  BY <1>1 DEF BInv, Timely
<1> QED
  BY <1>1, <1>2, BindingKept DEF Step, Asked

LEMMA RemapStep == ASSUME BInv, Remap PROVE BInv' /\ Step
<1>1. UNCHANGED <<binding, callbacks, requests, responses>> /\ mapped' = mapped + 1
  BY DEF Remap
<1>2. binding.since \in Nat /\ mapped \in Nat
  BY DEF BInv, Data
<1>3. mapped' \in Nat /\ Timely(binding)'
  BY <1>1, <1>2 DEF BInv, Timely
<1> QED
  BY <1>1, <1>3, BindingKept DEF Step, Asked

LEMMA HandleDataStep == ASSUME BInv, HandleData PROVE BInv' /\ Step
<1>1. PICK m \in responses :
         /\ Consumes(m)
         /\ \/ /\ m.answer = "300"
               /\ binding' = [binding EXCEPT !.transaction = Ignore(@)]
               /\ UNCHANGED <<callbacks, requests, failures>>
            \/ m.answer = "ok" /\ PublicAddressReceived(m.addr)
            \/ m.answer \notin {"ok", "300"} /\ TransactionError(m.answer)
         /\ UNCHANGED <<udpAddresses, mapped, responses>>
  BY DEF HandleData
<1>2. /\ binding.state = "GetAddress" /\ Due(binding.transaction)
      /\ binding.transaction \in TransactionData
  BY <1>1, InGetAddress DEF Consumes
<1>3. m.answer \in Answer /\ m.addr \in Nat /\ binding.since <= m.addr
  BY <1>1 DEF BInv, Timely, Consumes
<1>4. mapped' = mapped /\ responses' = responses
  BY <1>1
<1>5. CASE /\ binding' = [binding EXCEPT !.transaction = Ignore(@)]
           /\ UNCHANGED <<callbacks, requests, failures>>
  <2> DEFINE t == Ignore(binding.transaction)
  <2>1. t \in TransactionData /\ Due(t)
    BY <1>2 DEF Ignore, TransactionData, Due
  <2>2. binding' = [binding EXCEPT !.transaction = t]
    BY <1>5
  <2> HIDE DEF t
  <2> QED
    BY <1>2, <1>4, <1>5, <2>1, <2>2, TransactionStep
<1>6. CASE PublicAddressReceived(m.addr)
  <2>1. PICK S : None \in S /\ binding \in Data(S) /\ requests \in Seq(S)
    BY DEF BInv
  <2> DEFINE f == FreeRequestData(binding)
  <2>2. /\ f \in Data(S) /\ f.exists = FALSE /\ f.transaction = NoTransaction /\ f.id = 0
        /\ f.since = binding.since
    BY <2>1, FreeRequestDataGives
  <2>3. binding' = [f EXCEPT !.errorCount = 0, !.publicAddr = m.addr, !.state = "Active"]
    BY <1>6 DEF PublicAddressReceived
  <2> HIDE DEF f
  <2>4. "Active" \in State
    BY DEF State
  <2>5. /\ binding' \in Data(S) /\ Quiet(binding') /\ binding'.state = "Active"
        /\ binding'.id = 0 /\ binding'.since = binding.since /\ binding'.publicAddr = m.addr
    BY <1>3, <2>2, <2>3, <2>4 DEF Data, Quiet
  <2>6. requests' = requests /\ callbacks' = Append(callbacks, "resolved")
    BY <1>6 DEF PublicAddressReceived, Tell
  <2>7. binding.since \in Nat /\ binding.since <= mapped
    BY <2>1 DEF BInv, Timely, Data
  <2>8. Timely(binding)'
    BY <1>4, <2>1, <2>5, <2>6, <2>7, TimelyKept
  <2>9. BInv'
    BY <1>4, <2>1, <2>5, <2>6, <2>8, QuietIsSound DEF BInv, Sound, Quiet
  <2> QED
    BY <1>2, <1>3, <2>5, <2>6, <2>9 DEF Step, Asked
<1>7. CASE m.answer \notin {"ok", "300"} /\ TransactionError(m.answer)
  <2>1. m.answer \in Error
    BY <1>3, <1>7 DEF Answer, Error
  <2> QED
    BY <1>2, <1>4, <1>7, <2>1, TransactionErrorStep
<1> QED
  BY <1>1, <1>5, <1>6, <1>7

LEMMA BInvInit == Init => BInv
<1> SUFFICES ASSUME Init PROVE BInv
  OBVIOUS
<1>1. <<>> \in Seq({None}) /\ Len(<<>>) = 0
  BY EmptySeq
<1>2. "Init" \in State
  BY DEF State
<1>3. binding \in Data({None})
  BY <1>2, NoTransactionType DEF Init, Data
<1>4. requests \in Seq({None}) /\ Len(requests) = 0
  BY <1>1 DEF Init
<1>5. Sound(binding) /\ Timely(binding)
  BY <1>4 DEF Init, Sound, Timely
<1> QED
  BY <1>3, <1>4, <1>5 DEF BInv, Init

LEMMA BInvNext == BInv /\ [Next]_vars => BInv' /\ (Step \/ UNCHANGED vars)
<1> SUFFICES ASSUME BInv, [Next]_vars PROVE BInv' /\ (Step \/ UNCHANGED vars)
  OBVIOUS
<1>1. CASE UNCHANGED vars
  <2>1. mapped' \in Nat /\ Timely(binding)'
    BY <1>1 DEF BInv, Timely, vars
  <2> QED
    BY <1>1, <2>1, BindingKept DEF vars
<1>2. CASE SendRequest
  BY <1>2, SendRequestStep
<1>3. CASE CancelRequest
  BY <1>3, CancelRequestStep
<1>4. CASE Silence
  BY <1>4, SilenceStep
<1>5. CASE Callback
  BY <1>5, CallbackStep
<1>6. CASE MessageSent
  BY <1>6, MessageSentStep
<1>7. CASE MessageSentFailure
  BY <1>7, MessageSentFailureStep
<1>8. CASE TransactionTimerExpires
  BY <1>8, TransactionTimerStep
<1>9. CASE BindingTimerExpires
  BY <1>9, BindingTimerStep
<1>10. CASE IcmpError
  BY <1>10, IcmpErrorStep
<1>11. CASE Respond
  BY <1>11, RespondStep
<1>12. CASE Lose
  BY <1>12, LoseStep
<1>13. CASE Remap
  BY <1>13, RemapStep
<1>14. CASE HandleData
  BY <1>14, HandleDataStep
<1> QED
  BY <1>1, <1>2, <1>3, <1>4, <1>5, <1>6, <1>7, <1>8, <1>9, <1>10, <1>11, <1>12, <1>13, <1>14
  DEF Next

-----------------------------------------------------------------------------
(* The bounds, and the servers given up *)

\* What has made it ask again: two errors of servers and a time-out at most
Retries(b) == b.errorCount + (IF "timedOut" \in b.errorBuffer THEN 1 ELSE 0)

\* A request that is being sent is counted when it has been.
Counted(t) == t.sending => t.sendCount < KMaxRequestSentCount

\* Who is asked has not been given up, unless the binding has its address.
Trusted ==
    /\ binding.state = "Active" => binding.publicAddr # 0
    /\ binding.exists /\ binding.publicAddr = 0 => binding.server \in ToSet(udpAddresses)

\* The inductive invariant, with BInv
Tried ==
    /\ TypeOK
    /\ Counted(binding.transaction)
    /\ binding.exists => Len(requests) <= MaxRequests + Retries(binding)
    /\ Trusted

LEMMA ConstantTypes ==
    /\ MaxRequests \in Nat /\ MaxMappings \in Nat \ {0} /\ MaxFailures \in Nat
    /\ KMaxRequestSentCount \in Nat \ {0}
    /\ Servers \in Seq(ToSet(Servers)) /\ Servers # <<>> /\ None \notin ToSet(Servers)
BY StunAssumption, SentCountAssumption

LEMMA LeastMember ==
    ASSUME NEW T, T \subseteq Nat, T # {}
    PROVE  \E x \in T : \A y \in T : x <= y
<1>1. \E x \in T : \A y \in T : ~ (<<y, x>> \in OpToRel(<, Nat))
  BY NatLessThanWellFounded, WFMin, Zenon
<1>2. OpToRel(<, Nat) = {p \in Nat \X Nat : p[1] < p[2]}
  BY Zenon DEF OpToRel
<1>3. \A x \in T : \A y \in T : x <= y \/ <<y, x>> \in {p \in Nat \X Nat : p[1] < p[2]}
  OBVIOUS
<1> HIDE DEF OpToRel
<1>4. \E x \in T : \A y \in T : ~ (<<y, x>> \in {p \in Nat \X Nat : p[1] < p[2]})
  BY <1>1, <1>2, Zenon
<1> QED
  BY <1>3, <1>4

\* What RemoveFirst removes
LEMMA RemoveFirstGives ==
    ASSUME NEW T, NEW s \in Seq(T), NEW e
    PROVE  \/ RemoveFirst(s, e) = s /\ \A i \in DOMAIN s : s[i] # e
           \/ \E k \in DOMAIN s :
                 /\ s[k] = e
                 /\ RemoveFirst(s, e) = SubSeq(s, 1, k-1) \o SubSeq(s, k+1, Len(s))
<1> DEFINE I == { i \in 1..Len(s) : s[i] = e }
           k == CHOOSE x \in I : \A y \in I : x <= y
<1>1. /\ I \subseteq Nat /\ I \subseteq 1..Len(s) /\ DOMAIN s = 1..Len(s)
      /\ \A i \in 1..Len(s) : s[i] = e <=> i \in I
  BY LenProperties
<1>2. SelectInSeq(s, LAMBDA v : v = e) = IF I # {} THEN k ELSE 0
  BY DEF SelectInSeq, Min
<1>3. RemoveFirst(s, e) = IF \E i \in 1..Len(s) : s[i] = e
                          THEN RemoveAt(s, IF I # {} THEN k ELSE 0) ELSE s
  BY <1>2, Zenon DEF RemoveFirst
<1> HIDE DEF I
<1>4. I # {} => k \in I
  <2> SUFFICES ASSUME I # {} PROVE k \in I
    OBVIOUS
  <2>1. \E x \in I : \A y \in I : x <= y
    BY <1>1, LeastMember
  <2> QED
    BY <2>1, Zenon
<1> HIDE DEF k
<1>5. CASE I = {}
  BY <1>5, <1>3, <1>1
<1>6. CASE I # {}
  <2>1. RemoveFirst(s, e) = RemoveAt(s, k)
    BY <1>6, <1>4, <1>3, <1>1
  <2>2. k \in DOMAIN s /\ s[k] = e
    BY <1>6, <1>4, <1>1
  <2> QED
    BY <2>1, <2>2, Zenon DEF RemoveAt
<1> QED
  BY <1>5, <1>6

\* A sequence without its element k
LEMMA RemoveAtGives ==
    ASSUME NEW T, NEW s \in Seq(T), NEW k \in 1..Len(s)
    PROVE  LET o == SubSeq(s, 1, k-1) \o SubSeq(s, k+1, Len(s))
           IN  /\ o \in Seq(T) /\ DOMAIN o = 1..(Len(s) - 1)
               /\ \A i \in 1..(Len(s) - 1) : o[i] = IF i < k THEN s[i] ELSE s[i+1]
<1> DEFINE a == SubSeq(s, 1, k-1)
           z == SubSeq(s, k+1, Len(s))
           o == a \o z
<1>0. Len(s) \in Nat /\ k \in Nat /\ 1 <= k /\ k <= Len(s)
  BY LenProperties
<1>1. a \in Seq(T) /\ Len(a) = k-1 /\ \A i \in 1..(k-1) : a[i] = s[i]
  BY <1>0
<1>2. z \in Seq(T) /\ Len(z) = Len(s) - k /\ \A i \in 1..(Len(s) - k) : z[i] = s[k+i]
  BY <1>0
<1> HIDE DEF a, z
<1>3. o \in Seq(T) /\ Len(o) = Len(s) - 1
  <2>1. o \in Seq(T) /\ Len(o) = Len(a) + Len(z)
    BY <1>1, <1>2, ConcatProperties
  <2> QED
    BY <1>0, <1>1, <1>2, <2>1
<1> HIDE DEF o
<1>4. \A i \in 1..(Len(s) - 1) : o[i] = IF i < k THEN s[i] ELSE s[i+1]
  <2> TAKE i \in 1..(Len(s) - 1)
  <2>1. CASE i < k
    BY <1>0, <1>1, <1>2, <2>1 DEF o
  <2>2. CASE i >= k
    <3>1. o[i] = z[i - (k-1)] /\ i - (k-1) \in 1..(Len(s) - k)
      BY <1>0, <1>1, <1>2, <2>2 DEF o
    <3>2. z[i - (k-1)] = s[k + (i - (k-1))] /\ k + (i - (k-1)) = i + 1
      BY <1>0, <1>2, <3>1
    <3>3. o[i] = s[i+1]
      BY <3>1, <3>2
    <3> QED
      BY <1>0, <2>2, <3>3
  <2> QED
    BY <1>0, <2>1, <2>2
<1> QED
  BY <1>0, <1>3, <1>4, LenProperties DEF a, z, o

\* The addresses there are without one, of which the others stay
LEMMA OtherAddressesGives ==
    ASSUME NEW T, udpAddresses \in Seq(T), NEW server
    PROVE  /\ OtherAddresses(server) \in Seq(T)
           /\ ToSet(OtherAddresses(server)) \subseteq ToSet(udpAddresses)
           /\ ToSet(udpAddresses) \ {server} \subseteq ToSet(OtherAddresses(server))
<1> DEFINE s == udpAddresses
           o == OtherAddresses(server)
<1>1. DOMAIN s = 1..Len(s) /\ Len(s) \in Nat
  BY LenProperties
<1>2. CASE o = s
  BY <1>2
<1>3. ASSUME NEW k \in DOMAIN s, s[k] = server,
             o = SubSeq(s, 1, k-1) \o SubSeq(s, k+1, Len(s))
      PROVE  /\ o \in Seq(T)
             /\ ToSet(o) \subseteq ToSet(s)
             /\ ToSet(s) \ {server} \subseteq ToSet(o)
  <2>1. k \in Nat /\ k \in 1..Len(s)
    BY <1>1
  <2>2. /\ o \in Seq(T) /\ DOMAIN o = 1..(Len(s) - 1)
        /\ \A i \in 1..(Len(s) - 1) : o[i] = IF i < k THEN s[i] ELSE s[i+1]
    BY <1>3, <2>1, RemoveAtGives
  <2> HIDE DEF o
  <2>3. \A i \in DOMAIN o : o[i] \in ToSet(s)
    BY <1>1, <2>1, <2>2 DEF ToSet
  <2>4. ASSUME NEW i \in DOMAIN s, s[i] # server PROVE s[i] \in ToSet(o)
    <3>1. CASE i < k
      BY <1>1, <2>1, <2>2, <3>1 DEF ToSet
    <3>2. CASE i > k
      <4>1. i - 1 \in 1..(Len(s) - 1) /\ ~(i - 1 < k) /\ (i - 1) + 1 = i
        BY <1>1, <2>1, <3>2
      <4>2. o[i-1] = s[i]
        BY <2>2, <4>1
      <4> QED
        BY <2>2, <4>1, <4>2 DEF ToSet
    <3> QED
      BY <1>1, <1>3, <2>1, <2>4, <3>1, <3>2
  <2> QED
    BY <2>2, <2>3, <2>4 DEF ToSet
<1> QED
  BY <1>2, <1>3, RemoveFirstGives DEF OtherAddresses

\* The members after the operators on them
LEMMA NoTransactionTyped == NoTransaction \in Transaction /\ Counted(NoTransaction)
<1>1. 0 \in 0 .. KMaxRequestSentCount /\ 0 < KMaxRequestSentCount
  BY ConstantTypes
<1>2. NoTransaction \in Transaction
  BY <1>1 DEF NoTransaction, NewTransaction, Transaction
<1>3. ~NoTransaction.sending
  BY DEF NoTransaction, NewTransaction
<1> QED
  BY <1>2, <1>3 DEF Counted

LEMMA DeleteTransactionTyped ==
    ASSUME NEW b \in Binding
    PROVE  LET n == DeleteTransaction(b)
           IN  /\ n \in Binding /\ n.exists = FALSE /\ n.transaction = NoTransaction
               /\ n.state = b.state /\ n.publicAddr = b.publicAddr /\ n.server = b.server
               /\ n.errorBuffer = b.errorBuffer /\ n.errorCount = b.errorCount
               /\ n.timer = b.timer
BY NoTransactionTyped DEF DeleteTransaction, Binding

LEMMA FreeRequestDataTyped ==
    ASSUME NEW b \in Binding
    PROVE  LET n == FreeRequestData(b)
           IN  n \in Binding /\ n.exists = FALSE /\ n.transaction = NoTransaction
<1> DEFINE d == DeleteTransaction(b)
<1>1. d \in Binding /\ d.exists = FALSE /\ d.transaction = NoTransaction
  BY DeleteTransactionTyped
<1> HIDE DEF d
<1>2. FreeRequestData(b) = [d EXCEPT !.id = 0]
  BY DEF FreeRequestData, d
<1> QED
  BY <1>1, <1>2 DEF Binding

LEMMA TerminateSilentTyped ==
    ASSUME NEW b \in Binding
    PROVE  LET n == TerminateSilent(b)
           IN  /\ n \in Binding /\ n.exists = FALSE /\ n.transaction = NoTransaction
               /\ n.state = "Init"
<1> DEFINE f == FreeRequestData(b)
<1>1. f \in Binding /\ f.exists = FALSE /\ f.transaction = NoTransaction
  BY FreeRequestDataTyped
<1> HIDE DEF f
<1>2. TerminateSilent(b) = [f EXCEPT !.publicAddr = 0, !.server = None, !.errorCount = 0,
                                     !.state = "Init"]
  BY DEF TerminateSilent, f
<1>3. "Init" \in State /\ 0 \in 0 .. MaxMappings /\ 0 \in 0 .. 2
  BY ConstantTypes DEF State
<1>4. None \in ToSet(Servers) \cup {None}
  OBVIOUS
<1> DEFINE n == TerminateSilent(b)
<1>5. n \in Binding
  BY <1>1, <1>2, <1>3, <1>4 DEF Binding
<1>6. n.exists = FALSE /\ n.transaction = NoTransaction /\ n.state = "Init"
  BY <1>1, <1>2 DEF Binding
<1> QED
  BY <1>5, <1>6

LEMMA RequestTyped ==
    ASSUME NEW b \in Binding, mapped \in 1 .. MaxMappings, Len(requests) + 1 \in Id
    PROVE  LET n == Request(b)
           IN  /\ n \in Binding /\ Counted(n.transaction) /\ n.state = "GetAddress"
               /\ n.publicAddr = b.publicAddr /\ n.server = b.server
               /\ Retries(n) = Retries(b)
<1>1. "GetAddress" \in State /\ mapped \in 0 .. MaxMappings
  BY ConstantTypes DEF State
<1>2. NewTransaction \in Transaction /\ Counted(NewTransaction)
  BY ConstantTypes DEF NewTransaction, Transaction, Counted
<1> QED
  BY <1>1, <1>2 DEF Request, Binding, Retries

LEMMA RequestFailsTyped ==
    ASSUME NEW b \in Binding, Len(requests) + 1 \in Id
    PROVE  LET n == RequestFails(b)
           IN  /\ n \in Binding /\ n.exists = FALSE /\ n.transaction = NoTransaction
               /\ n.state = "GetSharedSecret"
<1> DEFINE d == DeleteTransaction(b)
<1>1. d \in Binding /\ d.exists = FALSE /\ d.transaction = NoTransaction
  BY DeleteTransactionTyped
<1> HIDE DEF d
<1>2. RequestFails(b) = [d EXCEPT !.id = Len(requests) + 1, !.state = "GetSharedSecret"]
  BY DEF RequestFails, d
<1>3. "GetSharedSecret" \in State
  BY DEF State
<1> QED
  BY <1>1, <1>2, <1>3 DEF Binding

LEMMA CancelledTyped ==
    ASSUME NEW b \in Binding
    PROVE  LET n == Cancelled(b)
           IN  /\ n \in Binding /\ n.exists = FALSE /\ n.transaction = NoTransaction
               /\ n.state = "Active" => n.publicAddr # 0
<1>1. CASE b.publicAddr # 0
  <2> DEFINE d == DeleteTransaction(b)
  <2>1. /\ d \in Binding /\ d.exists = FALSE /\ d.transaction = NoTransaction
        /\ d.publicAddr = b.publicAddr
    BY DeleteTransactionTyped
  <2> HIDE DEF d
  <2>2. Cancelled(b) = [d EXCEPT !.state = "Active"]
    BY <1>1 DEF Cancelled, d
  <2>3. "Active" \in State
    BY DEF State
  <2> QED
    BY <1>1, <2>1, <2>2, <2>3 DEF Binding
<1>2. CASE b.publicAddr = 0
  BY <1>2, TerminateSilentTyped DEF Cancelled
<1> QED
  BY <1>1, <1>2

\* The requests after one more
LEMMA OneMoreRequest ==
    ASSUME TypeOK, Len(requests) < MaxRequests + 3,
           NEW server \in ToSet(Servers) \cup {None}, requests' = Append(requests, server)
    PROVE  /\ requests' \in Seq(ToSet(Servers) \cup {None})
           /\ DOMAIN requests' \subseteq Id /\ DOMAIN requests \subseteq DOMAIN requests'
           /\ Len(requests') = Len(requests) + 1 /\ Len(requests) + 1 \in Id
           /\ \A id \in DOMAIN requests' \ DOMAIN requests : requests'[id] = server
<1>1. Len(requests) \in Nat /\ requests \in Seq(ToSet(Servers) \cup {None})
  BY LenProperties DEF TypeOK
<1>2. /\ requests' \in Seq(ToSet(Servers) \cup {None}) /\ Len(requests') = Len(requests) + 1
      /\ requests'[Len(requests) + 1] = server
  BY <1>1, AppendProperties
<1>3. DOMAIN requests = 1 .. Len(requests) /\ DOMAIN requests' = 1 .. (Len(requests) + 1)
  BY <1>1, <1>2, LenProperties
<1>4. Len(requests) + 1 \in Id /\ 1 .. (Len(requests) + 1) \subseteq Id
  BY <1>1, ConstantTypes DEF Id
<1> QED
  BY <1>1, <1>2, <1>3, <1>4

-----------------------------------------------------------------------------
(* Parts of the steps, and the bounds *)

\* Nobody that was given up is asked.
NoneAgain ==
    \A id \in DOMAIN requests' \ DOMAIN requests :
       requests'[id] \in ToSet(Servers) \ ToSet(udpAddresses) => binding.publicAddr # 0

\* A step after which no transaction exists
LEMMA EndsTried ==
    ASSUME TypeOK,
           binding' \in Binding, binding'.exists = FALSE, binding'.transaction = NoTransaction,
           binding'.state = "Active" => binding'.publicAddr # 0,
           udpAddresses' \in Seq(ToSet(Servers)), callbacks' \in Seq({"resolved"} \cup Error),
           failures' \in 0 .. MaxFailures,
           UNCHANGED <<mapped, requests, responses>>
    PROVE  Tried' /\ NoneAgain
<1>1. TypeOK'
  BY DEF TypeOK
<1> QED
  BY <1>1, NoTransactionTyped DEF Tried, Trusted, NoneAgain

LEMMA FailsTyped == ASSUME TypeOK, Fails PROVE failures' \in 0 .. MaxFailures
BY ConstantTypes DEF TypeOK, Fails

LEMMA CallbackAppended ==
    ASSUME TypeOK, NEW o \in {"resolved"} \cup Error, callbacks' = Append(callbacks, o)
    PROVE  callbacks' \in Seq({"resolved"} \cup Error)
BY AppendProperties DEF TypeOK

LEMMA TransactionErrorTried ==
    ASSUME Tried, binding.exists, NEW error \in Positive \cup {"timedOut"},
           TransactionError(error),
           udpAddresses' \in {udpAddresses, OtherAddresses(binding.server)},
           error # "timedOut" => udpAddresses' = udpAddresses,
           error = "timedOut" /\ ~Ends(error) =>
              udpAddresses' = OtherAddresses(binding.server),
           UNCHANGED <<mapped, responses>>
    PROVE  Tried' /\ NoneAgain
<1> DEFINE b == [binding EXCEPT !.errorBuffer = @ \cup {error}]
           d == DeleteTransaction(b)
           n == [d EXCEPT !.server = IF error = "timedOut" THEN Head(OtherAddresses(@)) ELSE @,
                          !.errorCount = IF error \in Positive THEN @ + 1 ELSE @,
                          !.timer = @ \/ error = "500"]
<1>1. TypeOK /\ binding \in Binding /\ error \in Error
  BY DEF Tried, TypeOK, Positive, Error
<1>2. /\ OtherAddresses(binding.server) \in Seq(ToSet(Servers))
      /\ ToSet(OtherAddresses(binding.server)) \subseteq ToSet(udpAddresses)
      /\ udpAddresses' \in Seq(ToSet(Servers))
  BY <1>1, OtherAddressesGives DEF TypeOK
<1>3. /\ b \in Binding /\ b.publicAddr = binding.publicAddr /\ b.server = binding.server
      /\ b.errorCount = binding.errorCount
      /\ b.errorBuffer = binding.errorBuffer \cup {error}
  BY <1>1 DEF Binding
<1> HIDE DEF b
<1>4. ASSUME NEW m \in Binding, NEW e \in Error, binding' = TerminateSilent(m),
             callbacks' = Append(callbacks, e), requests' = requests,
             failures' \in 0 .. MaxFailures
      PROVE  Tried' /\ NoneAgain
  <2>1. /\ binding' \in Binding /\ binding'.exists = FALSE
        /\ binding'.transaction = NoTransaction /\ binding'.state = "Init"
    BY <1>4, TerminateSilentTyped
  <2>2. callbacks' \in Seq({"resolved"} \cup Error)
    BY <1>1, <1>4, CallbackAppended
  <2> QED
    BY <1>1, <1>2, <1>4, <2>1, <2>2, EndsTried
<1>5. CASE Ends(error)
  <2>1. Terminate(b, error)
    BY <1>5 DEF TransactionError, b
  <2> QED
    BY <1>1, <1>3, <1>4, <2>1 DEF Terminate, Tell, TypeOK
<1>6. CASE ~Ends(error)
  <2>1. Retry(n)
    BY <1>6 DEF TransactionError, b
  <2>2. /\ error \notin binding.errorBuffer
        /\ error \in Positive => binding.errorCount # 2
        /\ error = "timedOut" => OtherAddresses(binding.server) # <<>>
    BY <1>6 DEF Ends
  <2>3. /\ d \in Binding /\ d.publicAddr = binding.publicAddr /\ d.server = binding.server
        /\ d.errorCount = binding.errorCount
        /\ d.errorBuffer = binding.errorBuffer \cup {error}
    BY <1>3, DeleteTransactionTyped
  <2> HIDE DEF d
  <2> DEFINE h == Head(OtherAddresses(binding.server))
             s == IF error = "timedOut" THEN h ELSE d.server
             c == IF error \in Positive THEN d.errorCount + 1 ELSE d.errorCount
             t == d.timer \/ error = "500"
  <2>4. error = "timedOut" => h \in ToSet(OtherAddresses(binding.server)) /\ h \in ToSet(Servers)
    BY <1>2, <2>2 DEF ToSet
  <2>5. /\ n = [d EXCEPT !.server = s, !.errorCount = c, !.timer = t]
        /\ s \in ToSet(Servers) \cup {None} /\ c \in 0 .. 2 /\ t \in BOOLEAN
        /\ binding.errorCount \in 0 .. 2
    BY <1>1, <2>2, <2>3, <2>4 DEF Binding
  <2> HIDE DEF h, t, n
  <2>6. /\ n \in Binding /\ n.publicAddr = binding.publicAddr /\ n.server = s
        /\ n.errorCount = c /\ n.errorBuffer = binding.errorBuffer \cup {error}
    BY <2>3, <2>5 DEF Binding
  <2>7. Retries(n) = Retries(binding) + 1 /\ Retries(binding) \in 0 .. 2
    BY <2>2, <2>3, <2>5, <2>6 DEF Retries, Positive
  <2>8. Len(requests) \in Nat /\ Len(requests) <= MaxRequests + Retries(binding)
    BY <1>1, LenProperties DEF Tried, TypeOK
  <2>9. Len(requests) < MaxRequests + 3
    BY <2>7, <2>8, ConstantTypes
  <2>10. binding.publicAddr = 0 => s \in ToSet(udpAddresses')
    BY <1>6, <2>3, <2>4 DEF Tried, Trusted, Positive
  <2>11. CASE /\ binding' = Request(n)
              /\ requests' = Append(requests, n.server)
              /\ UNCHANGED <<callbacks, failures>>
    <3>1. /\ requests' \in Seq(ToSet(Servers) \cup {None}) /\ DOMAIN requests' \subseteq Id
          /\ Len(requests') = Len(requests) + 1 /\ Len(requests) + 1 \in Id
          /\ \A id \in DOMAIN requests' \ DOMAIN requests : requests'[id] = s
      BY <1>1, <2>5, <2>6, <2>9, <2>11, OneMoreRequest
    <3>2. /\ binding' \in Binding /\ Counted(binding'.transaction)
          /\ binding'.state = "GetAddress" /\ binding'.publicAddr = binding.publicAddr
          /\ binding'.server = s /\ Retries(binding') = Retries(n)
      BY <1>1, <2>6, <2>11, <3>1, RequestTyped DEF TypeOK
    <3>3. TypeOK'
      BY <1>1, <1>2, <2>11, <3>1, <3>2 DEF TypeOK
    <3>4. Len(requests') <= MaxRequests + Retries(binding')
      BY <2>7, <2>8, <3>1, <3>2, ConstantTypes
    <3>5. Trusted'
      BY <2>10, <3>2 DEF Trusted
    <3>6. ToSet(udpAddresses') \subseteq ToSet(udpAddresses)
      BY <1>2
    <3>7. NoneAgain
      BY <2>10, <3>1, <3>6 DEF NoneAgain
    <3> QED
      BY <3>2, <3>3, <3>4, <3>5, <3>7 DEF Tried
  <2>12. CASE Fails /\ binding' = TerminateSilent(n) /\ Tell("failed") /\ UNCHANGED requests
    <3>1. failures' \in 0 .. MaxFailures /\ "failed" \in Error
      BY <1>1, <2>12, FailsTyped DEF Error
    <3> QED
      BY <1>4, <2>6, <2>12, <3>1 DEF Tell
  <2> QED
    BY <2>1, <2>11, <2>12 DEF Retry
<1> QED
  BY <1>5, <1>6

-----------------------------------------------------------------------------
(* The actions, and the bounds *)

LEMMA SendRequestTried == ASSUME Tried, SendRequest PROVE Tried' /\ NoneAgain
<1> DEFINE b == IF binding.state = "Init" THEN [binding EXCEPT !.server = Head(udpAddresses)]
                ELSE binding
<1>1. TypeOK /\ binding \in Binding /\ binding.state \in {"Init", "Active"}
  BY DEF Tried, TypeOK, SendRequest, Asked
<1>2. UNCHANGED <<udpAddresses, callbacks, mapped, responses>> /\ Len(requests) < MaxRequests
  BY DEF SendRequest
<1>3. binding.state = "Init" =>
         Head(udpAddresses) \in ToSet(udpAddresses) /\ Head(udpAddresses) \in ToSet(Servers)
  BY <1>1 DEF SendRequest, TypeOK, ToSet
<1>4. /\ b \in Binding /\ b.publicAddr = binding.publicAddr
      /\ binding.publicAddr = 0 => b.server \in ToSet(udpAddresses)
      /\ Retries(b) \in Nat
  <2>1. b \in Binding /\ b.publicAddr = binding.publicAddr
    BY <1>1, <1>3 DEF Binding
  <2>2. binding.publicAddr = 0 => binding.state = "Init" /\ b.server = Head(udpAddresses)
    BY <1>1 DEF Tried, Trusted, Binding
  <2> HIDE DEF b
  <2>3. Retries(b) \in Nat
    BY <2>1 DEF Binding, Retries
  <2> QED
    BY <1>3, <2>1, <2>2, <2>3
<1>5. \/ binding' = Request(b) /\ requests' = Append(requests, b.server) /\ UNCHANGED failures
      \/ Fails /\ binding' = RequestFails(b) /\ requests' = Append(requests, None)
  BY DEF SendRequest
<1> HIDE DEF b
<1>6. Len(requests) \in Nat /\ Len(requests) < MaxRequests + 3
  BY <1>1, <1>2, ConstantTypes, LenProperties DEF TypeOK
<1>7. CASE binding' = Request(b) /\ requests' = Append(requests, b.server) /\ UNCHANGED failures
  <2>1. b.server \in ToSet(Servers) \cup {None}
    BY <1>4 DEF Binding
  <2>2. /\ requests' \in Seq(ToSet(Servers) \cup {None}) /\ DOMAIN requests' \subseteq Id
        /\ Len(requests') = Len(requests) + 1 /\ Len(requests) + 1 \in Id
        /\ \A id \in DOMAIN requests' \ DOMAIN requests : requests'[id] = b.server
    BY <1>1, <1>6, <1>7, <2>1, OneMoreRequest
  <2>3. /\ binding' \in Binding /\ Counted(binding'.transaction)
        /\ binding'.state = "GetAddress" /\ binding'.publicAddr = binding.publicAddr
        /\ binding'.server = b.server /\ Retries(binding') = Retries(b)
    BY <1>1, <1>4, <1>7, <2>2, RequestTyped DEF TypeOK
  <2>4. TypeOK'
    BY <1>1, <1>2, <1>7, <2>2, <2>3 DEF TypeOK
  <2>5. Len(requests') <= MaxRequests + Retries(binding')
    BY <1>2, <1>4, <1>6, <2>2, <2>3, ConstantTypes
  <2>6. Trusted' /\ NoneAgain
    BY <1>2, <1>4, <2>2, <2>3 DEF Trusted, NoneAgain
  <2> QED
    BY <2>3, <2>4, <2>5, <2>6 DEF Tried
<1>8. CASE Fails /\ binding' = RequestFails(b) /\ requests' = Append(requests, None)
  <2>1. /\ requests' \in Seq(ToSet(Servers) \cup {None}) /\ DOMAIN requests' \subseteq Id
        /\ Len(requests) + 1 \in Id
        /\ \A id \in DOMAIN requests' \ DOMAIN requests : requests'[id] = None
    BY <1>1, <1>6, <1>8, OneMoreRequest
  <2>2. /\ binding' \in Binding /\ binding'.exists = FALSE
        /\ binding'.transaction = NoTransaction /\ binding'.state = "GetSharedSecret"
    BY <1>4, <1>8, <2>1, RequestFailsTyped
  <2>3. TypeOK'
    BY <1>1, <1>2, <1>8, <2>1, <2>2, FailsTyped DEF TypeOK
  <2>4. NoneAgain
    BY <2>1, ConstantTypes DEF NoneAgain
  <2> QED
    BY <2>2, <2>3, <2>4, NoTransactionTyped DEF Tried, Trusted
<1> QED
  BY <1>5, <1>7, <1>8

LEMMA CancelRequestTried == ASSUME Tried, CancelRequest PROVE Tried' /\ NoneAgain
<1>1. TypeOK /\ binding \in Binding
  BY DEF Tried, TypeOK
<1>2. binding' = Cancelled(binding)
      /\ UNCHANGED <<udpAddresses, callbacks, mapped, requests, responses, failures>>
  BY DEF CancelRequest
<1>3. /\ binding' \in Binding /\ binding'.exists = FALSE /\ binding'.transaction = NoTransaction
      /\ binding'.state = "Active" => binding'.publicAddr # 0
  BY <1>1, <1>2, CancelledTyped
<1> QED
  BY <1>1, <1>2, <1>3, EndsTried DEF TypeOK

\* A step that changes the transaction only
LEMMA TransactionTried ==
    ASSUME Tried, NEW t \in Transaction, Counted(t),
           binding' = [binding EXCEPT !.transaction = t],
           UNCHANGED <<udpAddresses, callbacks, mapped, requests, responses, failures>>
    PROVE  Tried' /\ NoneAgain
<1>1. /\ binding' \in Binding /\ binding'.transaction = t
      /\ binding'.state = binding.state /\ binding'.exists = binding.exists
      /\ binding'.publicAddr = binding.publicAddr /\ binding'.server = binding.server
      /\ Retries(binding') = Retries(binding)
  BY DEF Tried, TypeOK, Binding, Retries
<1>2. TypeOK'
  BY <1>1 DEF Tried, TypeOK
<1> QED
  BY <1>1, <1>2 DEF Tried, Trusted, NoneAgain

LEMMA SilenceTried == ASSUME Tried, Silence PROVE Tried' /\ NoneAgain
<1> DEFINE t == CancelRetransmission(binding.transaction)
<1>1. t \in Transaction /\ Counted(t)
  BY DEF Tried, TypeOK, Binding, CancelRetransmission, Transaction, Counted
<1>2. binding' = [binding EXCEPT !.transaction = t]
      /\ UNCHANGED <<udpAddresses, callbacks, mapped, requests, responses, failures>>
  BY DEF Silence
<1> QED
  BY <1>1, <1>2, TransactionTried

LEMMA MessageSentTried == ASSUME Tried, MessageSent PROVE Tried' /\ NoneAgain
<1> DEFINE u == binding.transaction
           t == UNSAFUdpMessageSent(u)
           c == u.sendCount + 1
           r == u.timer \/ u.retransmit
<1>1. /\ u \in Transaction /\ u.sendCount \in 0 .. KMaxRequestSentCount
      /\ u.sendCount < KMaxRequestSentCount
  BY DEF Tried, TypeOK, Binding, MessageSent, Transaction, Counted
<1>2. c \in 0 .. KMaxRequestSentCount /\ r \in BOOLEAN
  BY <1>1, ConstantTypes DEF Transaction
<1>3. t = [u EXCEPT !.sending = FALSE, !.sendCount = c, !.timer = r]
  BY <1>1 DEF UNSAFUdpMessageSent, Transaction
<1>4. binding' = [binding EXCEPT !.transaction = t]
      /\ UNCHANGED <<udpAddresses, callbacks, mapped, requests, responses, failures>>
  BY DEF MessageSent
<1> HIDE DEF u, c, r, t
<1>5. t \in Transaction /\ Counted(t)
  BY <1>1, <1>2, <1>3 DEF Transaction, Counted
<1> QED
  BY <1>4, <1>5, TransactionTried

LEMMA MessageSentFailureTried == ASSUME Tried, MessageSentFailure PROVE Tried' /\ NoneAgain
<1> DEFINE b == [binding EXCEPT !.errorBuffer = @ \cup {"failed"}]
<1>1. TypeOK /\ binding \in Binding /\ "failed" \in Error
  BY DEF Tried, TypeOK, Error
<1>2. b \in Binding
  BY <1>1 DEF Binding
<1>3. /\ binding' = TerminateSilent(b) /\ callbacks' = Append(callbacks, "failed") /\ Fails
      /\ UNCHANGED <<udpAddresses, mapped, requests, responses>>
  BY DEF MessageSentFailure, Tell
<1> HIDE DEF b
<1>4. /\ binding' \in Binding /\ binding'.exists = FALSE /\ binding'.transaction = NoTransaction
      /\ binding'.state = "Init"
  BY <1>2, <1>3, TerminateSilentTyped
<1>5. callbacks' \in Seq({"resolved"} \cup Error) /\ failures' \in 0 .. MaxFailures
  BY <1>1, <1>3, CallbackAppended, FailsTyped
<1>6. udpAddresses' \in Seq(ToSet(Servers))
  BY <1>1, <1>3 DEF TypeOK
<1> QED
  BY <1>1, <1>3, <1>4, <1>5, <1>6, EndsTried

LEMMA TransactionTimerTried ==
    ASSUME BInv, Tried, TransactionTimerExpires PROVE Tried' /\ NoneAgain
<1>1. binding.exists
  BY InGetAddress DEF TransactionTimerExpires, BInv, Sound
<1>2. CASE /\ TransactionError("timedOut")
           /\ udpAddresses' = IF "timedOut" \in binding.errorBuffer THEN udpAddresses
                              ELSE OtherAddresses(binding.server)
  <2>1. ~Ends("timedOut") => udpAddresses' = OtherAddresses(binding.server)
    BY <1>2 DEF Ends
  <2>2. UNCHANGED <<mapped, responses>>
    BY DEF TransactionTimerExpires
  <2> QED
    BY <1>1, <1>2, <2>1, <2>2, TransactionErrorTried
<1>3. CASE /\ ~TimedOut(binding.transaction)
           /\ binding' = [binding EXCEPT !.transaction = Retransmit(@)]
           /\ UNCHANGED <<udpAddresses, callbacks, requests, failures>>
  <2> DEFINE u == binding.transaction
             t == Retransmit(u)
  <2>1. u \in Transaction /\ u.sendCount < KMaxRequestSentCount
    <3>1. u \in Transaction /\ u.sendCount \in 0 .. KMaxRequestSentCount
      BY DEF Tried, TypeOK, Binding, Transaction
    <3> QED
      BY <1>3, <3>1, ConstantTypes DEF TimedOut
  <2>2. t \in Transaction /\ Counted(t)
    BY <2>1 DEF Retransmit, SendAgain, Transaction, Counted
  <2>3. binding' = [binding EXCEPT !.transaction = t] /\ UNCHANGED <<mapped, responses>>
    BY <1>3 DEF TransactionTimerExpires
  <2> HIDE DEF t, u
  <2> QED
    BY <1>3, <2>2, <2>3, TransactionTried
<1> QED
  BY <1>2, <1>3 DEF TransactionTimerExpires

LEMMA BindingTimerTried == ASSUME Tried, BindingTimerExpires PROVE Tried' /\ NoneAgain
<1> DEFINE n == TerminateSilent(binding)
<1>1. TypeOK /\ binding \in Binding /\ "general" \in Error
  BY DEF Tried, TypeOK, Error
<1>2. n \in Binding /\ n.exists = FALSE /\ n.transaction = NoTransaction /\ n.state = "Init"
  BY <1>1, TerminateSilentTyped
<1>3. /\ binding' = [n EXCEPT !.timer = FALSE]
      /\ callbacks' = IF binding.state = "Init" THEN callbacks ELSE Append(callbacks, "general")
      /\ UNCHANGED <<udpAddresses, mapped, requests, responses, failures>>
  BY DEF BindingTimerExpires
<1> HIDE DEF n
<1>4. /\ binding' \in Binding /\ binding'.exists = FALSE /\ binding'.transaction = NoTransaction
      /\ binding'.state = "Init"
  BY <1>2, <1>3 DEF Binding
<1>5. callbacks' \in Seq({"resolved"} \cup Error)
  BY <1>1, <1>3, CallbackAppended DEF TypeOK
<1>6. udpAddresses' \in Seq(ToSet(Servers)) /\ failures' \in 0 .. MaxFailures
  BY <1>1, <1>3 DEF TypeOK
<1> QED
  BY <1>1, <1>3, <1>4, <1>5, <1>6, EndsTried

\* Steps that leave the binding and its requests alone
LEMMA BindingKeptTried ==
    ASSUME Tried, UNCHANGED <<binding, requests, failures>>,
           udpAddresses' = udpAddresses
           \/ /\ udpAddresses' \in Seq(ToSet(Servers))
              /\ binding.exists => binding.server \in ToSet(udpAddresses') \/ binding.publicAddr # 0,
           mapped' \in 1 .. MaxMappings, responses' \subseteq Response,
           callbacks' \in Seq({"resolved"} \cup Error)
    PROVE  Tried' /\ NoneAgain
<1>1. TypeOK'
  BY DEF Tried, TypeOK
<1> QED
  BY <1>1 DEF Tried, Trusted, NoneAgain, Retries

LEMMA IcmpErrorTried == ASSUME BInv, Tried, IcmpError PROVE Tried' /\ NoneAgain
<1>1. PICK server \in ToSet(Servers) :
         /\ udpAddresses' = OtherAddresses(server)
         /\ \/ /\ binding.exists /\ binding.server = server
               /\ TransactionError("timedOut")
            \/ /\ ~binding.exists \/ binding.server # server
               /\ UNCHANGED <<binding, callbacks, requests, failures>>
         /\ UNCHANGED <<mapped, responses>>
  BY DEF IcmpError
<1>2. CASE binding.exists /\ binding.server = server /\ TransactionError("timedOut")
  BY <1>1, <1>2, TransactionErrorTried
<1>3. CASE /\ ~binding.exists \/ binding.server # server
           /\ UNCHANGED <<binding, callbacks, requests, failures>>
  <2>1. /\ udpAddresses' \in Seq(ToSet(Servers))
        /\ ToSet(udpAddresses) \ {server} \subseteq ToSet(udpAddresses')
    BY <1>1, OtherAddressesGives DEF Tried, TypeOK
  <2>2. binding.exists => binding.server \in ToSet(udpAddresses') \/ binding.publicAddr # 0
    BY <1>3, <2>1 DEF Tried, Trusted
  <2>3. /\ mapped' \in 1 .. MaxMappings /\ responses' \subseteq Response
        /\ callbacks' \in Seq({"resolved"} \cup Error)
    BY <1>1, <1>3 DEF Tried, TypeOK
  <2> QED
    BY <1>3, <2>1, <2>2, <2>3, BindingKeptTried
<1> QED
  BY <1>1, <1>2, <1>3

LEMMA EnvironmentTried ==
    ASSUME Tried, Callback \/ Respond \/ Lose \/ Remap PROVE Tried' /\ NoneAgain
<1>1. TypeOK
  BY DEF Tried
<1>2. CASE Callback
  <2>1. callbacks' \in Seq({"resolved"} \cup Error)
    BY <1>1, <1>2 DEF Callback, TypeOK
  <2> QED
    BY <1>1, <1>2, <2>1, BindingKeptTried DEF Callback, TypeOK
<1>3. CASE Respond
  <2>1. PICK id \in DOMAIN requests, answer \in Answer :
           responses' = {[id |-> id, answer |-> answer, addr |-> mapped]}
    BY <1>3 DEF Respond
  <2>2. responses' \subseteq Response
    BY <1>1, <2>1 DEF TypeOK, Response
  <2> QED
    BY <1>1, <1>3, <2>2, BindingKeptTried DEF Respond, TypeOK
<1>4. CASE Lose
  BY <1>1, <1>4, BindingKeptTried DEF Lose, TypeOK
<1>5. CASE Remap
  <2>1. mapped' \in 1 .. MaxMappings
    BY <1>1, <1>5, ConstantTypes DEF Remap, TypeOK
  <2> QED
    BY <1>1, <1>5, <2>1, BindingKeptTried DEF Remap, TypeOK
<1> QED
  BY <1>2, <1>3, <1>4, <1>5

LEMMA HandleDataTried == ASSUME Tried, HandleData PROVE Tried' /\ NoneAgain
<1>1. PICK m \in responses :
         /\ Consumes(m)
         /\ \/ /\ m.answer = "300"
               /\ binding' = [binding EXCEPT !.transaction = Ignore(@)]
               /\ UNCHANGED <<callbacks, requests, failures>>
            \/ m.answer = "ok" /\ PublicAddressReceived(m.addr)
            \/ m.answer \notin {"ok", "300"} /\ TransactionError(m.answer)
         /\ UNCHANGED <<udpAddresses, mapped, responses>>
  BY DEF HandleData
<1>2. TypeOK /\ binding \in Binding /\ m \in Response
  BY DEF Tried, TypeOK
<1>3. CASE /\ binding' = [binding EXCEPT !.transaction = Ignore(@)]
           /\ UNCHANGED <<callbacks, requests, failures>>
  <2> DEFINE t == Ignore(binding.transaction)
  <2>1. t \in Transaction /\ Counted(t)
    BY DEF Tried, TypeOK, Binding, Ignore, Transaction, Counted
  <2>2. binding' = [binding EXCEPT !.transaction = t]
    BY <1>3
  <2> HIDE DEF t
  <2> QED
    BY <1>1, <1>3, <2>1, <2>2, TransactionTried
<1>4. CASE PublicAddressReceived(m.addr)
  <2> DEFINE f == FreeRequestData(binding)
  <2>1. f \in Binding /\ f.exists = FALSE /\ f.transaction = NoTransaction
    BY <1>2, FreeRequestDataTyped
  <2>2. /\ binding' = [f EXCEPT !.errorCount = 0, !.publicAddr = m.addr, !.state = "Active"]
        /\ callbacks' = Append(callbacks, "resolved") /\ UNCHANGED <<requests, failures>>
    BY <1>4 DEF PublicAddressReceived, Tell
  <2> HIDE DEF f
  <2>3. /\ "Active" \in State /\ m.addr \in 0 .. MaxMappings /\ m.addr # 0 /\ 0 \in 0 .. 2
    BY <1>2, ConstantTypes DEF State, Response
  <2>4. /\ binding' \in Binding /\ binding'.exists = FALSE
        /\ binding'.transaction = NoTransaction /\ binding'.publicAddr # 0
    BY <2>1, <2>2, <2>3 DEF Binding
  <2>5. /\ callbacks' \in Seq({"resolved"} \cup Error)
        /\ udpAddresses' \in Seq(ToSet(Servers)) /\ failures' \in 0 .. MaxFailures
    BY <1>1, <1>2, <2>2, CallbackAppended DEF TypeOK
  <2> QED
    BY <1>1, <1>2, <2>2, <2>4, <2>5, EndsTried
<1>5. CASE m.answer \notin {"ok", "300"} /\ TransactionError(m.answer)
  <2>1. m.answer \in Positive
    BY <1>2, <1>5 DEF Response, Answer, Positive
  <2>2. binding.exists /\ m.answer # "timedOut"
    BY <1>1, <2>1 DEF Consumes, Positive
  <2> QED
    BY <1>1, <1>5, <2>1, <2>2, TransactionErrorTried
<1> QED
  BY <1>1, <1>3, <1>4, <1>5

LEMMA TriedInit == Init => Tried
<1> SUFFICES ASSUME Init PROVE Tried
  OBVIOUS
<1>1. "Init" \in State /\ 0 \in 0 .. 2 /\ 0 \in 0 .. MaxMappings /\ 1 \in 1 .. MaxMappings
      /\ 0 \in 0 .. MaxFailures
  BY ConstantTypes DEF State
<1>2. binding \in Binding /\ binding.transaction = NoTransaction /\ binding.exists = FALSE
      /\ binding.state = "Init"
  BY <1>1, NoTransactionTyped DEF Init, Binding
<1>3. TypeOK
  BY <1>1, <1>2, ConstantTypes DEF Init, TypeOK
<1> QED
  BY <1>2, <1>3, NoTransactionTyped DEF Tried, Trusted

LEMMA TriedNext == BInv /\ Tried /\ [Next]_vars => Tried' /\ (NoneAgain \/ UNCHANGED vars)
<1> SUFFICES ASSUME BInv, Tried, [Next]_vars PROVE Tried' /\ (NoneAgain \/ UNCHANGED vars)
  OBVIOUS
<1>1. CASE UNCHANGED vars
  BY <1>1, BindingKeptTried DEF vars, Tried, TypeOK
<1>2. CASE SendRequest \/ CancelRequest
  BY <1>2, SendRequestTried, CancelRequestTried
<1>3. CASE Silence \/ MessageSent \/ MessageSentFailure
  BY <1>3, SilenceTried, MessageSentTried, MessageSentFailureTried
<1>4. CASE TransactionTimerExpires \/ BindingTimerExpires \/ IcmpError
  BY <1>4, TransactionTimerTried, BindingTimerTried, IcmpErrorTried
<1>5. CASE Callback \/ Respond \/ Lose \/ Remap
  BY <1>5, EnvironmentTried
<1>6. CASE HandleData
  BY <1>6, HandleDataTried
<1> QED
  BY <1>1, <1>2, <1>3, <1>4, <1>5, <1>6 DEF Next

-----------------------------------------------------------------------------
(* Theorems *)

\* For any servers and bounds: while a request is under way something will
\* happen to it - its sender owes a callback or its timer runs - whatever
\* responses, errors and ICMP messages came in between (ReceiveL,
\* UNSAFUdpMessageSentL, HandleTransactionError).
THEOREM RequestIsDriven == Spec => []SomethingIsDue
<1>1. BInv => SomethingIsDue
  BY DEF BInv, Sound, Due, SomethingIsDue
<1> QED
  BY <1>1, BInvInit, BInvNext, PTL DEF Spec

\* For any servers and bounds: the address found is no older than the request
\* that found it, however many responses are late or repeated (the transaction
\* ID HandleDataL compares, and FreeRequestData).
THEOREM AddressFresh == Spec => AddressIsFresh
<1>1. ASSUME BInv, [Next]_vars
      PROVE  [binding'.publicAddr \notin {0, binding.publicAddr} =>
                 binding'.publicAddr >= binding.since]_vars
  <2>1. CASE UNCHANGED vars
    BY <2>1
  <2>2. CASE Step
    <3>1. PICK S : None \in S /\ binding \in Data(S) /\ requests \in Seq(S)
      BY <1>1 DEF BInv
    <3>2. PICK T : (None \in T /\ binding \in Data(T) /\ requests \in Seq(T))'
      BY <1>1, BInvNext DEF BInv
    <3>3. binding.since \in Nat /\ binding'.publicAddr \in Nat
      BY <3>1, <3>2 DEF Data
    <3> QED
      BY <2>2, <3>3 DEF Step
  <2> QED
    BY <1>1, <2>1, <2>2, BInvNext
<1> QED
  BY <1>1, BInvInit, BInvNext, PTL DEF Spec, AddressIsFresh

\* For any servers and bounds: to the application the binding is one request
\* at a time with at most one outcome, none after its cancellation, and the
\* outcomes told in their order (Terminate, StoreAddressL, CAsyncCallback).
THEOREM BindingIsRequests == Spec => ImplementsRequests
<1>1. Init => Requests!Init
  BY DEF Init, Requests!Init, Asked
<1>2. ASSUME BInv, [Next]_vars
      PROVE  [Requests!Next]_(Requests!vars)
  <2>1. CASE UNCHANGED vars
    BY <2>1 DEF vars, Requests!vars, Asked
  <2>2. CASE Step
    BY <2>2 DEF Step, Requests!Next, Requests!vars, Requests!Ask, Requests!Resolve,
                Requests!Cancel, Requests!Lose, Requests!Tell, Asked
  <2> QED
    BY <1>2, <2>1, <2>2, BInvNext
<1> QED
  BY <1>1, <1>2, BInvInit, BInvNext, PTL DEF Spec, ImplementsRequests, Requests!Spec

\* Type correctness, with its two bounds: what the application asks for is
\* tried again at most three times, after two errors of servers and a time-out
\* (iErrorBuffer and iErrorResponseCount of GetAddress), and no message is sent
\* more than KMaxRequestSentCount times (CSTUNTransaction).
THEOREM TypeCorrect == Spec => []TypeOK
<1> DEFINE Always == BInv /\ Tried
<1>1. Init => Always
  BY BInvInit, TriedInit
<1>2. Always /\ [Next]_vars => Always'
  BY BInvNext, TriedNext
<1>3. Always => TypeOK
  BY DEF Tried
<1> HIDE DEF Always
<1> QED
  BY <1>1, <1>2, <1>3, PTL DEF Spec

\* A server that was given up, by time-out or ICMP, is asked no more, unless
\* the binding already had its address from it (ObtainServerAddress,
\* RemoveAddress).
THEOREM GivenUpForGood == Spec => NoServerTwice
<1> DEFINE Always == BInv /\ Tried
<1>1. Init => Always
  BY BInvInit, TriedInit
<1>2. Always /\ [Next]_vars => Always'
  BY BInvNext, TriedNext
<1>3. Always /\ [Next]_vars =>
         [\A id \in DOMAIN requests' \ DOMAIN requests :
             requests'[id] \in ToSet(Servers) \ ToSet(udpAddresses) =>
                binding.publicAddr # 0]_vars
  BY TriedNext DEF NoneAgain
<1> HIDE DEF Always
<1> QED
  BY <1>1, <1>2, <1>3, PTL DEF Spec, NoServerTwice
=============================================================================
