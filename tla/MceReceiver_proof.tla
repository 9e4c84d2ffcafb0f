-------------------------- MODULE MceReceiver_proof -------------------------
(***************************************************************************)
(* MceReceiver for every number of events and faults: the inductive        *)
(* invariant IInv, the safety properties it implies, and the refinement of *)
(* MceChannel.                                                             *)
(***************************************************************************)
EXTENDS MceReceiver, SequenceTheorems, TLAPS

\* What Append, Head and Tail do to a sequence, in the form the steps need.
LEMMA AppendFacts ==
    ASSUME NEW S, NEW s \in Seq(S), NEW e \in S
    PROVE  /\ Append(s, e) \in Seq(S)
           /\ Len(Append(s, e)) = Len(s) + 1
           /\ Append(s, e) # <<>>
           /\ s # <<>> => Head(Append(s, e)) = Head(s)
           /\ s = <<>> => Append(s, e) = <<e>> /\ Head(Append(s, e)) = e
  <1>1. s # <<>> => Head(Append(s, e)) = Head(s)
    BY AppendProperties, EmptySeq
  <1>2. s = <<>> => Append(s, e) = <<e>> /\ Head(Append(s, e)) = e
    OBVIOUS
  <1> QED  BY <1>1, <1>2, AppendProperties

LEMMA TailFacts ==
    ASSUME NEW S, NEW s \in Seq(S), s # <<>>
    PROVE  /\ Head(s) \in S
           /\ Tail(s) \in Seq(S)
           /\ Len(Tail(s)) \in Nat
           /\ Len(s) = Len(Tail(s)) + 1
  BY HeadTailProperties, EmptySeq, LenProperties

LEMMA LenFacts ==
    /\ \A S : \A s \in Seq(S) : Len(s) \in Nat
    /\ Len(<<>>) = 0
    /\ \A e : Len(<<e>>) = 1
  BY LenProperties

LEMMA EventFacts ==
    /\ NoEvent \notin Event
    /\ \A e \in Event : e.kind \in Kinds /\ e.id \in Nat
    /\ \A n \in Nat, k \in Kinds : [id |-> n + 1, kind |-> k] \in Event
  BY DEF Event, NoEvent, Kinds

LEMMA AppendPair == \A m, n : Append(<<m>>, n) = <<m, n>>
  <1> SUFFICES ASSUME NEW m, NEW n PROVE Append(<<m>>, n) = <<m, n>>
    OBVIOUS
  <1> DEFINE S == {m, n}
             s == Append(<<m>>, n)
             t == <<m, n>>
  <1>1. <<m>> \in Seq(S) /\ t \in Seq(S) /\ n \in S
    OBVIOUS
  <1>2. /\ Len(<<m>>) = 1 /\ <<m>>[1] = m
        /\ Len(t) = 2 /\ t[1] = m /\ t[2] = n
    OBVIOUS
  <1> HIDE DEF S, t
  <1>3. s \in Seq(S) /\ Len(s) = 2 /\ s[1] = m /\ s[2] = n
    BY <1>1, <1>2, AppendProperties
  <1> HIDE DEF s
  <1>4. \A i \in 1..Len(s) : s[i] = t[i]
    BY <1>2, <1>3
  <1>5. s = t
    BY <1>1, <1>2, <1>3, <1>4, SeqEqual
  <1> QED  BY <1>5 DEF s, t

\* The five contents the client's message queue can have.
LEMMA InboxFacts ==
    /\ {<<>>, <<"ready">>, <<"receive">>, <<"cancel">>, <<"ready", "cancel">>}
          \subseteq Seq({"ready", "receive", "cancel"})
    /\ \A m : Head(<<m>>) = m /\ Tail(<<m>>) = <<>> /\ <<m>> # <<>>
             /\ Append(<<>>, m) = <<m>>
    /\ \A m, n : <<m>> = <<n>> => m = n
    /\ Head(<<"ready", "cancel">>) = "ready"
    /\ Tail(<<"ready", "cancel">>) = <<"cancel">>
    /\ <<"ready", "cancel">> # <<>>
    /\ \A m : <<"ready", "cancel">> # <<m>>
    /\ Append(<<"ready">>, "cancel") = <<"ready", "cancel">>
  <1>1. \A m : Append(<<>>, m) = <<m>>
    OBVIOUS
  <1>2. Append(<<"ready">>, "cancel") = <<"ready", "cancel">>
    BY AppendPair
  <1>3. \A m, n : <<m>> = <<n>> => m = n
    OBVIOUS
  <1>4. \A m : <<"ready", "cancel">> # <<m>>
    OBVIOUS
  <1>5. <<"ready", "cancel">> \in Seq({"ready", "receive", "cancel"})
    OBVIOUS
  <1>6. \A m \in {"ready", "receive", "cancel"} :
            <<m>> \in Seq({"ready", "receive", "cancel"})
    OBVIOUS
  <1>7. <<>> \in Seq({"ready", "receive", "cancel"})
    OBVIOUS
  <1>8. \A m : Head(<<m>>) = m /\ Tail(<<m>>) = <<>> /\ <<m>> # <<>>
    OBVIOUS
  <1>9. /\ Head(<<"ready", "cancel">>) = "ready"
        /\ Tail(<<"ready", "cancel">>) = <<"cancel">>
        /\ <<"ready", "cancel">> # <<>>
    OBVIOUS
  <1> QED  BY <1>1, <1>2, <1>3, <1>4, <1>5, <1>6, <1>7, <1>8, <1>9

-----------------------------------------------------------------------------
(* IInv is inductive *)

Agreement ==
    RequestInOnePlace /\ AnnouncedIsHead /\ BodyMatchesIds /\ NoRefusal
    /\ CancelReturns

USE DEF RequestInOnePlace, AnnouncedIsHead, BodyMatchesIds, NoRefusal,
        CancelReturns, HasBody

LEMMA IInvParts == IInv <=> TypeOK /\ Agreement /\ NothingLost
  BY DEF IInv, Agreement

LEMMA InitHolds == Init => IInv
  <1> SUFFICES ASSUME Init PROVE IInv
    OBVIOUS
  <1>1. TypeOK
    BY InboxFacts, EmptySeq DEF Init, TypeOK, NoEvent
  <1>2. Agreement
    BY InboxFacts DEF Init, Agreement, NoEvent
  <1>3. NothingLost
    BY LenFacts DEF Init, NothingLost, Held, Announced
  <1> QED  BY <1>1, <1>2, <1>3, IInvParts

\* One lemma per action: first the server's ...
LEMMA SendKeepsIInv ==
    ASSUME IInv, SendToClient
    PROVE  IInv'
  <1> PICK k \in Kinds : Send([id |-> accepted + 1, kind |-> k])
    BY DEF SendToClient
  <1> DEFINE e == [id |-> accepted + 1, kind |-> k]
  <1>1. e \in Event /\ e.kind = k /\ TypeOK /\ Agreement /\ NothingLost
    BY EventFacts, IInvParts DEF TypeOK
  <1>2. Send(e)
    OBVIOUS
  <1> HIDE DEF e
  <1>3. /\ Append(queue, e) \in Seq(Event)
        /\ Len(Append(queue, e)) = Len(queue) + 1
        /\ Len(queue) \in Nat /\ Len(delivered) \in Nat
    BY <1>1, AppendFacts, LenFacts DEF TypeOK
  <1>4. TypeOK'
    <2>1. queue' \in Seq(Event) /\ accepted' \in Nat
      BY <1>1, <1>2, <1>3 DEF TypeOK, Send
    <2>2. /\ buf' \in Event \cup {NoEvent}
          /\ status' \in {"pending", "ok", "error", "cancelled", "completion"}
      BY <1>1, <1>2 DEF TypeOK, Send, Announce
    <2> QED  BY <1>1, <1>2, <2>1, <2>2 DEF TypeOK, Send
  <1>5. Agreement'
    BY <1>1, <1>2, AppendFacts, EventFacts
    DEF TypeOK, Agreement, Send, Announce, Kinds
  <1>6. NothingLost'
    <2>1. CASE ready
      <3>1. pc # "fetching" /\ Announced = <<>> /\ queue = <<>>
        BY <1>1, <2>1 DEF Agreement, Announced
      <3>2. Held' = Held
        BY <1>2, <3>1 DEF Held, Send
      <3>3. /\ Announced' = IF HasBody(e) THEN <<>> ELSE <<e>>
            /\ queue' = IF HasBody(e) THEN Append(queue, e) ELSE queue
            /\ delivered' = delivered /\ accepted' = accepted + 1
        BY <1>1, <1>2, <2>1 DEF Announced, Send, Announce
      <3>4. Len(Held) \in Nat
        BY LenFacts DEF Held
      <3> QED  BY <1>1, <1>3, <3>1, <3>2, <3>3, <3>4, LenFacts
               DEF NothingLost, TypeOK
    <2>2. CASE ~ready
      <3>1. Held' = Held /\ Announced' = Announced
        BY <1>2, <2>2 DEF Held, Announced, Send
      <3>2. Len(Held) \in Nat /\ Len(Announced) \in Nat
        BY LenFacts DEF Held, Announced
      <3> QED  BY <1>1, <1>2, <1>3, <2>2, <3>1, <3>2
               DEF NothingLost, TypeOK, Send
    <2> QED  BY <1>1, <2>1, <2>2 DEF TypeOK
  <1> QED  BY <1>4, <1>5, <1>6 DEF IInv, Agreement

LEMMA SendFailsKeepsIInv ==
    ASSUME IInv, SendToClientFails
    PROVE  IInv'
  <1>1. TypeOK /\ Agreement /\ NothingLost
    BY IInvParts
  <1>2. \/ ready /\ buf' \in Event /\ HasBody(buf')
        \/ ~ready /\ buf' = buf
    BY <1>1, EventFacts DEF SendToClientFails, TypeOK
  <1>3. TypeOK'
    BY <1>1, <1>2 DEF TypeOK, SendToClientFails, serverVars
  <1>4. Agreement'
    BY <1>1, <1>2 DEF TypeOK, Agreement, SendToClientFails, serverVars
  <1>5. NothingLost'
    BY <1>1, <1>2, LenFacts
    DEF TypeOK, Agreement, NothingLost, Held, Announced, SendToClientFails,
        serverVars
  <1> QED  BY <1>3, <1>4, <1>5 DEF IInv, Agreement

LEMMA ReadyKeepsIInv ==
    ASSUME IInv, ClientReadyToReceiveL
    PROVE  IInv'
  <1>1. TypeOK /\ Agreement /\ NothingLost
    BY IInvParts
  <1>2. /\ pc \in {"scheduler", "dispatching", "cancelling"}
        /\ status = "pending" /\ ~ready
        /\ pc = "cancelling" => reply = "none"
        /\ inbox' = IF pc = "cancelling" THEN <<"cancel">> ELSE <<>>
    <2>1. Head(inbox) = "ready" /\ inbox # <<>> /\ inbox' = Tail(inbox)
      BY DEF ClientReadyToReceiveL, Serve
    <2>2. inbox # <<"receive">> /\ inbox # <<"cancel">>
      BY <2>1, InboxFacts
    <2> QED  BY <1>1, <2>1, <2>2, InboxFacts DEF TypeOK, Agreement
  <1>3. queue # <<>> =>
            /\ Head(queue) \in Event /\ Tail(queue) \in Seq(Event)
            /\ Len(Tail(queue)) \in Nat /\ Len(queue) = Len(Tail(queue)) + 1
    BY <1>1, TailFacts DEF TypeOK
  <1>4. TypeOK'
    BY <1>1, <1>2, <1>3, InboxFacts
    DEF TypeOK, ClientReadyToReceiveL, Serve, Announce
  <1>5. Agreement'
    BY <1>1, <1>2, <1>3, InboxFacts, EventFacts
    DEF TypeOK, Agreement, ClientReadyToReceiveL, Serve, Announce
  <1>6. NothingLost'
    <2>1. Held' = Held /\ Announced = <<>> /\ Len(Held) \in Nat
      BY <1>1, <1>2, LenFacts DEF Held, Announced, ClientReadyToReceiveL, Serve
    <2>2. delivered' = delivered /\ accepted' = accepted
      BY DEF ClientReadyToReceiveL, Serve
    <2>3. CASE queue = <<>>
      BY <1>2, <2>1, <2>2, <2>3 DEF NothingLost, Announced,
         ClientReadyToReceiveL, IInv
    <2>4. CASE queue # <<>>
      <3>1. /\ Announced' = IF HasBody(Head(queue)) THEN <<>> ELSE <<Head(queue)>>
            /\ queue' = IF HasBody(Head(queue)) THEN queue ELSE Tail(queue)
        BY <1>2, <1>3, <2>4, EventFacts
        DEF Announced, ClientReadyToReceiveL, Announce
      <3>2. Len(queue) \in Nat /\ Len(delivered) \in Nat
            /\ accepted = Len(delivered) + Len(Held) + 0 + Len(queue)
        BY <1>1, <2>1, LenFacts DEF NothingLost, TypeOK
      <3>3. CASE HasBody(Head(queue))
        BY <2>1, <2>2, <3>1, <3>2, <3>3, LenFacts DEF NothingLost
      <3>4. CASE ~HasBody(Head(queue))
        <4>1. Len(Announced') = 1 /\ queue' = Tail(queue)
          BY <3>1, <3>4, LenFacts
        <4> QED  BY <1>3, <2>1, <2>2, <2>4, <3>2, <4>1 DEF NothingLost
      <3> QED  BY <3>3, <3>4
    <2> QED  BY <2>3, <2>4
  <1> QED  BY <1>4, <1>5, <1>6 DEF IInv, Agreement

LEMMA ReceiveKeepsIInv ==
    ASSUME IInv, ReceiveL
    PROVE  IInv'
  <1>1. TypeOK /\ Agreement /\ NothingLost
    BY IInvParts
  <1>2. /\ pc = "fetching" /\ reply = "none" /\ inbox' = <<>>
        /\ queue # <<>> /\ Head(queue) = buf
    BY <1>1, InboxFacts DEF TypeOK, Agreement, ReceiveL, Serve
  <1>3. /\ Head(queue) \in Event /\ Tail(queue) \in Seq(Event)
        /\ Len(Tail(queue)) \in Nat /\ Len(queue) = Len(Tail(queue)) + 1
    BY <1>1, <1>2, TailFacts DEF TypeOK
  <1>4. TypeOK'
    BY <1>1, <1>2, <1>3, InboxFacts DEF TypeOK, ReceiveL, Serve
  <1>5. Agreement'
    BY <1>1, <1>2, <1>3, InboxFacts DEF TypeOK, Agreement, ReceiveL, Serve
  <1>6. NothingLost'
    BY <1>1, <1>2, <1>3, LenFacts
    DEF TypeOK, Agreement, NothingLost, Held, Announced, ReceiveL, Serve
  <1> QED  BY <1>4, <1>5, <1>6 DEF IInv, Agreement

LEMMA CancelKeepsIInv ==
    ASSUME IInv, CancelClientReceiveL
    PROVE  IInv'
  <1>1. TypeOK /\ Agreement /\ NothingLost
    BY IInvParts
  <1>2. pc = "cancelling" /\ inbox' = <<>> /\ (ready \/ status # "pending")
    BY <1>1, InboxFacts DEF TypeOK, Agreement, CancelClientReceiveL, Serve
  <1>3. TypeOK'
    BY <1>1, <1>2, InboxFacts DEF TypeOK, CancelClientReceiveL, Serve
  <1>4. Agreement'
    BY <1>1, <1>2, InboxFacts DEF TypeOK, Agreement, CancelClientReceiveL, Serve
  <1>5. NothingLost'
    BY <1>1, <1>2, LenFacts
    DEF TypeOK, Agreement, NothingLost, Held, Announced, CancelClientReceiveL,
        Serve
  <1> QED  BY <1>3, <1>4, <1>5 DEF IInv, Agreement

\* ... then the client's.
LEMMA ClientKeepsIInv ==
    ASSUME IInv, Client \/ RunDataFails \/ DoCancel
    PROVE  IInv'
  <1>1. TypeOK /\ Agreement /\ NothingLost
    BY IInvParts
  <1>2. inbox \in {<<>>, <<"ready">>, <<"receive">>, <<"cancel">>,
                   <<"ready", "cancel">>}
    BY <1>1 DEF TypeOK, Agreement
  <1>3. TypeOK'
    <2> USE <1>1, <1>2, InboxFacts, EventFacts DEF TypeOK, Agreement, serverVars
    <2>1. CASE RunBodyless
      BY <2>1 DEF RunBodyless, ReceiveNext
    <2>2. CASE RunData
      BY <2>2 DEF RunData
    <2>3. CASE RunDataFails
      BY <2>3 DEF RunDataFails, ReceiveNext
    <2>4. CASE Fetched
      BY <2>4 DEF Fetched, ReceiveNext
    <2>5. CASE Dispatch
      BY <2>5, AppendFacts DEF Dispatch
    <2>6. CASE DoCancel
      BY <2>6 DEF DoCancel
    <2>7. CASE Cancelled
      BY <2>7 DEF Cancelled
    <2> QED  BY <2>1, <2>2, <2>3, <2>4, <2>5, <2>6, <2>7 DEF Client
  <1>4. Agreement'
    <2> USE <1>1, <1>2, InboxFacts, EventFacts DEF TypeOK, Agreement, serverVars
    <2>1. CASE RunBodyless
      BY <2>1 DEF RunBodyless, ReceiveNext
    <2>2. CASE RunData
      BY <2>2 DEF RunData
    <2>3. CASE RunDataFails
      BY <2>3 DEF RunDataFails, ReceiveNext
    <2>4. CASE Fetched
      BY <2>4 DEF Fetched, ReceiveNext
    <2>5. CASE Dispatch
      BY <2>5 DEF Dispatch
    <2>6. CASE DoCancel
      BY <2>6 DEF DoCancel
    <2>7. CASE Cancelled
      BY <2>7 DEF Cancelled
    <2> QED  BY <2>1, <2>2, <2>3, <2>4, <2>5, <2>6, <2>7 DEF Client
  <1>5. NothingLost'
    <2> USE <1>1, LenFacts
        DEF TypeOK, Agreement, NothingLost, Held, Announced, serverVars
    <2>1. CASE RunBodyless
      BY <2>1 DEF RunBodyless, ReceiveNext
    <2>2. CASE RunData
      BY <2>2 DEF RunData
    <2>3. CASE RunDataFails
      BY <2>3 DEF RunDataFails, ReceiveNext
    <2>4. CASE Fetched
      BY <2>4 DEF Fetched, ReceiveNext
    <2>5. CASE Dispatch
      <3>1. hand \in Event
        BY <2>5 DEF Dispatch
      <3> QED  BY <3>1, <2>5, AppendFacts DEF Dispatch
    <2>6. CASE DoCancel
      BY <2>6 DEF DoCancel
    <2>7. CASE Cancelled
      BY <2>7 DEF Cancelled
    <2> QED  BY <2>1, <2>2, <2>3, <2>4, <2>5, <2>6, <2>7 DEF Client
  <1> QED  BY <1>3, <1>4, <1>5 DEF IInv, Agreement

LEMMA NextKeepsIInv == IInv /\ [Next]_vars => IInv'
  <1> SUFFICES ASSUME IInv, [Next]_vars PROVE IInv'
    OBVIOUS
  <1>1. CASE UNCHANGED vars
    <2>1. TypeOK'
      BY <1>1 DEF IInv, TypeOK, vars
    <2>2. Agreement'
      BY <1>1, IInvParts DEF Agreement, vars
    <2>3. NothingLost'
      BY <1>1 DEF IInv, NothingLost, Held, Announced, vars
    <2> QED  BY <2>1, <2>2, <2>3 DEF IInv, Agreement
  <1> QED
    BY <1>1, SendKeepsIInv, SendFailsKeepsIInv, ReadyKeepsIInv,
       ReceiveKeepsIInv, CancelKeepsIInv, ClientKeepsIInv DEF Next, Server

\* The flag, the queue and the active object agree in every reachable state.
THEOREM Invariance == Spec => []IInv
  <1>1. Init => IInv
    BY InitHolds
  <1>2. IInv /\ [Next]_vars => IInv'
    BY NextKeepsIInv
  <1> QED  BY <1>1, <1>2, PTL DEF Spec

\* The safety properties of the runs, for every MaxEvents and MaxFaults.
THEOREM Safety ==
    Spec => [](TypeOK /\ BodyMatchesIds /\ NoRefusal /\ CancelReturns)
  <1>1. IInv => TypeOK /\ BodyMatchesIds /\ NoRefusal /\ CancelReturns
    BY IInvParts DEF Agreement
  <1> QED  BY <1>1, Invariance, PTL

\* Its parts, each under the name of the run's property.  Types:
THEOREM TypeCorrect == Spec => []TypeOK
  BY Safety, PTL

\* The server refuses no request: a request never meets a held one, and a fetch
\* finds the event that was announced (ClientReadyToReceiveL, ReceiveL).
THEOREM NeverRefused == Spec => []NoRefusal
  BY Safety, PTL

\* CActive::Cancel returns: when the server has answered it, the cancelled
\* request is complete, even if an event was faster (CancelClientReceiveL).
THEOREM CancelAlwaysReturns == Spec => []CancelReturns
  BY Safety, PTL

-----------------------------------------------------------------------------
(* MceReceiver implements MceChannel *)

Pending == Held \o Announced \o queue

LEMMA PendingFacts ==
    ASSUME IInv
    PROVE  /\ Held \in Seq(Event) /\ Announced \in Seq(Event)
           /\ queue \in Seq(Event) /\ Pending \in Seq(Event)
           /\ delivered \in Seq(Event)
           /\ accepted = Len(delivered) + Len(Pending)
  <1>1. /\ Held = <<>> \/ (hand \in Event /\ Held = <<hand>>)
        /\ Announced = <<>> \/ (buf \in Event /\ Announced = <<buf>>)
        /\ queue \in Seq(Event) /\ delivered \in Seq(Event)
    BY IInvParts DEF TypeOK, Agreement, Held, Announced
  <1>2. Held \in Seq(Event) /\ Announced \in Seq(Event)
    <2>1. \A x \in Event : <<x>> \in Seq(Event)
      OBVIOUS
    <2>2. <<>> \in Seq(Event)
      OBVIOUS
    <2> QED  BY <1>1, <2>1, <2>2
  <1>3. /\ Held \o Announced \in Seq(Event)
        /\ Len(Held \o Announced) = Len(Held) + Len(Announced)
    BY <1>2, ConcatProperties
  <1>4. /\ Pending \in Seq(Event)
        /\ Len(Pending) = Len(Held) + Len(Announced) + Len(queue)
    BY <1>1, <1>3, ConcatProperties DEF Pending
  <1> QED
    BY <1>1, <1>2, <1>4, IInvParts, LenFacts DEF NothingLost

\* Moving an event from the head of a sequence in front of it changes nothing.
LEMMA MoveHead ==
    ASSUME NEW S, NEW h \in Seq(S), NEW q \in Seq(S), q # <<>>
    PROVE  h \o <<Head(q)>> \o Tail(q) = h \o <<>> \o q
  <1>1. <<Head(q)>> \in Seq(S) /\ Tail(q) \in Seq(S)
    BY TailFacts
  <1>2. <<Head(q)>> \o Tail(q) = q
    OBVIOUS
  <1> QED  BY <1>1, <1>2, ConcatAssociative, ConcatEmptySeq

LEMMA ConcatAppend ==
    ASSUME NEW S, NEW h \in Seq(S), NEW q \in Seq(S), NEW e \in S
    PROVE  h \o Append(q, e) = Append(h \o q, e)
  <1>1. <<e>> \in Seq(S) /\ h \o q \in Seq(S)
    BY ConcatProperties
  <1> QED  BY <1>1, AppendIsConcat, ConcatAssociative

LEMMA SendIsAccept ==
    ASSUME IInv, SendToClient
    PROVE  Channel!Accept
  <1> PICK k \in Kinds : Send([id |-> accepted + 1, kind |-> k])
    BY DEF SendToClient
  <1> DEFINE e == [id |-> accepted + 1, kind |-> k]
  <1>1. e \in Event /\ e.kind = k /\ TypeOK /\ Agreement
    BY EventFacts, IInvParts DEF TypeOK
  <1>2. Send(e)
    OBVIOUS
  <1>3. e = [id |-> Len(delivered) + Len(Pending) + 1, kind |-> k]
    BY PendingFacts
  <1> HIDE DEF e
  <1>4. Held' = Held /\ delivered' = delivered /\ Closing' = Closing
    BY <1>1, <1>2 DEF Held, Send, Agreement, Closing
  <1>5. Pending' = Append(Pending, e)
    <2>1. CASE ready /\ ~HasBody(e)
      <3>1. queue = <<>> /\ Announced = <<>> /\ queue' = <<>> /\ Announced' = <<e>>
        BY <1>1, <1>2, <2>1 DEF Agreement, Announced, Send, Announce
      <3>2. Append(Held, e) = Held \o <<e>> /\ Held \o <<e>> \in Seq(Event)
            /\ Held \in Seq(Event)
        BY <1>1, PendingFacts, AppendIsConcat, AppendProperties
      <3>3. Pending = Held
        BY <3>1, <3>2, ConcatEmptySeq DEF Pending
      <3>4. Pending' = Held \o <<e>>
        BY <1>4, <3>1, <3>2, ConcatEmptySeq DEF Pending
      <3> QED  BY <3>2, <3>3, <3>4
    <2>2. CASE ~(ready /\ ~HasBody(e))
      <3>1. queue' = Append(queue, e) /\ Announced' = Announced
        BY <1>1, <1>2, <2>2, EventFacts
        DEF Agreement, TypeOK, Announced, Send, Announce, Kinds
      <3>2. Held \o Announced \in Seq(Event)
        BY PendingFacts, ConcatProperties
      <3>3. Held \o Announced \o Append(queue, e)
              = Append(Held \o Announced \o queue, e)
        <4>1. queue \in Seq(Event)
          BY PendingFacts
        <4> QED  BY <1>1, <3>2, <4>1, ConcatAppend
      <3> QED  BY <1>4, <3>1, <3>3 DEF Pending
    <2> QED  BY <2>1, <2>2
  <1> QED  BY <1>3, <1>4, <1>5 DEF Channel!Accept, Pending

\* The steps that move an event nearer to the client, or none at all.
LEMMA OtherServerStepsStutter ==
    ASSUME IInv, SendToClientFails \/ Server
    PROVE  UNCHANGED <<Pending, delivered, Closing>>
  <1>1. TypeOK /\ Agreement
    BY IInvParts
  <1>2. CASE SendToClientFails
    BY <1>1, <1>2 DEF SendToClientFails, serverVars, Pending, Held, Announced,
       Closing, Agreement
  <1>3. CASE ClientReadyToReceiveL
    <2>1. status = "pending" /\ ~ready /\ pc # "fetching"
      <3>1. Head(inbox) = "ready" /\ inbox # <<>>
        BY <1>3 DEF ClientReadyToReceiveL, Serve
      <3>2. inbox # <<"receive">> /\ inbox # <<"cancel">>
        BY <3>1, InboxFacts
      <3> QED  BY <1>1, <3>1, <3>2 DEF TypeOK, Agreement
    <2>2. Held' = Held /\ Announced = <<>> /\ delivered' = delivered
          /\ Closing' = Closing
      BY <1>3, <2>1 DEF Held, Announced, ClientReadyToReceiveL, Serve, Closing
    <2>3. CASE queue = <<>>
      BY <1>3, <2>1, <2>2, <2>3 DEF ClientReadyToReceiveL, Announced, Pending
    <2>4. CASE queue # <<>>
      <3>1. Head(queue) \in Event
        BY <1>1, <2>4, TailFacts DEF TypeOK
      <3>2. \/ Announced' = <<>> /\ queue' = queue
            \/ Announced' = <<Head(queue)>> /\ queue' = Tail(queue)
        BY <1>3, <2>1, <2>4, <3>1, EventFacts
        DEF ClientReadyToReceiveL, Announce, Announced
      <3> QED  BY <2>2, <2>4, <3>2, PendingFacts, MoveHead DEF Pending
    <2> QED  BY <2>3, <2>4
  <1>4. CASE ReceiveL
    <2>1. /\ pc = "fetching" /\ reply = "none" /\ queue # <<>>
          /\ Head(queue) = buf /\ hand = buf /\ HasBody(buf)
      BY <1>1, <1>4, InboxFacts DEF TypeOK, Agreement, ReceiveL, Serve
    <2>2. /\ Held = <<>> /\ Held' = <<Head(queue)>> /\ Announced = <<>>
          /\ Announced' = <<>> /\ queue' = Tail(queue)
          /\ delivered' = delivered /\ Closing' = Closing
      BY <1>4, <2>1 DEF Held, Announced, ReceiveL, Serve, Closing
    <2>3. <<Head(queue)>> \o Tail(queue) = queue /\ queue \in Seq(Event)
      BY <1>1, <2>1 DEF TypeOK
    <2>4. /\ <<>> \o <<>> = <<>>
          /\ <<Head(queue)>> \o <<>> = <<Head(queue)>>
          /\ <<>> \o queue = queue
      BY <2>1, <2>3
    <2> QED  BY <2>2, <2>3, <2>4 DEF Pending
  <1>5. CASE CancelClientReceiveL
    BY <1>1, <1>5, InboxFacts
    DEF CancelClientReceiveL, Serve, Pending, Held, Announced, Closing,
        Agreement, TypeOK
  <1> QED  BY <1>2, <1>3, <1>4, <1>5 DEF Server

LEMMA ClientStepsRefine ==
    ASSUME IInv, Client \/ RunDataFails \/ DoCancel
    PROVE  \/ Channel!Deliver
           \/ Channel!Close
           \/ UNCHANGED <<Pending, delivered, Closing>>
  <1>1. TypeOK /\ Agreement
    BY IInvParts
  <1>2. CASE RunBodyless
    <2>1. /\ Held = <<>> /\ Held' = <<buf>>
          /\ Announced = <<buf>> /\ Announced' = <<>>
      BY <1>2 DEF RunBodyless, ReceiveNext, Held, Announced
    <2>2. <<>> \o <<buf>> = <<buf>> /\ <<buf>> \o <<>> = <<buf>>
      OBVIOUS
    <2> QED  BY <1>2, <2>1, <2>2
             DEF RunBodyless, ReceiveNext, Pending, Closing, serverVars
  <1>3. CASE RunData \/ RunDataFails \/ Fetched \/ Cancelled
    BY <1>1, <1>3
    DEF RunData, RunDataFails, Fetched, Cancelled, ReceiveNext, Pending, Held,
        Announced, Closing, serverVars, Agreement
  <1>4. CASE Dispatch
    <2>1. /\ Held = <<hand>> /\ Held' = <<>> /\ Announced' = Announced
          /\ queue' = queue /\ delivered' = Append(delivered, hand)
          /\ ~Closing /\ ~Closing' /\ hand \in Event
      BY <1>1, <1>4 DEF Dispatch, Held, Announced, Closing, serverVars, TypeOK,
         Agreement
    <2>2. Announced \in Seq(Event) /\ queue \in Seq(Event)
          /\ Announced \o queue \in Seq(Event) /\ <<hand>> \in Seq(Event)
      BY <2>1, PendingFacts, ConcatProperties
    <2>3. Pending = <<hand>> \o (Announced \o queue)
      BY <2>1, <2>2, ConcatAssociative DEF Pending
    <2>4. Pending' = Announced \o queue
      BY <2>1, <2>2, ConcatEmptySeq DEF Pending
    <2>5. Pending # <<>> /\ Head(Pending) = hand /\ Tail(Pending) = Pending'
      BY <2>1, <2>2, <2>3, <2>4
    <2> QED  BY <2>1, <2>5 DEF Channel!Deliver, Pending
  <1>5. CASE DoCancel
    BY <1>5 DEF DoCancel, Channel!Close, Held, Announced, Closing, serverVars
  <1> QED  BY <1>2, <1>3, <1>4, <1>5 DEF Client

\* The receiver is a channel: every accepted event in order, once, until the
\* client closes, for every MaxEvents and MaxFaults.
THEOREM Refinement == Spec => ImplementsChannel
  <1>1. Init => Channel!Init
    <2> SUFFICES ASSUME Init PROVE Channel!Init
      OBVIOUS
    <2>1. Held = <<>> /\ Announced = <<>> /\ queue = <<>>
      BY DEF Init, Held, Announced
    <2>2. <<>> \o <<>> \o <<>> = <<>>
      OBVIOUS
    <2> QED  BY <2>1, <2>2 DEF Init, Channel!Init, Closing
  <1>2. IInv /\ [Next]_vars => [Channel!Next]_(Channel!vars)
    <2> SUFFICES ASSUME IInv, [Next]_vars
                 PROVE  Channel!Next \/ UNCHANGED Channel!vars
      OBVIOUS
    <2>1. CASE UNCHANGED vars
      BY <2>1 DEF vars, Channel!vars, Held, Announced, Closing
    <2>2. UNCHANGED <<Pending, delivered, Closing>> => UNCHANGED Channel!vars
      BY DEF Pending, Channel!vars
    <2> QED
      BY <2>1, <2>2, SendIsAccept, OtherServerStepsStutter, ClientStepsRefine
      DEF Next, Channel!Next
  <1> QED
    BY <1>1, <1>2, Invariance, PTL DEF Spec, ImplementsChannel, Channel!Spec
=============================================================================
