-------------------------- MODULE MceReliable_proof -------------------------
(***************************************************************************)
(* Proofs about an INVITE with reliable provisional responses, for any     *)
(* number of responses and failures: types, how the wait for the first     *)
(* PRACK ends, how the session ends, and that the responses implement      *)
(* MceReliableChannel.                                                     *)
(*                                                                         *)
(* The invariant has a part for the responses and their numbers, one for   *)
(* the timer and one for the end of the session; a step disturbs few of    *)
(* them, and a lemma for each part says when it is kept.                   *)
(***************************************************************************)
EXTENDS MceReliable, TLAPS

\* Where the last response is.  The calling side has taken it when it knows
\* its RSeq; the response under way is the last one, or one taken before.
Link ==
    /\ acked <= taken /\ taken <= sent /\ sent <= acked + 1
    /\ rseq <= sender.last /\ (taken = sent <=> rseq = sender.last)
    /\ prack.rack = rseq
    /\ prack.phase = "sent" => taken = acked + 1
    /\ \A m \in net : m \in Provisional =>
          m.rseq >= 1 /\ (m.rseq = sender.last \/ m.rseq <= rseq)
    /\ callee = "Updated" => acked = sent
    /\ Waiting => sent = acked + 1
    /\ sender.last <= sender.rseq /\ sender.rseq >= 1
    /\ sender.begun \/ sender.last < sender.rseq

\* The intervals of the first response: 1, 2, 4 to 32, and the rest
Counting(r) ==
    \/ /\ r.timeOut = FALSE /\ r.queued \in {1, 2, 4, 8, 16, 32}
       /\ r.retrans = 2 * r.queued /\ r.total + 2 = r.retrans /\ r.elapsed + 1 = r.queued
    \/ r.timeOut = TRUE /\ r.queued = 2 /\ r.elapsed = 63

Timed ==
    /\ callee = "Updated" => sender.queued = 0
    /\ sender.total <= 64
    /\ sender.queued > 0 => sender.last >= 1
    /\ sent = 0 => /\ sender.queued = 0 /\ sender.retrans = 1
                   /\ sender.total = 0 /\ sender.timeOut = FALSE
    /\ Waiting /\ sent = 1 => sender.pending = TRUE /\ Counting(sender)

\* What has been answered
Clean ==
    /\ callee \notin {"Updated", "AcknowledgementRequired"} => final # "none"
    /\ EndsCleanly

RInv == TypeOK /\ Link /\ Timed /\ Clean /\ ConfirmingWaits

\* A step of the channel, or none that shows there
Step == Channel!Next \/ UNCHANGED <<sent, taken, acked, CalleeOver>>

-----------------------------------------------------------------------------
(* The sender *)

LEMMA RseqGives ==
    ASSUME NEW r \in SenderData
    PROVE  LET n == Rseq(r)
           IN  /\ n \in SenderData
               /\ n.rseq = IF r.begun /\ ~r.pending THEN r.rseq + 1 ELSE r.rseq
               /\ n.begun = r.begun /\ n.last = r.last /\ n.pending = r.pending
               /\ n.retrans = r.retrans /\ n.total = r.total /\ n.timeOut = r.timeOut
               /\ n.queued = r.queued /\ n.elapsed = r.elapsed
<1> DEFINE c == r.rseq + 1
<1>1. c \in Nat
  BY DEF SenderData
<1>2. Rseq(r) = IF r.begun /\ ~r.pending THEN [r EXCEPT !.rseq = c] ELSE r
  BY DEF Rseq, SenderData
<1> HIDE DEF c
<1>3. CASE r.begun /\ ~r.pending
  <2>1. Rseq(r) = [r EXCEPT !.rseq = c]
    BY <1>2, <1>3
  <2> QED
    BY <1>1, <1>3, <2>1 DEF SenderData, c
<1>4. CASE ~(r.begun /\ ~r.pending)
  BY <1>2, <1>4
<1> QED
  BY <1>3, <1>4

LEMMA SendFailsGives ==
    ASSUME NEW r \in SenderData
    PROVE  LET n == SendFails(r)
           IN  /\ n \in SenderData /\ n.rseq = r.rseq /\ n.begun = TRUE /\ n.last = r.last
               /\ n.retrans = r.retrans /\ n.total = r.total /\ n.timeOut = r.timeOut
               /\ n.queued = r.queued
BY DEF SendFails, SenderData

LEMMA SendGives ==
    ASSUME NEW r \in SenderData
    PROVE  LET n == Send(r)
           IN  /\ n \in SenderData /\ n.rseq = r.rseq /\ n.begun = TRUE /\ n.last = r.rseq
               /\ n.pending = TRUE /\ n.queued = r.retrans /\ n.retrans = 2 * r.retrans
               /\ n.elapsed = 0 /\ n.total = r.total /\ n.timeOut = r.timeOut
<1> DEFINE d == 2 * r.retrans
<1>1. d \in Nat
  BY DEF SenderData
<1>2. Send(r) = [r EXCEPT !.begun = TRUE, !.pending = TRUE, !.last = r.rseq,
                          !.queued = r.retrans, !.retrans = d, !.elapsed = 0]
  BY DEF Send, SenderData
<1> HIDE DEF d
<1>3. r.rseq \in Nat /\ r.retrans \in Nat /\ r.total \in Nat /\ r.timeOut \in BOOLEAN
  BY DEF SenderData
<1>4. r = [ rseq |-> r.rseq, begun |-> r.begun, last |-> r.last, pending |-> r.pending,
            retrans |-> r.retrans, total |-> r.total, timeOut |-> r.timeOut,
            queued |-> r.queued, elapsed |-> r.elapsed ]
  BY DEF SenderData
<1>5. Send(r) = [ rseq |-> r.rseq, begun |-> TRUE, last |-> r.rseq, pending |-> TRUE,
                  retrans |-> d, total |-> r.total, timeOut |-> r.timeOut,
                  queued |-> r.retrans, elapsed |-> 0 ]
  BY <1>2, <1>4
<1> QED
  BY <1>1, <1>3, <1>5 DEF SenderData, d

LEMMA PrackReceivedGives ==
    ASSUME NEW r \in SenderData
    PROVE  LET n == PrackReceived(r)
           IN  /\ n \in SenderData /\ n.rseq = r.rseq /\ n.begun = r.begun /\ n.last = r.last
               /\ n.queued = 0 /\ n.retrans = r.retrans /\ n.total = r.total
               /\ n.timeOut = r.timeOut
BY DEF PrackReceived, SenderData

\* A timer that expires, with the interval it starts
LEMMA ExpiresGives ==
    ASSUME NEW r \in SenderData, r.total <= 64
    PROVE  LET n == Requeue(Expired(r))
           IN  /\ n \in SenderData /\ n.rseq = r.rseq /\ n.begun = r.begun /\ n.last = r.last
               /\ n.pending = r.pending
               /\ n.total <= 64
               /\ r.pending = TRUE /\ r.timeOut = FALSE /\ Counting(r) => Counting(n)
<1> DEFINE q == r.elapsed + r.queued
           e == Expired(r)
           d == 2 * r.retrans
           t == r.total + r.retrans
           z == 64 - r.total
<1>1. q \in Nat /\ d \in Nat /\ t \in Nat /\ z \in Nat
  BY DEF SenderData
<1>2. e = [r EXCEPT !.queued = 0, !.elapsed = q]
  BY DEF Expired, SenderData
<1> HIDE DEF e, q
<1>3. /\ e \in SenderData /\ e.rseq = r.rseq /\ e.begun = r.begun /\ e.last = r.last
      /\ e.pending = r.pending /\ e.retrans = r.retrans /\ e.total = r.total
      /\ e.timeOut = r.timeOut /\ e.queued = 0 /\ e.elapsed = q
  BY <1>1, <1>2 DEF SenderData
<1>4. CASE r.retrans > 64 \/ ~r.pending
  <2>1. Requeue(e) = e
    BY <1>3, <1>4 DEF Requeue, KMaxTransTimeOut
  <2>2. ~(r.pending = TRUE /\ r.timeOut = FALSE /\ Counting(r))
    BY <1>4 DEF Counting, SenderData
  <2> QED
    BY <1>3, <2>1, <2>2 DEF e
<1>5. CASE ~(r.retrans > 64 \/ ~r.pending) /\ t <= 64
  <2>1. Requeue(e) = [e EXCEPT !.total = t, !.queued = r.retrans, !.retrans = d]
    BY <1>3, <1>5 DEF Requeue, KMaxTransTimeOut, SenderData
  <2> DEFINE n == Requeue(e)
  <2> HIDE DEF t, d, n
  <2>2. /\ n \in SenderData /\ n.rseq = r.rseq /\ n.begun = r.begun /\ n.last = r.last
        /\ n.pending = r.pending /\ n.total = t /\ n.queued = r.retrans /\ n.retrans = d
        /\ n.timeOut = r.timeOut /\ n.elapsed = q
    BY <1>1, <1>3, <2>1 DEF SenderData, n
  <2>3. r.timeOut = FALSE /\ Counting(r) => Counting(n)
    <3> SUFFICES ASSUME r.timeOut = FALSE, Counting(r) PROVE Counting(n)
      OBVIOUS
    <3>1. /\ r.queued \in {1, 2, 4, 8, 16, 32} /\ r.retrans = 2 * r.queued
          /\ r.total + 2 = r.retrans /\ r.elapsed + 1 = r.queued
          /\ r.total \in Nat /\ r.elapsed \in Nat
      BY DEF Counting, SenderData
    <3>2. t <= 64 => r.queued # 32
      BY <3>1 DEF t
    <3>3. r.retrans \in {2, 4, 8, 16, 32} /\ d = 2 * r.retrans /\ t + 2 = d /\ q + 1 = r.retrans
      BY <1>5, <3>1, <3>2 DEF t, d, q
    <3> QED
      BY <2>2, <3>3 DEF Counting
  <2> QED
    BY <1>5, <2>2, <2>3 DEF e, n
<1>6. CASE ~(r.retrans > 64 \/ ~r.pending) /\ ~(t <= 64)
  <2>1. Requeue(e) = [e EXCEPT !.queued = z, !.timeOut = TRUE, !.retrans = d]
    BY <1>3, <1>6 DEF Requeue, KMaxTransTimeOut, SenderData
  <2> DEFINE n == Requeue(e)
  <2> HIDE DEF d, n, z
  <2>2. /\ n \in SenderData /\ n.rseq = r.rseq /\ n.begun = r.begun /\ n.last = r.last
        /\ n.pending = r.pending /\ n.total = r.total /\ n.queued = z
        /\ n.timeOut = TRUE /\ n.elapsed = q
    BY <1>1, <1>3, <2>1 DEF SenderData, n
  <2>3. r.timeOut = FALSE /\ Counting(r) => z = 2 /\ q = 63
    <3> SUFFICES ASSUME r.timeOut = FALSE, Counting(r) PROVE z = 2 /\ q = 63
      OBVIOUS
    <3>1. /\ r.queued \in {1, 2, 4, 8, 16, 32} /\ r.retrans = 2 * r.queued
          /\ r.total + 2 = r.retrans /\ r.elapsed + 1 = r.queued
          /\ r.total \in Nat /\ r.elapsed \in Nat
      BY DEF Counting, SenderData
    <3>2. r.queued = 32
      BY <1>6, <3>1
    <3> QED
      BY <3>1, <3>2 DEF z, q
  <2> QED
    BY <2>2, <2>3 DEF e, n, Counting
<1> QED
  BY <1>4, <1>5, <1>6

-----------------------------------------------------------------------------
(* Messages, and the parts of the invariant *)

Kinds == {"2xx", "refused", "cancel", "ack", "bye"}

LEMMA ReliableKinds ==
    ASSUME NEW k \in Kinds
    PROVE  Reliable(k) \in Message /\ Reliable(k) \notin Provisional
<1>1. Reliable(k).type = k /\ k # "1xx"
  BY DEF Reliable, Kinds
<1>2. Reliable(k) \in [type : Kinds]
  BY DEF Reliable
<1> QED
  BY <1>1, <1>2 DEF Message, Provisional, Kinds

\* What may become of the messages under way
NetKept == net' \subseteq Message /\ \A m \in net' : m \in Provisional => m \in net

LEMMA NetStep ==
    ASSUME TypeOK, NEW A \in SUBSET Kinds, net' \subseteq net \cup {Reliable(k) : k \in A}
    PROVE  NetKept
<1>1. net \subseteq Message
  BY DEF TypeOK
<1>2. ASSUME NEW m \in net' PROVE m \in Message /\ (m \in Provisional => m \in net)
  <2>1. m \in net \/ \E k \in A : m = Reliable(k)
    BY <1>2
  <2> QED
    BY <1>1, <2>1, ReliableKinds
<1> QED
  BY <1>2 DEF NetKept

\* The PRACK in another phase
LEMMA PrackPhase ==
    ASSUME TypeOK, NEW p \in {"ok", "gone", "ignored", "over"},
           prack' = [prack EXCEPT !.phase = p]
    PROVE  prack' \in Prack /\ prack'.rack = prack.rack /\ prack'.phase = p
BY DEF TypeOK, Prack

LEMMA LinkKept ==
    ASSUME Link, UNCHANGED <<sent, taken, acked, rseq>>,
           sender'.rseq = sender.rseq, sender'.begun = sender.begun, sender'.last = sender.last,
           NetKept,
           prack'.rack = prack.rack, prack'.phase = prack.phase \/ prack'.phase # "sent",
           callee' = callee \/ callee' \notin {"Updated", "AcknowledgementRequired"}
    PROVE  Link'
BY DEF Link, NetKept, Waiting

LEMMA TimedKept ==
    ASSUME Timed, UNCHANGED <<sent, sender>>,
           callee' = callee \/ callee' \notin {"Updated", "AcknowledgementRequired"}
    PROVE  Timed'
BY DEF Timed, Waiting, Counting

LEMMA CleanKept ==
    ASSUME Clean, UNCHANGED <<callee, media, told>>, final' = final \/ final' # "none"
    PROVE  Clean'
BY DEF Clean, EndsCleanly, CalleeOver

\* All of it, for steps of the calling side and of the network: they leave the
\* answering side alone.
LEMMA CallerStep ==
    ASSUME RInv, UNCHANGED calleeVars, UNCHANGED <<rseq, taken>>, NetKept,
           prack' = prack
              \/ \E p \in {"ok", "gone", "ignored", "over"} : prack' = [prack EXCEPT !.phase = p],
           caller' \in CallerState, updating' \in BOOLEAN, failures' \in Nat, ConfirmingWaits'
    PROVE  RInv' /\ Step
<1>1. TypeOK /\ Link /\ Timed /\ Clean
  BY DEF RInv
<1>2. /\ prack' \in Prack /\ prack'.rack = prack.rack
      /\ prack'.phase = prack.phase \/ prack'.phase # "sent"
  BY <1>1, PrackPhase DEF TypeOK
<1>3. TypeOK'
  BY <1>1, <1>2 DEF TypeOK, calleeVars, NetKept
<1>4. Link' /\ Timed' /\ Clean'
  BY <1>1, <1>2, LinkKept, TimedKept, CleanKept DEF calleeVars
<1> QED
  BY <1>3, <1>4 DEF RInv, Step, calleeVars, CalleeOver

\* All of it, when the answering side leaves the states that send responses
LEMMA CalleeStep ==
    ASSUME RInv, UNCHANGED <<sender, accepted, sent, taken, acked, callerVars, failures>>,
           NetKept,
           prack' = prack
              \/ \E p \in {"ok", "gone", "ignored"} : prack' = [prack EXCEPT !.phase = p],
           callee' = callee \/ callee' \in CalleeState \ {"Updated", "AcknowledgementRequired"},
           CalleeOver => CalleeOver',
           told' \in {"EProceeding", "EAnswering", "EEstablished", "ETerminating", "ETerminated"},
           media' \in BOOLEAN, final' \in {"none", "2xx", "refused"},
           Clean'
    PROVE  RInv' /\ Step
<1>1. TypeOK /\ Link /\ Timed /\ ConfirmingWaits
  BY DEF RInv
<1>2. /\ prack' \in Prack /\ prack'.rack = prack.rack
      /\ prack'.phase = prack.phase \/ prack'.phase \in {"ok", "gone", "ignored"}
  BY <1>1, PrackPhase DEF TypeOK
<1>3. TypeOK'
  BY <1>1, <1>2 DEF TypeOK, callerVars, NetKept
<1>4. Link' /\ Timed'
  BY <1>1, <1>2, LinkKept, TimedKept DEF callerVars
<1>5. ConfirmingWaits'
  BY <1>1, <1>2 DEF ConfirmingWaits, callerVars
<1>6. Step
  <2>1. CASE CalleeOver
    BY <2>1 DEF Step, CalleeOver
  <2>2. CASE ~CalleeOver
    BY <2>2 DEF Step, Channel!Next, Channel!End, CalleeOver
  <2> QED
    BY <2>1, <2>2
<1> QED
  BY <1>3, <1>4, <1>5, <1>6 DEF RInv

-----------------------------------------------------------------------------
(* The calling side *)

LEMMA PrackAnsweredStep == ASSUME RInv, PrackAnswered PROVE RInv' /\ Step
<1>1. TypeOK /\ UNCHANGED calleeVars /\ UNCHANGED <<rseq, updating, taken, failures>>
  BY DEF RInv, PrackAnswered
<1>2. prack' = [prack EXCEPT !.phase = "over"]
  BY DEF PrackAnswered
<1>3. NetKept
  <2>1. net' \subseteq net \cup {Reliable(k) : k \in {"cancel"}}
    BY DEF PrackAnswered, SendCancel
  <2> QED
    BY <1>1, <2>1, NetStep DEF Kinds
<1>4. caller' \in CallerState /\ caller' # "Confirming"
  BY <1>1 DEF PrackAnswered, ExitMediaUpdated, TypeOK, CallerState
<1>5. updating' \in BOOLEAN /\ failures' \in Nat
  BY <1>1 DEF TypeOK
<1> QED
  BY <1>1, <1>2, <1>3, <1>4, <1>5, CallerStep DEF ConfirmingWaits

LEMMA PrackTimesOutStep == ASSUME RInv, PrackTimesOut PROVE RInv' /\ Step
<1>1. TypeOK /\ UNCHANGED calleeVars /\ UNCHANGED <<rseq, updating, taken, failures>>
  BY DEF RInv, PrackTimesOut
<1>2. prack' = [prack EXCEPT !.phase = "over"]
  BY DEF PrackTimesOut
<1>3. NetKept
  <2>1. net' \subseteq net \cup {Reliable(k) : k \in {"cancel"}}
    BY DEF PrackTimesOut, SendCancel
  <2> QED
    BY <1>1, <2>1, NetStep DEF Kinds
<1>4. caller' \in {"Canceled", "Terminated", "Error"}
  BY DEF PrackTimesOut
<1>5. updating' \in BOOLEAN /\ failures' \in Nat
  BY <1>1 DEF TypeOK
<1> QED
  BY <1>1, <1>2, <1>3, <1>4, <1>5, CallerStep DEF ConfirmingWaits, CallerState

LEMMA CancelStep == ASSUME RInv, Cancel PROVE RInv' /\ Step
<1>1. TypeOK /\ UNCHANGED calleeVars /\ UNCHANGED <<rseq, updating, taken, prack, failures>>
  BY DEF RInv, Cancel
<1>2. NetKept
  <2>1. net' \subseteq net \cup {Reliable(k) : k \in {"cancel"}}
    BY DEF Cancel, SendCancel
  <2> QED
    BY <1>1, <2>1, NetStep DEF Kinds
<1>3. caller' = "Canceled"
  BY DEF Cancel
<1>4. updating' \in BOOLEAN /\ failures' \in Nat
  BY <1>1 DEF TypeOK
<1> QED
  BY <1>1, <1>2, <1>3, <1>4, CallerStep DEF ConfirmingWaits, CallerState

LEMMA AnswerArrivesStep == ASSUME RInv, AnswerArrives PROVE RInv' /\ Step
<1>1. TypeOK /\ UNCHANGED calleeVars /\ UNCHANGED <<rseq, taken, failures>> /\ ConfirmingWaits
  BY DEF RInv, AnswerArrives
<1>2. NetKept
  <2>1. net' \subseteq net \cup {Reliable(k) : k \in {"ack", "bye"}}
    BY DEF AnswerArrives
  <2> QED
    BY <1>1, <2>1, NetStep DEF Kinds
<1>3. prack' = prack \/ prack' = [prack EXCEPT !.phase = "over"]
  BY DEF AnswerArrives, InterruptConfirming
<1>4. caller' \in CallerState /\ updating' \in BOOLEAN /\ failures' \in Nat
  BY <1>1 DEF AnswerArrives, TypeOK, CallerState
<1>5. ConfirmingWaits'
  BY <1>1 DEF AnswerArrives, ConfirmingWaits, Over
<1> QED
  BY <1>1, <1>2, <1>3, <1>4, <1>5, CallerStep

LEMMA MediaUpdatedStep == ASSUME RInv, MediaUpdated PROVE RInv' /\ Step
<1>1. TypeOK /\ UNCHANGED calleeVars /\ UNCHANGED <<rseq, taken, prack, net, failures>>
  BY DEF RInv, MediaUpdated
<1>2. NetKept
  BY <1>1 DEF NetKept, TypeOK
<1>3. caller' = "Established" /\ updating' = FALSE /\ failures' \in Nat
  BY <1>1 DEF MediaUpdated, TypeOK
<1> QED
  BY <1>1, <1>2, <1>3, CallerStep DEF ConfirmingWaits, CallerState

LEMMA RefusalArrivesStep == ASSUME RInv, RefusalArrives PROVE RInv' /\ Step
<1>1. TypeOK /\ UNCHANGED calleeVars /\ UNCHANGED <<rseq, updating, taken, prack, failures>>
  BY DEF RInv, RefusalArrives
<1>2. NetKept
  BY <1>1 DEF RefusalArrives, NetKept, TypeOK
<1>3. caller' \in Over /\ updating' \in BOOLEAN /\ failures' \in Nat
  BY <1>1 DEF RefusalArrives, TypeOK, Over
<1> QED
  BY <1>1, <1>2, <1>3, CallerStep DEF ConfirmingWaits, CallerState, Over

LEMMA LoseStep == ASSUME RInv, Lose PROVE RInv' /\ Step
<1>1. /\ TypeOK /\ ConfirmingWaits /\ UNCHANGED calleeVars
      /\ UNCHANGED <<caller, rseq, updating, taken, prack, failures>>
  BY DEF RInv, Lose, callerVars
<1>2. NetKept
  BY <1>1 DEF Lose, NetKept, TypeOK
<1>3. caller' \in CallerState /\ updating' \in BOOLEAN /\ failures' \in Nat
  BY <1>1 DEF TypeOK
<1> QED
  BY <1>1, <1>2, <1>3, CallerStep DEF ConfirmingWaits

\* The calling session takes a response: it is the last one, which it had not
\* taken before.
LEMMA ProvisionalArrivesStep == ASSUME RInv, ProvisionalArrives PROVE RInv' /\ Step
<1>1. PICK m \in net \cap Provisional :
         /\ net' = net \ {m}
         /\ IF caller = "Offering" /\ NeedToProcess(m)
            THEN /\ prack' = [rack |-> m.rseq, phase |-> "sent"]
                 /\ rseq' = m.rseq
                 /\ taken' = taken + 1
                 /\ caller' = "Confirming"
            ELSE UNCHANGED <<prack, rseq, taken, caller>>
         /\ UNCHANGED <<calleeVars, updating, failures>>
  BY DEF ProvisionalArrives
<1>2. TypeOK /\ Link /\ Timed /\ Clean /\ ConfirmingWaits
  BY DEF RInv
<1>3. NetKept
  BY <1>1, <1>2 DEF NetKept, TypeOK
<1>4. updating' \in BOOLEAN /\ failures' \in Nat
  BY <1>1, <1>2 DEF TypeOK
<1>5. CASE UNCHANGED <<prack, rseq, taken, caller>>
  <2>1. caller' \in CallerState /\ ConfirmingWaits'
    BY <1>1, <1>2, <1>5 DEF TypeOK, ConfirmingWaits
  <2> QED
    BY <1>1, <1>3, <1>4, <1>5, <2>1, CallerStep
<1>6. CASE /\ NeedToProcess(m)
           /\ prack' = [rack |-> m.rseq, phase |-> "sent"]
           /\ rseq' = m.rseq /\ taken' = taken + 1 /\ caller' = "Confirming"
  <2>1. /\ sent \in Nat /\ taken \in Nat /\ acked \in Nat /\ rseq \in Nat
        /\ sender.last \in Nat /\ m.rseq \in Nat
    BY <1>2 DEF TypeOK, SenderData, Provisional
  <2>2. m.rseq >= 1 /\ (m.rseq = sender.last \/ m.rseq <= rseq)
    BY <1>2 DEF Link
  <2>3. rseq = 0 \/ m.rseq = rseq + 1
    BY <1>6 DEF NeedToProcess
  <2>4. m.rseq = sender.last /\ rseq < m.rseq
    BY <2>1, <2>2, <2>3
  <2>5. sent = taken + 1 /\ acked = taken
    BY <1>2, <2>1, <2>4 DEF Link
  <2>6. /\ sent' = sent /\ acked' = acked /\ sender' = sender /\ callee' = callee
        /\ told' = told /\ media' = media /\ accepted' = accepted /\ final' = final
    BY <1>1 DEF calleeVars
  <2>7. prack' \in Prack
    BY <1>6, <2>1 DEF Prack
  <2>8. TypeOK'
    BY <1>2, <1>3, <1>4, <1>6, <2>1, <2>6, <2>7 DEF TypeOK, CallerState, NetKept
  <2>9. Link'
    <3>1. /\ acked' <= taken' /\ taken' <= sent' /\ sent' <= acked' + 1
          /\ rseq' <= sender'.last /\ (taken' = sent' <=> rseq' = sender'.last)
          /\ prack'.rack = rseq' /\ taken' = acked' + 1
      BY <1>6, <2>1, <2>4, <2>5, <2>6
    <3>2. ASSUME NEW n \in net', n \in Provisional
          PROVE  n.rseq >= 1 /\ (n.rseq = sender'.last \/ n.rseq <= rseq')
      <4>1. n \in net /\ n.rseq \in Nat
        BY <1>3, <3>2 DEF NetKept, Provisional
      <4>2. n.rseq >= 1 /\ (n.rseq = sender.last \/ n.rseq <= rseq)
        BY <1>2, <3>2, <4>1 DEF Link
      <4> QED
        BY <1>6, <2>1, <2>4, <2>6, <4>1, <4>2
    <3> QED
      BY <1>2, <2>6, <3>1, <3>2 DEF Link, Waiting
  <2>10. Timed' /\ Clean'
    BY <1>2, <2>6, TimedKept, CleanKept
  <2>11. ConfirmingWaits'
    BY <1>6 DEF ConfirmingWaits
  <2>12. Step
    BY <1>6, <2>1, <2>5, <2>6 DEF Step, Channel!Next, Channel!Take, CalleeOver
  <2> QED
    BY <2>8, <2>9, <2>10, <2>11, <2>12 DEF RInv
<1> QED
  BY <1>1, <1>5, <1>6

-----------------------------------------------------------------------------
(* The answering side: steps that send no response *)

\* The session ends with a final response.
LEMMA EndsClean ==
    ASSUME Ends PROVE Clean' /\ CalleeOver' /\ callee' = "Terminated"
BY DEF Ends, Clean, EndsCleanly, CalleeOver, Over

LEMMA RejectStep == ASSUME RInv, Reject PROVE RInv' /\ Step
<1>1. /\ TypeOK /\ Ends
      /\ UNCHANGED <<accepted, sender, sent, acked, callerVars, prack, failures>>
  BY DEF RInv, Reject
<1>2. NetKept
  <2>1. net' \subseteq net \cup {Reliable(k) : k \in {"refused"}}
    BY <1>1 DEF Ends
  <2> QED
    BY <1>1, <2>1, NetStep DEF Kinds
<1>3. /\ told' = "ETerminated" /\ media' = FALSE /\ final' = "refused"
      /\ taken' = taken
  BY <1>1 DEF Ends, callerVars
<1> QED
  BY <1>1, <1>2, <1>3, EndsClean, CalleeStep DEF CalleeState

LEMMA AcceptStep == ASSUME RInv, Accept PROVE RInv' /\ Step
<1>1. /\ TypeOK /\ callee = "Updated" /\ callee' = "Answering" /\ told' = "EAnswering"
      /\ final' = "2xx" /\ net' = net \cup {Reliable("2xx")}
      /\ UNCHANGED <<media, accepted, sender, sent, acked, callerVars, prack, failures>>
  BY DEF RInv, Accept
<1>2. NetKept
  <2>1. net' \subseteq net \cup {Reliable(k) : k \in {"2xx"}}
    BY <1>1
  <2> QED
    BY <1>1, <2>1, NetStep DEF Kinds
<1>3. Clean' /\ ~CalleeOver
  BY <1>1 DEF Clean, EndsCleanly, CalleeOver, Over
<1>4. media' \in BOOLEAN /\ taken' = taken
  BY <1>1 DEF TypeOK, callerVars
<1> QED
  BY <1>1, <1>2, <1>3, <1>4, CalleeStep DEF CalleeState

LEMMA EarlyAcceptStep == ASSUME RInv, EarlyAccept PROVE RInv' /\ Step
<1>1. /\ TypeOK /\ Link /\ Timed /\ Clean /\ ConfirmingWaits /\ accepted' = TRUE
      /\ UNCHANGED <<callee, told, media, sender, final, sent, acked, callerVars,
                     prack, net, failures>>
  BY DEF RInv, EarlyAccept
<1>2. NetKept /\ TypeOK'
  BY <1>1 DEF NetKept, TypeOK, callerVars
<1>3. Link' /\ Timed' /\ Clean'
  BY <1>1, <1>2, LinkKept, TimedKept, CleanKept DEF callerVars
<1>4. ConfirmingWaits' /\ Step
  BY <1>1 DEF ConfirmingWaits, Step, CalleeOver, callerVars
<1> QED
  BY <1>2, <1>3, <1>4 DEF RInv

LEMMA CancelArrivesStep == ASSUME RInv, CancelArrives PROVE RInv' /\ Step
<1>1. /\ TypeOK /\ Clean
      /\ UNCHANGED <<accepted, sender, sent, acked, callerVars, prack, failures>>
  BY DEF RInv, CancelArrives
<1>2. NetKept
  <2>1. net' \subseteq net \cup {Reliable(k) : k \in {"refused"}}
    BY DEF CancelArrives
  <2> QED
    BY <1>1, <2>1, NetStep DEF Kinds
<1>3. taken' = taken
  BY <1>1 DEF callerVars
<1>4. CASE final = "none"
  <2>1. /\ callee' = "Terminated" /\ told' = "ETerminated" /\ media' = FALSE
        /\ final' = "refused"
    BY <1>4 DEF CancelArrives
  <2>2. Clean' /\ CalleeOver'
    BY <2>1 DEF Clean, EndsCleanly, CalleeOver, Over
  <2> QED
    BY <1>1, <1>2, <1>3, <2>1, <2>2, CalleeStep DEF CalleeState
<1>5. CASE final # "none"
  <2>1. UNCHANGED <<final, media, callee, told>>
    BY <1>5 DEF CancelArrives
  <2>2. Clean'
    BY <1>1, <2>1, CleanKept
  <2> QED
    BY <1>1, <1>2, <1>3, <2>1, <2>2, CalleeStep DEF TypeOK, CalleeOver
<1> QED
  BY <1>4, <1>5

LEMMA AckArrivesStep == ASSUME RInv, AckArrives PROVE RInv' /\ Step
<1>1. /\ TypeOK /\ Clean /\ taken' = taken
      /\ UNCHANGED <<media, accepted, sender, final, sent, acked, callerVars, prack, failures>>
  BY DEF RInv, AckArrives, callerVars
<1>2. NetKept
  BY <1>1 DEF AckArrives, NetKept, TypeOK
<1>3. CASE callee = "Answering" /\ callee' = "Established" /\ told' = "EEstablished"
  <2>1. Clean' /\ ~CalleeOver
    BY <1>1, <1>3 DEF Clean, EndsCleanly, CalleeOver, Over
  <2> QED
    BY <1>1, <1>2, <1>3, <2>1, CalleeStep DEF CalleeState, TypeOK
<1>4. CASE UNCHANGED <<callee, told>>
  <2>1. Clean'
    BY <1>1, <1>4, CleanKept
  <2> QED
    BY <1>1, <1>2, <1>4, <2>1, CalleeStep DEF TypeOK, CalleeOver
<1> QED
  BY <1>3, <1>4 DEF AckArrives

LEMMA ByeArrivesStep == ASSUME RInv, ByeArrives PROVE RInv' /\ Step
<1>1. /\ TypeOK /\ Clean /\ taken' = taken
      /\ UNCHANGED <<accepted, sender, final, sent, acked, callerVars, prack, failures>>
  BY DEF RInv, ByeArrives, callerVars
<1>2. NetKept
  BY <1>1 DEF ByeArrives, NetKept, TypeOK
<1>3. CASE /\ callee \in {"Answering", "Established"}
           /\ callee' = "Terminated" /\ told' = "ETerminated" /\ media' = FALSE
  <2>1. Clean' /\ ~CalleeOver
    BY <1>1, <1>3 DEF Clean, EndsCleanly, CalleeOver, Over
  <2> QED
    BY <1>1, <1>2, <1>3, <2>1, CalleeStep DEF CalleeState, TypeOK
<1>4. CASE UNCHANGED <<callee, told, media>>
  <2>1. Clean'
    BY <1>1, <1>4, CleanKept
  <2> QED
    BY <1>1, <1>2, <1>4, <2>1, CalleeStep DEF TypeOK, CalleeOver
<1> QED
  BY <1>3, <1>4 DEF ByeArrives

LEMMA NoAckStep == ASSUME RInv, NoAck PROVE RInv' /\ Step
<1>1. /\ TypeOK /\ Clean /\ taken' = taken /\ callee = "Answering"
      /\ callee' = "Terminating" /\ told' = "ETerminating" /\ media' = FALSE
      /\ UNCHANGED <<accepted, sender, final, sent, acked, callerVars, prack, net, failures>>
  BY DEF RInv, NoAck, callerVars
<1>2. NetKept
  BY <1>1 DEF NetKept, TypeOK
<1>3. Clean' /\ ~CalleeOver
  BY <1>1 DEF Clean, EndsCleanly, CalleeOver, Over
<1> QED
  BY <1>1, <1>2, <1>3, CalleeStep DEF CalleeState, TypeOK

-----------------------------------------------------------------------------
(* The answering side: responses, their timer and their PRACKs *)

LEMMA RingStep == ASSUME RInv, Ring PROVE RInv' /\ Step
<1>1. TypeOK /\ Link /\ Timed /\ Clean /\ ConfirmingWaits
  BY DEF RInv
<1> DEFINE r == Rseq(sender)
           n == Send(r)
<1>2. /\ callee = "Updated" /\ ~sender.pending /\ sender' = n
      /\ net' = net \cup {[type |-> "1xx", rseq |-> n.last]}
      /\ callee' = "AcknowledgementRequired" /\ sent' = sent + 1
      /\ UNCHANGED <<told, media, accepted, final, acked, callerVars, prack, failures>>
  BY DEF Ring
<1>3. /\ sender \in SenderData /\ sent \in Nat /\ taken \in Nat /\ acked \in Nat /\ rseq \in Nat
      /\ sender.last \in Nat /\ sender.rseq \in Nat
  BY <1>1 DEF TypeOK, SenderData
<1>4. /\ r \in SenderData /\ r.rseq = IF sender.begun THEN sender.rseq + 1 ELSE sender.rseq
      /\ r.retrans = sender.retrans /\ r.total = sender.total /\ r.timeOut = sender.timeOut
  BY <1>2, <1>3, RseqGives
<1> HIDE DEF r
<1>5. /\ n \in SenderData /\ n.rseq = r.rseq /\ n.begun = TRUE /\ n.last = r.rseq
      /\ n.pending = TRUE /\ n.queued = r.retrans /\ n.retrans = 2 * r.retrans
      /\ n.elapsed = 0 /\ n.total = r.total /\ n.timeOut = r.timeOut
  BY <1>4, SendGives
<1> HIDE DEF n
<1>6. n.last \in Nat /\ n.last > sender.last /\ n.last >= 1
  BY <1>1, <1>3, <1>4, <1>5 DEF Link
<1>7. acked = sent /\ taken = sent /\ rseq = sender.last
  BY <1>1, <1>2, <1>3 DEF Link
<1>8. net' \subseteq Message
  BY <1>1, <1>2, <1>6 DEF TypeOK, Message, Provisional
<1>9. rseq' = rseq /\ taken' = taken /\ caller' = caller /\ updating' = updating
  BY <1>2 DEF callerVars
<1>10. TypeOK'
  BY <1>1, <1>2, <1>3, <1>5, <1>8, <1>9 DEF TypeOK, CalleeState
<1>11. Link'
  <2>1. /\ acked' <= taken' /\ taken' <= sent' /\ sent' = acked' + 1 /\ taken' # sent'
        /\ rseq' <= sender'.last /\ rseq' # sender'.last
    BY <1>2, <1>3, <1>6, <1>7, <1>9
  <2>2. prack'.rack = rseq' /\ (prack'.phase = "sent" => taken' = acked' + 1)
    BY <1>1, <1>2, <1>9 DEF Link
  <2>3. ASSUME NEW m \in net', m \in Provisional
        PROVE  m.rseq >= 1 /\ (m.rseq = sender'.last \/ m.rseq <= rseq')
    <3>1. CASE m \in net
      <4>1. m.rseq >= 1 /\ (m.rseq = sender.last \/ m.rseq <= rseq)
        BY <1>1, <2>3, <3>1 DEF Link
      <4> QED
        BY <4>1, <1>3, <1>7, <1>9
    <3>2. CASE m = [type |-> "1xx", rseq |-> n.last]
      BY <3>2, <1>2, <1>6
    <3> QED
      BY <1>2, <3>1, <3>2
  <2>4. sender'.last <= sender'.rseq /\ sender'.rseq >= 1 /\ sender'.begun
    BY <1>2, <1>5, <1>6
  <2> QED
    BY <1>2, <2>1, <2>2, <2>3, <2>4 DEF Link
<1>12. Timed'
  <2>1. sender'.total <= 64 /\ sent' # 0 /\ sender'.last >= 1
    BY <1>1, <1>2, <1>3, <1>4, <1>5, <1>6 DEF Timed
  <2>2. ASSUME sent' = 1 PROVE sender'.pending = TRUE /\ Counting(sender')
    <3>1. sender.retrans = 1 /\ sender.total = 0 /\ sender.timeOut = FALSE
      BY <1>1, <1>2, <1>3, <2>2 DEF Timed
    <3> QED
      BY <3>1, <1>2, <1>4, <1>5 DEF Counting
  <2> QED
    BY <1>2, <2>1, <2>2 DEF Timed, Counting
<1>13. Clean' /\ ConfirmingWaits'
  BY <1>1, <1>2, <1>9 DEF Clean, EndsCleanly, CalleeOver, Over, ConfirmingWaits
<1>14. Step
  BY <1>2, <1>3, <1>7, <1>9 DEF Step, Channel!Next, Channel!Send, CalleeOver, Over
<1> QED
  BY <1>10, <1>11, <1>12, <1>13, <1>14 DEF RInv

LEMMA RingFailsStep == ASSUME RInv, RingFails PROVE RInv' /\ Step
<1>1. TypeOK /\ Link /\ Timed /\ Clean /\ ConfirmingWaits
  BY DEF RInv
<1> DEFINE r == Rseq(sender)
           n == SendFails(r)
<1>2. /\ callee = "Updated" /\ sender' \in {r, n} /\ failures' = failures + 1
      /\ UNCHANGED <<callee, told, media, accepted, final, sent, acked, callerVars, prack, net>>
  BY DEF RingFails, Fails
<1>3. sender \in SenderData /\ sender.rseq \in Nat /\ sender.last \in Nat /\ failures \in Nat
  BY <1>1 DEF TypeOK, SenderData
<1>4. /\ r \in SenderData /\ r.rseq \in Nat /\ r.rseq >= sender.rseq
      /\ r.begun = sender.begun /\ r.last = sender.last /\ r.queued = sender.queued
      /\ r.retrans = sender.retrans /\ r.total = sender.total /\ r.timeOut = sender.timeOut
  BY <1>3, RseqGives
<1> HIDE DEF r
<1>5. /\ n \in SenderData /\ n.rseq = r.rseq /\ n.begun = TRUE /\ n.last = r.last
      /\ n.retrans = r.retrans /\ n.total = r.total /\ n.timeOut = r.timeOut
      /\ n.queued = r.queued
  BY <1>4, SendFailsGives
<1> HIDE DEF n
<1>6. /\ sender' \in SenderData /\ sender'.rseq \in Nat /\ sender'.rseq >= sender.rseq
      /\ sender'.last = sender.last /\ sender'.queued = sender.queued
      /\ sender.begun => sender'.begun
      /\ sender'.retrans = sender.retrans /\ sender'.total = sender.total
      /\ sender'.timeOut = sender.timeOut
  BY <1>2, <1>4, <1>5
<1>7. rseq' = rseq /\ taken' = taken /\ caller' = caller /\ updating' = updating
  BY <1>2 DEF callerVars
<1>8. TypeOK'
  BY <1>1, <1>2, <1>3, <1>6, <1>7 DEF TypeOK
<1>9. Link'
  <2>1. /\ sender'.last <= sender'.rseq /\ sender'.rseq >= 1
        /\ sender'.begun \/ sender'.last < sender'.rseq
    BY <1>1, <1>3, <1>6 DEF Link
  <2> QED
    BY <1>1, <1>2, <1>6, <1>7, <2>1 DEF Link, Waiting
<1>10. Timed'
  BY <1>1, <1>2, <1>6 DEF Timed, Waiting
<1>11. Clean' /\ ConfirmingWaits' /\ Step
  BY <1>1, <1>2, <1>7, CleanKept DEF ConfirmingWaits, Step, CalleeOver
<1> QED
  BY <1>8, <1>9, <1>10, <1>11 DEF RInv

\* What NoPrackReceived leaves, when it is not ignored because nothing waits
LEMMA NoPrackReceivedGives ==
    ASSUME TypeOK, Clean, callee # "Updated", NoPrackReceived
    PROVE  /\ Clean' /\ CalleeOver'
           /\ callee' \in {"Terminated", "Error"}
           /\ told' \in {"EProceeding", "EAnswering", "EEstablished", "ETerminating", "ETerminated"}
           /\ media' \in BOOLEAN /\ final' \in {"none", "2xx", "refused"}
           /\ net' \subseteq net \cup {Reliable(k) : k \in {"refused"}}
<1>1. CASE callee = "AcknowledgementRequired"
  <2>1. Ends
    BY <1>1 DEF NoPrackReceived
  <2> QED
    BY <2>1, EndsClean DEF Ends
<1>2. CASE callee \in {"Terminated", "Error"}
  <2>1. UNCHANGED <<final, net, media, callee, told>>
    BY <1>2 DEF NoPrackReceived
  <2> QED
    BY <1>2, <2>1, CleanKept DEF TypeOK, CalleeOver, Over
<1>3. CASE callee \notin {"AcknowledgementRequired", "Terminated", "Error"}
  <2>1. /\ media' = FALSE /\ callee' = "Error" /\ told' = "ETerminated"
        /\ UNCHANGED <<final, net>>
    BY <1>3 DEF NoPrackReceived
  <2>2. final # "none" /\ final \in {"none", "2xx", "refused"}
    BY <1>3 DEF Clean, TypeOK
  <2> QED
    BY <2>1, <2>2 DEF Clean, EndsCleanly, CalleeOver, Over
<1> QED
  BY <1>1, <1>2, <1>3

LEMMA TimerExpiresStep == ASSUME RInv, TimerExpires PROVE RInv' /\ Step
<1>1. TypeOK /\ Link /\ Timed /\ Clean /\ ConfirmingWaits
  BY DEF RInv
<1> DEFINE n == Requeue(Expired(sender))
<1>2. /\ sender.queued > 0 /\ sender' = n
      /\ UNCHANGED <<accepted, sent, acked, callerVars, prack>>
  BY DEF TimerExpires
<1>3. /\ sender \in SenderData /\ sender.total <= 64 /\ sender.last \in Nat /\ rseq \in Nat
      /\ failures \in Nat
  BY <1>1 DEF TypeOK, SenderData, Timed
<1>4. /\ n \in SenderData /\ n.rseq = sender.rseq /\ n.begun = sender.begun
      /\ n.last = sender.last /\ n.pending = sender.pending
      /\ n.total <= 64
      /\ sender.pending = TRUE /\ sender.timeOut = FALSE /\ Counting(sender) => Counting(n)
  BY <1>3, ExpiresGives
<1> HIDE DEF n
<1>5. rseq' = rseq /\ taken' = taken /\ caller' = caller /\ updating' = updating
  BY <1>2 DEF callerVars
<1>6. callee # "Updated"
  BY <1>1, <1>2, <1>3 DEF Timed
<1>7. failures' \in Nat
  BY <1>3 DEF TimerExpires, Fails
<1>8. ConfirmingWaits'
  BY <1>1, <1>2, <1>5 DEF ConfirmingWaits
<1>9. sent # 0 /\ sender.last >= 1 /\ sender.timeOut \in BOOLEAN
  BY <1>1, <1>2, <1>3 DEF Timed, SenderData
<1>10. CASE /\ ~sender.timeOut
            /\ net' = net \cup {[type |-> "1xx", rseq |-> sender.last]}
            /\ UNCHANGED <<final, media, callee, told, failures>>
  <2>1. net' \subseteq Message
    BY <1>1, <1>2, <1>3, <1>4, <1>10 DEF TypeOK, Message, Provisional
  <2>2. TypeOK'
    BY <1>1, <1>2, <1>4, <1>5, <1>7, <1>10, <2>1 DEF TypeOK
  <2>3. Link'
    <3>1. ASSUME NEW m \in net', m \in Provisional
          PROVE  m.rseq >= 1 /\ (m.rseq = sender'.last \/ m.rseq <= rseq')
      <4>1. CASE m \in net
        BY <1>1, <1>2, <1>4, <1>5, <3>1, <4>1 DEF Link
      <4>2. CASE m = [type |-> "1xx", rseq |-> sender.last]
        BY <1>2, <1>4, <1>9, <4>2
      <4> QED
        BY <1>2, <1>4, <1>10, <4>1, <4>2
    <3> QED
      BY <1>1, <1>2, <1>4, <1>5, <1>10, <3>1 DEF Link, Waiting
  <2>4. Timed'
    <3>1. Waiting' /\ sent' = 1 => sender'.pending = TRUE /\ Counting(sender')
      BY <1>1, <1>2, <1>4, <1>9, <1>10 DEF Timed, Waiting
    <3> QED
      BY <1>2, <1>4, <1>6, <1>9, <1>10, <3>1 DEF Timed, Waiting, Counting
  <2>5. Clean' /\ Step
    BY <1>1, <1>2, <1>5, <1>10, CleanKept DEF Step, CalleeOver
  <2> QED
    BY <1>8, <2>2, <2>3, <2>4, <2>5 DEF RInv
<1>11. CASE NoPrackReceived
  <2>1. /\ Clean' /\ CalleeOver' /\ callee' \in {"Terminated", "Error"}
        /\ told' \in {"EProceeding", "EAnswering", "EEstablished", "ETerminating", "ETerminated"}
        /\ media' \in BOOLEAN /\ final' \in {"none", "2xx", "refused"}
        /\ net' \subseteq net \cup {Reliable(k) : k \in {"refused"}}
    BY <1>1, <1>6, <1>11, NoPrackReceivedGives
  <2>2. NetKept
    BY <1>1, <2>1, NetStep DEF Kinds
  <2>3. TypeOK'
    BY <1>1, <1>2, <1>4, <1>5, <1>7, <2>1, <2>2 DEF TypeOK, NetKept, CalleeState
  <2>4. Link'
    BY <1>1, <1>2, <1>4, <1>5, <2>1, <2>2, LinkKept
  <2>5. Timed'
    BY <1>1, <1>2, <1>4, <1>9, <2>1 DEF Timed, Waiting
  <2>6. Step
    BY <1>2, <1>5, <2>1 DEF Step, Channel!Next, Channel!End, CalleeOver
  <2> QED
    BY <1>8, <2>1, <2>3, <2>4, <2>5, <2>6 DEF RInv
<1> QED
  BY <1>10, <1>11 DEF TimerExpires

\* The PRACK that arrives in AcknowledgementRequired is for the last response.
LEMMA PrackMatches ==
    ASSUME RInv, prack.phase = "sent", Waiting
    PROVE  Matches(sender, prack.rack) /\ taken = sent
BY DEF RInv, Link, Matches, TypeOK, SenderData

LEMMA PrackArrivesStep == ASSUME RInv, PrackArrives PROVE RInv' /\ Step
<1>1. TypeOK /\ Link /\ Timed /\ Clean /\ ConfirmingWaits
  BY DEF RInv
<1>2. prack.phase = "sent" /\ UNCHANGED <<sent, callerVars, failures>>
  BY DEF PrackArrives
<1>3. rseq' = rseq /\ taken' = taken /\ caller' = caller /\ updating' = updating
  BY <1>2 DEF callerVars
<1>4. CASE Waiting
  <2> DEFINE n == PrackReceived(sender)
  <2>1. taken = sent /\ sent = acked + 1
    BY <1>1, <1>2, <1>4, PrackMatches DEF Link
  <2>2. /\ sender' = n /\ prack' = [prack EXCEPT !.phase = "ok"] /\ acked' = acked + 1
        /\ ProceedToUpdated
    BY <1>2, <1>4, PrackMatches DEF PrackArrives, EntryPrack, Waiting
  <2>3. /\ n \in SenderData /\ n.rseq = sender.rseq /\ n.begun = sender.begun
        /\ n.last = sender.last /\ n.queued = 0 /\ n.retrans = sender.retrans
        /\ n.total = sender.total /\ n.timeOut = sender.timeOut
    BY <1>1, PrackReceivedGives DEF TypeOK
  <2> HIDE DEF n
  <2>4. /\ told' = "EProceeding" /\ accepted' = accepted /\ media' = media
        /\ \/ /\ callee' = "Answering" /\ final' = "2xx"
              /\ net' = net \cup {Reliable("2xx")}
           \/ callee' = "Updated" /\ final' = final /\ net' = net
    BY <2>2 DEF ProceedToUpdated
  <2>5. NetKept
    <3>1. net' \subseteq net \cup {Reliable(k) : k \in {"2xx"}}
      BY <2>4
    <3> QED
      BY <1>1, <3>1, NetStep DEF Kinds
  <2>6. prack' \in Prack /\ prack'.rack = prack.rack /\ prack'.phase = "ok"
    BY <1>1, <2>2, PrackPhase
  <2>7. acked \in Nat /\ taken \in Nat /\ sent \in Nat
    BY <1>1 DEF TypeOK
  <2>8. TypeOK'
    BY <1>1, <1>2, <1>3, <2>2, <2>3, <2>4, <2>5, <2>6, <2>7 DEF TypeOK, CalleeState, NetKept
  <2>9. Link'
    <3>1. ASSUME NEW m \in net', m \in Provisional
          PROVE  m.rseq >= 1 /\ (m.rseq = sender'.last \/ m.rseq <= rseq')
      BY <1>1, <1>3, <2>2, <2>3, <2>5, <3>1 DEF Link, NetKept
    <3>2. acked' <= taken' /\ taken' <= sent' /\ sent' <= acked' + 1 /\ acked' = sent'
      BY <1>2, <1>3, <2>1, <2>2, <2>7
    <3> QED
      BY <1>1, <1>2, <1>3, <2>1, <2>2, <2>3, <2>4, <2>6, <3>1, <3>2 DEF Link, Waiting
  <2>10. Timed'
    BY <1>1, <1>2, <2>1, <2>2, <2>3, <2>4, <2>7 DEF Timed, Waiting
  <2>11. Clean' /\ ConfirmingWaits'
    BY <1>3, <2>4, <2>6 DEF Clean, EndsCleanly, CalleeOver, Over, ConfirmingWaits
  <2>12. Step
    BY <1>2, <1>3, <1>4, <2>1, <2>2, <2>4, <2>7
    DEF Step, Channel!Next, Channel!Acknowledge, CalleeOver, Over, Waiting
  <2> QED
    BY <2>8, <2>9, <2>10, <2>11, <2>12 DEF RInv
<1>5. CASE ~Waiting
  <2>1. /\ \E p \in {"ignored", "gone"} : prack' = [prack EXCEPT !.phase = p]
        /\ UNCHANGED <<callee, told, media, accepted, sender, final, acked, net>>
    BY <1>5 DEF PrackArrives, Waiting
  <2>2. NetKept
    BY <1>1, <2>1 DEF NetKept, TypeOK
  <2>3. Clean'
    BY <1>1, <2>1, CleanKept
  <2> QED
    BY <1>1, <1>2, <1>3, <2>1, <2>2, <2>3, CalleeStep DEF TypeOK, CalleeOver
<1> QED
  BY <1>4, <1>5

-----------------------------------------------------------------------------
(* Theorems *)

LEMMA RInvInit == Init => RInv
<1> SUFFICES ASSUME Init PROVE RInv
  OBVIOUS
<1>1. NewSender \in SenderData
  BY DEF NewSender, SenderData
<1>2. TypeOK
  BY <1>1 DEF Init, TypeOK, CalleeState, CallerState, Prack
<1>3. Link /\ Timed
  BY DEF Init, NewSender, Link, Timed, Waiting
<1>4. Clean /\ ConfirmingWaits
  BY DEF Init, Clean, EndsCleanly, CalleeOver, Over, ConfirmingWaits
<1> QED
  BY <1>2, <1>3, <1>4 DEF RInv

LEMMA RInvNext == RInv /\ [Next]_vars => RInv' /\ Step
<1> SUFFICES ASSUME RInv, [Next]_vars PROVE RInv' /\ Step
  OBVIOUS
<1>1. CASE UNCHANGED vars
  <2>1. TypeOK /\ Link /\ Timed /\ Clean /\ ConfirmingWaits /\ NetKept
    BY <1>1 DEF RInv, vars, NetKept, TypeOK
  <2>2. Link' /\ Timed' /\ Clean'
    BY <1>1, <2>1, LinkKept, TimedKept, CleanKept DEF vars, calleeVars, callerVars
  <2>3. TypeOK' /\ ConfirmingWaits' /\ Step
    BY <1>1, <2>1
    DEF TypeOK, ConfirmingWaits, Step, CalleeOver, vars, calleeVars, callerVars
  <2> QED
    BY <2>2, <2>3 DEF RInv
<1>2. CASE Client
  BY <1>2, RingStep, AcceptStep, EarlyAcceptStep, RejectStep, CancelStep DEF Client
<1>3. CASE RingFails
  BY <1>3, RingFailsStep
<1>4. CASE TimerExpires
  BY <1>4, TimerExpiresStep
<1>5. CASE PrackArrives \/ PrackAnswered \/ PrackTimesOut
  BY <1>5, PrackArrivesStep, PrackAnsweredStep, PrackTimesOutStep
<1>6. CASE ProvisionalArrives
  BY <1>6, ProvisionalArrivesStep
<1>7. CASE Arrive
  BY <1>7, CancelArrivesStep, AckArrivesStep, ByeArrivesStep, AnswerArrivesStep,
     RefusalArrivesStep DEF Arrive
<1>8. CASE NoAck \/ MediaUpdated \/ Lose
  BY <1>8, NoAckStep, MediaUpdatedStep, LoseStep
<1> QED
  BY <1>1, <1>2, <1>3, <1>4, <1>5, <1>6, <1>7, <1>8 DEF Next

\* For any number of responses and failures: type correctness of the two
\* sessions, the sender and the messages between them.
THEOREM TypeCorrect == Spec => []TypeOK
<1>1. RInv => TypeOK
  BY DEF RInv
<1> QED
  BY <1>1, RInvInit, RInvNext, PTL DEF Spec

\* For any number of responses and failures: a session that waits for the
\* first PRACK has its timer running and gives up within 65 * T1 (TimerExpire).
THEOREM FirstResponseGivesUp == Spec => []FirstGivesUp
<1>1. RInv => FirstGivesUp
  <2> SUFFICES ASSUME RInv, Waiting, sent = 1
      PROVE  /\ sender.pending /\ sender.queued > 0
             /\ sender.elapsed + sender.queued <= KMaxTransTimeOut + 1
    BY DEF FirstGivesUp
  <2>1. sender.pending = TRUE /\ Counting(sender) /\ sender.elapsed \in Nat
    BY DEF RInv, Timed, TypeOK, SenderData
  <2> QED
    BY <2>1 DEF Counting, KMaxTransTimeOut
<1> QED
  BY <1>1, RInvInit, RInvNext, PTL DEF Spec

\* For any number of responses and failures: however the answering session
\* ends, its INVITE has a final response, its media is released and its client
\* knows; in particular the branch of EntryPrackL that ends the session with
\* its media open, for a PRACK of another response, is never taken.
THEOREM AnsweringEndsCleanly == Spec => []EndsCleanly
<1>1. RInv => EndsCleanly
  BY DEF RInv, Clean
<1> QED
  BY <1>1, RInvInit, RInvNext, PTL DEF Spec

\* For any number of responses and failures: in Confirming there is always
\* something that ends it, a PRACK without its response or the media.
THEOREM ConfirmingIsDriven == Spec => []ConfirmingWaits
<1>1. RInv => ConfirmingWaits
  BY DEF RInv
<1> QED
  BY <1>1, RInvInit, RInvNext, PTL DEF Spec

\* For any number of responses and failures: however provisional responses are
\* lost, repeated or reordered, the calling session takes each once and in
\* order, and the next is sent only when the one before was taken
\* (Rseq, NeedToProcessL, PrackReceived).
THEOREM ReliableChannel == Spec => ImplementsOneAtATime
<1>1. Init => Channel!Init
  BY DEF Init, Channel!Init, CalleeOver, Over
<1>2. RInv /\ [Next]_vars => [Channel!Next]_(Channel!vars)
  BY RInvNext DEF Step, Channel!vars
<1> QED
  BY <1>1, <1>2, RInvInit, RInvNext, PTL DEF Spec, ImplementsOneAtATime, Channel!Spec
=============================================================================
