---------------------------- MODULE IceCheckList ----------------------------
(***************************************************************************)
(* CIceCheckList with its checks (CIceConnectivityCheck), its valid list   *)
(* (CIceValidList) and the STUN bindings under them, for one component: a  *)
(* call is an operator from the agent before it to the agent after it.     *)
(*                                                                         *)
(* A pair is a local and a remote candidate.  Candidates are known on both *)
(* sides and no NAT is between, so that the two agents see the same pairs; *)
(* connections of the multiplexer are active at once.                      *)
(***************************************************************************)
EXTENDS Integers, Sequences, SequencesExt

CONSTANTS
    Agent,      \* two of them
    Pair,
    Foundation,         \* of each pair
    CandidatePriority,  \* of each agent's candidate in each pair
    Modulus             \* the numbers a TUint can hold; 2^32 in the code

ASSUME IceAssumption ==
    /\ \E x, y \in Agent : x # y /\ Agent = {x, y}
    /\ Modulus \in Nat \ {0} /\ Modulus % 2 = 0
    /\ CandidatePriority \in [Agent -> [Pair -> 0 .. Modulus - 1]]

\* The other one
Peer(x) == CHOOSE y \in Agent : y # x

Role == {"controlling", "controlled"}
Other(role) == CHOOSE r \in Role : r # role

\* "Removed": not, or no more, in iChecks
CheckState == {"Removed", "Frozen", "Waiting", "InProgress", "Succeed", "Failed"}

Check ==
    [ state     : CheckState,
      triggered : BOOLEAN,      \* iType
      favored   : BOOLEAN,      \* iRemoteFavored
      nominated : BOOLEAN,      \* iIsNominated
      resend    : BOOLEAN ]     \* iResendInProgress

\* The request of a binding and what became of it.  One that was cancelled is
\* no more awaited but may still be served.
Request ==
    [ role : Role, favored : BOOLEAN, awaited : BOOLEAN, served : BOOLEAN,
      answer : {"none", "ok", "487"} ]

NoRequest ==
    [ role |-> "controlled", favored |-> FALSE, awaited |-> FALSE, served |-> TRUE,
      answer |-> "none" ]

NewCheck(state) ==
    [ state |-> state, triggered |-> FALSE, favored |-> FALSE, nominated |-> FALSE,
      resend |-> FALSE ]

AgentType ==
    [ name : Agent, role : Role,
      list : {"Idle", "Running", "Completed", "Failed"},
      checks : [Pair -> Check],
      request : [Pair -> Request],
      resolved : [Pair -> BOOLEAN],     \* the binding knows its address
      server : BOOLEAN,                 \* the client has a server
      valid : SUBSET [pair : Pair, priority : Nat, selected : BOOLEAN],  \* iValidList
      que : Seq([pair : Pair, nomination : BOOLEAN]),   \* iTriggeredCheckQue
      timer : BOOLEAN,
      told : SUBSET Pair ]              \* given to the client as selected

NewAgent(x, role) ==
    [ name |-> x, role |-> role, list |-> "Idle",
      checks |-> [p \in Pair |-> NewCheck("Frozen")],
      request |-> [p \in Pair |-> NoRequest], resolved |-> [p \in Pair |-> FALSE],
      server |-> TRUE, valid |-> {}, que |-> <<>>, timer |-> FALSE, told |-> {} ]

-----------------------------------------------------------------------------
(* Priorities *)

\* "2^32" in the code, which is an exclusive or
K2ToPowerOf32 == 34

PrioritizePair(x, role, p) ==
    LET local  == CandidatePriority[x][p]
        remote == CandidatePriority[Peer(x)][p]
        G == IF role = "controlling" THEN local ELSE remote
        D == IF role = "controlling" THEN remote ELSE local
    IN  IF G > D THEN K2ToPowerOf32 * D + 2 * G + 1 ELSE K2ToPowerOf32 * G + 2 * D

\* static_cast<TInt>
Truncated(n) ==
    LET low == n % Modulus IN IF 2 * low >= Modulus THEN low - Modulus ELSE low

\* ComparePriorities, PriorityOrder: negative, if the first is the greater
ComparePriorities(m, n) == Truncated(n - m)

\* The first of some checks in iChecks, which is sorted
FirstCheck(a, S) ==
    CHOOSE p \in S : \A q \in S \ {p} :
       ComparePriorities(PrioritizePair(a.name, a.role, p),
                         PrioritizePair(a.name, a.role, q)) <= 0

\* The first of some pairs in iValidList
FirstValid(S) ==
    CHOOSE v \in S : \A w \in S \ {v} : ComparePriorities(v.priority, w.priority) <= 0

\* FindCheckInState finds one of these
InState(a, states) == {p \in Pair : a.checks[p].state \in states}
Selected(a) == {v \in a.valid : v.selected}

-----------------------------------------------------------------------------
(* Check list *)

\* Mutants of Enqueue: a duplicate is not noticed, the stopped timer not started
EnqueueTwice(a, p, nomination) ==
    [a EXCEPT !.que = Append(@, [pair |-> p, nomination |-> nomination]), !.timer = TRUE]

EnqueueUntimed(a, p, nomination) ==
    IF \E i \in DOMAIN a.que : a.que[i].pair = p THEN a
    ELSE [a EXCEPT !.que = Append(@, [pair |-> p, nomination |-> nomination])]

\* EnqueueCheckL: a nomination goes before a triggered check of the pair, and
\* no pair is queued twice
Enqueue(a, p, nomination) ==
    LET que == IF nomination THEN RemoveFirstMatch(a.que, LAMBDA i : i.pair = p) ELSE a.que
    IN  IF \E i \in DOMAIN que : que[i].pair = p THEN a
        ELSE [a EXCEPT !.que = Append(que, [pair |-> p, nomination |-> nomination]),
                       !.timer = TRUE]

\* Mutant of SetState: the timer is not started
SetStateUntimed(a, state) ==
    [a EXCEPT !.list = state, !.que = <<>>, !.timer = FALSE,
              !.told = IF state = "Completed" THEN @ \cup {FirstValid(Selected(a)).pair} ELSE @]

\* SetStateL of a state the list is not in
SetState(a, state) ==
    [a EXCEPT !.list = state, !.que = <<>>, !.timer = state = "Running",
              !.told = IF state = "Completed" THEN @ \cup {FirstValid(Selected(a)).pair} ELSE @]

\* RemovePendingChecks of a component that has a selected pair
RemovePendingChecks(a) ==
    [a EXCEPT !.checks = [p \in Pair |-> IF a.checks[p].state \in {"Waiting", "Frozen"}
                                         THEN NewCheck("Removed") ELSE a.checks[p]]]

UpdateCheckListState(a) ==
    IF a.list # "Running" THEN a
    ELSE IF Selected(a) # {} THEN SetState(RemovePendingChecks(a), "Completed")
    ELSE IF InState(a, {"Waiting", "InProgress", "Frozen"}) = {} /\ a.valid = {}
         THEN SetState(a, "Failed")
    ELSE a

\* SetPairNominatedL; it leaves if the pair is not there
CanSelect(a, p) == \E v \in a.valid : v.pair = p
SetPairNominated(a, p) ==
    LET v == FirstValid({w \in a.valid : w.pair = p})
    IN  [a EXCEPT !.valid = (@ \ {v}) \cup {[v EXCEPT !.selected = TRUE]}]

\* AddValidPairL; InsertInOrderL leaves if a pair with the same order is there
CanAdd(a, v) ==
    \A w \in a.valid : w.priority = v.priority \/ ComparePriorities(v.priority, w.priority) # 0
AddValidPair(a, v) ==
    [a EXCEPT !.valid = {w \in @ : w.priority # v.priority} \cup {v}]

\* NominateCandidatePairsL, unless NominationExecuted
Nominate(a) ==
    IF a.role = "controlling" /\ ~\E p \in Pair : a.checks[p].nominated
    THEN Enqueue(a, FirstValid(a.valid).pair, TRUE)
    ELSE a

\* InitializeCheckListL( aFoundation )
Unfreeze(a, foundation) ==
    [a EXCEPT !.checks = [p \in Pair |->
        IF a.checks[p].state = "Frozen" /\ Foundation[p] = foundation
        THEN [a.checks[p] EXCEPT !.state = "Waiting"] ELSE a.checks[p]]]

\* RoleChangeNeeded, RecomputePairPriorities
RoleChangeNeeded(a, role) == [a EXCEPT !.role = role]

\* CheckCompletedL of a check that succeeded, and of one that did not.  A leave
\* skips what follows.
CheckSucceeded(a, p, selected) ==
    LET v == [pair |-> p, selected |-> selected,
              priority |-> PrioritizePair(a.name, a.role, p)]
    IN  IF CanAdd(a, v)
        THEN UpdateCheckListState(Nominate(Unfreeze(AddValidPair(a, v), Foundation[p])))
        ELSE a

CheckFailed(a, p, outcome) ==
    UpdateCheckListState(
       IF outcome = "487" THEN RoleChangeNeeded(Enqueue(a, p, FALSE), Other(a.role)) ELSE a)

-----------------------------------------------------------------------------
(* Checks *)

\* Mutant of Selects: without a look at what the peer said
SelectsTriggered(c) == c.nominated \/ c.triggered

\* CreateValidatedPairL: is the pair that was found selected at once?
Selects(c) == c.nominated \/ (c.triggered /\ c.favored)

\* CancelCheck
Cancel(a, p) == [a EXCEPT !.request[p].awaited = FALSE]

\* ConnCheckCompletedL of the debug build: the assertion leaves, unless the check
\* is in progress
ConnCheckCompleted(a, p, outcome) ==
    LET c == a.checks[p]
        Put(state) == [a EXCEPT !.checks[p] = [@ EXCEPT !.state = state, !.resend = FALSE]]
    IN  IF c.state # "InProgress" THEN a
        ELSE IF outcome # "ok"
             THEN IF c.resend THEN UpdateCheckListState(Put("Failed"))
                  ELSE CheckFailed(Put("Failed"), p, outcome)
        ELSE IF c.resend
             THEN IF CanSelect(a, p) THEN UpdateCheckListState(SetPairNominated(Put("InProgress"), p))
                  ELSE Put("InProgress")
        ELSE CheckSucceeded(Put("Succeed"), p, Selects(c))

\* SendRequestL of the binding: it does nothing while it awaits an answer.
Send(a, p, favored) ==
    IF a.request[p].awaited THEN a
    ELSE [a EXCEPT !.request[p] = [ role |-> a.role, favored |-> favored, awaited |-> TRUE,
                                    served |-> FALSE, answer |-> "none" ]]

\* Whether it leaves: without an address it needs a server, of which a time-out leaves none.
CanSend(a, p) == a.server \/ a.resolved[p] \/ a.request[p].awaited

\* PerformConnCheckL; the state stays if the binding leaves
Perform(a, p, triggered) ==
    LET b == [a EXCEPT !.checks[p].triggered = triggered]
    IN  IF CanSend(a, p) THEN [Send(b, p, FALSE) EXCEPT !.checks[p].state = "InProgress"]
        ELSE b

Initialize(a, p) ==
    [a EXCEPT !.checks[p] = [@ EXCEPT !.state = "Waiting", !.nominated = FALSE, !.resend = FALSE]]

\* PerformNominationL leaves, unless the check succeeded or is in progress.
PerformNomination(a, p) ==
    LET c == [a.checks[p] EXCEPT !.nominated = TRUE]
    IN  CASE c.state = "Succeed" ->
                [Send(a, p, TRUE) EXCEPT !.checks[p] = [c EXCEPT !.resend = TRUE,
                                                                 !.state = "InProgress"]]
          [] c.state = "InProgress" -> [a EXCEPT !.checks[p] = c]
          [] OTHER -> a

\* OnTimerFiredL
TimerFired(a) ==
    IF a.que # <<>>
    THEN LET i == Head(a.que)
             b == [a EXCEPT !.que = Tail(@)]
         IN  IF i.nomination THEN PerformNomination(b, i.pair)
             ELSE IF a.checks[i.pair].state = "Succeed" THEN b
             ELSE Perform(Initialize(b, i.pair), i.pair, TRUE)
    ELSE IF InState(a, {"Waiting"}) # {}
         THEN Perform(a, FirstCheck(a, InState(a, {"Waiting"})), FALSE)
    ELSE IF InState(a, {"Frozen"}) # {}
         THEN LET p == FirstCheck(a, InState(a, {"Frozen"}))
              IN  Perform(Initialize(a, p), p, FALSE)
    ELSE [a EXCEPT !.timer = FALSE]

-----------------------------------------------------------------------------
(* Requests of the peer *)

\* HandleTriggeredCheckL
HandleTriggeredCheck(a, p, favored) ==
    LET b == [a EXCEPT !.checks[p].favored = favored]
        state == a.checks[p].state
    IN  CASE state \in {"Waiting", "Frozen", "Failed"} -> Enqueue(b, p, FALSE)
          [] state = "InProgress" -> IF b.checks[p].nominated THEN b
                                     ELSE Enqueue(Cancel(b, p), p, FALSE)
          [] state = "Succeed" -> IF favored /\ CanSelect(b, p)
                                  THEN UpdateCheckListState(SetPairNominated(b, p)) ELSE b
          [] state = "Removed" ->
                IF \E q \in InState(a, CheckState \ {"Removed"}) :
                      ComparePriorities(PrioritizePair(a.name, a.role, p),
                                        PrioritizePair(a.name, a.role, q)) = 0
                THEN a
                ELSE Enqueue([a EXCEPT !.checks[p] = [NewCheck("Frozen") EXCEPT !.favored = favored],
                                       !.request[p] = NoRequest, !.resolved[p] = FALSE],
                             p, FALSE)

\* STUNRequestReceivedL: a failed list runs again
STUNRequestReceived(a, p, favored) ==
    HandleTriggeredCheck(IF a.list = "Failed" THEN SetState(a, "Running") ELSE a, p, favored)

\* InitializeCheckListL and StartPerformChecksL: of each foundation the last
StartPerformChecks(a) ==
    SetState([a EXCEPT !.checks = [p \in Pair |->
                 NewCheck(IF \E q \in Pair : /\ Foundation[q] = Foundation[p] /\ q # p
                                             /\ FirstCheck(a, {p, q}) = p
                          THEN "Frozen" ELSE "Waiting")]],
             "Running")
=============================================================================
