------------------------------ MODULE IceAgents -----------------------------
(***************************************************************************)
(* Two agents that check the same pairs: each with its check list, its     *)
(* STUN server (CNATFWSTUNSrvImpl) and the callbacks of its STUN client,   *)
(* and the network between.                                                *)
(***************************************************************************)
EXTENDS IceCheckList

CONSTANTS
    TieBreaker,     \* of each agent, never the same
    Setting,        \* what to begin with, see below
    MaxCallbacks    \* bound on the completions that wait at once

\* The roles the agents begin in, the pairs on which nothing arrives, and the
\* agents whose callbacks other events may overtake
ASSUME AgentsAssumption ==
    /\ TieBreaker \in [Agent -> Nat]
    /\ \A x, y \in Agent : TieBreaker[x] = TieBreaker[y] => x = y
    /\ Setting \subseteq [ role : [Agent -> Role], broken : SUBSET Pair,
                           delayed : SUBSET Agent ]

VARIABLES
    setting,    \* one of Setting; never changes
    agents,     \* the agents
    served,     \* the role each one's STUN server knows
    callbacks,  \* completions the STUN client has still to call back
    buffered    \* iBufferedChecks

vars == <<setting, agents, served, callbacks, buffered>>

Init ==
    /\ setting \in Setting
    /\ agents = [x \in Agent |-> NewAgent(x, setting.role[x])]
    /\ served = setting.role
    /\ callbacks = [x \in Agent |-> <<>>]
    /\ buffered = [x \in Agent |-> <<>>]

-----------------------------------------------------------------------------
\* PerformConnectivityChecksL, UpdateStunServerParamsL and
\* ExecuteBufferedTriggeredChecksL
Start(x) ==
    /\ agents[x].list = "Idle"
    /\ agents' = [agents EXCEPT ![x] =
          FoldLeft(LAMBDA a, r : STUNRequestReceived(a, r.pair, r.favored),
                  StartPerformChecks(agents[x]), buffered[x])]
    /\ served' = [served EXCEPT ![x] = agents[x].role]
    /\ buffered' = [buffered EXCEPT ![x] = <<>>]
    /\ UNCHANGED <<setting, callbacks>>

\* Callbacks come first, unless they are delayed.
Free(x) == x \in setting.delayed \/ callbacks[x] = <<>>

Timer(x) ==
    /\ agents[x].timer /\ Free(x)
    /\ agents' = [agents EXCEPT ![x] = TimerFired(@)]
    /\ UNCHANGED <<setting, served, callbacks, buffered>>

\* STUNBindingEventOccurredL, STUNBindingErrorOccurred
Callback(x) ==
    /\ callbacks[x] # <<>>
    /\ agents' = [agents EXCEPT ![x] = ConnCheckCompleted(@, Head(callbacks[x]).pair,
                                                          Head(callbacks[x]).outcome)]
    /\ callbacks' = [callbacks EXCEPT ![x] = Tail(@)]
    /\ UNCHANGED <<setting, served, buffered>>

\* The binding has an outcome, and the STUN client will call back.  After a
\* time-out it has no server any more (RemoveAddress).
Resolved(x, p, outcome) ==
    /\ Free(x)
    /\ Len(callbacks[x]) < MaxCallbacks
    /\ agents' = [agents EXCEPT ![x].request[p].awaited = FALSE,
                                ![x].resolved[p] = outcome = "ok",
                                ![x].server = @ /\ outcome # "timedOut"]
    /\ callbacks' = [callbacks EXCEPT ![x] = Append(@, [pair |-> p, outcome |-> outcome])]
    /\ UNCHANGED <<setting, served, buffered>>

Respond(x, p) ==
    /\ agents[x].request[p].awaited /\ agents[x].request[p].answer # "none"
    /\ Resolved(x, p, agents[x].request[p].answer)

TimeOut(x, p) ==
    /\ agents[x].request[p].awaited /\ p \in setting.broken
    /\ Resolved(x, p, "timedOut")

\* Mutant of RoleConflict: who is asked gives way
RoleConflictNever(y, r) == FALSE

\* IsRoleConflictPresent, when it returns ETrue
RoleConflict(y, r) ==
    /\ r.role = served[y]
    /\ (TieBreaker[y] > TieBreaker[Peer(y)]) <=> (r.role = "controlling")

\* IncomingMessageL of the peer's server: the role may change there, the
\* response, and STUNRequestReceivedL, which waits for the checks to start
Serve(x, p) ==
    LET y == Peer(x)
        r == agents[x].request[p]
        role == IF r.role = served[y] THEN Other(served[y]) ELSE served[y]
        asked == [agents EXCEPT ![x].request[p] = [@ EXCEPT !.served = TRUE, !.answer = "ok"]]
        a == IF r.role = served[y] THEN RoleChangeNeeded(asked[y], role) ELSE asked[y]
    IN  /\ Free(y) /\ ~r.served /\ p \notin setting.broken
        /\ \/ /\ RoleConflict(y, r)
              /\ agents' = [agents EXCEPT ![x].request[p] = [@ EXCEPT !.served = TRUE,
                                                                      !.answer = "487"]]
              /\ UNCHANGED <<setting, served, buffered>>
           \/ /\ ~RoleConflict(y, r)
              /\ served' = [served EXCEPT ![y] = role]
              /\ \/ /\ a.list = "Idle"
                    /\ agents' = [asked EXCEPT ![y] = a]
                    /\ buffered' = [buffered EXCEPT ![y] =
                                       Append(@, [pair |-> p, favored |-> r.favored])]
                 \/ /\ a.list # "Idle"
                    /\ agents' = [asked EXCEPT ![y] = STUNRequestReceived(a, p, r.favored)]
                    /\ UNCHANGED buffered
        /\ UNCHANGED <<setting, callbacks>>

Next ==
    \E x \in Agent :
       \/ Start(x) \/ Timer(x) \/ Callback(x)
       \/ \E p \in Pair : Respond(x, p) \/ TimeOut(x, p) \/ Serve(x, p)

\* Each agent's thread runs and the network delivers: a request reaches the
\* peer, and a binding that goes on awaiting an answer has an outcome.  Nothing
\* keeps a check of the peer from cancelling it before that.
Fairness ==
    \A x \in Agent :
       /\ WF_vars(Start(x) \/ Timer(x) \/ Callback(x))
       /\ \A p \in Pair :
             WF_vars(Respond(x, p) \/ TimeOut(x, p)) /\ WF_vars(Serve(x, p))

Spec == Init /\ [][Next]_vars /\ Fairness

-----------------------------------------------------------------------------
(* Properties *)

\* Types; no pair is queued twice (EnqueueCheckL); the client is told of pairs if
\* and only if the list has completed.
TypeOK ==
    /\ agents \in [Agent -> AgentType]
    /\ served \in [Agent -> Role]
    /\ \A x \in Agent :
          /\ IsInjective([i \in DOMAIN agents[x].que |-> agents[x].que[i].pair])
          /\ \A i \in DOMAIN callbacks[x] :
                callbacks[x][i] \in [pair : Pair, outcome : {"ok", "487", "timedOut"}]
          /\ \A i \in DOMAIN buffered[x] : buffered[x][i] \in [pair : Pair, favored : BOOLEAN]
          /\ agents[x].list = "Completed" <=> agents[x].told # {}

\* In a running list whatever is left to do has something that will do it: the
\* timer for what is queued, waiting or frozen, and for a check in progress its
\* binding, its completion or its place in the queue - whatever cancels, role
\* conflicts and time-outs came in between.
NeverStranded ==
    \A x \in Agent : agents[x].list = "Running" =>
       /\ agents[x].que # <<>> \/ InState(agents[x], {"Waiting", "Frozen"}) # {} => agents[x].timer
       /\ \A p \in InState(agents[x], {"InProgress"}) :
             \/ agents[x].request[p].awaited
             \/ \E i \in DOMAIN callbacks[x] : callbacks[x][i].pair = p
             \/ \E i \in DOMAIN agents[x].que : agents[x].que[i].pair = p

\* When both lists have completed, one agent is controlling and one controlled,
\* also if both began in the same role and each changed by the other's 487 or
\* its own server.
RolesDiffer ==
    \A x, y \in Agent :
       x # y /\ agents[x].list = "Completed" /\ agents[y].list = "Completed" =>
          agents[x].role # agents[y].role

\* A controlled agent completes only with a pair that its peer has nominated,
\* however the nominations cross its own checks and their cancels.
NominatedByPeer ==
    \A x \in Agent :
       agents[x].list = "Completed" /\ agents[x].role = "controlled" =>
          \A p \in agents[x].told : agents[Peer(x)].checks[p].nominated

\* A request of the peer cancels the own one for the pair before its answer
\* (HandleTriggeredCheckL); no binding has an outcome in the step.
CancelledByPeer(x, p) ==
    /\ agents[x].request[p].awaited /\ ~agents'[x].request[p].awaited
    /\ UNCHANGED callbacks

\* If the roles differ from the beginning, the network works and callbacks come
\* first, both agents complete - unless on one pair the requests of both go on
\* cancelling each other for ever.  That they can: a cancelled transaction
\* takes no answer (CancelCheck), and the timers of both send again in the same
\* time.  Nothing else keeps them: not one agent's cancels alone, nor cancels
\* of each on another pair.
Ends ==
    (\E x, y \in Agent : setting.role[x] # setting.role[y])
    /\ setting.broken = {} /\ setting.delayed = {}
       => \/ \A x \in Agent : <>(agents[x].list = "Completed")
          \/ \E p \in Pair : \A x \in Agent : []<><<CancelledByPeer(x, p)>>_vars
=============================================================================
