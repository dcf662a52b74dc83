---------------------------- MODULE RaftCluster ----------------------------
(***************************************************************************)
(* The cluster of servers with what reaches it from outside: requests of   *)
(* the clients and orders of the controller, each a bounded number of      *)
(* times.  Which request or order comes when is left open.  A client sends *)
(* its commands to a server that has made itself known as leader, hence    *)
(* one that may be elected; it may no longer lead, and the client may send *)
(* a command again, as it does after its timeout.  Answers to clients and  *)
(* controller stay in their channels, as a record of what they were told.  *)
(***************************************************************************)
EXTENDS ServerProperties

CONSTANTS MaxRequests,    \* bound: requests the clients send
          RequestKinds,   \* among "NEW_LOG_ENTRY", "SEARCH_LEADER"
          MaxOrders,      \* bound: orders the controller sends
          OrderKinds,     \* the orders it sends, among ServerOrders
          OrderTargets    \* the servers it sends them to

ASSUME ClusterAssumption ==
    /\ MaxRequests \in Nat
    /\ RequestKinds \subseteq {"NEW_LOG_ENTRY", "SEARCH_LEADER"}
    /\ MaxOrders \in Nat
    /\ OrderKinds \subseteq ServerOrders
    /\ OrderTargets \subseteq Servers

VARIABLES requests,       \* how many requests were sent
          orders          \* how many orders were sent

vars == <<serverVars, requests, orders>>

Init == ServerInit /\ requests = 0 /\ orders = 0

\* A client sends m to server s.
Request(c, s, m) ==
    /\ active = Nobody
    /\ requests < MaxRequests
    /\ s \notin Ended
    /\ m.type \in RequestKinds
    /\ requests' = requests + 1
    /\ channel' = SendMessage(channel, c, s, m, Ended)
    /\ UNCHANGED <<stateVars, updateVars, orders>>

\* The controller gives s an order.  Timing out a server is reserved to the
\* servers that may start an election.
Order(s, kind) ==
    /\ active = Nobody
    /\ orders < MaxOrders
    /\ s \notin Ended
    /\ kind \in OrderKinds
    /\ s \in OrderTargets
    /\ kind = "SERVER_TIMEOUT" => s \in Electable
    /\ orders' = orders + 1
    /\ channel' = SendMessage(channel, Controller, s, Message(kind, << >>), Ended)
    /\ UNCHANGED <<stateVars, updateVars, requests>>

Environment ==
    \/ \E c \in Clients, s \in Electable, v \in Commands : Request(c, s, NewLogEntry(v))
    \/ \E c \in Clients, s \in Servers : Request(c, s, SearchLeader)
    \/ \E s \in Servers, kind \in ServerOrders : Order(s, kind)

Next ==
    \/ \E s \in Servers : ServerStep(s) /\ UNCHANGED <<requests, orders>>
    \/ Environment

Spec == Init /\ [][Next]_vars

----------------------------------------------------------------------------
(* Fairness.  A running server runs update() for ever, and MPI delivers    *)
(* what it was given: again and again an update receives all that was sent *)
(* to its server.  A clock keeps running, so if it can run out in          *)
(* infinitely many updates of its server, in some it has.  Entries that    *)
(* are sent again and again are not garbled every time.                    *)

Does(step) == step /\ UNCHANGED <<requests, orders>>

ReceivedAll(s) == BeginHandling(s) /\ \A p \in Ranks : channel[p][s] = << >>

ReceivedEntries(s) ==
    /\ \E p \in Peers(s) :
          /\ Receive(s, p)
          /\ channel'[p][s] = << >>
          /\ \E i \in 1 .. Len(channel[p][s]) : channel[p][s][i].type = "APPEND_ENTRIES"
    /\ UNCHANGED serverState

Fairness ==
    /\ \A s \in Servers :
          /\ []<>(s \in Ended) \/ []<><<Does(ReceivedAll(s))>>_vars
          /\ SF_vars(Does(ReceivedEntries(s)))
    /\ \A s \in Electable :
          /\ SF_vars(Does(FollowerTimesOut(s)))
          /\ SF_vars(Does(CandidateTimesOut(s)))
          /\ SF_vars(Does(LeaderBeats(s)))

FairSpec == Spec /\ Fairness

----------------------------------------------------------------------------
\* Every variable has its type; in particular a server never reads past the
\* end of its batch.
TypeOK ==
    /\ StateTypeOK
    /\ requests \in 0 .. MaxRequests
    /\ orders \in 0 .. MaxOrders
=============================================================================
