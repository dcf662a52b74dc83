---------------------------- MODULE ClusterProofs ----------------------------
(***************************************************************************)
(* The theorems about the cluster: the lemmas about the servers' steps     *)
(* hold of RaftCluster, because what reaches the servers from outside are   *)
(* well-typed requests of clients and orders of the controller, never      *)
(* entries.                                                                *)
(***************************************************************************)
EXTENDS RaftCluster, ExchangeProofs

ClusterVarsTypeOK ==
    /\ requests \in 0 .. MaxRequests
    /\ orders \in 0 .. MaxOrders

\* The servers that may be crashed.
Crashable == IF "PROCESS_CRASH" \in OrderKinds THEN OrderTargets ELSE {}

\* What the environment sends.
LEMMA EnvironmentSends ==
    ASSUME Environment
    PROVE  /\ UNCHANGED <<stateVars, updateVars>>
           /\ \E src \in Ranks, s \in Servers, m \in RPC :
                 /\ channel' = SendMessage(channel, src, s, m, Ended)
                 /\ src \notin Servers /\ Quiet(m, src) /\ FromOutside(Crashable, m, s)
           /\ ClusterVarsTypeOK => ClusterVarsTypeOK'
<1>1. ASSUME NEW c \in Clients, NEW s \in Servers, NEW m \in RPC,
             m.type \in {"NEW_LOG_ENTRY", "SEARCH_LEADER"}, m.term = -1, Request(c, s, m)
      PROVE  /\ UNCHANGED <<stateVars, updateVars>>
             /\ \E src \in Ranks, d \in Servers, n \in RPC :
                   /\ channel' = SendMessage(channel, src, d, n, Ended)
                   /\ src \notin Servers /\ Quiet(n, src) /\ FromOutside(Crashable, n, d)
             /\ ClusterVarsTypeOK => ClusterVarsTypeOK'
  <2>1. /\ c \in Ranks /\ c \notin Servers
        /\ channel' = SendMessage(channel, c, s, m, Ended)
        /\ Quiet(m, c) /\ FromOutside(Crashable, m, s)
    BY <1>1, ClientFacts, NeutralGood DEF Request, Quiet, FromOutside, IsCrash
  <2>2. ClusterVarsTypeOK => ClusterVarsTypeOK'
    BY <1>1, ClusterAssumption DEF Request, ClusterVarsTypeOK
  <2> QED BY <1>1, <2>1, <2>2 DEF Request
<1>2. ASSUME NEW s \in Servers, NEW kind \in ServerOrders, Order(s, kind)
      PROVE  /\ UNCHANGED <<stateVars, updateVars>>
             /\ \E src \in Ranks, d \in Servers, n \in RPC :
                   /\ channel' = SendMessage(channel, src, d, n, Ended)
                   /\ src \notin Servers /\ Quiet(n, src) /\ FromOutside(Crashable, n, d)
             /\ ClusterVarsTypeOK => ClusterVarsTypeOK'
  <2>1. Message(kind, << >>) \in RPC /\ Quiet(Message(kind, << >>), Controller)
    BY EmptySeq, RpcFacts DEF Message, Quiet
  <2>2. FromOutside(Crashable, Message(kind, << >>), s)
    BY <1>2 DEF Order, Crashable, FromOutside, IsCrash, GoodFor, Message
  <2>3. ClusterVarsTypeOK => ClusterVarsTypeOK'
    BY <1>2, ClusterAssumption DEF Order, ClusterVarsTypeOK
  <2>4. Controller \in Ranks /\ Controller \notin Servers
    BY RanksFacts DEF Controller, Nobody
  <2> QED BY <1>2, <2>1, <2>2, <2>3, <2>4 DEF Order
<1>3. \A v \in Commands : /\ NewLogEntry(v) \in RPC /\ NewLogEntry(v).type = "NEW_LOG_ENTRY"
                          /\ NewLogEntry(v).term = -1
  BY RpcFacts DEF NewLogEntry
<1>4. SearchLeader \in RPC /\ SearchLeader.type = "SEARCH_LEADER" /\ SearchLeader.term = -1
  BY RpcFacts DEF SearchLeader
<1> QED BY <1>1, <1>2, <1>3, <1>4, ServerAssumption DEF Environment

\* To the servers, a step of the cluster is one of theirs or a message from
\* outside.
LEMMA NextIsTurn ==
    ASSUME ChannelTypeOK, [Next]_vars
    PROVE  OutsideMove(Crashable) \/ ServerMove
<1>1. CASE Environment
  <2>1. UNCHANGED <<serverState, active, phase, batch, done, aborted>>
    BY <1>1, EnvironmentSends DEF stateVars, dataVars, serverState, updateVars, endVars
  <2>2. OutsideChannels /\ OnlyFromOutside(Crashable)
    BY <1>1, EnvironmentSends, SentFromOutside
  <2> QED BY <2>1, <2>2 DEF OutsideMove
<1>2. CASE UNCHANGED vars
  <2>1. UNCHANGED <<serverState, channel, active, phase, batch, done, aborted>>
    BY <1>2 DEF vars, serverVars, stateVars, dataVars, serverState, updateVars, endVars
  <2>2. OutsideChannels /\ OnlyFromOutside(Crashable)
    BY <2>1, NothingSent
  <2> QED BY <2>1, <2>2 DEF OutsideMove
<1> QED BY <1>1, <1>2 DEF Next, ServerMove

----------------------------------------------------------------------------
(* Types. *)

LEMMA TypeStep == TypeOK /\ [Next]_vars => TypeOK'
<1> SUFFICES ASSUME TypeOK, [Next]_vars PROVE TypeOK'
  OBVIOUS
<1>1. CASE \E s \in Servers : ServerStep(s) /\ UNCHANGED <<requests, orders>>
  BY <1>1, ServerStepTypes DEF TypeOK
<1>2. CASE Environment
  <2>1. PICK src \in Ranks, s \in Servers, m \in RPC :
           channel' = SendMessage(channel, src, s, m, Ended)
    BY <1>2, EnvironmentSends
  <2>2. ChannelTypeOK'
    BY <2>1, SendMessageFacts, RanksFacts DEF TypeOK, StateTypeOK, ChannelTypeOK, Channels
  <2>3. StateTypeOK'
    BY <1>2, <2>2, EnvironmentSends, TypeFrames DEF TypeOK, StateTypeOK, stateVars, dataVars
  <2> QED BY <1>2, <2>3, EnvironmentSends DEF TypeOK, ClusterVarsTypeOK
<1>3. CASE UNCHANGED vars
  BY <1>3, TypeFrames DEF TypeOK, StateTypeOK, vars, serverVars, stateVars, dataVars
<1> QED BY <1>1, <1>2, <1>3 DEF Next

\* Type correctness: whatever is sent, resent, garbled, ordered or crashed,
\* every variable of server.cpp keeps its type, and no update ever reads past
\* the end of the batch it received (handle_queries, leader_routine).
THEOREM TypeCorrect == Spec => []TypeOK
<1>1. Init => TypeOK
  BY TypeInit, ClusterAssumption DEF Init, TypeOK
<1>2. TypeOK /\ [Next]_vars => TypeOK'
  BY TypeStep
<1> QED BY <1>1, <1>2, PTL DEF Spec

----------------------------------------------------------------------------
(* One server may be elected. *)

LEMMA NextIsAnyStep ==
    ASSUME NEW l \in Servers, Electable = {l}, ChannelTypeOK, [Next]_vars
    PROVE  AnyStep(l) /\ TakesStep
BY NextIsTurn, OutsideIsTurn

LEMMA ClusterInv ==
    ASSUME NEW l \in Servers, Electable = {l}
    PROVE  /\ Init => LeaderInv(l)
           /\ LeaderInv(l) /\ TypeOK /\ TypeOK' /\ [Next]_vars => LeaderInv(l)'
<1>1. Init => LeaderInv(l)
  BY LeaderInvInductive DEF Init
<1>2. ASSUME LeaderInv(l), TypeOK, TypeOK', [Next]_vars PROVE LeaderInv(l)'
  BY <1>2, NextIsAnyStep, LeaderInvInductive DEF TypeOK, StateTypeOK
<1> QED BY <1>1, <1>2

\* While one server only may be elected, every server's log is a beginning of
\* that server's, whatever was resent, garbled, answered late or lost in a
\* crash (leader_routine, handle_new_entries).
THEOREM LogsFollowLeader ==
    ASSUME NEW l \in Servers, Electable = {l}
    PROVE  Spec => []PrefixOfLeader
BY ClusterInv, TypeCorrect, LeaderInvImplies, PTL DEF Spec

----------------------------------------------------------------------------
(* One server may be elected: the order of the entries under way. *)

LEMMA ClusterOrder ==
    ASSUME NEW l \in Servers, Electable = {l}
    PROVE  /\ Init => OrderInv(l)
           /\ OrderInv(l) /\ TypeOK /\ TypeOK' /\ [Next]_vars =>
                 /\ OrderInv(l)'
                 /\ [\A s \in Servers : IsPrefixOf(server_log[s], server_log'[s])]_serverVars
                 /\ [\A s \in Servers :
                        /\ commit_index[s] <= commit_index'[s]
                        /\ \A i \in 0 .. commit_index[s] : TermAt(s, i)' = TermAt(s, i)]_serverVars
<1>1. Init => OrderInv(l)
  BY OrderInvInit DEF Init
<1>2. ASSUME OrderInv(l), TypeOK, TypeOK', [Next]_vars
      PROVE  /\ OrderInv(l)'
             /\ \A s \in Servers : IsPrefixOf(server_log[s], server_log'[s])
             /\ \A s \in Servers :
                   /\ commit_index[s] <= commit_index'[s]
                   /\ \A i \in 0 .. commit_index[s] : TermAt(s, i)' = TermAt(s, i)
  <2>1. StateTypeOK' /\ AnyStep(l) /\ TakesStep
    BY <1>2, NextIsAnyStep DEF TypeOK, StateTypeOK
  <2>2. /\ OrderInv(l)'
        /\ \A s \in Servers : IsPrefixOf(server_log[s], server_log'[s])
    BY <1>2, <2>1, OrderInvStep
  <2> QED BY <1>2, <2>1, <2>2, CommittedFacts
<1> QED BY <1>1, <1>2

\* No log ever shrinks or changes but at its end: the entries of an older
\* APPEND_ENTRIES, or of one sent again, never undo those of a later one,
\* however long they were under way (handle_new_entries, leader_routine).
THEOREM LogsNeverShrink ==
    ASSUME NEW l \in Servers, Electable = {l}
    PROVE  Spec => LogsOnlyGrow
BY ClusterOrder, TypeCorrect, PTL DEF Spec, LogsOnlyGrow

\* The commit index points into the log and is never behind what was applied,
\* so that the apply loop reads no entry that is not there (handle_queries,
\* the heartbeat handler, handle_new_entries).
THEOREM CommitStaysInside ==
    ASSUME NEW l \in Servers, Electable = {l}
    PROVE  Spec => []CommitWithinLog
<1>1. OrderInv(l) => CommitWithinLog
  BY DEF OrderInv
<1> QED BY <1>1, ClusterOrder, TypeCorrect, PTL DEF Spec

\* What a server has committed is committed for good: its commit index never
\* falls and the entries up to it are never replaced (handle_new_entries, the
\* heartbeat handler, leader_routine).
THEOREM CommittedForGood ==
    ASSUME NEW l \in Servers, Electable = {l}
    PROVE  Spec => CommittedStays
BY ClusterOrder, TypeCorrect, PTL DEF Spec, CommittedStays

\* The file of every server holds commands it applied from the leader's log, in
\* their order and none twice, and all of them if it never fails to open, after
\* crashes and recoveries too (handle_queries, the apply loop; handle_message).
THEOREM FilesFollow ==
    ASSUME NEW l \in Servers, Electable = {l}
    PROVE  Spec => []FilesFollowLeader
<1>1. Init => FilesInv(l)
  BY FilesInit DEF Init
<1>2. FilesInv(l) /\ OrderInv(l) /\ TypeOK /\ TypeOK' /\ [Next]_vars => FilesInv(l)'
  BY NextIsAnyStep, FilesStep DEF TypeOK, StateTypeOK
<1>3. FilesInv(l) => FilesFollowLeader
  BY FilesInvImplies
<1> QED BY <1>1, <1>2, <1>3, ClusterOrder, TypeCorrect, PTL DEF Spec

\* The servers implement the replicated log, the commands of the leader's log
\* being the log: an append of the leader is an Accept, a turn of the apply loop
\* an Apply, written to the file unless that is one that may fail; every other
\* step of any server, of a client or of the controller changes nothing.
THEOREM Refinement ==
    ASSUME NEW l \in Servers, Electable = {l}
    PROVE  Spec => ImplementsReplicatedLog
<1>1. Init => Promise!Init
  BY RefinementStep DEF Init
<1>2. OrderInv(l) /\ TypeOK /\ [Next]_vars
         => [Promise!Next]_<<CommandsOf(server_log[TheLeader]), AppliedCount, log_file>>
  BY NextIsAnyStep, RefinementStep DEF TypeOK, StateTypeOK
<1> QED BY <1>1, <1>2, ClusterOrder, TypeCorrect, PTL
        DEF Spec, ImplementsReplicatedLog, Promise!Spec

----------------------------------------------------------------------------
(* Any number of servers may be elected. *)

\* However many servers may be elected: a DEAD server keeps its log, term and
\* vote and sends to nobody but the controller until it is recovered, whatever
\* it still receives (README.md:63; handle_queries, update).
THEOREM DeadTakeNoPart == Spec => DeadIsSilent
<1>1. Init => SilenceInv
  BY SilenceInit DEF Init
<1>2. SilenceInv /\ TypeOK /\ TypeOK' /\ [Next]_vars =>
         /\ SilenceInv'
         /\ [\A s \in Servers : status[s] = "DEAD" =>
                \/ Ordered(s, {"PROCESS_RECOVER"})
                \/ /\ UNCHANGED <<status[s], server_log[s], commit_index[s],
                                  current_term[s], voted_for[s]>>
                   /\ \A d \in Ranks \ {Controller} :
                         Len(channel'[s][d]) <= Len(channel[s][d])]_serverVars
  BY NextIsTurn, OutsideIsTurn, SilenceKept DEF TypeOK, StateTypeOK
<1> QED BY <1>1, <1>2, TypeCorrect, PTL DEF Spec, DeadIsSilent

----------------------------------------------------------------------------
(* No server is crashed. *)

\* However many servers may be elected, and however long the entries of an old
\* leader are under way: as long as no server is crashed, the terms along a
\* log never fall, and no entry has a term its server has not reached
\* (handle_new_entries, leader_routine).
THEOREM LogTermsNeverFall ==
    ASSUME "PROCESS_CRASH" \notin OrderKinds
    PROVE  Spec => []LogTermsOrdered
<1>1. Init => TermInv
  BY TermInit DEF Init
<1>2. TermInv /\ TypeOK /\ TypeOK' /\ [Next]_vars => TermInv'
  BY NextIsTurn, OutsideIsTurn, TermStep DEF Crashable, TypeOK, StateTypeOK
<1>3. TermInv => LogTermsOrdered
  BY DEF TermInv
<1> QED BY <1>1, <1>2, <1>3, TypeCorrect, PTL DEF Spec

----------------------------------------------------------------------------
(* One server may be elected, and it is not crashed. *)

\* While one server only may be elected and it is not crashed, which would
\* clear its queue but not its log, the front of its queue is the request of
\* the entry it applies next: every acknowledgement is for the client that
\* asked for that entry, whatever the others lose in crashes (leader_routine,
\* the apply loop of handle_queries).
THEOREM AcksMatch ==
    ASSUME NEW l \in Servers, Electable = {l},
           l \notin OrderTargets \/ "PROCESS_CRASH" \notin OrderKinds
    PROVE  Spec => []AckMatchesEntry
<1>1. Init => QueueInv(l)
  BY QueueInvInit DEF Init
<1>2. ASSUME QueueInv(l), TypeOK, TypeOK', [Next]_vars PROVE QueueInv(l)'
  <2>1. StateTypeOK' /\ AnyStep(l) /\ TakesStep /\ MildTurn(l)
    BY <1>2, NextIsTurn, OutsideIsTurn DEF Crashable, TypeOK, StateTypeOK
  <2> QED BY <1>2, <2>1, QueueInvStep
<1>3. QueueInv(l) => AckMatchesEntry
  BY QueueInvImplies
<1> QED BY <1>1, <1>2, <1>3, TypeCorrect, PTL DEF Spec

----------------------------------------------------------------------------
(* One server may be elected, it is not crashed, and it has one exchange   *)
(* with each follower under way.                                           *)

LEMMA ClusterCount ==
    ASSUME NEW l \in Servers, Electable = {l}, MaxInFlight = 1,
           l \notin OrderTargets \/ "PROCESS_CRASH" \notin OrderKinds
    PROVE  /\ Init => CountInv(l)
           /\ CountInv(l) /\ TypeOK /\ TypeOK' /\ [Next]_vars => CountInv(l)'
<1>1. Init => CountInv(l)
  BY CountInvInit DEF Init
<1>2. l \notin Crashable
  BY DEF Crashable
<1>3. ASSUME CountInv(l), TypeOK, TypeOK', [Next]_vars PROVE CountInv(l)'
  BY <1>2, <1>3, NextIsTurn, CountInvTurn DEF TypeOK, StateTypeOK
<1> QED BY <1>1, <1>3

\* As long as the leader is answered before it sends the next entries, it
\* counts no answer for entries the follower does not have: what it believes
\* replicated is in the follower's log, also when requests were garbled or the
\* follower is down and answers none of them (server.hpp:105; leader_routine).
THEOREM MatchesAreReplicated ==
    ASSUME NEW l \in Servers, Electable = {l}, MaxInFlight = 1,
           l \notin OrderTargets \/ "PROCESS_CRASH" \notin OrderKinds
    PROVE  Spec => []MatchIsReplicated
<1>1. CountInv(l) => MatchIsReplicated
  BY CountInvImplies
<1> QED BY <1>1, ClusterCount, TypeCorrect, PTL DEF Spec

\* In the same regime what any server takes for committed is on a majority of
\* the servers: the leader commits only what it counted there, and the others
\* only learn from it (server.cpp:231; leader_routine, the heartbeat handler,
\* handle_new_entries).
THEOREM CommittedHeldByMajority ==
    ASSUME NEW l \in Servers, Electable = {l}, MaxInFlight = 1,
           l \notin OrderTargets \/ "PROCESS_CRASH" \notin OrderKinds
    PROVE  Spec => []CommittedOnMajority
<1>1. CountInv(l) => CommittedOnMajority
  BY CountInvImplies
<1> QED BY <1>1, ClusterCount, TypeCorrect, PTL DEF Spec

\* In the same regime no server of two or more ends by an exception or reads
\* outside an array: the vectors handle_vote_request and leader_routine index
\* and the queue the apply loop pops always have what they look for.
THEOREM NothingAborts ==
    ASSUME NEW l \in Servers, Electable = {l}, MaxInFlight = 1, NServers >= 2,
           l \notin OrderTargets \/ "PROCESS_CRASH" \notin OrderKinds
    PROVE  Spec => []NoAbort
<1>1. Init => NoAbort
  BY DEF Init, ServerInit, ProcessInit, NoAbort
<1>2. ASSUME CountInv(l), NoAbort, [Next]_vars PROVE NoAbort'
  <2>1. UNCHANGED aborted
    <3>1. CASE Environment
      BY <3>1, EnvironmentSends DEF stateVars, dataVars, endVars
    <3>2. CASE UNCHANGED vars
      BY <3>2 DEF vars, serverVars, stateVars, dataVars, endVars
    <3>3. CASE \E s \in Servers : ServerStep(s) /\ UNCHANGED <<requests, orders>>
      BY <1>2, <3>3, NoServerAborts
    <3> QED BY <1>2, <3>1, <3>2, <3>3 DEF Next
  <2> QED BY <1>2, <2>1 DEF NoAbort
<1> QED BY <1>1, <1>2, ClusterCount, TypeCorrect, PTL DEF Spec
=============================================================================
