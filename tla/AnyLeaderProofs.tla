-------------------------- MODULE AnyLeaderProofs ---------------------------
(***************************************************************************)
(* What holds whichever servers may be elected, any number of them and any *)
(* number of terms.                                                        *)
(*                                                                         *)
(* A DEAD server is silent: no query and no routine wakes it up, and what  *)
(* it answers goes to the controller.                                      *)
(*                                                                         *)
(* As long as no server is crashed, which would set its term back to 0,    *)
(* the terms along a log never fall.  LogTermsOrdered is not inductive:    *)
(* entries merged into a log come out of a channel.  The invariant says    *)
(* that what is under way is ordered too, starts no lower than its         *)
(* previous entry and ends no higher than its sender's term.               *)
(***************************************************************************)
EXTENDS OrderProofs

----------------------------------------------------------------------------
(* A DEAD server is silent: the invariant. *)

\* Orders come from the controller.
OrdersFromController ==
    \A p \in Ranks \ {Controller}, d \in Servers : \A i \in 1 .. Len(channel[p][d]) :
        channel[p][d][i].type # "MESSAGE"

\* So do those in the batch of a server; between two updates there is no batch.
BatchFromController ==
    /\ active \in Servers => \A i \in 1 .. Len(batch) :
          batch[i].rpc.type = "MESSAGE" => batch[i].source = Controller
    /\ active = Nobody => batch = << >>

\* Who is in the leader's routine leads.
LeadersLead == active \in Servers /\ phase = "lead" => status[active] = "LEADER"

SilenceInv == OrdersFromController /\ BatchFromController /\ LeadersLead

\* A step of anyone but a server.
OutsideTurn ==
    /\ UNCHANGED serverState
    /\ OutsideChannels
    /\ UNCHANGED <<active, batch>> \/ EndUpdate \/ active' \in Clients
    /\ UNCHANGED <<active, phase>> \/ phase' # "lead"

AnyTurn == OutsideTurn \/ \E s \in Servers : ServerStep(s)

----------------------------------------------------------------------------
(* The control of an update. *)

LEMMA UpdateGoesOn ==
    ASSUME NEW s \in Servers, ServerStep(s), ~StartUpdate(s), ~ReceiveAll(s)
    PROVE  active = s /\ (EndUpdate \/ UNCHANGED <<active, batch>>)
<1>1. CASE ApplyEntry(s) \/ BeginHandling(s)
  BY <1>1 DEF ApplyEntry, BeginHandling, Abort
<1>2. CASE HandleQuery(s)
  BY <1>2 DEF HandleQuery, StepDown, HandleHeartbeat, HandleVoteRequest,
        HandleVoteRequestThrows, HandleAppendEntriesDenied, HandleAppendEntries,
        AnswerSearchLeader, DenyNewLogEntry, PassOver, Handling, Abort, QueryDone, NextQuery
<1>3. CASE HandleMessage(s)
  BY <1>3 DEF HandleMessage, HandleDisplayOrSpeed, HandleStop, HandleCrash,
        HandleRecover, HandleServerTimeout, Ordered, Handling, QueryDone, NextQuery
<1>4. CASE \/ NoRoutine(s) \/ FollowerTimesOut(s) \/ CandidateDefers(s) \/ CandidateWins(s)
           \/ CandidateWaits(s) \/ CandidateTimesOut(s)
  BY <1>4 DEF NoRoutine, FollowerTimesOut, CandidateDefers, CandidateWins, CandidateWaits,
        CandidateTimesOut, CandidateCounts, AllHandled
<1>5. CASE LeaderBeats(s) \/ LeaderSkipsBeat(s)
  BY <1>5 DEF LeaderBeats, LeaderSkipsBeat, AllHandled, Abort
<1>6. CASE \/ LeaderAppends(s) \/ LeaderCountsSuccess(s) \/ LeaderBacksUp(s)
           \/ LeaderPassesOver(s) \/ LeaderCommits(s)
  BY <1>6 DEF LeaderAppends, LeaderCountsSuccess, LeaderBacksUp, LeaderPassesOver,
        LeaderCommits, Leading, QueryDone, NextQuery, Abort
<1> QED BY <1>1, <1>2, <1>3, <1>4, <1>5, <1>6 DEF ServerStep, Routine

\* Only a leader comes to the leader's routine, and it leads until its end.
LEMMA LeadPhase ==
    ASSUME NEW s \in Servers, ServerStep(s), phase' = "lead"
    PROVE  /\ active = s /\ active' = s
           /\ status[s] = "LEADER" \/ phase = "lead"
           /\ UNCHANGED status
<1> USE DEF updateVars, stateVars, electionVars
<1>1. CASE StartUpdate(s) \/ ReceiveAll(s)
  BY <1>1 DEF StartUpdate, Begin, ReceiveAll, Receive, ReceiveGarbled, Drain
<1>2. CASE ApplyEntry(s) \/ BeginHandling(s)
  BY <1>2 DEF ApplyEntry, BeginHandling, Abort, EndUpdate
<1>3. CASE HandleQuery(s)
  BY <1>3 DEF HandleQuery, StepDown, HandleHeartbeat, HandleVoteRequest,
        HandleVoteRequestThrows, HandleAppendEntriesDenied, HandleAppendEntries,
        AnswerSearchLeader, DenyNewLogEntry, PassOver, Handling, QueryDone, NextQuery, Abort,
        EndUpdate
<1>4. CASE HandleMessage(s)
  BY <1>4 DEF HandleMessage, HandleDisplayOrSpeed, HandleStop, HandleCrash,
        HandleRecover, HandleServerTimeout, Ordered, Handling, QueryDone, NextQuery
<1>5. CASE \/ NoRoutine(s) \/ FollowerTimesOut(s) \/ CandidateDefers(s) \/ CandidateWins(s)
           \/ CandidateWaits(s) \/ CandidateTimesOut(s)
  BY <1>5 DEF NoRoutine, FollowerTimesOut, CandidateDefers, CandidateWins, CandidateWaits,
        CandidateTimesOut, CandidateCounts, EndUpdate
<1>6. CASE LeaderBeats(s) \/ LeaderSkipsBeat(s)
  BY <1>6 DEF LeaderBeats, LeaderSkipsBeat, AllHandled, Abort, EndUpdate
<1>7. CASE \/ LeaderAppends(s) \/ LeaderCountsSuccess(s) \/ LeaderBacksUp(s)
           \/ LeaderPassesOver(s) \/ LeaderCommits(s)
  BY <1>7 DEF LeaderAppends, LeaderCountsSuccess, LeaderBacksUp, LeaderPassesOver,
        LeaderCommits, Leading, QueryDone, NextQuery, Abort, EndUpdate
<1> QED BY <1>1, <1>2, <1>3, <1>4, <1>5, <1>6, <1>7 DEF ServerStep, Routine

----------------------------------------------------------------------------
(* The invariant is kept. *)

LEMMA GrowingKeepsOrders ==
    ASSUME ChannelTypeOK, ChannelTypeOK', OrdersFromController,
           \A p \in Ranks, d \in Servers : OnlyAdds(p, channel[p][d], channel'[p][d])
    PROVE  OrdersFromController'
<1> SUFFICES ASSUME NEW p \in Ranks \ {Controller}, NEW d \in Servers,
                    NEW i \in 1 .. Len(channel'[p][d])
             PROVE  channel'[p][d][i].type # "MESSAGE"
  BY DEF OrdersFromController
<1>1. OnlyAdds(p, channel[p][d], channel'[p][d])
  OBVIOUS
<1>2. Len(channel[p][d]) \in Nat /\ Len(channel'[p][d]) \in Nat
  <2>1. channel[p][d] \in Seq(RPC) /\ channel'[p][d] \in Seq(RPC)
    BY RanksFacts DEF ChannelTypeOK
  <2> QED BY <2>1, LenProperties
<1>3. CASE Len(channel[p][d]) < i
  BY <1>1, <1>3 DEF OnlyAdds
<1>4. CASE ~(Len(channel[p][d]) < i)
  <2>1. i \in 1 .. Len(channel[p][d])
    BY <1>2, <1>4
  <2>2. channel'[p][d][i] = channel[p][d][i]
    BY <1>1, <2>1 DEF OnlyAdds
  <2> QED BY <2>1, <2>2 DEF OrdersFromController
<1> QED BY <1>3, <1>4

LEMMA ReceiveKeepsSilence ==
    ASSUME StateTypeOK, SilenceInv, NEW s \in Servers, ReceiveAll(s)
    PROVE  OrdersFromController' /\ BatchFromController'
<1>1. s \in Ranks
  BY RanksFacts
<1>2. PICK p \in Ranks : Receive(s, p) \/ ReceiveGarbled(s, p)
  BY DEF ReceiveAll
<1>3. PICK n \in 1 .. Len(channel[p][s]) : \E k \in 0 .. n : Drain(s, p, k, n)
  BY <1>1, <1>2, ReceiveIsDrain DEF StateTypeOK
<1>4. PICK k \in 0 .. n : Drain(s, p, k, n)
  BY <1>3
<1>5. /\ \A q, d \in Ranks : (q = p /\ d = s) \/ channel'[q][d] = channel[q][d]
      /\ \A i \in 1 .. Len(channel'[p][s]) :
            n + i \in 1 .. Len(channel[p][s]) /\ channel'[p][s][i] = channel[p][s][n + i]
      /\ Len(batch') = Len(batch) + k
      /\ \A i \in 1 .. Len(batch) : batch'[i] = batch[i]
      /\ \A i \in 1 .. Len(batch') : Len(batch) < i =>
            /\ i - Len(batch) \in 1 .. k
            /\ batch'[i] = [source |-> p, rpc |-> channel[p][s][i - Len(batch)]]
  BY <1>1, <1>4, DrainMoves DEF StateTypeOK
<1>6. active = s /\ active' = s
  BY <1>4 DEF Drain
<1>7. OrdersFromController'
  <2> SUFFICES ASSUME NEW q \in Ranks \ {Controller}, NEW d \in Servers,
                      NEW i \in 1 .. Len(channel'[q][d])
               PROVE  channel'[q][d][i].type # "MESSAGE"
    BY DEF OrdersFromController
  <2>1. CASE q = p /\ d = s
    <3>1. n + i \in 1 .. Len(channel[q][d]) /\ channel'[q][d][i] = channel[q][d][n + i]
      BY <1>5, <2>1
    <3> QED BY <3>1 DEF SilenceInv, OrdersFromController
  <2>2. CASE ~(q = p /\ d = s)
    <3>1. channel'[q][d] = channel[q][d]
      BY <1>5, <2>2, RanksFacts
    <3> QED BY <3>1 DEF SilenceInv, OrdersFromController
  <2> QED BY <2>1, <2>2
<1>8. ASSUME NEW i \in 1 .. Len(batch'), batch'[i].rpc.type = "MESSAGE"
      PROVE  batch'[i].source = Controller
  <2>1. /\ Len(batch) \in Nat /\ n \in Nat /\ k \in Nat /\ k <= n
        /\ Len(channel[p][s]) \in Nat /\ n <= Len(channel[p][s])
    <3>1. batch \in Seq(Query) /\ channel[p][s] \in Seq(RPC)
      BY <1>1 DEF StateTypeOK, UpdateTypeOK, ChannelTypeOK
    <3>2. Len(batch) \in Nat /\ Len(channel[p][s]) \in Nat
      BY <3>1, LenProperties
    <3> QED BY <3>2
  <2>2. CASE Len(batch) < i
    <3>1. i - Len(batch) \in 1 .. Len(channel[p][s])
      BY <1>5, <2>1, <2>2
    <3>2. batch'[i].source = p /\ batch'[i].rpc = channel[p][s][i - Len(batch)]
      BY <1>5, <2>2
    <3> QED BY <1>8, <3>1, <3>2 DEF SilenceInv, OrdersFromController
  <2>3. CASE ~(Len(batch) < i)
    <3>1. i \in 1 .. Len(batch)
      BY <2>1, <2>3
    <3>2. batch'[i] = batch[i]
      BY <1>5, <3>1
    <3> QED BY <1>6, <1>8, <3>1, <3>2 DEF SilenceInv, BatchFromController
  <2> QED BY <2>2, <2>3
<1> QED BY <1>6, <1>7, <1>8, RanksFacts DEF BatchFromController

\* A beat is no order.
LEMMA BeatKeepsOrders ==
    ASSUME StateTypeOK, StateTypeOK', OrdersFromController, NEW s \in Servers, LeaderBeats(s)
    PROVE  OrdersFromController'
<1> DEFINE unsafe == {p \in Peers(s) : next_log_index[s][p] < 0}
           reached == {p \in Peers(s) : \A u \in unsafe : p < u}
           m == [p \in reached |-> BeatTo(s, p)]
<1>1. channel' = SendToAll(channel, s, reached, m, Ended)
  BY DEF LeaderBeats
<1>2. \A d \in reached : m[d].type # "MESSAGE"
  BY DEF BeatTo, AppendEntries, Heartbeat
<1>8. \A d \in reached : m[d] \in RPC
  <2> SUFFICES ASSUME NEW d \in reached PROVE BeatTo(s, d) \in RPC
    OBVIOUS
  <2>1. d \in Peers(s) /\ d \in Servers /\ next_log_index[s][d] \in Int
    BY DEF Peers, StateTypeOK, LeaderTypeOK
  <2>2. ~(next_log_index[s][d] < 0)
    <3>1. SUFFICES ASSUME d \in unsafe PROVE FALSE
      BY <2>1
    <3>2. d < d /\ d \in Nat
      BY <2>1, <3>1, RanksFacts
    <3> QED BY <3>2
  <2> QED BY <2>1, <2>2, BeatToTypes DEF StateTypeOK
<1>3. channel \in Channels /\ s \in Ranks
  BY RanksFacts DEF StateTypeOK, ChannelTypeOK, Channels
<1> HIDE DEF m, reached
<1> SUFFICES ASSUME NEW p \in Ranks \ {Controller}, NEW d \in Servers,
                    NEW i \in 1 .. Len(channel'[p][d])
             PROVE  channel'[p][d][i].type # "MESSAGE"
  BY DEF OrdersFromController
<1>4. d \in Ranks /\ channel[p][d] \in Seq(RPC)
  BY RanksFacts DEF StateTypeOK, ChannelTypeOK
<1>5. channel'[p][d] = IF p = s /\ d \in reached \ Ended THEN Append(channel[p][d], m[d])
                       ELSE channel[p][d]
  BY <1>1, <1>3, <1>4, SendToAllIs
<1>6. CASE p = s /\ d \in reached \ Ended
  <2>1. channel'[p][d] = Append(channel[p][d], m[d])
    BY <1>5, <1>6
  <2>5. m[d] \in RPC
    BY <1>6, <1>8
  <2>2. /\ Len(channel'[p][d]) = Len(channel[p][d]) + 1
        /\ Len(channel[p][d]) \in Nat
        /\ \A j \in 1 .. Len(channel[p][d]) : channel'[p][d][j] = channel[p][d][j]
        /\ channel'[p][d][Len(channel[p][d]) + 1] = m[d]
    BY <1>4, <2>1, <2>5, LenProperties, AppendProperties
  <2>3. CASE i \in 1 .. Len(channel[p][d])
    <3>1. channel'[p][d][i] = channel[p][d][i]
      BY <2>2, <2>3
    <3>2. channel[p][d][i].type # "MESSAGE"
      BY <2>3 DEF OrdersFromController
    <3> QED BY <3>1, <3>2
  <2>4. CASE i = Len(channel[p][d]) + 1
    <3>1. channel'[p][d][i] = m[d]
      BY <2>2, <2>4
    <3>2. m[d].type # "MESSAGE"
      BY <1>2, <1>6
    <3> QED BY <3>1, <3>2
  <2> QED BY <2>2, <2>3, <2>4
<1>7. CASE ~(p = s /\ d \in reached \ Ended)
  <2>1. channel'[p][d] = channel[p][d]
    BY <1>5, <1>7
  <2> QED BY <2>1 DEF OrdersFromController
<1> QED BY <1>6, <1>7

LEMMA SilenceStep ==
    ASSUME StateTypeOK, StateTypeOK', SilenceInv, AnyTurn
    PROVE  SilenceInv'
<1> USE DEF SilenceInv
<1>1. ASSUME NEW s \in Servers, ServerStep(s) PROVE SilenceInv'
  <2>1. LeadersLead'
    <3> SUFFICES ASSUME active' \in Servers, phase' = "lead" PROVE status'[active'] = "LEADER"
      BY DEF LeadersLead
    <3> QED BY <1>1, LeadPhase DEF LeadersLead
  <2>2. CASE StartUpdate(s)
    <3>1. batch = << >> /\ UNCHANGED <<batch, channel>>
      BY <2>2 DEF StartUpdate, Begin, BatchFromController
    <3>2. Len(batch') = 0 /\ active' # Nobody
      BY <2>2, <3>1, EmptySeq, RanksFacts DEF StartUpdate, Begin
    <3> QED BY <2>1, <3>1, <3>2 DEF OrdersFromController, BatchFromController
  <2>3. CASE ReceiveAll(s)
    BY <2>1, <2>3, ReceiveKeepsSilence
  <2>4. CASE ~StartUpdate(s) /\ ~ReceiveAll(s)
    <3>1. active = s /\ (EndUpdate \/ UNCHANGED <<active, batch>>)
      BY <1>1, <2>4, UpdateGoesOn
    <3>2. BatchFromController'
      <4>1. CASE UNCHANGED <<active, batch>>
        BY <4>1 DEF BatchFromController
      <4>2. CASE EndUpdate
        BY <4>2, RanksFacts DEF EndUpdate, BatchFromController
      <4> QED BY <3>1, <4>1, <4>2
    <3>3. OrdersFromController'
      <4>1. CASE LeaderBeats(s)
        BY <4>1, BeatKeepsOrders
      <4>2. CASE ~LeaderBeats(s)
        <5>1. AddsOnly(s, channel, channel')
          BY <1>1, <2>4, <4>2, QuietSends
        <5>2. \A p \in Ranks, d \in Servers : OnlyAdds(p, channel[p][d], channel'[p][d])
          BY <5>1, RanksFacts DEF AddsOnly
        <5> QED BY <5>2, GrowingKeepsOrders DEF StateTypeOK
      <4> QED BY <4>1, <4>2
    <3> QED BY <2>1, <3>2, <3>3
  <2> QED BY <2>2, <2>3, <2>4
<1>2. CASE OutsideTurn
  <2>1. OrdersFromController'
    BY <1>2, GrowingKeepsOrders DEF OutsideTurn, OutsideChannels, StateTypeOK
  <2>2. BatchFromController'
    <3>1. CASE UNCHANGED <<active, batch>>
      BY <3>1 DEF BatchFromController
    <3>2. CASE EndUpdate
      BY <3>2, RanksFacts DEF EndUpdate, BatchFromController
    <3>3. CASE active' \in Clients
      BY <3>3, RanksFacts, ClientFacts DEF BatchFromController
    <3> QED BY <1>2, <3>1, <3>2, <3>3 DEF OutsideTurn
  <2>3. LeadersLead'
    BY <1>2 DEF OutsideTurn, LeadersLead, serverState, electionVars
  <2> QED BY <2>1, <2>2, <2>3
<1> QED BY <1>1, <1>2 DEF AnyTurn

LEMMA SilenceInit == ServerInit => SilenceInv
<1> SUFFICES ASSUME ServerInit PROVE SilenceInv
  OBVIOUS
<1>1. \A p \in Ranks, d \in Servers : Len(channel[p][d]) = 0
  BY EmptySeq, RanksFacts DEF ServerInit, ProcessInit
<1>2. active = Nobody /\ batch = << >>
  BY DEF ServerInit, ProcessInit
<1> QED BY <1>1, <1>2, RanksFacts
        DEF SilenceInv, OrdersFromController, BatchFromController, LeadersLead

----------------------------------------------------------------------------
(* What a step does to the other servers, and to one that is DEAD. *)

\* What of a server only its own steps change.
OwnState(s) == <<status[s], server_log[s], commit_index[s], current_term[s], voted_for[s]>>

LEMMA OthersStay ==
    ASSUME StateTypeOK, NEW s \in Servers, ServerStep(s), NEW d \in Servers, d # s
    PROVE  UNCHANGED OwnState(d)
<1> USE DEF OwnState, serverState, stateVars, dataVars, electionVars, logVars
<1> USE DEF StateTypeOK, ElectionTypeOK, LogTypeOK
<1>1. CASE StartUpdate(s) \/ ReceiveAll(s) \/ ApplyEntry(s) \/ BeginHandling(s)
  BY <1>1 DEF StartUpdate, ReceiveAll, ApplyEntry, BeginHandling
<1>2. CASE \/ StepDown(s) \/ HandleHeartbeat(s) \/ HandleVoteRequestThrows(s)
           \/ HandleAppendEntriesDenied(s) \/ HandleAppendEntries(s)
           \/ AnswerSearchLeader(s) \/ DenyNewLogEntry(s) \/ PassOver(s)
  BY <1>2 DEF StepDown, SetAsFollower, HandleHeartbeat, HandleVoteRequestThrows,
        HandleAppendEntriesDenied, HandleAppendEntries, AnswerSearchLeader, DenyNewLogEntry,
        PassOver, QueryDone
<1>3. CASE HandleVoteRequest(s)
  BY <1>3 DEF HandleVoteRequest
<1>4. CASE HandleMessage(s)
  BY <1>4 DEF HandleMessage, HandleDisplayOrSpeed, HandleStop, HandleCrash, HandleRecover,
        HandleServerTimeout, SetAsFollower, SetAsCandidate, QueryDone
<1>5. CASE \/ NoRoutine(s) \/ FollowerTimesOut(s) \/ CandidateDefers(s) \/ CandidateWins(s)
           \/ CandidateWaits(s) \/ CandidateTimesOut(s)
  BY <1>5 DEF NoRoutine, FollowerTimesOut, CandidateDefers, CandidateWins, CandidateWaits,
        CandidateTimesOut, CandidateCounts, SetAsFollower, SetAsCandidate
<1>6. CASE \/ LeaderBeats(s) \/ LeaderSkipsBeat(s) \/ LeaderAppends(s)
           \/ LeaderCountsSuccess(s) \/ LeaderBacksUp(s) \/ LeaderPassesOver(s)
  BY <1>6 DEF LeaderBeats, LeaderSkipsBeat, LeaderAppends, LeaderCountsSuccess, LeaderBacksUp,
        LeaderPassesOver, QueryDone
<1>7. CASE LeaderCommits(s)
  BY <1>7 DEF LeaderCommits
<1> QED BY <1>1, <1>2, <1>3, <1>4, <1>5, <1>6, <1>7 DEF ServerStep, HandleQuery, Routine

\* A step of s sends from s only.
LEMMA OthersAreQuiet ==
    ASSUME StateTypeOK, NEW s \in Servers, ServerStep(s), NEW d \in Servers, d # s, NEW e \in Ranks
    PROVE  Len(channel'[d][e]) <= Len(channel[d][e])
<1>1. s \in Ranks /\ d \in Ranks /\ channel \in Channels /\ Len(channel[d][e]) \in Nat
  <2>1. s \in Ranks /\ d \in Ranks /\ channel[d][e] \in Seq(RPC)
    BY RanksFacts DEF StateTypeOK, ChannelTypeOK
  <2> QED BY <2>1, LenProperties DEF StateTypeOK, ChannelTypeOK, Channels
<1>2. CASE ReceiveAll(s)
  <2>1. PICK p \in Ranks : Receive(s, p) \/ ReceiveGarbled(s, p)
    BY <1>2 DEF ReceiveAll
  <2>2. PICK n \in 1 .. Len(channel[p][s]) : \E k \in 0 .. n : Drain(s, p, k, n)
    BY <1>1, <2>1, ReceiveIsDrain DEF StateTypeOK
  <2>3. PICK k \in 0 .. n : Drain(s, p, k, n)
    BY <2>2
  <2>4. /\ channel' \in Channels
        /\ \A q, r \in Ranks : (q = p /\ r = s) \/ channel'[q][r] = channel[q][r]
        /\ \A i \in 1 .. Len(channel'[p][s]) : n + i \in 1 .. Len(channel[p][s])
    BY <1>1, <2>3, DrainMoves DEF StateTypeOK
  <2>5. CASE d = p /\ e = s
    <3>1. channel'[d][e] \in Seq(RPC)
      BY <1>1, <2>4 DEF Channels
    <3>2. Len(channel'[d][e]) \in Nat
      BY <3>1, LenProperties
    <3> QED BY <1>1, <2>4, <2>5, <3>2
  <2>6. CASE ~(d = p /\ e = s)
    <3>1. channel'[d][e] = channel[d][e]
      BY <1>1, <2>4, <2>6
    <3> QED BY <1>1, <3>1
  <2> QED BY <2>5, <2>6
<1>3. CASE LeaderBeats(s)
  <2>1. PICK reached, m : channel' = SendToAll(channel, s, reached, m, Ended)
    BY <1>3 DEF LeaderBeats
  <2>2. channel'[d][e] = channel[d][e]
    BY <1>1, <2>1, SendToAllIs
  <2> QED BY <1>1, <2>2
<1>4. CASE ~ReceiveAll(s) /\ ~LeaderBeats(s)
  <2>1. channel'[d][e] = channel[d][e]
    BY <1>1, <1>4, QuietSends DEF AddsOnly
  <2> QED BY <1>1, <2>1
<1> QED BY <1>2, <1>3, <1>4

\* s sends to nobody but the controller.
KeepsQuiet(s) == \A d \in Ranks \ {Controller} : Len(channel'[s][d]) <= Len(channel[s][d])

LEMMA KeepsQuietFacts ==
    ASSUME StateTypeOK, NEW s \in Servers
    PROVE  /\ UNCHANGED channel => KeepsQuiet(s)
           /\ \A m \in RPC : Reply(s, Controller, m) => KeepsQuiet(s)
<1>1. channel \in Channels /\ s \in Ranks /\ \A d \in Ranks : Len(channel[s][d]) \in Nat
  <2>1. s \in Ranks /\ \A d \in Ranks : channel[s][d] \in Seq(RPC)
    BY RanksFacts DEF StateTypeOK, ChannelTypeOK
  <2> QED BY <2>1, LenProperties DEF StateTypeOK, ChannelTypeOK, Channels
<1>2. UNCHANGED channel => KeepsQuiet(s)
  BY <1>1 DEF KeepsQuiet
<1>3. ASSUME NEW m \in RPC, Reply(s, Controller, m) PROVE KeepsQuiet(s)
  <2>1. \/ UNCHANGED channel
        \/ channel' = [channel EXCEPT ![s][Controller] = Append(channel[s][Controller], m)]
    BY <1>3 DEF Reply, SendMessage
  <2>2. \A d \in Ranks \ {Controller} : channel'[s][d] = channel[s][d]
    BY <1>1, <2>1 DEF Channels
  <2> QED BY <1>1, <2>2 DEF KeepsQuiet
<1> QED BY <1>2, <1>3

\* What a DEAD server answers goes to the controller, who gave the order.
LEMMA DeadHandlesMessage ==
    ASSUME StateTypeOK, SilenceInv, NEW s \in Servers, status[s] = "DEAD", HandleMessage(s),
           ~Ordered(s, {"PROCESS_RECOVER"})
    PROVE  UNCHANGED OwnState(s) /\ KeepsQuiet(s)
<1> USE DEF OwnState, stateVars, dataVars, electionVars, logVars
<1>1. ~HandleRecover(s)
  BY DEF HandleRecover
<1>2. /\ UNCHANGED <<electionVars, logVars>>
      /\ \E b \in BOOLEAN : Answer(s, b)
      /\ \E kinds : Ordered(s, kinds)
  <2>1. CASE HandleDisplayOrSpeed(s)
    BY <2>1 DEF HandleDisplayOrSpeed, QueryDone
  <2>2. CASE HandleStop(s)
    BY <2>2 DEF HandleStop
  <2>3. CASE HandleCrash(s)
    <3>1. Answer(s, FALSE)
      BY <2>3 DEF HandleCrash
    <3> QED BY <2>3, <3>1 DEF HandleCrash
  <2>4. CASE HandleServerTimeout(s)
    BY <2>4 DEF HandleServerTimeout
  <2> QED BY <1>1, <2>1, <2>2, <2>3, <2>4 DEF HandleMessage
<1>3. PICK b \in BOOLEAN : Answer(s, b)
  BY <1>2
<1>4. active = s /\ done < Len(batch) /\ batch[done + 1].rpc.type = "MESSAGE"
  BY <1>2 DEF Ordered, Handling
<1>5. done + 1 \in 1 .. Len(batch)
  BY <1>4, QueryFacts DEF StateTypeOK
<1>6. batch[done + 1].source = Controller
  BY <1>4, <1>5 DEF SilenceInv, BatchFromController
<1>7. MessageResponse(b) \in RPC
  BY RpcFacts, AnswerTypes
<1>8. KeepsQuiet(s)
  BY <1>3, <1>6, <1>7, KeepsQuietFacts DEF Answer
<1> QED BY <1>2, <1>8

LEMMA DeadStays ==
    ASSUME StateTypeOK, SilenceInv, NEW s \in Servers, ServerStep(s), status[s] = "DEAD"
    PROVE  Ordered(s, {"PROCESS_RECOVER"}) \/ (UNCHANGED OwnState(s) /\ KeepsQuiet(s))
<1> USE DEF OwnState, serverState, stateVars, dataVars, electionVars, logVars
<1>1. CASE StartUpdate(s) \/ BeginHandling(s)
  BY <1>1, KeepsQuietFacts DEF StartUpdate, Begin, BeginHandling
<1>2. CASE ReceiveAll(s)
  <2>1. s \in Ranks /\ \A d \in Ranks : Len(channel[s][d]) \in Nat
    <3>1. s \in Ranks /\ \A d \in Ranks : channel[s][d] \in Seq(RPC)
      BY RanksFacts DEF StateTypeOK, ChannelTypeOK
    <3> QED BY <3>1, LenProperties
  <2>2. PICK p \in Ranks \ {s} : Receive(s, p) \/ ReceiveGarbled(s, p)
    BY <1>2 DEF ReceiveAll
  <2>3. PICK n \in 1 .. Len(channel[p][s]) : \E k \in 0 .. n : Drain(s, p, k, n)
    BY <2>1, <2>2, ReceiveIsDrain DEF StateTypeOK
  <2>4. PICK k \in 0 .. n : Drain(s, p, k, n)
    BY <2>3
  <2>5. \A q, d \in Ranks : (q = p /\ d = s) \/ channel'[q][d] = channel[q][d]
    BY <2>1, <2>4, DrainMoves DEF StateTypeOK
  <2>6. \A d \in Ranks : channel'[s][d] = channel[s][d]
    BY <2>1, <2>2, <2>5
  <2>7. KeepsQuiet(s)
    BY <2>1, <2>6 DEF KeepsQuiet
  <2> QED BY <1>2, <2>7 DEF ReceiveAll
<1>3. CASE ApplyEntry(s)
  BY <1>3, KeepsQuietFacts DEF ApplyEntry
<1>4. CASE HandleQuery(s)
  <2>1. CASE PassOver(s)
    BY <2>1, KeepsQuietFacts DEF PassOver, QueryDone
  <2>2. CASE ~PassOver(s)
    BY <1>4, <2>2 DEF HandleQuery, StepDown, MustStepDown, HandleHeartbeat, HandleVoteRequest,
       HandleVoteRequestThrows, HandleAppendEntriesDenied, HandleAppendEntries,
       AnswerSearchLeader, DenyNewLogEntry, Live
  <2> QED BY <2>1, <2>2
<1>5. CASE HandleMessage(s)
  BY <1>5, DeadHandlesMessage
<1>6. CASE Routine(s)
  <2>1. CASE NoRoutine(s)
    BY <2>1, KeepsQuietFacts DEF NoRoutine
  <2>2. CASE \/ FollowerTimesOut(s) \/ CandidateDefers(s) \/ CandidateWins(s)
             \/ CandidateWaits(s) \/ CandidateTimesOut(s) \/ LeaderBeats(s) \/ LeaderSkipsBeat(s)
    BY <2>2 DEF FollowerTimesOut, CandidateDefers, CandidateWins, CandidateWaits,
       CandidateTimesOut, CandidateCounts, LeaderBeats, LeaderSkipsBeat
  <2>3. CASE \/ LeaderAppends(s) \/ LeaderCountsSuccess(s) \/ LeaderBacksUp(s)
             \/ LeaderPassesOver(s) \/ LeaderCommits(s)
    <3>1. active = s /\ phase = "lead"
      BY <2>3 DEF LeaderAppends, LeaderCountsSuccess, LeaderBacksUp, LeaderPassesOver,
         LeaderCommits, Leading
    <3> QED BY <3>1 DEF SilenceInv, LeadersLead
  <2> QED BY <1>6, <2>1, <2>2, <2>3 DEF Routine
<1> QED BY <1>1, <1>2, <1>3, <1>4, <1>5, <1>6 DEF ServerStep

\* The two parts together, in the form the theorems need.
LEMMA SilenceKept ==
    ASSUME StateTypeOK, StateTypeOK', SilenceInv, AnyTurn
    PROVE  /\ SilenceInv'
           /\ \A s \in Servers : status[s] = "DEAD" =>
                 \/ Ordered(s, {"PROCESS_RECOVER"})
                 \/ /\ UNCHANGED <<status[s], server_log[s], commit_index[s],
                                   current_term[s], voted_for[s]>>
                    /\ \A d \in Ranks \ {Controller} : Len(channel'[s][d]) <= Len(channel[s][d])
<1> SUFFICES ASSUME NEW s \in Servers, status[s] = "DEAD"
             PROVE  Ordered(s, {"PROCESS_RECOVER"}) \/ (UNCHANGED OwnState(s) /\ KeepsQuiet(s))
  BY SilenceStep DEF OwnState, KeepsQuiet
<1>1. CASE OutsideTurn
  BY <1>1 DEF OutsideTurn, OutsideChannels, OwnState, KeepsQuiet, serverState, electionVars, logVars
<1>2. CASE ServerStep(s)
  BY <1>2, DeadStays
<1>3. ASSUME NEW p \in Servers, p # s, ServerStep(p) PROVE UNCHANGED OwnState(s) /\ KeepsQuiet(s)
  BY <1>3, OthersStay, OthersAreQuiet DEF KeepsQuiet
<1> QED BY <1>1, <1>2, <1>3 DEF AnyTurn

----------------------------------------------------------------------------
(* What is under way to a server stays within a set. *)

\* A set of messages, each with the process it comes from and the server it
\* goes to.
LEMMA UnderWayFrom ==
    ASSUME StateTypeOK, SilenceInv, AnyTurn, NEW G,
           \A p \in Ranks, d \in Servers : \A i \in 1 .. Len(channel[p][d]) :
              <<p, d, channel[p][d][i]>> \in G,
           active \in Servers => \A i \in 1 .. Len(batch) :
              <<batch[i].source, active, batch[i].rpc>> \in G,
           \A p \in Ranks, d \in Servers : \A i \in 1 .. Len(channel'[p][d]) :
              \/ \E j \in 1 .. Len(channel[p][d]) : channel'[p][d][i] = channel[p][d][j]
              \/ <<p, d, channel'[p][d][i]>> \in G
    PROVE  /\ \A p \in Ranks, d \in Servers : \A i \in 1 .. Len(channel'[p][d]) :
                 <<p, d, channel'[p][d][i]>> \in G
           /\ active' \in Servers => \A i \in 1 .. Len(batch') :
                 <<batch'[i].source, active', batch'[i].rpc>> \in G
<1>1. \A p \in Ranks, d \in Servers : \A i \in 1 .. Len(channel'[p][d]) :
         <<p, d, channel'[p][d][i]>> \in G
  OBVIOUS
<1>2. CASE UNCHANGED <<active, batch>> \/ EndUpdate \/ active' \in Clients
  <2>1. CASE UNCHANGED <<active, batch>>
    BY <1>1, <2>1
  <2>2. CASE EndUpdate \/ active' \in Clients
    <3>1. active' \notin Servers
      BY <2>2, RanksFacts, ClientFacts DEF EndUpdate
    <3> QED BY <1>1, <3>1
  <2> QED BY <1>2, <2>1, <2>2
<1>3. CASE OutsideTurn
  BY <1>2, <1>3 DEF OutsideTurn
<1>4. ASSUME NEW s \in Servers, ServerStep(s)
      PROVE  active' \in Servers => \A i \in 1 .. Len(batch') :
                <<batch'[i].source, active', batch'[i].rpc>> \in G
  <2>1. CASE StartUpdate(s)
    <3>1. batch' = << >>
      BY <2>1 DEF StartUpdate, Begin, SilenceInv, BatchFromController
    <3>2. Len(batch') = 0
      BY <3>1, EmptySeq
    <3> QED BY <3>2
  <2>2. CASE ReceiveAll(s)
    <3>1. s \in Ranks
      BY RanksFacts
    <3>2. PICK p \in Ranks : Receive(s, p) \/ ReceiveGarbled(s, p)
      BY <2>2 DEF ReceiveAll
    <3>3. PICK n \in 1 .. Len(channel[p][s]) : \E k \in 0 .. n : Drain(s, p, k, n)
      BY <3>1, <3>2, ReceiveIsDrain DEF StateTypeOK
    <3>4. PICK k \in 0 .. n : Drain(s, p, k, n)
      BY <3>3
    <3>5. \A i \in 1 .. Len(batch') :
             \/ i \in 1 .. Len(batch) /\ batch'[i] = batch[i]
             \/ /\ batch'[i].source = p
                /\ \E j \in 1 .. Len(channel[p][s]) : batch'[i].rpc = channel[p][s][j]
      BY <3>1, <3>4, DrainFacts DEF StateTypeOK
    <3>6. active = s /\ active' = s
      BY <3>4 DEF Drain
    <3> QED BY <3>5, <3>6
  <2>3. CASE ~StartUpdate(s) /\ ~ReceiveAll(s)
    BY <1>2, <1>4, <2>3, UpdateGoesOn
  <2> QED BY <2>1, <2>2, <2>3
<1> QED BY <1>1, <1>3, <1>4 DEF AnyTurn

\* The same, whoever the messages come from.
LEMMA UnderWayStays ==
    ASSUME StateTypeOK, SilenceInv, AnyTurn, NEW G,
           \A p \in Ranks, d \in Servers : \A i \in 1 .. Len(channel[p][d]) :
              channel[p][d][i] \in G[d],
           active \in Servers => \A i \in 1 .. Len(batch) : batch[i].rpc \in G[active],
           \A p \in Ranks, d \in Servers : \A i \in 1 .. Len(channel'[p][d]) :
              \/ \E j \in 1 .. Len(channel[p][d]) : channel'[p][d][i] = channel[p][d][j]
              \/ channel'[p][d][i] \in G[d]
    PROVE  /\ \A p \in Ranks, d \in Servers : \A i \in 1 .. Len(channel'[p][d]) :
                 channel'[p][d][i] \in G[d]
           /\ active' \in Servers => \A i \in 1 .. Len(batch') : batch'[i].rpc \in G[active']
<1> DEFINE Within == {x \in Ranks \X Servers \X UNION {G[d] : d \in Servers} : x[3] \in G[x[2]]}
<1>1. \A p \in Ranks, d \in Servers : \A m : <<p, d, m>> \in Within <=> m \in G[d]
  OBVIOUS
<1>2. active \in Servers => \A i \in 1 .. Len(batch) : batch[i].source \in Ranks
  <2>1. batch \in Seq(Query)
    BY DEF StateTypeOK, UpdateTypeOK
  <2>2. \A i \in 1 .. Len(batch) : batch[i] \in Query
    BY <2>1, ElementOfSeq
  <2> QED BY <2>2 DEF Query
<1> HIDE DEF Within
<1>3. /\ \A p \in Ranks, d \in Servers : \A i \in 1 .. Len(channel'[p][d]) :
            <<p, d, channel'[p][d][i]>> \in Within
      /\ active' \in Servers => \A i \in 1 .. Len(batch') :
            <<batch'[i].source, active', batch'[i].rpc>> \in Within
  BY <1>1, <1>2, UnderWayFrom
<1>4. \A p, d, m : <<p, d, m>> \in Within => m \in G[d]
  BY DEF Within
<1> QED BY <1>3, <1>4

----------------------------------------------------------------------------
(* What a server sends, and with which term. *)

\* Between the channels before and after, nothing was put in but messages of a
\* term up to t that are neither entries nor orders.
SendsUpTo(t, before, after) ==
    \A p, d \in Ranks : \A i \in 1 .. Len(after[p][d]) :
        \/ \E j \in 1 .. Len(before[p][d]) : after[p][d][i] = before[p][d][j]
        \/ after[p][d][i].type \notin {"APPEND_ENTRIES", "MESSAGE"} /\ after[p][d][i].term <= t

LEMMA ReplySendsUpTo ==
    ASSUME NEW chan \in Channels, NEW s \in Ranks, NEW dst, NEW m \in RPC, NEW t,
           m.type \notin {"APPEND_ENTRIES", "MESSAGE"}, m.term <= t, NEW ended
    PROVE  SendsUpTo(t, chan, SendMessage(chan, s, dst, m, ended))
<1>1. \A p, d \in Ranks :
         \A i \in 1 .. Len(SendMessage(chan, s, dst, m, ended)[p][d]) :
            \/ /\ i \in 1 .. Len(chan[p][d])
               /\ SendMessage(chan, s, dst, m, ended)[p][d][i] = chan[p][d][i]
            \/ SendMessage(chan, s, dst, m, ended)[p][d][i] = m
  BY SendMessageFacts
<1> QED BY <1>1 DEF SendsUpTo

LEMMA BroadcastSendsUpTo ==
    ASSUME NEW chan \in Channels, NEW s \in Ranks, NEW dests \in SUBSET Ranks, NEW m \in RPC, NEW t,
           m.type \notin {"APPEND_ENTRIES", "MESSAGE"}, m.term <= t, NEW ended
    PROVE  SendsUpTo(t, chan, SendToAll(chan, s, dests, [d \in dests |-> m], ended))
<1> DEFINE all == [d \in dests |-> m]
<1>1. \A d \in dests : all[d] = m
  OBVIOUS
<1> HIDE DEF all
<1>2. \A p, d \in Ranks :
         \A i \in 1 .. Len(SendToAll(chan, s, dests, all, ended)[p][d]) :
            \/ /\ i \in 1 .. Len(chan[p][d])
               /\ SendToAll(chan, s, dests, all, ended)[p][d][i] = chan[p][d][i]
            \/ /\ d \in dests
               /\ SendToAll(chan, s, dests, all, ended)[p][d][i] = all[d]
  BY <1>1, SendToAllFacts
<1>3. SendsUpTo(t, chan, SendToAll(chan, s, dests, all, ended))
  BY <1>1, <1>2 DEF SendsUpTo
<1> QED BY <1>3 DEF all

\* The terms of the answers.
LEMMA AnswerTerms ==
    /\ \A t, v : VoteResponse(t, v).term = t
    /\ \A t, b : AppendEntriesResponse(t, b).term = t
    /\ \A b : NewLogEntryResponse(b).term = -1
    /\ \A r : SearchLeaderResponse(r).term = -1
    /\ \A b : MessageResponse(b).term = -1
    /\ \A t, c : Heartbeat(t, c).term = t
    /\ \A t, r, i, u : VoteRequest(t, r, i, u).term = t
BY DEF VoteResponse, AppendEntriesResponse, NewLogEntryResponse, SearchLeaderResponse,
       MessageResponse, Heartbeat, VoteRequest

LEMMA VotesSendUpTo ==
    ASSUME StateTypeOK, NEW s \in Servers
    PROVE  SendsUpTo(current_term[s] + 1, channel, RequestVotes(s))
<1> DEFINE request == VoteRequest(current_term[s] + 1, s, Size(s) - 1, TermAt(s, Size(s) - 1))
<1>1. /\ request \in RPC /\ request.type = "VOTE_REQUEST"
      /\ request.term <= current_term[s] + 1
  <2>1. current_term[s] + 1 \in Int
    BY DEF StateTypeOK, ElectionTypeOK
  <2>2. request.term = current_term[s] + 1
    BY AnswerTerms
  <2> HIDE DEF request
  <2>3. request.term <= current_term[s] + 1
    BY <2>1, <2>2
  <2> QED BY <2>3, VoteRequestType, AnswerTypes DEF StateTypeOK, request
<1>2. channel \in Channels /\ s \in Ranks /\ Peers(s) \in SUBSET Ranks
  BY RanksFacts DEF StateTypeOK, ChannelTypeOK, Channels, Peers
<1>3. RequestVotes(s) = SendToAll(channel, s, Peers(s), [p \in Peers(s) |-> request], Ended)
  BY DEF RequestVotes
<1> HIDE DEF request
<1> QED BY <1>1, <1>2, <1>3, BroadcastSendsUpTo

\* Every message a server sends carries its term at most, or is its beat.
LEMMA ServerSendsUpTo ==
    ASSUME StateTypeOK, StateTypeOK', NEW s \in Servers, ServerStep(s), ~LeaderBeats(s)
    PROVE  SendsUpTo(current_term'[s], channel, channel')
<1> USE DEF stateVars, dataVars, electionVars, logVars
<1>1. channel \in Channels /\ s \in Ranks
  BY RanksFacts DEF StateTypeOK, ChannelTypeOK, Channels
<1>2. CASE UNCHANGED channel
  BY <1>2 DEF SendsUpTo
<1>3. ASSUME NEW dst, NEW m \in RPC, m.type \notin {"APPEND_ENTRIES", "MESSAGE"},
             m.term <= current_term'[s], Reply(s, dst, m)
      PROVE  SendsUpTo(current_term'[s], channel, channel')
  BY <1>1, <1>3, ReplySendsUpTo DEF Reply
<1>4. /\ current_term[s] \in Nat /\ current_term'[s] \in Nat /\ commit_index[s] \in Int
      /\ -1 <= current_term'[s] /\ current_term[s] <= current_term[s]
  BY DEF StateTypeOK, ElectionTypeOK, LogTypeOK
<1>5. CASE StartUpdate(s) \/ BeginHandling(s)
  BY <1>2, <1>5 DEF StartUpdate, Begin, BeginHandling
<1>6. CASE ApplyEntry(s)
  <2>1. UNCHANGED channel \/ Reply(s, Head(entries_queue[s]).source, NewLogEntryResponse(TRUE))
    BY <1>6 DEF ApplyEntry
  <2>2. /\ NewLogEntryResponse(TRUE) \in RPC
        /\ NewLogEntryResponse(TRUE).type \notin {"APPEND_ENTRIES", "MESSAGE"}
        /\ NewLogEntryResponse(TRUE).term <= current_term'[s]
    BY <1>4, RpcFacts, AnswerTypes, AnswerTerms
  <2> QED BY <1>2, <1>3, <2>1, <2>2
<1>7. CASE HandleQuery(s)
  <2> DEFINE q == batch[done + 1]
  <2>1. CASE StepDown(s) \/ HandleHeartbeat(s) \/ HandleVoteRequestThrows(s) \/ PassOver(s)
    BY <1>2, <2>1 DEF StepDown, HandleHeartbeat, HandleVoteRequestThrows, PassOver
  <2>2. CASE HandleVoteRequest(s)
    <3>1. PICK b \in BOOLEAN : b = GrantsVote(s, q.rpc)
      BY DEF GrantsVote
    <3>2. Reply(s, q.rpc.candidate_rank, VoteResponse(current_term[s], b)) /\ UNCHANGED current_term
      BY <2>2, <3>1 DEF HandleVoteRequest
    <3> QED BY <1>3, <1>4, <3>2, RpcFacts, AnswerTypes, AnswerTerms
  <2>3. CASE HandleAppendEntriesDenied(s)
    <3>1. /\ Reply(s, q.rpc.leader_rank, AppendEntriesResponse(current_term[s], FALSE))
          /\ UNCHANGED current_term
      BY <2>3 DEF HandleAppendEntriesDenied, QueryDone
    <3> DEFINE m == AppendEntriesResponse(current_term[s], FALSE)
    <3>2. /\ m \in RPC /\ m.type \notin {"APPEND_ENTRIES", "MESSAGE"}
          /\ m.term <= current_term'[s]
      <4>1. current_term[s] \in Int /\ current_term'[s] = current_term[s]
        BY <1>4, <3>1
      <4>2. m \in RPC
        BY <4>1, RpcFacts
      <4>3. m.type = "APPEND_ENTRIES_RESPONSE" /\ m.term = current_term[s]
        BY DEF AppendEntriesResponse
      <4> HIDE DEF m
      <4> QED BY <1>4, <4>1, <4>2, <4>3
    <3> HIDE DEF m
    <3>3. Reply(s, q.rpc.leader_rank, m)
      BY <3>1 DEF m
    <3> QED BY <1>3, <3>2, <3>3
  <2>4. CASE HandleAppendEntries(s)
    <3>1. /\ Reply(s, q.rpc.leader_rank, AppendEntriesResponse(q.rpc.term, TRUE))
          /\ UNCHANGED current_term
          /\ done < Len(batch) /\ ~(q.rpc.term > current_term[s])
      BY <2>4 DEF HandleAppendEntries, Handling, MustStepDown
    <3>2. q.rpc.term \in Int
      BY <3>1, QueryFacts, RpcFields DEF StateTypeOK
    <3>3. q.rpc.term <= current_term'[s]
      BY <1>4, <3>1, <3>2
    <3> DEFINE m == AppendEntriesResponse(q.rpc.term, TRUE)
    <3>4. /\ m \in RPC /\ m.type \notin {"APPEND_ENTRIES", "MESSAGE"}
          /\ m.term <= current_term'[s]
      <4>1. m \in RPC
        BY <3>2, RpcFacts
      <4>2. m.type = "APPEND_ENTRIES_RESPONSE" /\ m.term = q.rpc.term
        BY DEF AppendEntriesResponse
      <4> HIDE DEF m
      <4> QED BY <3>3, <4>1, <4>2
    <3> HIDE DEF m
    <3>5. Reply(s, q.rpc.leader_rank, m)
      BY <3>1 DEF m
    <3> QED BY <1>3, <3>4, <3>5
  <2>5. CASE AnswerSearchLeader(s)
    BY <1>3, <1>4, <2>5, RpcFacts, AnswerTypes, AnswerTerms DEF AnswerSearchLeader
  <2>6. CASE DenyNewLogEntry(s)
    BY <1>3, <1>4, <2>6, RpcFacts, AnswerTypes, AnswerTerms DEF DenyNewLogEntry
  <2> QED BY <1>7, <2>1, <2>2, <2>3, <2>4, <2>5, <2>6 DEF HandleQuery
<1>8. CASE HandleMessage(s)
  <2>1. ASSUME NEW b \in BOOLEAN, Answer(s, b)
        PROVE  SendsUpTo(current_term'[s], channel, channel')
    BY <1>3, <1>4, <2>1, RpcFacts, AnswerTypes, AnswerTerms DEF Answer
  <2>2. CASE HandleDisplayOrSpeed(s) \/ HandleStop(s)
    BY <2>1, <2>2 DEF HandleDisplayOrSpeed, HandleStop
  <2>3. CASE HandleCrash(s) \/ HandleRecover(s)
    <3>1. PICK b \in BOOLEAN : Answer(s, b)
      BY <2>3 DEF HandleCrash, HandleRecover
    <3> QED BY <2>1, <3>1
  <2>4. CASE HandleServerTimeout(s)
    <3>1. CASE status[s] = "FOLLOWER"
      <4>1. PICK asked \in Channels : asked = RequestVotes(s)
        BY RequestVotesTypes DEF StateTypeOK
      <4>2. /\ channel' = SendMessage(asked, s, batch[done + 1].source, MessageResponse(TRUE), Ended)
            /\ current_term' = [current_term EXCEPT ![s] = current_term[s] + 1]
        BY <2>4, <3>1, <4>1 DEF HandleServerTimeout, SetAsCandidate
      <4>3. current_term'[s] = current_term[s] + 1
        BY <4>2 DEF StateTypeOK, ElectionTypeOK
      <4>4. SendsUpTo(current_term'[s], channel, asked)
        BY <4>1, <4>3, VotesSendUpTo
      <4>5. /\ MessageResponse(TRUE) \in RPC
            /\ MessageResponse(TRUE).type \notin {"APPEND_ENTRIES", "MESSAGE"}
            /\ MessageResponse(TRUE).term <= current_term'[s]
        BY <1>4, RpcFacts, AnswerTypes, AnswerTerms
      <4>6. SendsUpTo(current_term'[s], asked, channel')
        BY <1>1, <4>2, <4>5, ReplySendsUpTo
      <4> QED BY <4>4, <4>6 DEF SendsUpTo
    <3>2. CASE status[s] # "FOLLOWER"
      BY <2>1, <2>4, <3>2 DEF HandleServerTimeout
    <3> QED BY <3>1, <3>2
  <2> QED BY <1>8, <2>2, <2>3, <2>4 DEF HandleMessage
<1>9. CASE Routine(s)
  <2>1. CASE FollowerTimesOut(s) \/ CandidateTimesOut(s)
    <3>1. /\ channel' = RequestVotes(s)
          /\ current_term' = [current_term EXCEPT ![s] = current_term[s] + 1]
      BY <2>1 DEF FollowerTimesOut, CandidateTimesOut, SetAsCandidate
    <3>2. current_term'[s] = current_term[s] + 1
      BY <3>1 DEF StateTypeOK, ElectionTypeOK
    <3> QED BY <3>1, <3>2, VotesSendUpTo
  <2>2. CASE CandidateWins(s)
    <3> DEFINE heartbeat == Heartbeat(current_term[s], commit_index[s])
    <3>1. /\ channel' = SendToAll(channel, s, Peers(s), [p \in Peers(s) |-> heartbeat], Ended)
          /\ UNCHANGED current_term /\ Peers(s) \in SUBSET Ranks
      BY <2>2, RanksFacts DEF CandidateWins, Peers
    <3>2. /\ heartbeat \in RPC /\ heartbeat.type = "HEARTBEAT"
          /\ heartbeat.term <= current_term'[s]
      BY <1>4, <3>1, RpcFacts, AnswerTypes, AnswerTerms
    <3> HIDE DEF heartbeat
    <3> QED BY <1>1, <3>1, <3>2, BroadcastSendsUpTo
  <2>3. CASE \/ NoRoutine(s) \/ CandidateDefers(s) \/ CandidateWaits(s) \/ LeaderSkipsBeat(s)
             \/ LeaderAppends(s) \/ LeaderCountsSuccess(s) \/ LeaderBacksUp(s)
             \/ LeaderPassesOver(s) \/ LeaderCommits(s)
    BY <1>2, <2>3 DEF NoRoutine, CandidateDefers, CandidateWaits, LeaderSkipsBeat,
       LeaderAppends, LeaderCountsSuccess, LeaderBacksUp, LeaderPassesOver, LeaderCommits
  <2> QED BY <1>9, <2>1, <2>2, <2>3 DEF Routine
<1>10. CASE ReceiveAll(s)
  <2>1. PICK p \in Ranks : Receive(s, p) \/ ReceiveGarbled(s, p)
    BY <1>10 DEF ReceiveAll
  <2>2. PICK n \in 1 .. Len(channel[p][s]) : \E k \in 0 .. n : Drain(s, p, k, n)
    BY <1>1, <2>1, ReceiveIsDrain DEF StateTypeOK
  <2>3. PICK k \in 0 .. n : Drain(s, p, k, n)
    BY <2>2
  <2>4. \A q, d \in Ranks : \A i \in 1 .. Len(channel'[q][d]) :
           \E j \in 1 .. Len(channel[q][d]) : channel'[q][d][i] = channel[q][d][j]
    BY <1>1, <2>3, DrainFacts DEF StateTypeOK
  <2> SUFFICES ASSUME NEW q \in Ranks, NEW d \in Ranks, NEW i \in 1 .. Len(channel'[q][d])
               PROVE  \E j \in 1 .. Len(channel[q][d]) : channel'[q][d][i] = channel[q][d][j]
    BY DEF SendsUpTo
  <2> QED BY <2>4
<1> QED BY <1>5, <1>6, <1>7, <1>8, <1>9, <1>10 DEF ServerStep

\* The beat.
LEMMA BeatIsSent ==
    ASSUME StateTypeOK, NEW s \in Servers, LeaderBeats(s),
           NEW p \in Ranks, NEW d \in Ranks, NEW i \in 1 .. Len(channel'[p][d])
    PROVE  \/ \E j \in 1 .. Len(channel[p][d]) : channel'[p][d][i] = channel[p][d][j]
           \/ /\ channel'[p][d][i] = BeatTo(s, d) /\ channel'[p][d][i] \in RPC
              /\ d \in Peers(s) /\ next_log_index[s][d] >= 0
<1> DEFINE unsafe == {r \in Peers(s) : next_log_index[s][r] < 0}
           reached == {r \in Peers(s) : \A u \in unsafe : r < u}
           m == [r \in reached |-> BeatTo(s, r)]
<1>1. channel' = SendToAll(channel, s, reached, m, Ended)
  BY DEF LeaderBeats
<1>2. \A r \in reached : /\ m[r] = BeatTo(s, r) /\ m[r] \in RPC
                         /\ r \in Peers(s) /\ next_log_index[s][r] >= 0
  <2> SUFFICES ASSUME NEW r \in reached
               PROVE  BeatTo(s, r) \in RPC /\ r \in Peers(s) /\ next_log_index[s][r] >= 0
    OBVIOUS
  <2>1. r \in Peers(s) /\ r \in Servers /\ next_log_index[s][r] \in Int
    BY DEF Peers, StateTypeOK, LeaderTypeOK
  <2>2. ~(next_log_index[s][r] < 0)
    <3>1. SUFFICES ASSUME r \in unsafe PROVE FALSE
      BY <2>1
    <3>2. r < r /\ r \in Nat
      BY <2>1, <3>1, RanksFacts
    <3> QED BY <3>2
  <2> QED BY <2>1, <2>2, BeatToTypes DEF StateTypeOK
<1>3. channel \in Channels /\ s \in Ranks /\ reached \in SUBSET Ranks
  BY RanksFacts DEF StateTypeOK, ChannelTypeOK, Channels, Peers
<1> HIDE DEF m, reached
<1>4. \/ i \in 1 .. Len(channel[p][d]) /\ channel'[p][d][i] = channel[p][d][i]
      \/ d \in reached /\ channel'[p][d][i] = m[d]
  BY <1>1, <1>2, <1>3, SendToAllFacts
<1> QED BY <1>2, <1>4

----------------------------------------------------------------------------
(* The invariant. *)

\* The terms of the entries never fall, and are no higher than t.
OrderedUpTo(t, entries) ==
    /\ \A i \in 1 .. Len(entries) : entries[i].term <= t
    /\ \A i, j \in 1 .. Len(entries) : i <= j => entries[i].term <= entries[j].term

IsCrash(m) == m.type = "MESSAGE" /\ m.kind = "PROCESS_CRASH"

OrderedMessage(m) ==
    /\ ~IsCrash(m)
    /\ m.type = "APPEND_ENTRIES" =>
          /\ OrderedUpTo(m.term, m.entries)
          /\ m.prev_log_index # -1 =>
                \A i \in 1 .. Len(m.entries) : m.prev_log_term <= m.entries[i].term

TermInv ==
    /\ SilenceInv
    /\ LogTermsOrdered
    /\ \A p \in Ranks, d \in Servers : \A i \in 1 .. Len(channel[p][d]) :
          OrderedMessage(channel[p][d][i])
    /\ active \in Servers => \A i \in 1 .. Len(batch) : OrderedMessage(batch[i].rpc)

\* The others crash no server.
OutsideSpares ==
    \A p \in Ranks, d \in Servers : \A i \in 1 .. Len(channel'[p][d]) :
        \/ \E j \in 1 .. Len(channel[p][d]) : channel'[p][d][i] = channel[p][d][j]
        \/ channel'[p][d][i].type # "APPEND_ENTRIES" /\ ~IsCrash(channel'[p][d][i])

SparingTurn == (OutsideTurn /\ OutsideSpares) \/ \E s \in Servers : ServerStep(s)

----------------------------------------------------------------------------
(* Merging keeps the order. *)

LEMMA MergeKeepsOrder ==
    ASSUME NEW old \in Seq(LogEntry), NEW new \in Seq(LogEntry),
           NEW prev \in Nat \cup {-1}, prev < Len(old), NEW t \in Int,
           OrderedUpTo(t, old), OrderedUpTo(t, new),
           prev # -1 => \A i \in 1 .. Len(new) : old[prev + 1].term <= new[i].term
    PROVE  OrderedUpTo(t, MergedLog(old, prev, new))
<1> DEFINE conflicts == Conflicts(old, prev, new)
           merged == MergedLog(old, prev, new)
           size == prev + 1 + Len(new)
           plain == [i \in 1 .. size |-> IF i <= Len(old) THEN old[i] ELSE new[i - prev - 1]]
           cut == [i \in 1 .. size - 1 |-> IF \A c \in conflicts : i < c
                                          THEN old[i] ELSE new[i - prev]]
           \* Where the term at i comes from: the old log, or place k of the new entries.
           Old(i)    == i \in 1 .. prev + 1 /\ merged[i].term = old[i].term
           New(i, k) == k \in 1 .. Len(new) /\ merged[i].term = new[k].term
           Before(i) == i > prev + 1 /\ New(i, i - prev - 1)
           After(i)  == i > prev + 1 /\ New(i, i - prev)
<1>1. /\ Len(old) \in Nat /\ Len(new) \in Nat /\ size \in Nat
      /\ \A i \in 1 .. Len(old) : old[i].term \in Int
      /\ \A i \in 1 .. Len(new) : new[i].term \in Int
  <2>1. Len(old) \in Nat /\ Len(new) \in Nat
    BY LenProperties
  <2>2. /\ \A i \in 1 .. Len(old) : old[i] \in LogEntry
        /\ \A i \in 1 .. Len(new) : new[i] \in LogEntry
    BY ElementOfSeq
  <2> QED BY <2>1, <2>2 DEF LogEntry
<1>2. \A i \in (prev + 2) .. Least(size, Len(old)) : i \in conflicts \/ old[i].term = new[i - prev - 1].term
  BY DEF Conflicts
<1>3. conflicts \subseteq (prev + 2) .. Least(size, Len(old))
  BY DEF Conflicts
<1>4. conflicts \subseteq Int /\ \A c \in conflicts : prev + 2 <= c /\ c <= size /\ c <= Len(old)
  BY <1>1, <1>3 DEF Least
<1>5. Len(merged) \in Nat
  BY MergedLogFacts
<1>8. /\ \A i \in 1 .. Len(old) : old[i].term <= t
      /\ \A i \in 1 .. Len(new) : new[i].term <= t
      /\ \A i, j \in 1 .. Len(old) : i <= j => old[i].term <= old[j].term
      /\ \A i, j \in 1 .. Len(new) : i <= j => new[i].term <= new[j].term
  BY DEF OrderedUpTo
<1>9. \A i \in 1 .. prev + 1 : i \in 1 .. Len(old)
  BY <1>1
<1>6. CASE conflicts = {}
  <2>1. merged = plain
    BY <1>6 DEF MergedLog
  <2>2. plain \in Seq(LogEntry) /\ Len(plain) = size
    BY <1>6, <2>1, MergedLogFacts
  <2>3. ASSUME NEW i \in 1 .. size PROVE Old(i) \/ Before(i)
    <3>1. merged[i] = IF i <= Len(old) THEN old[i] ELSE new[i - prev - 1]
      BY <2>1
    <3> HIDE DEF merged, conflicts
    <3>2. CASE i <= prev + 1
      BY <1>1, <3>1, <3>2
    <3>3. CASE ~(i <= prev + 1)
      <4>1. i - prev - 1 \in 1 .. Len(new) /\ i > prev + 1
        BY <1>1, <3>3
      <4>2. CASE i <= Len(old)
        <5>1. i \in (prev + 2) .. Least(size, Len(old))
          BY <1>1, <3>3, <4>2 DEF Least
        <5>2. old[i].term = new[i - prev - 1].term
          BY <1>2, <1>6, <5>1
        <5> QED BY <3>1, <4>1, <4>2, <5>2
      <4>3. CASE ~(i <= Len(old))
        BY <3>1, <4>1, <4>3
      <4> QED BY <4>2, <4>3
    <3> QED BY <3>2, <3>3
  <2> HIDE DEF merged, plain, conflicts
  <2>4. ASSUME NEW i \in 1 .. size PROVE merged[i].term <= t
    <3>1. CASE Old(i)
      BY <1>8, <1>9, <3>1
    <3>2. CASE Before(i)
      BY <1>8, <3>2
    <3> QED BY <2>3, <3>1, <3>2
  <2>5. ASSUME NEW i \in 1 .. size, NEW j \in 1 .. size, i <= j
        PROVE  merged[i].term <= merged[j].term
    <3>1. CASE Old(i) /\ Old(j)
      BY <1>8, <1>9, <2>5, <3>1
    <3>2. CASE Old(i) /\ Before(j)
      <4>1. prev # -1 /\ prev + 1 \in 1 .. Len(old) /\ i <= prev + 1 /\ i \in 1 .. Len(old)
        BY <1>1, <3>2
      <4>2. old[i].term <= old[prev + 1].term
        BY <4>1 DEF OrderedUpTo
      <4>3. PICK k \in 1 .. Len(new) : merged[j].term = new[k].term
        BY <3>2
      <4>4. old[prev + 1].term <= new[k].term /\ new[k].term \in Int
        BY <1>1, <4>1
      <4>5. /\ merged[i].term = old[i].term
            /\ old[i].term \in Int /\ old[prev + 1].term \in Int
        BY <1>1, <3>2, <4>1
      <4> QED BY <4>2, <4>3, <4>4, <4>5
    <3>3. CASE Before(i) /\ Before(j)
      <4>1. i - prev - 1 <= j - prev - 1
        BY <2>5
      <4> QED BY <1>8, <3>3, <4>1
    <3>4. CASE Before(i) /\ Old(j)
      BY <1>1, <2>5, <3>4
    <3> QED BY <2>3, <3>1, <3>2, <3>3, <3>4
  <2> QED BY <2>1, <2>2, <2>4, <2>5 DEF OrderedUpTo, merged
<1>7. CASE conflicts # {}
  <2>1. merged = cut
    BY <1>7 DEF MergedLog
  <2>2. Len(merged) = size - 1
    BY <1>7, MergedLogFacts
  <2> DEFINE Early(i) == \A c \in conflicts : i < c
  <2>3. ASSUME NEW i \in 1 .. size - 1
        PROVE  (Early(i) /\ (Old(i) \/ Before(i))) \/ (~Early(i) /\ After(i))
    <3>1. merged[i] = IF \A c \in conflicts : i < c THEN old[i] ELSE new[i - prev]
      BY <2>1
    <3> HIDE DEF merged, conflicts
    <3>2. CASE Early(i)
      <4>1. merged[i] = old[i]
        BY <3>1, <3>2
      <4>2. PICK c \in conflicts : i < c /\ c \in Int /\ c <= size /\ c <= Len(old)
        BY <1>4, <1>7, <3>2
      <4>3. CASE i <= prev + 1
        BY <1>1, <3>2, <4>1, <4>3
      <4>4. CASE ~(i <= prev + 1)
        <5>1. i \in (prev + 2) .. Least(size, Len(old))
          BY <1>1, <4>2, <4>4 DEF Least
        <5>2. i \notin conflicts
          BY <3>2, <1>4
        <5>3. old[i].term = new[i - prev - 1].term
          BY <1>2, <5>1, <5>2
        <5>4. i - prev - 1 \in 1 .. Len(new) /\ i > prev + 1
          BY <1>1, <4>4
        <5> QED BY <3>2, <4>1, <5>3, <5>4
      <4> QED BY <4>3, <4>4
    <3>3. CASE ~Early(i)
      <4>1. merged[i] = new[i - prev]
        BY <3>1, <3>3
      <4>2. PICK c \in conflicts : ~(i < c)
        BY <3>3
      <4>3. prev + 2 <= c /\ c \in Int
        BY <1>4
      <4>4. i - prev \in 1 .. Len(new) /\ i > prev + 1
        BY <1>1, <4>2, <4>3
      <4> QED BY <3>3, <4>1, <4>4
    <3> QED BY <3>2, <3>3
  <2>4. ASSUME NEW i \in 1 .. size - 1, NEW j \in 1 .. size - 1, i <= j, Early(j) PROVE Early(i)
    BY <1>1, <1>4, <2>4
  <2> HIDE DEF merged, cut, conflicts, Early
  <2>5. ASSUME NEW i \in 1 .. size - 1 PROVE merged[i].term <= t
    <3>1. CASE Old(i)
      BY <1>1, <3>1 DEF OrderedUpTo
    <3>2. CASE Before(i) \/ After(i)
      BY <3>2 DEF OrderedUpTo
    <3> QED BY <2>3, <3>1, <3>2
  <2>6. ASSUME NEW i \in 1 .. size - 1, NEW j \in 1 .. size - 1, i <= j
        PROVE  merged[i].term <= merged[j].term
    <3>1. CASE Old(i) /\ Old(j)
      BY <1>8, <1>9, <2>6, <3>1
    <3>2. CASE Old(i) /\ (Before(j) \/ After(j))
      <4>1. prev # -1 /\ prev + 1 \in 1 .. Len(old) /\ i <= prev + 1 /\ i \in 1 .. Len(old)
        BY <1>1, <3>2
      <4>2. old[i].term <= old[prev + 1].term
        BY <4>1 DEF OrderedUpTo
      <4>3. PICK k \in 1 .. Len(new) : merged[j].term = new[k].term
        BY <3>2
      <4>4. old[prev + 1].term <= new[k].term /\ new[k].term \in Int
        BY <1>1, <4>1
      <4>5. /\ merged[i].term = old[i].term
            /\ old[i].term \in Int /\ old[prev + 1].term \in Int
        BY <1>1, <3>2, <4>1
      <4> QED BY <4>2, <4>3, <4>4, <4>5
    <3>3. CASE Before(i) /\ (Before(j) \/ After(j))
      <4>1. i - prev - 1 <= j - prev - 1 /\ i - prev - 1 <= j - prev
        BY <2>6
      <4>2. CASE Before(j)
        BY <1>8, <3>3, <4>1, <4>2
      <4>3. CASE After(j)
        BY <1>8, <3>3, <4>1, <4>3
      <4> QED BY <3>3, <4>2, <4>3
    <3>4. CASE After(i) /\ After(j)
      <4>1. i - prev <= j - prev
        BY <2>6
      <4> QED BY <1>8, <3>4, <4>1
    <3>5. CASE (Before(i) \/ After(i)) /\ Old(j)
      BY <1>1, <2>6, <3>5
    <3> QED BY <2>3, <2>4, <2>6, <3>1, <3>2, <3>3, <3>4, <3>5
  <2> QED BY <2>2, <2>5, <2>6 DEF OrderedUpTo, merged
<1> QED BY <1>6, <1>7

----------------------------------------------------------------------------
(* The steps. *)

LEMMA BeatIsOrdered ==
    ASSUME StateTypeOK, LogTermsOrdered, NEW s \in Servers, NEW d \in Peers(s),
           next_log_index[s][d] >= 0
    PROVE  OrderedMessage(BeatTo(s, d))
<1> DEFINE next == next_log_index[s][d]
           sent == SubSeq(server_log[s], next + 1, Size(s))
           ae == AppendEntries(current_term[s], s, next - 1, TermAt(s, next - 1), sent,
                               commit_index[s])
<1>1. /\ d \in Servers /\ next \in Int /\ next >= 0
      /\ server_log[s] \in Seq(LogEntry) /\ Size(s) \in Nat
  BY LogFacts DEF Peers, StateTypeOK, LeaderTypeOK
<1>2. CASE Size(s) - 1 >= next
  <2>1. BeatTo(s, d) = ae
    BY <1>2 DEF BeatTo
  <2>2. next + 1 \in 1 .. Size(s) /\ Size(s) \in 1 .. Len(server_log[s])
    BY <1>1, <1>2 DEF Size
  <2>3. /\ Len(sent) = Size(s) - next
        /\ \A i \in 1 .. Len(sent) : sent[i] = server_log[s][next + i]
    <3>1. \A i \in next + 1 .. Size(s) : server_log[s][i] \in LogEntry
      BY <1>1, ElementOfSeq DEF Size
    <3> HIDE DEF next
    <3>2. /\ Len(sent) = IF next + 1 <= Size(s) THEN Size(s) - (next + 1) + 1 ELSE 0
          /\ \A i \in 1 .. Size(s) - (next + 1) + 1 : sent[i] = server_log[s][next + 1 + i - 1]
      BY <1>1, <3>1, SubSeqProperties
    <3>3. Size(s) - (next + 1) + 1 = Size(s) - next /\ next + 1 <= Size(s)
      BY <1>1, <1>2
    <3>4. ASSUME NEW i \in 1 .. Len(sent) PROVE sent[i] = server_log[s][next + i]
      <4>1. next + 1 + i - 1 = next + i /\ i \in 1 .. Size(s) - (next + 1) + 1
        BY <1>1, <3>2, <3>3
      <4> HIDE DEF sent
      <4> QED BY <3>2, <4>1
    <3> HIDE DEF sent
    <3> QED BY <3>2, <3>3, <3>4
  <2>4. \A i \in 1 .. Len(sent) : next + i \in 1 .. Len(server_log[s])
    <3> HIDE DEF sent, next
    <3> QED BY <1>1, <2>3 DEF Size
  <2>5. OrderedUpTo(current_term[s], sent)
    <3>1. \A i \in 1 .. Len(sent) : sent[i].term <= current_term[s]
      BY <2>3, <2>4 DEF LogTermsOrdered
    <3>2. ASSUME NEW i \in 1 .. Len(sent), NEW j \in 1 .. Len(sent), i <= j
          PROVE  sent[i].term <= sent[j].term
      <4>1. next + i <= next + j
        BY <1>1, <3>2
      <4>2. server_log[s][next + i].term <= server_log[s][next + j].term
        BY <2>4, <4>1 DEF LogTermsOrdered
      <4> QED BY <2>3, <4>2
    <3> QED BY <3>1, <3>2 DEF OrderedUpTo
  <2>6. ASSUME next - 1 # -1, NEW i \in 1 .. Len(sent)
        PROVE  TermAt(s, next - 1) <= sent[i].term
    <3>1. /\ 0 <= next - 1 /\ next - 1 < Size(s) /\ (next - 1) + 1 = next
          /\ next \in 1 .. Len(server_log[s]) /\ next <= next + i
      BY <1>1, <1>2, <2>6 DEF Size
    <3>2. TermAt(s, next - 1) = server_log[s][next].term
      BY <3>1 DEF TermAt, Entry
    <3>3. server_log[s][next].term <= server_log[s][next + i].term
      BY <2>4, <3>1 DEF LogTermsOrdered
    <3> QED BY <2>3, <3>2, <3>3
  <2>7. /\ ae.type = "APPEND_ENTRIES" /\ ae.term = current_term[s] /\ ae.entries = sent
        /\ ae.prev_log_index = next - 1 /\ ae.prev_log_term = TermAt(s, next - 1)
    BY DEF AppendEntries
  <2> HIDE DEF ae, sent, next
  <2> QED BY <2>1, <2>5, <2>6, <2>7 DEF OrderedMessage, IsCrash
<1>3. CASE ~(Size(s) - 1 >= next)
  <2>1. BeatTo(s, d) = Heartbeat(current_term[s], commit_index[s])
    BY <1>3 DEF BeatTo
  <2> QED BY <2>1, AnswerTypes DEF OrderedMessage, IsCrash
<1> QED BY <1>2, <1>3

\* A term falls only in a crash.
LEMMA TermsRise ==
    ASSUME StateTypeOK, NEW s \in Servers, ServerStep(s), ~HandleCrash(s), NEW d \in Servers
    PROVE  current_term[d] <= current_term'[d]
<1> USE DEF serverState, stateVars, dataVars, electionVars
<1>1. current_term \in [Servers -> Nat] /\ current_term[d] \in Nat
  BY DEF StateTypeOK, ElectionTypeOK
<1>2. CASE UNCHANGED current_term
  BY <1>1, <1>2
<1>3. CASE current_term' = [current_term EXCEPT ![s] = current_term[s] + 1]
  BY <1>1, <1>3
<1>4. CASE StepDown(s)
  <2>1. /\ current_term' = [current_term EXCEPT ![s] = batch[done + 1].rpc.term]
        /\ batch[done + 1].rpc.term > current_term[s] /\ done < Len(batch)
    BY <1>4 DEF StepDown, MustStepDown
  <2>2. batch[done + 1].rpc.term \in Int
    BY <2>1, QueryFacts, RpcFields DEF StateTypeOK
  <2> QED BY <1>1, <2>1, <2>2
<1>5. CASE StartUpdate(s) \/ ReceiveAll(s) \/ ApplyEntry(s) \/ BeginHandling(s)
  BY <1>2, <1>5 DEF StartUpdate, ReceiveAll, ApplyEntry, BeginHandling
<1>6. CASE HandleQuery(s) /\ ~StepDown(s)
  BY <1>2, <1>6 DEF HandleQuery, HandleHeartbeat, HandleVoteRequest, HandleVoteRequestThrows,
     HandleAppendEntriesDenied, HandleAppendEntries, AnswerSearchLeader, DenyNewLogEntry,
     PassOver, QueryDone
<1>7. CASE HandleMessage(s)
  BY <1>2, <1>3, <1>7 DEF HandleMessage, HandleDisplayOrSpeed, HandleStop, HandleRecover,
     HandleServerTimeout, SetAsCandidate, QueryDone
<1>8. CASE Routine(s)
  BY <1>2, <1>3, <1>8 DEF Routine, NoRoutine, FollowerTimesOut, CandidateDefers, CandidateWins,
     CandidateWaits, CandidateTimesOut, SetAsCandidate, LeaderBeats, LeaderSkipsBeat,
     LeaderAppends, LeaderCountsSuccess, LeaderBacksUp, LeaderPassesOver, LeaderCommits, QueryDone
<1> QED BY <1>4, <1>5, <1>6, <1>7, <1>8 DEF ServerStep

LEMMA LogTermsMerge ==
    ASSUME StateTypeOK, TermInv, NEW s \in Servers, HandleAppendEntries(s)
    PROVE  LogTermsOrdered'
<1> DEFINE ae == batch[done + 1].rpc
           merged == MergedLog(server_log[s], ae.prev_log_index, ae.entries)
<1>1. /\ active = s /\ done < Len(batch) /\ ae.type = "APPEND_ENTRIES"
      /\ ~(ae.term > current_term[s]) /\ ~DeniesEntries(s, ae)
      /\ server_log' = [server_log EXCEPT ![s] = merged] /\ UNCHANGED current_term
  BY DEF HandleAppendEntries, Handling, MustStepDown, Live, electionVars
<1>2. /\ ae \in RPC /\ OrderedMessage(ae)
      /\ server_log[s] \in Seq(LogEntry) /\ Size(s) \in Nat /\ current_term[s] \in Int
      /\ server_log \in [Servers -> Seq(LogEntry)]
  <2>1. done + 1 \in 1 .. Len(batch) /\ ae \in RPC
    BY <1>1, QueryFacts DEF StateTypeOK
  <2>2. OrderedMessage(ae)
    BY <1>1, <2>1 DEF TermInv
  <2> QED BY <2>1, <2>2, LogFacts DEF StateTypeOK, ElectionTypeOK, LogTypeOK
<1> HIDE DEF ae
<1>3. /\ ae.entries \in Seq(LogEntry) /\ ae.prev_log_index \in Nat \cup {-1} /\ ae.term \in Int
      /\ OrderedUpTo(ae.term, ae.entries)
      /\ ae.prev_log_index # -1 =>
            \A i \in 1 .. Len(ae.entries) : ae.prev_log_term <= ae.entries[i].term
  BY <1>1, <1>2, RpcFields DEF OrderedMessage
<1>4. /\ ae.prev_log_index < Len(server_log[s])
      /\ ae.prev_log_index # -1 =>
            ae.prev_log_term = server_log[s][ae.prev_log_index + 1].term
  BY <1>1, <1>2, <1>3 DEF DeniesEntries, TermAt, Entry, Size
<1>5. OrderedUpTo(current_term[s], server_log[s])
  BY DEF TermInv, LogTermsOrdered, OrderedUpTo
<1>6. OrderedUpTo(current_term[s], ae.entries)
  <2>1. ae.term <= current_term[s]
    BY <1>1, <1>2, <1>3
  <2>2. \A i \in 1 .. Len(ae.entries) : ae.entries[i].term \in Int
    <3>1. \A i \in 1 .. Len(ae.entries) : ae.entries[i] \in LogEntry
      BY <1>3, ElementOfSeq
    <3> QED BY <3>1 DEF LogEntry
  <2>3. ASSUME NEW i \in 1 .. Len(ae.entries)
        PROVE  ae.entries[i].term <= current_term[s]
    <3>1. ae.entries[i].term <= ae.term
      BY <1>3 DEF OrderedUpTo
    <3>2. ae.entries[i].term \in Int /\ ae.term \in Int /\ current_term[s] \in Int
      BY <1>2, <1>3, <2>2
    <3> QED BY <2>1, <3>1, <3>2
  <2> QED BY <1>3, <2>3 DEF OrderedUpTo
<1>7. OrderedUpTo(current_term[s], merged)
  BY <1>2, <1>3, <1>4, <1>5, <1>6, MergeKeepsOrder
<1> HIDE DEF merged
<1>8. \A d \in Servers : server_log'[d] = IF d = s THEN merged ELSE server_log[d]
  BY <1>1, <1>2
<1>9. \A d \in Servers : OrderedUpTo(current_term'[d], server_log'[d])
  <2>1. \A d \in Servers : OrderedUpTo(current_term[d], server_log[d])
    BY DEF TermInv, LogTermsOrdered, OrderedUpTo
  <2> QED BY <1>1, <1>7, <1>8, <2>1
<1> QED BY <1>9 DEF LogTermsOrdered, OrderedUpTo

LEMMA LogTermsAppend ==
    ASSUME StateTypeOK, LogTermsOrdered, NEW s \in Servers, LeaderAppends(s)
    PROVE  LogTermsOrdered'
<1> DEFINE entry == [term |-> current_term[s], command |-> batch[done + 1].rpc.command]
           old == server_log[s]
<1>1. /\ server_log' = [server_log EXCEPT ![s] = Append(old, entry)]
      /\ UNCHANGED current_term /\ batch[done + 1].rpc.type = "NEW_LOG_ENTRY"
      /\ done < Len(batch)
  BY DEF LeaderAppends, electionVars, Leading
<1>2. old \in Seq(LogEntry) /\ entry \in LogEntry /\ current_term[s] \in Int
  <2>1. batch[done + 1].rpc.command \in Commands
    BY <1>1, QueryFacts, RpcFields DEF StateTypeOK
  <2>2. old \in Seq(LogEntry) /\ current_term[s] \in Int
    BY DEF StateTypeOK, LogTypeOK, ElectionTypeOK
  <2>3. entry \in LogEntry
    BY <2>1, <2>2 DEF LogEntry
  <2> QED BY <2>2, <2>3
<1>3. /\ Len(Append(old, entry)) = Len(old) + 1 /\ Len(old) \in Nat
      /\ \A i \in 1 .. Len(old) : Append(old, entry)[i] = old[i]
      /\ Append(old, entry)[Len(old) + 1] = entry
  <2> HIDE DEF entry, old
  <2> QED BY <1>2, LenProperties, AppendProperties
<1>4. OrderedUpTo(current_term[s], old)
  BY DEF LogTermsOrdered, OrderedUpTo
<1>5. entry.term = current_term[s]
  OBVIOUS
<1> DEFINE new == Append(old, entry)
<1> HIDE DEF entry, old
<1>6. OrderedUpTo(current_term[s], new)
  <2>1. ASSUME NEW i \in 1 .. Len(new) PROVE new[i].term <= current_term[s]
    <3>1. CASE i \in 1 .. Len(old)
      BY <1>3, <1>4, <3>1 DEF OrderedUpTo
    <3>2. CASE i = Len(old) + 1
      BY <1>2, <1>3, <1>5, <3>2
    <3> QED BY <1>3, <3>1, <3>2
  <2>2. ASSUME NEW i \in 1 .. Len(new), NEW j \in 1 .. Len(new), i <= j
        PROVE  new[i].term <= new[j].term
    <3>1. CASE j \in 1 .. Len(old)
      <4>1. i \in 1 .. Len(old)
        BY <1>3, <2>2, <3>1
      <4> QED BY <1>3, <1>4, <2>2, <3>1, <4>1 DEF OrderedUpTo
    <3>2. CASE j = Len(old) + 1
      <4>1. new[j].term = current_term[s]
        BY <1>3, <1>5, <3>2
      <4> QED BY <2>1, <4>1
    <3> QED BY <1>3, <3>1, <3>2
  <2> HIDE DEF new
  <2> QED BY <2>1, <2>2 DEF OrderedUpTo
<1>7. \A d \in Servers : server_log'[d] = IF d = s THEN new ELSE server_log[d]
  <2>1. server_log \in [Servers -> Seq(LogEntry)]
    BY DEF StateTypeOK, LogTypeOK
  <2> QED BY <1>1, <2>1
<1> HIDE DEF new
<1>8. \A d \in Servers : OrderedUpTo(current_term'[d], server_log'[d])
  <2>1. \A d \in Servers : OrderedUpTo(current_term[d], server_log[d])
    BY DEF LogTermsOrdered, OrderedUpTo
  <2> QED BY <1>1, <1>6, <1>7, <2>1
<1> QED BY <1>8 DEF LogTermsOrdered, OrderedUpTo

\* While no crash is ordered, the logs stay ordered.
LEMMA LogTermsStep ==
    ASSUME StateTypeOK, StateTypeOK', TermInv, NEW s \in Servers, ServerStep(s)
    PROVE  LogTermsOrdered'
<1>1. CASE HandleAppendEntries(s)
  BY <1>1, LogTermsMerge
<1>2. CASE LeaderAppends(s)
  BY <1>2, LogTermsAppend DEF TermInv
<1>3. CASE ~HandleAppendEntries(s) /\ ~LeaderAppends(s)
  <2>1. server_log' = server_log
    BY <1>3, LogsFrame
  <2>2. ~HandleCrash(s)
    <3>1. SUFFICES ASSUME HandleCrash(s) PROVE FALSE
      OBVIOUS
    <3>2. Ordered(s, {"PROCESS_CRASH"})
      BY <3>1 DEF HandleCrash
    <3>3. active = s /\ done < Len(batch) /\ IsCrash(batch[done + 1].rpc)
      BY <3>2 DEF Ordered, Handling, Live, IsCrash
    <3>4. done + 1 \in 1 .. Len(batch)
      BY <3>3, QueryFacts DEF StateTypeOK
    <3> QED BY <3>3, <3>4 DEF TermInv, OrderedMessage
  <2> SUFFICES ASSUME NEW d \in Servers
               PROVE  OrderedUpTo(current_term'[d], server_log[d])
    BY <2>1 DEF LogTermsOrdered, OrderedUpTo
  <2>3. OrderedUpTo(current_term[d], server_log[d])
    BY DEF TermInv, LogTermsOrdered, OrderedUpTo
  <2>4. current_term[d] <= current_term'[d]
    BY <2>2, TermsRise
  <2>5. current_term[d] \in Int /\ current_term'[d] \in Int
    BY DEF StateTypeOK, ElectionTypeOK
  <2>6. \A i \in 1 .. Len(server_log[d]) : server_log[d][i].term \in Int
    <3>1. server_log[d] \in Seq(LogEntry)
      BY DEF StateTypeOK, LogTypeOK
    <3>2. \A i \in 1 .. Len(server_log[d]) : server_log[d][i] \in LogEntry
      BY <3>1, ElementOfSeq
    <3> QED BY <3>2 DEF LogEntry
  <2> QED BY <2>3, <2>4, <2>5, <2>6 DEF OrderedUpTo
<1> QED BY <1>1, <1>2, <1>3

\* What is sent is ordered.
LEMMA TermSends ==
    ASSUME StateTypeOK, StateTypeOK', TermInv, SparingTurn,
           NEW p \in Ranks, NEW d \in Servers, NEW i \in 1 .. Len(channel'[p][d])
    PROVE  \/ \E j \in 1 .. Len(channel[p][d]) : channel'[p][d][i] = channel[p][d][j]
           \/ OrderedMessage(channel'[p][d][i])
<1>1. d \in Ranks
  BY RanksFacts
<1>2. CASE OutsideTurn /\ OutsideSpares
  BY <1>2 DEF OutsideSpares, OrderedMessage
<1>3. ASSUME NEW s \in Servers, ServerStep(s), LeaderBeats(s)
      PROVE  \/ \E j \in 1 .. Len(channel[p][d]) : channel'[p][d][i] = channel[p][d][j]
             \/ OrderedMessage(channel'[p][d][i])
  <2>1. ASSUME channel'[p][d][i] = BeatTo(s, d), d \in Peers(s), next_log_index[s][d] >= 0
        PROVE  OrderedMessage(channel'[p][d][i])
    BY <2>1, BeatIsOrdered DEF TermInv
  <2> QED BY <1>1, <1>3, <2>1, BeatIsSent
<1>4. ASSUME NEW s \in Servers, ServerStep(s), ~LeaderBeats(s)
      PROVE  \/ \E j \in 1 .. Len(channel[p][d]) : channel'[p][d][i] = channel[p][d][j]
             \/ OrderedMessage(channel'[p][d][i])
  <2>1. SendsUpTo(current_term'[s], channel, channel')
    BY <1>4, ServerSendsUpTo
  <2> QED BY <1>1, <2>1 DEF SendsUpTo, OrderedMessage, IsCrash
<1> QED BY <1>2, <1>3, <1>4 DEF SparingTurn

LEMMA TermStep ==
    ASSUME StateTypeOK, StateTypeOK', TermInv, SparingTurn
    PROVE  TermInv'
<1> DEFINE Good == {m \in RPC : OrderedMessage(m)}
           G == [d \in Servers |-> Good]
<1>1. SilenceInv'
  BY SilenceStep DEF TermInv, SparingTurn, AnyTurn
<1>2. LogTermsOrdered'
  <2>1. CASE OutsideTurn
    BY <2>1 DEF OutsideTurn, serverState, logVars, electionVars, TermInv, LogTermsOrdered
  <2> QED BY <2>1, LogTermsStep DEF SparingTurn
<1>3. /\ \A p \in Ranks, d \in Servers : channel[p][d] \in Seq(RPC) /\ channel'[p][d] \in Seq(RPC)
      /\ batch \in Seq(Query)
  BY RanksFacts DEF StateTypeOK, ChannelTypeOK, UpdateTypeOK
<1>4. \A p \in Ranks, d \in Servers :
         /\ \A i \in 1 .. Len(channel[p][d]) : channel[p][d][i] \in RPC
         /\ \A i \in 1 .. Len(channel'[p][d]) : channel'[p][d][i] \in RPC
  BY <1>3, ElementOfSeq
<1>5. \A i \in 1 .. Len(batch) : batch[i].rpc \in RPC
  <2>1. \A i \in 1 .. Len(batch) : batch[i] \in Query
    BY <1>3, ElementOfSeq
  <2> QED BY <2>1 DEF Query
<1>6. \A d \in Servers : G[d] = Good
  OBVIOUS
<1>7. \A m : m \in Good <=> m \in RPC /\ OrderedMessage(m)
  OBVIOUS
<1> HIDE DEF G, Good
<1>8. \A p \in Ranks, d \in Servers : \A i \in 1 .. Len(channel[p][d]) :
         channel[p][d][i] \in G[d]
  BY <1>4, <1>6, <1>7 DEF TermInv
<1>9. active \in Servers => \A i \in 1 .. Len(batch) : batch[i].rpc \in G[active]
  BY <1>5, <1>6, <1>7 DEF TermInv
<1>10. \A p \in Ranks, d \in Servers : \A i \in 1 .. Len(channel'[p][d]) :
          \/ \E j \in 1 .. Len(channel[p][d]) : channel'[p][d][i] = channel[p][d][j]
          \/ channel'[p][d][i] \in G[d]
  BY <1>4, <1>6, <1>7, TermSends
<1>11. /\ \A p \in Ranks, d \in Servers : \A i \in 1 .. Len(channel'[p][d]) :
             channel'[p][d][i] \in G[d]
       /\ active' \in Servers => \A i \in 1 .. Len(batch') : batch'[i].rpc \in G[active']
  BY <1>8, <1>9, <1>10, UnderWayStays DEF TermInv, SparingTurn, AnyTurn
<1>12. \A p \in Ranks, d \in Servers : \A i \in 1 .. Len(channel'[p][d]) :
          OrderedMessage(channel'[p][d][i])
  BY <1>6, <1>7, <1>11
<1>13. active' \in Servers => \A i \in 1 .. Len(batch') : OrderedMessage(batch'[i].rpc)
  BY <1>6, <1>7, <1>11
<1> QED BY <1>1, <1>2, <1>12, <1>13 DEF TermInv, OrderedMessage, OrderedUpTo, IsCrash

LEMMA TermInit == ServerInit => TermInv
<1> SUFFICES ASSUME ServerInit PROVE TermInv
  OBVIOUS
<1>1. SilenceInv
  BY SilenceInit
<1>2. \A p \in Ranks, d \in Servers : Len(channel[p][d]) = 0
  BY EmptySeq, RanksFacts DEF ServerInit, ProcessInit
<1>3. active \notin Servers
  BY RanksFacts DEF ServerInit, ProcessInit
<1>4. \A s \in Servers : Len(server_log[s]) = 0
  BY EmptySeq DEF ServerInit
<1> QED BY <1>1, <1>2, <1>3, <1>4 DEF TermInv, LogTermsOrdered
==============================================================================
