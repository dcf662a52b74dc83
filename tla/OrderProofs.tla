----------------------------- MODULE OrderProofs -----------------------------
(***************************************************************************)
(* What is sent, and in which order it arrives.  First, for any number of  *)
(* electable servers: the steps of a server but for the leader's beat put  *)
(* nothing into a channel but messages other than entries and orders, at   *)
(* its end.  Then, when only l may be elected: entries reach a server in   *)
(* the order in which l's log grew, so that no server's log ever shrinks,  *)
(* and what is committed or applied stays in it.                           *)
(***************************************************************************)
EXTENDS LeaderProofs

----------------------------------------------------------------------------
(* Channels that only grow. *)

\* new is what old was, with messages at its end: no entries, and orders only
\* if p, who sends them, is the controller.
OnlyAdds(p, old, new) ==
    /\ Len(old) <= Len(new)
    /\ \A i \in 1 .. Len(old) : new[i] = old[i]
    /\ \A i \in 1 .. Len(new) : Len(old) < i =>
          /\ new[i].type # "APPEND_ENTRIES"
          /\ new[i].type = "MESSAGE" => p = Controller

\* s adds to its own channels, and to no others.
AddsOnly(s, before, after) ==
    \A p, d \in Ranks :
        /\ OnlyAdds(p, before[p][d], after[p][d])
        /\ p # s => after[p][d] = before[p][d]

LEMMA OnlyAddsFacts ==
    ASSUME NEW p, NEW a \in Seq(RPC), NEW b \in Seq(RPC), NEW c \in Seq(RPC)
    PROVE  /\ OnlyAdds(p, a, a)
           /\ OnlyAdds(p, a, b) /\ OnlyAdds(p, b, c) => OnlyAdds(p, a, c)
<1>1. Len(a) \in Nat /\ Len(b) \in Nat /\ Len(c) \in Nat
  BY LenProperties
<1>2. OnlyAdds(p, a, a)
  BY <1>1 DEF OnlyAdds
<1>3. ASSUME OnlyAdds(p, a, b), OnlyAdds(p, b, c) PROVE OnlyAdds(p, a, c)
  <2>1. Len(a) <= Len(c) /\ \A i \in 1 .. Len(a) : c[i] = a[i]
    BY <1>1, <1>3 DEF OnlyAdds
  <2>2. ASSUME NEW i \in 1 .. Len(c), Len(a) < i
        PROVE  c[i].type # "APPEND_ENTRIES" /\ (c[i].type = "MESSAGE" => p = Controller)
    <3>1. CASE i <= Len(b)
      <4>1. i \in 1 .. Len(b)
        BY <1>1, <3>1
      <4> QED BY <1>3, <2>2, <4>1 DEF OnlyAdds
    <3>2. CASE ~(i <= Len(b))
      <4>1. Len(b) < i
        BY <1>1, <3>2
      <4> QED BY <1>3, <4>1 DEF OnlyAdds
    <3> QED BY <3>1, <3>2
  <2> QED BY <2>1, <2>2 DEF OnlyAdds
<1> QED BY <1>2, <1>3

LEMMA AppendIsAdding ==
    ASSUME NEW p, NEW a \in Seq(RPC), NEW m \in RPC,
           m.type # "APPEND_ENTRIES", m.type = "MESSAGE" => p = Controller
    PROVE  OnlyAdds(p, a, Append(a, m))
<1>1. Len(a) \in Nat
  BY LenProperties
<1>2. /\ Len(Append(a, m)) = Len(a) + 1
      /\ \A i \in 1 .. Len(a) : Append(a, m)[i] = a[i]
      /\ Append(a, m)[Len(a) + 1] = m
  BY AppendProperties
<1>3. \A i \in 1 .. Len(Append(a, m)) : Len(a) < i => Append(a, m)[i] = m
  BY <1>1, <1>2
<1> QED BY <1>1, <1>2, <1>3 DEF OnlyAdds

LEMMA AddsOnlyFacts ==
    ASSUME NEW s, NEW a \in Channels, NEW b \in Channels, NEW c \in Channels
    PROVE  /\ AddsOnly(s, a, a)
           /\ AddsOnly(s, a, b) /\ AddsOnly(s, b, c) => AddsOnly(s, a, c)
<1>1. \A p, d \in Ranks : a[p][d] \in Seq(RPC) /\ b[p][d] \in Seq(RPC) /\ c[p][d] \in Seq(RPC)
  BY DEF Channels
<1> QED BY <1>1, OnlyAddsFacts DEF AddsOnly

\* What a send of each kind adds.
Quiet(m, s) == m.type # "APPEND_ENTRIES" /\ (m.type = "MESSAGE" => s = Controller)

LEMMA SendAdds ==
    ASSUME NEW chan \in Channels, NEW s \in Ranks, NEW dst, NEW m \in RPC, Quiet(m, s), NEW ended
    PROVE  AddsOnly(s, chan, SendMessage(chan, s, dst, m, ended))
<1> DEFINE new == SendMessage(chan, s, dst, m, ended)
<1>1. CASE dst \in ended \/ dst \notin Ranks
  <2>1. new = chan
    BY <1>1 DEF SendMessage, Channels
  <2> QED BY <2>1, AddsOnlyFacts
<1>2. CASE dst \notin ended /\ dst \in Ranks
  <2>1. new = [chan EXCEPT ![s][dst] = Append(chan[s][dst], m)]
    BY <1>2 DEF SendMessage
  <2> SUFFICES ASSUME NEW p \in Ranks, NEW d \in Ranks
               PROVE  /\ OnlyAdds(p, chan[p][d], new[p][d])
                      /\ p # s => new[p][d] = chan[p][d]
    BY DEF AddsOnly
  <2>2. chan[p][d] \in Seq(RPC)
    BY DEF Channels
  <2>3. CASE p = s /\ d = dst
    <3>1. new[p][d] = Append(chan[p][d], m)
      BY <1>2, <2>1, <2>3 DEF Channels
    <3>2. OnlyAdds(p, chan[p][d], Append(chan[p][d], m))
      BY <2>2, <2>3, AppendIsAdding DEF Quiet
    <3> HIDE DEF new
    <3> QED BY <2>3, <3>1, <3>2
  <2>4. CASE ~(p = s /\ d = dst)
    <3>1. new[p][d] = chan[p][d]
      BY <1>2, <2>1, <2>4 DEF Channels
    <3> HIDE DEF new
    <3> QED BY <2>2, <3>1, OnlyAddsFacts
  <2> QED BY <2>3, <2>4
<1> QED BY <1>1, <1>2

LEMMA SendToAllAdds ==
    ASSUME NEW chan \in Channels, NEW s \in Ranks, NEW dests \in SUBSET Ranks, NEW m,
           \A d \in dests : m[d] \in RPC /\ Quiet(m[d], s), NEW ended
    PROVE  AddsOnly(s, chan, SendToAll(chan, s, dests, m, ended))
<1> DEFINE new == SendToAll(chan, s, dests, m, ended)
           row == [d \in Ranks |-> IF d \in dests \ ended
                                   THEN Append(chan[s][d], m[d]) ELSE chan[s][d]]
<1>1. new = [chan EXCEPT ![s] = row]
  BY DEF SendToAll
<1> SUFFICES ASSUME NEW p \in Ranks, NEW d \in Ranks
             PROVE  /\ OnlyAdds(p, chan[p][d], new[p][d])
                    /\ p # s => new[p][d] = chan[p][d]
  BY DEF AddsOnly
<1>2. chan[p][d] \in Seq(RPC)
  BY DEF Channels
<1>3. CASE p # s
  <2>1. new[p][d] = chan[p][d]
    BY <1>1, <1>3 DEF Channels
  <2> HIDE DEF new
  <2> QED BY <1>2, <2>1, OnlyAddsFacts
<1>4. CASE p = s
  <2>1. new[p][d] = row[d]
    <3> HIDE DEF row
    <3> QED BY <1>1, <1>4 DEF Channels
  <2>2. row[d] = IF d \in dests \ ended THEN Append(chan[p][d], m[d]) ELSE chan[p][d]
    BY <1>4
  <2>3. OnlyAdds(p, chan[p][d], row[d])
    <3>1. CASE d \in dests \ ended
      <4>1. m[d] \in RPC /\ Quiet(m[d], p)
        BY <1>4, <3>1
      <4>2. OnlyAdds(p, chan[p][d], Append(chan[p][d], m[d]))
        BY <1>2, <4>1, AppendIsAdding DEF Quiet
      <4> HIDE DEF row
      <4> QED BY <2>2, <3>1, <4>2
    <3>2. CASE d \notin dests \ ended
      <4> HIDE DEF row
      <4> QED BY <1>2, <2>2, <3>2, OnlyAddsFacts
    <3> QED BY <3>1, <3>2
  <2> HIDE DEF new, row
  <2> QED BY <1>4, <2>1, <2>3
<1> QED BY <1>3, <1>4

\* What others than the servers do to the channels: the servers are sent
\* neither entries nor a forged order, and send nothing.
OutsideChannels ==
    /\ \A p \in Ranks, d \in Servers : OnlyAdds(p, channel[p][d], channel'[p][d])
    /\ \A s \in Servers, d \in Ranks : Len(channel'[s][d]) <= Len(channel[s][d])

LEMMA OutsideChannelsFacts ==
    ASSUME ChannelTypeOK, NEW p \in Ranks, p \notin Servers
    PROVE  /\ AddsOnly(p, channel, channel') => OutsideChannels
           /\ UNCHANGED channel => OutsideChannels
           /\ \A dst, ended : \A m \in RPC :
                 Quiet(m, p) /\ channel' = SendMessage(channel, p, dst, m, ended)
                    => OutsideChannels
<1>1. channel \in Channels /\ \A s \in Servers, d \in Ranks : Len(channel[s][d]) \in Nat
  <2>1. \A s \in Servers, d \in Ranks : channel[s][d] \in Seq(RPC)
    BY RanksFacts DEF ChannelTypeOK
  <2> QED BY <2>1, LenProperties DEF ChannelTypeOK, Channels
<1>2. ASSUME AddsOnly(p, channel, channel') PROVE OutsideChannels
  <2>1. \A s \in Servers, d \in Ranks : channel'[s][d] = channel[s][d]
    BY <1>2, RanksFacts DEF AddsOnly
  <2>2. \A s \in Servers, d \in Ranks : Len(channel'[s][d]) <= Len(channel[s][d])
    BY <1>1, <2>1
  <2> QED BY <1>2, <2>2, RanksFacts DEF AddsOnly, OutsideChannels
<1>3. AddsOnly(p, channel, channel)
  BY <1>1, AddsOnlyFacts
<1>4. UNCHANGED channel => OutsideChannels
  BY <1>2, <1>3
<1>5. \A dst, ended : \A m \in RPC :
         Quiet(m, p) => AddsOnly(p, channel, SendMessage(channel, p, dst, m, ended))
  BY <1>1, SendAdds
<1> QED BY <1>2, <1>4, <1>5

----------------------------------------------------------------------------
(* What a server sends, receiving and the leader's beat apart. *)

LEMMA VotesAdd ==
    ASSUME StateTypeOK, NEW s \in Servers
    PROVE  AddsOnly(s, channel, RequestVotes(s))
<1> DEFINE request == VoteRequest(current_term[s] + 1, s, Size(s) - 1, TermAt(s, Size(s) - 1))
           m == [p \in Peers(s) |-> request]
<1>1. request \in RPC /\ request.type = "VOTE_REQUEST"
  BY VoteRequestType, AnswerTypes DEF StateTypeOK
<1>2. \A d \in Peers(s) : m[d] \in RPC /\ Quiet(m[d], s)
  <2> HIDE DEF request
  <2> QED BY <1>1 DEF Quiet
<1>3. RequestVotes(s) = SendToAll(channel, s, Peers(s), m, Ended)
  BY DEF RequestVotes
<1>4. channel \in Channels /\ s \in Ranks /\ Peers(s) \in SUBSET Ranks
  BY RanksFacts DEF StateTypeOK, ChannelTypeOK, Channels, Peers
<1> HIDE DEF m
<1> QED BY <1>2, <1>3, <1>4, SendToAllAdds

LEMMA QuietSends ==
    ASSUME StateTypeOK, NEW s \in Servers, ServerStep(s), ~ReceiveAll(s), ~LeaderBeats(s)
    PROVE  AddsOnly(s, channel, channel')
<1> USE DEF stateVars, dataVars, electionVars, logVars
<1>1. channel \in Channels /\ s \in Ranks
  BY RanksFacts DEF StateTypeOK, ChannelTypeOK, Channels
<1>2. CASE UNCHANGED channel
  BY <1>1, <1>2, AddsOnlyFacts
<1>3. ASSUME NEW dst, NEW m \in RPC, m.type \notin {"APPEND_ENTRIES", "MESSAGE"}, Reply(s, dst, m)
      PROVE  AddsOnly(s, channel, channel')
  BY <1>1, <1>3, SendAdds DEF Reply, Quiet
<1>4. current_term[s] \in Int /\ commit_index[s] \in Int
  BY DEF StateTypeOK, ElectionTypeOK, LogTypeOK
<1>5. CASE StartUpdate(s) \/ BeginHandling(s)
  BY <1>2, <1>5 DEF StartUpdate, Begin, BeginHandling
<1>6. CASE ApplyEntry(s)
  <2>1. UNCHANGED channel \/ Reply(s, Head(entries_queue[s]).source, NewLogEntryResponse(TRUE))
    BY <1>6 DEF ApplyEntry
  <2> QED BY <1>2, <1>3, <2>1, RpcFacts, AnswerTypes
<1>7. CASE HandleQuery(s)
  <2> DEFINE q == batch[done + 1]
  <2>1. CASE StepDown(s) \/ HandleHeartbeat(s) \/ HandleVoteRequestThrows(s) \/ PassOver(s)
    BY <1>2, <2>1 DEF StepDown, HandleHeartbeat, HandleVoteRequestThrows, PassOver
  <2>2. CASE HandleVoteRequest(s)
    <3>1. PICK b \in BOOLEAN : b = GrantsVote(s, q.rpc)
      BY DEF GrantsVote
    <3>2. Reply(s, q.rpc.candidate_rank, VoteResponse(current_term[s], b))
      BY <2>2, <3>1 DEF HandleVoteRequest
    <3> QED BY <1>3, <1>4, <3>2, RpcFacts, AnswerTypes
  <2>3. CASE HandleAppendEntriesDenied(s)
    <3>1. Reply(s, q.rpc.leader_rank, AppendEntriesResponse(current_term[s], FALSE))
      BY <2>3 DEF HandleAppendEntriesDenied
    <3> QED BY <1>3, <1>4, <3>1, RpcFacts, AnswerTypes
  <2>4. CASE HandleAppendEntries(s)
    <3>1. /\ Reply(s, q.rpc.leader_rank, AppendEntriesResponse(q.rpc.term, TRUE))
          /\ done < Len(batch)
      BY <2>4 DEF HandleAppendEntries, Handling
    <3>2. q.rpc.term \in Int
      BY <3>1, QueryFacts, RpcFields DEF StateTypeOK
    <3> QED BY <1>3, <3>1, <3>2, RpcFacts, AnswerTypes
  <2>5. CASE AnswerSearchLeader(s)
    BY <1>3, <2>5, RpcFacts, AnswerTypes DEF AnswerSearchLeader
  <2>6. CASE DenyNewLogEntry(s)
    BY <1>3, <2>6, RpcFacts, AnswerTypes DEF DenyNewLogEntry
  <2> QED BY <1>7, <2>1, <2>2, <2>3, <2>4, <2>5, <2>6 DEF HandleQuery
<1>8. CASE HandleMessage(s)
  <2>1. ASSUME NEW b \in BOOLEAN, Answer(s, b) PROVE AddsOnly(s, channel, channel')
    BY <1>3, <2>1, RpcFacts, AnswerTypes DEF Answer
  <2>2. CASE HandleDisplayOrSpeed(s) \/ HandleStop(s)
    BY <2>1, <2>2 DEF HandleDisplayOrSpeed, HandleStop
  <2>3. CASE HandleCrash(s) \/ HandleRecover(s)
    <3>1. PICK b \in BOOLEAN : Answer(s, b)
      BY <2>3 DEF HandleCrash, HandleRecover
    <3> QED BY <2>1, <3>1
  <2>4. CASE HandleServerTimeout(s)
    <3>1. CASE status[s] = "FOLLOWER"
      <4>1. PICK asked \in Channels : asked = RequestVotes(s)
        BY RequestVotesTypes DEF StateTypeOK
      <4>2. channel' = SendMessage(asked, s, batch[done + 1].source, MessageResponse(TRUE), Ended)
        BY <2>4, <3>1, <4>1 DEF HandleServerTimeout
      <4>3. MessageResponse(TRUE) \in RPC /\ Quiet(MessageResponse(TRUE), s)
        BY RpcFacts, AnswerTypes DEF Quiet
      <4>4. AddsOnly(s, channel, asked)
        BY <4>1, VotesAdd
      <4>5. AddsOnly(s, asked, channel')
        BY <1>1, <4>2, <4>3, SendAdds
      <4>6. channel' \in Channels
        BY <1>1, <4>2, <4>3, SendMessageFacts
      <4> QED BY <1>1, <4>4, <4>5, <4>6, AddsOnlyFacts
    <3>2. CASE status[s] # "FOLLOWER"
      BY <2>1, <2>4, <3>2 DEF HandleServerTimeout
    <3> QED BY <3>1, <3>2
  <2> QED BY <1>8, <2>2, <2>3, <2>4 DEF HandleMessage
<1>9. CASE Routine(s)
  <2>1. CASE FollowerTimesOut(s) \/ CandidateTimesOut(s)
    <3>1. channel' = RequestVotes(s)
      BY <2>1 DEF FollowerTimesOut, CandidateTimesOut
    <3> QED BY <3>1, VotesAdd
  <2>2. CASE CandidateWins(s)
    <3> DEFINE heartbeat == Heartbeat(current_term[s], commit_index[s])
               m == [p \in Peers(s) |-> heartbeat]
    <3>1. heartbeat \in RPC /\ heartbeat.type = "HEARTBEAT"
      BY <1>4, RpcFacts, AnswerTypes
    <3>2. \A d \in Peers(s) : m[d] \in RPC /\ Quiet(m[d], s)
      <4> HIDE DEF heartbeat
      <4> QED BY <3>1 DEF Quiet
    <3>3. channel' = SendToAll(channel, s, Peers(s), m, Ended) /\ Peers(s) \in SUBSET Ranks
      BY <2>2, RanksFacts DEF CandidateWins, Peers
    <3> HIDE DEF m
    <3> QED BY <1>1, <3>2, <3>3, SendToAllAdds
  <2>3. CASE \/ NoRoutine(s) \/ CandidateDefers(s) \/ CandidateWaits(s) \/ LeaderSkipsBeat(s)
             \/ LeaderAppends(s) \/ LeaderCountsSuccess(s) \/ LeaderBacksUp(s)
             \/ LeaderPassesOver(s) \/ LeaderCommits(s)
    BY <1>2, <2>3 DEF NoRoutine, CandidateDefers, CandidateWaits, LeaderSkipsBeat,
       LeaderAppends, LeaderCountsSuccess, LeaderBacksUp, LeaderPassesOver, LeaderCommits
  <2> QED BY <1>9, <2>1, <2>2, <2>3 DEF Routine
<1> QED BY <1>5, <1>6, <1>7, <1>8, <1>9 DEF ServerStep

----------------------------------------------------------------------------
(* The order in which entries arrive, when only l may be elected. *)

IsEntries(m) == m.type = "APPEND_ENTRIES"

\* The size of the log a server has once it has taken the entries of m.
End(m) == m.prev_log_index + 1 + Len(m.entries)

Fits(size, m)    == IsEntries(m) => size <= End(m)
InOrder(m, n)    == IsEntries(m) /\ IsEntries(n) => End(m) <= End(n)

OnlyLeaderSends(l) ==
    \A p \in Ranks \ {l}, s \in Servers : \A i \in 1 .. Len(channel[p][s]) :
        ~IsEntries(channel[p][s][i])

ChannelOrder(l) ==
    \A s \in Peers(l) : \A i \in 1 .. Len(channel[l][s]) :
        /\ Fits(Size(s), channel[l][s][i])
        /\ \A j \in i .. Len(channel[l][s]) : InOrder(channel[l][s][i], channel[l][s][j])

\* The queries active has not handled yet come before those in its channels.
BatchOrder(l) ==
    active \in Peers(l) => \A i \in done + 1 .. Len(batch) :
        /\ Fits(Size(active), batch[i].rpc)
        /\ \A j \in i .. Len(batch) : InOrder(batch[i].rpc, batch[j].rpc)
        /\ \A j \in 1 .. Len(channel[l][active]) : InOrder(batch[i].rpc, channel[l][active][j])

OrderInv(l) ==
    /\ LeaderInv(l)
    /\ OnlyLeaderSends(l)
    /\ ChannelOrder(l)
    /\ BatchOrder(l)
    /\ CommitWithinLog

\* After the step there is no batch but the leader's, or what is left of the
\* same batch, which still fits the log.
BatchFits(l) ==
    \/ active' \notin Peers(l)
    \/ /\ UNCHANGED <<active, batch>>
       /\ done <= done'
       /\ \A i \in done' + 1 .. Len(batch) : Fits(Len(server_log'[active]), batch[i].rpc)

\* Steps that leave the entries under way as they are.
LEMMA OrderFrame ==
    ASSUME NEW l \in Servers, StateTypeOK, StateTypeOK',
           OnlyLeaderSends(l), ChannelOrder(l), BatchOrder(l),
           \A p \in Ranks, d \in Servers : OnlyAdds(p, channel[p][d], channel'[p][d]),
           \A s \in Peers(l) : \A i \in 1 .. Len(channel[l][s]) :
              Fits(Len(server_log'[s]), channel[l][s][i]),
           BatchFits(l)
    PROVE  OnlyLeaderSends(l)' /\ ChannelOrder(l)' /\ BatchOrder(l)'
<1>1. /\ l \in Ranks /\ \A s \in Peers(l) : s \in Servers
      /\ \A p \in Ranks, d \in Servers :
            Len(channel[p][d]) \in Nat /\ Len(channel'[p][d]) \in Nat
  <2>1. \A p \in Ranks, d \in Servers : channel[p][d] \in Seq(RPC) /\ channel'[p][d] \in Seq(RPC)
    BY RanksFacts DEF StateTypeOK, ChannelTypeOK
  <2> QED BY <2>1, LenProperties, RanksFacts DEF Peers
<1>2. ASSUME NEW p \in Ranks, NEW d \in Servers, NEW i \in 1 .. Len(channel'[p][d]),
             IsEntries(channel'[p][d][i])
      PROVE  i \in 1 .. Len(channel[p][d]) /\ channel'[p][d][i] = channel[p][d][i]
  <2>1. ~(Len(channel[p][d]) < i)
    BY <1>2 DEF OnlyAdds, IsEntries
  <2>2. i \in 1 .. Len(channel[p][d])
    BY <1>1, <2>1
  <2> QED BY <2>2 DEF OnlyAdds
<1>3. OnlyLeaderSends(l)'
  BY <1>2 DEF OnlyLeaderSends
<1>4. ChannelOrder(l)'
  <2> SUFFICES ASSUME NEW s \in Peers(l), NEW i \in 1 .. Len(channel'[l][s])
               PROVE  /\ Fits(Len(server_log'[s]), channel'[l][s][i])
                      /\ \A j \in i .. Len(channel'[l][s]) :
                            InOrder(channel'[l][s][i], channel'[l][s][j])
    BY DEF ChannelOrder, Size
  <2>1. s \in Servers
    BY <1>1
  <2>2. Fits(Len(server_log'[s]), channel'[l][s][i])
    BY <1>1, <1>2, <2>1 DEF Fits
  <2>3. ASSUME NEW j \in i .. Len(channel'[l][s]), IsEntries(channel'[l][s][i]),
               IsEntries(channel'[l][s][j])
        PROVE  End(channel'[l][s][i]) <= End(channel'[l][s][j])
    <3>1. j \in 1 .. Len(channel'[l][s])
      BY <1>1, <2>1
    <3>2. /\ i \in 1 .. Len(channel[l][s]) /\ channel'[l][s][i] = channel[l][s][i]
          /\ j \in 1 .. Len(channel[l][s]) /\ channel'[l][s][j] = channel[l][s][j]
      BY <1>1, <1>2, <2>1, <2>3, <3>1
    <3>3. j \in i .. Len(channel[l][s])
      BY <1>1, <2>1, <3>2
    <3> QED BY <2>3, <3>2, <3>3 DEF ChannelOrder, InOrder
  <2> QED BY <2>2, <2>3 DEF InOrder
<1>5. BatchOrder(l)'
  <2> SUFFICES ASSUME active' \in Peers(l), NEW i \in done' + 1 .. Len(batch')
               PROVE  /\ Fits(Len(server_log'[active']), batch'[i].rpc)
                      /\ \A j \in i .. Len(batch') : InOrder(batch'[i].rpc, batch'[j].rpc)
                      /\ \A j \in 1 .. Len(channel'[l][active']) :
                            InOrder(batch'[i].rpc, channel'[l][active'][j])
    BY DEF BatchOrder, Size
  <2>1. /\ active' = active /\ batch' = batch /\ active \in Peers(l) /\ active \in Servers
        /\ done <= done' /\ Fits(Len(server_log'[active]), batch[i].rpc)
    BY <1>1 DEF BatchFits
  <2>2. i \in done + 1 .. Len(batch)
    <3>1. done \in Int /\ done' \in Int /\ Len(batch) \in Nat
      <4>1. batch \in Seq(Query) /\ batch' \in Seq(Query)
        BY DEF StateTypeOK, UpdateTypeOK
      <4> QED BY <4>1, LenProperties DEF StateTypeOK, UpdateTypeOK
    <3>2. PICK n \in Int : n = done'
      BY <3>1
    <3>3. i \in n + 1 .. Len(batch) /\ done <= n
      BY <2>1, <3>2
    <3> QED BY <3>1, <3>3
  <2>3. \A j \in i .. Len(batch) : InOrder(batch[i].rpc, batch[j].rpc)
    BY <2>1, <2>2 DEF BatchOrder
  <2>4. ASSUME NEW j \in 1 .. Len(channel'[l][active])
        PROVE  InOrder(batch[i].rpc, channel'[l][active][j])
    BY <1>1, <1>2, <2>1, <2>2 DEF BatchOrder, InOrder
  <2> QED BY <2>1, <2>3, <2>4
<1> QED BY <1>3, <1>4, <1>5

\* A receive moves messages from the front of a channel to the end of the batch.
LEMMA OrderReceive ==
    ASSUME NEW l \in Servers, StateTypeOK, OnlyLeaderSends(l), ChannelOrder(l), BatchOrder(l),
           NEW s \in Servers, ReceiveAll(s)
    PROVE  OnlyLeaderSends(l)' /\ ChannelOrder(l)' /\ BatchOrder(l)'
<1>1. l \in Ranks /\ s \in Ranks /\ (\A d \in Peers(l) : d \in Servers /\ d \in Ranks)
  BY RanksFacts DEF Peers
<1>2. PICK p \in Ranks : Receive(s, p) \/ ReceiveGarbled(s, p)
  BY DEF ReceiveAll
<1>3. PICK n \in 1 .. Len(channel[p][s]) : \E k \in 0 .. n : Drain(s, p, k, n)
  BY <1>1, <1>2, ReceiveIsDrain DEF StateTypeOK
<1>4. PICK k \in 0 .. n : Drain(s, p, k, n)
  BY <1>3
<1>5. /\ \A q, d \in Ranks : (q = p /\ d = s) \/ channel'[q][d] = channel[q][d]
      /\ \A i \in 1 .. Len(channel'[p][s]) :
            n + i \in 1 .. Len(channel[p][s]) /\ channel'[p][s][i] = channel[p][s][n + i]
      /\ Len(batch') = Len(batch) + k
      /\ \A i \in 1 .. Len(batch) : batch'[i] = batch[i]
      /\ \A i \in 1 .. Len(batch') : Len(batch) < i =>
            /\ i - Len(batch) \in 1 .. k
            /\ batch'[i] = [source |-> p, rpc |-> channel[p][s][i - Len(batch)]]
      /\ channel' \in Channels
  BY <1>1, <1>4, DrainMoves DEF StateTypeOK
<1>6. active = s /\ active' = s /\ done' = done /\ UNCHANGED server_log
  BY <1>4 DEF ReceiveAll, Drain, serverState, logVars
<1>7. /\ done \in Nat /\ Len(batch) \in Nat /\ n \in Nat /\ k \in Nat /\ k <= n
      /\ \A q, d \in Ranks : Len(channel[q][d]) \in Nat /\ Len(channel'[q][d]) \in Nat
      /\ n <= Len(channel[p][s])
  <2>1. /\ \A q, d \in Ranks : channel[q][d] \in Seq(RPC) /\ channel'[q][d] \in Seq(RPC)
        /\ batch \in Seq(Query) /\ done \in Nat
    BY <1>5, LenProperties DEF StateTypeOK, ChannelTypeOK, Channels, UpdateTypeOK
  <2>2. /\ Len(batch) \in Nat
        /\ \A q, d \in Ranks : Len(channel[q][d]) \in Nat /\ Len(channel'[q][d]) \in Nat
    BY <2>1, LenProperties
  <2> QED BY <1>1, <2>1, <2>2
<1> HIDE DEF ReceiveAll
<1>8. OnlyLeaderSends(l)'
  <2> SUFFICES ASSUME NEW q \in Ranks \ {l}, NEW d \in Servers, NEW i \in 1 .. Len(channel'[q][d])
               PROVE  ~IsEntries(channel'[q][d][i])
    BY DEF OnlyLeaderSends
  <2>1. CASE q = p /\ d = s
    BY <1>5, <2>1 DEF OnlyLeaderSends
  <2>2. CASE ~(q = p /\ d = s)
    <3>1. channel'[q][d] = channel[q][d]
      BY <1>5, <2>2, RanksFacts
    <3> QED BY <3>1 DEF OnlyLeaderSends
  <2> QED BY <2>1, <2>2
<1>9. ChannelOrder(l)'
  <2> SUFFICES ASSUME NEW d \in Peers(l), NEW i \in 1 .. Len(channel'[l][d])
               PROVE  /\ Fits(Len(server_log[d]), channel'[l][d][i])
                      /\ \A j \in i .. Len(channel'[l][d]) :
                            InOrder(channel'[l][d][i], channel'[l][d][j])
    BY <1>6 DEF ChannelOrder, Size
  <2>1. CASE l = p /\ d = s
    <3>1. n + i \in 1 .. Len(channel[l][d]) /\ channel'[l][d][i] = channel[l][d][n + i]
      BY <1>5, <2>1
    <3>2. Fits(Len(server_log[d]), channel[l][d][n + i])
      BY <3>1 DEF ChannelOrder, Size
    <3>3. ASSUME NEW j \in i .. Len(channel'[l][d])
          PROVE  InOrder(channel'[l][d][i], channel'[l][d][j])
      <4>1. j \in 1 .. Len(channel'[l][d])
        BY <1>1, <1>7
      <4>2. n + j \in 1 .. Len(channel[l][d]) /\ channel'[l][d][j] = channel[l][d][n + j]
        BY <1>5, <2>1, <4>1
      <4>3. n + j \in n + i .. Len(channel[l][d])
        BY <1>1, <1>7, <4>2
      <4> QED BY <3>1, <4>2, <4>3 DEF ChannelOrder
    <3> QED BY <3>1, <3>2, <3>3
  <2>2. CASE ~(l = p /\ d = s)
    <3>1. channel'[l][d] = channel[l][d]
      BY <1>1, <1>5, <2>2
    <3> QED BY <3>1 DEF ChannelOrder, Size
  <2> QED BY <2>1, <2>2
<1>10. BatchOrder(l)'
  <2> SUFFICES ASSUME s \in Peers(l), NEW i \in done + 1 .. Len(batch')
               PROVE  /\ Fits(Len(server_log[s]), batch'[i].rpc)
                      /\ \A j \in i .. Len(batch') : InOrder(batch'[i].rpc, batch'[j].rpc)
                      /\ \A j \in 1 .. Len(channel'[l][s]) :
                            InOrder(batch'[i].rpc, channel'[l][s][j])
    BY <1>6 DEF BatchOrder, Size
  <2>1. ASSUME NEW j \in 1 .. Len(batch'), Len(batch) < j, IsEntries(batch'[j].rpc)
        PROVE  /\ p = l /\ j - Len(batch) \in 1 .. k /\ j - Len(batch) \in 1 .. Len(channel[l][s])
               /\ batch'[j].rpc = channel[l][s][j - Len(batch)]
    <3>1. j - Len(batch) \in 1 .. k /\ batch'[j].rpc = channel[p][s][j - Len(batch)]
      BY <1>5, <2>1
    <3>2. j - Len(batch) \in 1 .. Len(channel[p][s])
      BY <1>1, <1>7, <3>1
    <3> QED BY <2>1, <3>1, <3>2 DEF OnlyLeaderSends
  <2>2. \A j \in 1 .. Len(channel'[l][s]) :
           \E m \in 1 .. Len(channel[l][s]) :
              channel'[l][s][j] = channel[l][s][m] /\ (p = l => m = n + j)
    <3>1. CASE p = l
      <4>1. \A j \in 1 .. Len(channel'[l][s]) :
               n + j \in 1 .. Len(channel[l][s]) /\ channel'[l][s][j] = channel[l][s][n + j]
        BY <1>5, <3>1
      <4> QED BY <4>1
    <3>2. CASE p # l
      <4>1. channel'[l][s] = channel[l][s]
        BY <1>1, <1>5, <3>2
      <4> QED BY <3>2, <4>1
    <3> QED BY <3>1, <3>2
  <2>3. i \in 1 .. Len(batch')
    BY <1>5, <1>7
  <2>4. CASE i <= Len(batch)
    <3>1. i \in done + 1 .. Len(batch) /\ batch'[i] = batch[i]
      BY <1>5, <1>7, <2>4
    <3>2. Fits(Len(server_log[s]), batch'[i].rpc)
      BY <1>6, <3>1 DEF BatchOrder, Size
    <3>3. ASSUME NEW m \in 1 .. Len(channel[l][s]) PROVE InOrder(batch[i].rpc, channel[l][s][m])
      BY <1>6, <3>1 DEF BatchOrder
    <3>4. ASSUME NEW j \in i .. Len(batch') PROVE InOrder(batch'[i].rpc, batch'[j].rpc)
      <4>1. j \in 1 .. Len(batch')
        BY <1>5, <1>7
      <4>2. CASE j <= Len(batch)
        <5>1. j \in i .. Len(batch) /\ batch'[j] = batch[j]
          BY <1>5, <1>7, <2>3, <4>2
        <5> QED BY <1>6, <3>1, <5>1 DEF BatchOrder
      <4>3. CASE ~(j <= Len(batch))
        <5>1. Len(batch) < j
          BY <1>7, <4>1, <4>3
        <5>2. CASE IsEntries(batch'[j].rpc)
          BY <2>1, <3>1, <3>3, <4>1, <5>1, <5>2
        <5>3. CASE ~IsEntries(batch'[j].rpc)
          BY <5>3 DEF InOrder
        <5> QED BY <5>2, <5>3
      <4> QED BY <4>2, <4>3
    <3> QED BY <2>2, <3>1, <3>2, <3>3, <3>4
  <2>5. CASE ~(i <= Len(batch)) /\ IsEntries(batch'[i].rpc)
    <3> DEFINE m == i - Len(batch)
    <3>1. Len(batch) < i
      BY <1>7, <2>3, <2>5
    <3>2. /\ p = l /\ m \in 1 .. k /\ m \in 1 .. Len(channel[l][s])
          /\ batch'[i].rpc = channel[l][s][m]
      BY <2>1, <2>3, <2>5, <3>1
    <3>3. Fits(Len(server_log[s]), batch'[i].rpc)
      BY <3>2 DEF ChannelOrder, Size
    <3>4. ASSUME NEW j \in i .. Len(batch'), IsEntries(batch'[j].rpc)
          PROVE  InOrder(batch'[i].rpc, batch'[j].rpc)
      <4>1. j \in 1 .. Len(batch') /\ Len(batch) < j
        BY <1>5, <1>7, <2>3, <3>1
      <4>2. j - Len(batch) \in 1 .. Len(channel[l][s])
            /\ batch'[j].rpc = channel[l][s][j - Len(batch)]
        BY <2>1, <3>4, <4>1
      <4>3. j - Len(batch) \in m .. Len(channel[l][s])
        BY <1>1, <1>7, <2>3, <4>2
      <4> QED BY <3>2, <4>2, <4>3 DEF ChannelOrder
    <3>5. ASSUME NEW j \in i .. Len(batch'), ~IsEntries(batch'[j].rpc)
          PROVE  InOrder(batch'[i].rpc, batch'[j].rpc)
      BY <3>5 DEF InOrder
    <3>6. ASSUME NEW j \in 1 .. Len(channel'[l][s])
          PROVE  InOrder(batch'[i].rpc, channel'[l][s][j])
      <4>1. n + j \in 1 .. Len(channel[l][s]) /\ channel'[l][s][j] = channel[l][s][n + j]
        BY <1>5, <3>2
      <4>2. n + j \in m .. Len(channel[l][s])
        <5> HIDE DEF m
        <5> QED BY <1>1, <1>7, <3>2, <4>1
      <4> QED BY <3>2, <4>1, <4>2 DEF ChannelOrder
    <3> QED BY <3>3, <3>4, <3>5, <3>6
  <2>6. CASE ~IsEntries(batch'[i].rpc)
    BY <2>6 DEF Fits, InOrder
  <2> QED BY <2>4, <2>5, <2>6
<1> QED BY <1>8, <1>9, <1>10

\* How far a server is with its batch.
LEMMA ControlStep ==
    ASSUME NEW l \in Servers, StateTypeOK, OnlyLeader(l), NEW s \in Servers, ServerStep(s),
           ~StartUpdate(s), ~ReceiveAll(s)
    PROVE  /\ active = s
           /\ \/ active' = Nobody
              \/ UNCHANGED <<active, batch>> /\ done <= done'
              \/ s = l /\ active' = l
<1> DEFINE Stays == active' = active /\ batch' = batch /\ done' \in {done, done + 1}
           Moves == active = s /\ (active' = Nobody \/ Stays \/ (s = l /\ active' = l))
<1>1. EndUpdate => active' = Nobody
  BY DEF EndUpdate
<1>2. (NextQuery => Stays) /\ (UNCHANGED <<active, batch, done>> => Stays)
  BY DEF NextQuery
<1> SUFFICES Moves
  <2>1. done \in Int
    BY DEF StateTypeOK, UpdateTypeOK
  <2>2. Stays => UNCHANGED <<active, batch>> /\ done <= done'
    BY <2>1
  <2> QED BY <2>2
<1> HIDE DEF Stays
<1>3. CASE ApplyEntry(s)
  <2>1. active = s /\ (EndUpdate \/ UNCHANGED <<active, batch, done>>)
    BY <1>3 DEF ApplyEntry, Abort
  <2> QED BY <1>1, <1>2, <2>1
<1>4. CASE BeginHandling(s)
  BY <1>2, <1>4 DEF BeginHandling
<1>5. CASE HandleQuery(s)
  <2>1. active = s /\ (EndUpdate \/ NextQuery \/ UNCHANGED <<active, batch, done>>)
    BY <1>5 DEF HandleQuery, StepDown, HandleHeartbeat, HandleVoteRequest,
          HandleVoteRequestThrows, HandleAppendEntriesDenied, HandleAppendEntries,
          AnswerSearchLeader, DenyNewLogEntry, PassOver, Handling, Abort, QueryDone
  <2> QED BY <1>1, <1>2, <2>1
<1>6. CASE HandleMessage(s)
  <2>1. active = s /\ NextQuery
    BY <1>6 DEF HandleMessage, HandleDisplayOrSpeed, HandleStop, HandleCrash,
          HandleRecover, HandleServerTimeout, Ordered, Handling, QueryDone
  <2> QED BY <1>2, <2>1
<1>7. CASE LeaderBeats(s) \/ LeaderSkipsBeat(s)
  <2>1. active = s /\ status[s] = "LEADER" /\ (EndUpdate \/ active' = active)
    BY <1>7 DEF LeaderBeats, LeaderSkipsBeat, AllHandled, Abort
  <2>2. s = l
    BY <2>1 DEF OnlyLeader
  <2> QED BY <1>1, <2>1, <2>2
<1>8. CASE \/ NoRoutine(s) \/ FollowerTimesOut(s) \/ CandidateDefers(s) \/ CandidateWins(s)
           \/ CandidateWaits(s) \/ CandidateTimesOut(s)
  <2>1. active = s /\ EndUpdate
    BY <1>8 DEF NoRoutine, FollowerTimesOut, CandidateDefers, CandidateWins, CandidateWaits,
          CandidateTimesOut, CandidateCounts, AllHandled
  <2> QED BY <1>1, <2>1
<1>9. CASE \/ LeaderAppends(s) \/ LeaderCountsSuccess(s) \/ LeaderBacksUp(s)
           \/ LeaderPassesOver(s) \/ LeaderCommits(s)
  <2>1. active = s /\ (EndUpdate \/ NextQuery)
    BY <1>9 DEF LeaderAppends, LeaderCountsSuccess, LeaderBacksUp, LeaderPassesOver,
          LeaderCommits, Leading, QueryDone, Abort
  <2> QED BY <1>1, <1>2, <2>1
<1> QED BY <1>3, <1>4, <1>5, <1>6, <1>7, <1>8, <1>9 DEF ServerStep, Routine

\* What fits a log still does if the log has not changed.
LEMMA FitsStay ==
    ASSUME NEW l \in Servers, StateTypeOK, StateTypeOK', ChannelOrder(l), BatchOrder(l),
           \A d \in Peers(l) : server_log'[d] = server_log[d],
           \/ active' \notin Peers(l)
           \/ UNCHANGED <<active, batch>> /\ done <= done'
    PROVE  /\ \A d \in Peers(l) : \A i \in 1 .. Len(channel[l][d]) :
                 Fits(Len(server_log'[d]), channel[l][d][i])
           /\ BatchFits(l)
<1>1. \A d \in Peers(l) : \A i \in 1 .. Len(channel[l][d]) :
         Fits(Len(server_log'[d]), channel[l][d][i])
  BY DEF ChannelOrder, Size
<1>2. CASE active' \notin Peers(l)
  BY <1>1, <1>2 DEF BatchFits
<1>3. CASE active \in Peers(l) /\ UNCHANGED <<active, batch>> /\ done <= done'
  <2>1. done \in Int /\ Len(batch) \in Nat
    BY LenProperties DEF StateTypeOK, UpdateTypeOK
  <2>2. PICK n \in Int : n = done'
    BY DEF StateTypeOK, UpdateTypeOK
  <2>3. \A i \in n + 1 .. Len(batch) : i \in done + 1 .. Len(batch)
    <3>1. done <= n
      BY <1>3, <2>2
    <3> QED BY <2>1, <3>1
  <2>4. \A i \in n + 1 .. Len(batch) : Fits(Len(server_log'[active]), batch[i].rpc)
    BY <1>3, <2>3 DEF BatchOrder, Size
  <2> QED BY <1>1, <1>3, <2>2, <2>4 DEF BatchFits
<1> QED BY <1>2, <1>3

\* The steps of a server but for receiving, merging and beating.
LEMMA OrderQuiet ==
    ASSUME NEW l \in Servers, StateTypeOK, StateTypeOK', OnlyLeader(l), LeadInv(l),
           OnlyLeaderSends(l), ChannelOrder(l), BatchOrder(l), NEW s \in Servers, ServerStep(s),
           ~StartUpdate(s), ~ReceiveAll(s), ~HandleAppendEntries(s), ~LeaderBeats(s)
    PROVE  OnlyLeaderSends(l)' /\ ChannelOrder(l)' /\ BatchOrder(l)'
<1>1. \A d \in Peers(l) : server_log'[d] = server_log[d]
  <2>1. CASE LeaderAppends(s)
    <3>1. s = l
      BY <2>1 DEF LeaderAppends, Leading, LeadInv
    <3> QED BY <2>1, <3>1 DEF LeaderAppends, Peers, StateTypeOK, LogTypeOK
  <2>2. CASE ~LeaderAppends(s)
    BY <2>2, LogsFrame
  <2> QED BY <2>1, <2>2
<1>2. \A p \in Ranks, d \in Servers : OnlyAdds(p, channel[p][d], channel'[p][d])
  BY QuietSends, RanksFacts DEF AddsOnly
<1>3. active' \notin Peers(l) \/ (UNCHANGED <<active, batch>> /\ done <= done')
  BY ControlStep, RanksFacts DEF Peers
<1> QED BY <1>1, <1>2, <1>3, FitsStay, OrderFrame

\* The entries merged are the first of those under way: those that follow
\* still fit the new log.
LEMMA OrderMerge ==
    ASSUME NEW l \in Servers, LogsInv(l), StateTypeOK', OnlyLeaderSends(l), ChannelOrder(l),
           BatchOrder(l), NEW s \in Servers, HandleAppendEntries(s)
    PROVE  /\ OnlyLeaderSends(l)' /\ ChannelOrder(l)' /\ BatchOrder(l)'
           /\ s # l
           /\ Len(server_log[s]) <= Len(server_log'[s])
           /\ \A d \in Servers \ {s} : server_log'[d] = server_log[d]
<1> DEFINE ae == batch[done + 1].rpc
           merged == MergedLog(server_log[s], ae.prev_log_index, ae.entries)
<1>1. /\ active = s /\ done < Len(batch) /\ IsEntries(ae) /\ ~DeniesEntries(s, ae)
      /\ server_log' = [server_log EXCEPT ![s] = merged]
      /\ UNCHANGED <<active, batch>> /\ done' = done + 1
  BY DEF HandleAppendEntries, Handling, NextQuery, IsEntries
<1>2. done + 1 \in 1 .. Len(batch) /\ ae \in RPC
  BY <1>1, QueryFacts DEF LogsInv, StateTypeOK
<1>3. s # l /\ SliceOf(ae, server_log[l])
  BY <1>1, <1>2 DEF LogsInv, BatchGood, GoodFor, IsEntries
<1>4. ae.prev_log_index \in Nat \cup {-1} /\ ae.entries \in Seq(LogEntry)
  <2> HIDE DEF ae
  <2> QED BY <1>1, <1>2, RpcFields DEF IsEntries
<1>5. \A p \in Servers : server_log[p] \in Seq(LogEntry) /\ Len(server_log[p]) \in Nat
  BY LogFacts DEF LogsInv, StateTypeOK, Size
<1>6. ae.prev_log_index < Len(server_log[s])
  <2> HIDE DEF ae
  <2> QED BY <1>1, <1>4, <1>5 DEF DeniesEntries, Size
<1>7. Len(merged) = End(ae)
  <2>1. IsPrefixOf(server_log[s], server_log[l])
    BY DEF LogsInv, PrefixOf
  <2> HIDE DEF ae
  <2> QED BY <1>3, <1>4, <1>5, <1>6, <2>1, MergeOfSlice DEF End
<1>8. server_log'[s] = merged /\ \A d \in Servers \ {s} : server_log'[d] = server_log[d]
  <2> HIDE DEF merged
  <2> QED BY <1>1 DEF LogsInv, StateTypeOK, LogTypeOK
<1>9. done \in Int /\ Len(batch) \in Nat /\ s \in Peers(l)
  BY <1>3, LenProperties DEF LogsInv, StateTypeOK, UpdateTypeOK, Peers
<1>10. done + 1 \in done + 1 .. Len(batch)
  BY <1>1, <1>9
<1> HIDE DEF merged
<1>11. Len(server_log[s]) <= Len(server_log'[s])
  BY <1>1, <1>7, <1>8, <1>9, <1>10 DEF BatchOrder, Fits, Size
<1>12. \A p \in Ranks, d \in Servers : OnlyAdds(p, channel[p][d], channel'[p][d])
  <2>1. ServerStep(s) /\ phase = "handle"
    BY DEF ServerStep, HandleQuery, HandleAppendEntries, Handling
  <2>2. ~ReceiveAll(s)
    BY <2>1 DEF ReceiveAll, Receive, ReceiveGarbled, Drain
  <2>3. ~LeaderBeats(s)
    BY <1>1, <1>9 DEF LeaderBeats, AllHandled
  <2> QED BY <2>1, <2>2, <2>3, QuietSends, RanksFacts DEF AddsOnly, LogsInv
<1>13. \A d \in Peers(l) : \A i \in 1 .. Len(channel[l][d]) :
          Fits(Len(server_log'[d]), channel[l][d][i])
  <2> SUFFICES ASSUME NEW d \in Peers(l), NEW i \in 1 .. Len(channel[l][d])
               PROVE  Fits(Len(server_log'[d]), channel[l][d][i])
    OBVIOUS
  <2>1. CASE d = s
    <3>1. InOrder(ae, channel[l][s][i])
      BY <1>1, <1>9, <1>10, <2>1 DEF BatchOrder
    <3> HIDE DEF ae
    <3> QED BY <1>1, <1>7, <1>8, <2>1, <3>1 DEF InOrder, Fits
  <2>2. CASE d # s
    <3>1. server_log'[d] = server_log[d]
      BY <1>8, <2>2 DEF Peers
    <3> QED BY <3>1 DEF ChannelOrder, Size
  <2> QED BY <2>1, <2>2
<1>14. BatchFits(l)
  <2>1. ASSUME NEW i \in done + 1 + 1 .. Len(batch)
        PROVE  Fits(Len(server_log'[s]), batch[i].rpc)
    <3>1. i \in done + 1 .. Len(batch)
      BY <1>9
    <3> QED BY <1>1, <1>7, <1>8, <1>9, <1>10, <3>1 DEF BatchOrder, InOrder, Fits
  <2> QED BY <1>1, <1>9, <2>1 DEF BatchFits
<1>15. OnlyLeaderSends(l)' /\ ChannelOrder(l)' /\ BatchOrder(l)'
  BY <1>12, <1>13, <1>14, OrderFrame DEF LogsInv
<1> QED BY <1>3, <1>8, <1>11, <1>15

LEMMA SendToAllIs ==
    ASSUME NEW chan \in Channels, NEW s \in Ranks, NEW dests, NEW m, NEW ended,
           NEW p \in Ranks, NEW d \in Ranks
    PROVE  SendToAll(chan, s, dests, m, ended)[p][d] =
              IF p = s /\ d \in dests \ ended THEN Append(chan[p][d], m[d]) ELSE chan[p][d]
<1> DEFINE row == [r \in Ranks |-> IF r \in dests \ ended
                                   THEN Append(chan[s][r], m[r]) ELSE chan[s][r]]
<1>1. SendToAll(chan, s, dests, m, ended) = [chan EXCEPT ![s] = row]
  BY DEF SendToAll
<1>2. CASE p = s
  <2>1. row[d] = IF d \in dests \ ended THEN Append(chan[s][d], m[d]) ELSE chan[s][d]
    OBVIOUS
  <2>2. [chan EXCEPT ![s] = row][p] = row
    <3> HIDE DEF row
    <3> QED BY <1>2 DEF Channels
  <2> HIDE DEF row
  <2> QED BY <1>1, <1>2, <2>1, <2>2
<1>3. CASE p # s
  <2>1. [chan EXCEPT ![s] = row][p] = chan[p]
    <3> HIDE DEF row
    <3> QED BY <1>3 DEF Channels
  <2> HIDE DEF row
  <2> QED BY <1>1, <1>3, <2>1
<1> QED BY <1>2, <1>3

\* The leader sends its log to the end.
LEMMA BeatEnd ==
    ASSUME NEW l \in Servers, StateTypeOK, NEW p \in Peers(l), next_log_index[l][p] >= 0,
           IsEntries(BeatTo(l, p))
    PROVE  End(BeatTo(l, p)) = Size(l)
<1> DEFINE next == next_log_index[l][p]
           sent == SubSeq(server_log[l], next + 1, Size(l))
           ae == AppendEntries(current_term[l], l, next - 1, TermAt(l, next - 1), sent,
                               commit_index[l])
<1>1. next \in Int /\ next >= 0
  BY DEF StateTypeOK, LeaderTypeOK, Peers
<1>2. Size(l) \in Nat /\ server_log[l] \in Seq(LogEntry)
  BY LogFacts DEF StateTypeOK
<1>3. Size(l) - 1 >= next
  <2>1. ~(Size(l) - 1 >= next) => BeatTo(l, p).type = "HEARTBEAT"
    BY AnswerTypes DEF BeatTo
  <2> QED BY <2>1 DEF IsEntries
<1>4. BeatTo(l, p) = ae
  BY <1>3 DEF BeatTo
<1>5. ae.prev_log_index = next - 1 /\ ae.entries = sent
  BY DEF AppendEntries
<1>6. Len(sent) = Size(l) - next
  <2>1. \A i \in next + 1 .. Size(l) : server_log[l][i] \in LogEntry
    BY <1>1, <1>2, ElementOfSeq DEF Size
  <2> HIDE DEF next
  <2>2. Len(sent) = IF next + 1 <= Size(l) THEN Size(l) - (next + 1) + 1 ELSE 0
    BY <1>1, <1>2, <2>1, SubSeqProperties
  <2> HIDE DEF sent
  <2> QED BY <1>1, <1>2, <1>3, <2>2
<1> HIDE DEF ae, sent, next
<1> QED BY <1>1, <1>2, <1>4, <1>5, <1>6 DEF End

\* A message that reaches to the end of the leader's log comes after all others.
LEMMA OrderAppend ==
    ASSUME NEW l \in Servers, LogsInv(l), ChannelOrder(l), NEW d \in Peers(l),
           NEW m \in RPC, IsEntries(m) => End(m) = Size(l),
           NEW c, c = channel[l][d] \/ c = Append(channel[l][d], m)
    PROVE  \A i \in 1 .. Len(c) :
              /\ Fits(Size(d), c[i])
              /\ \A j \in i .. Len(c) : InOrder(c[i], c[j])
<1> DEFINE old == channel[l][d]
<1>1. d \in Servers /\ d # l /\ l \in Ranks /\ d \in Ranks
  BY RanksFacts DEF Peers
<1>2. old \in Seq(RPC) /\ Len(old) \in Nat
  BY <1>1, LenProperties DEF LogsInv, StateTypeOK, ChannelTypeOK
<1>3. \A i \in 1 .. Len(old) :
         /\ Fits(Size(d), old[i])
         /\ \A j \in i .. Len(old) : InOrder(old[i], old[j])
  BY DEF ChannelOrder
<1>4. CASE c = old
  BY <1>3, <1>4
<1>5. CASE c = Append(old, m)
  <2>1. /\ Len(c) = Len(old) + 1 /\ c[Len(old) + 1] = m
        /\ \A i \in 1 .. Len(old) : c[i] = old[i]
    BY <1>2, <1>5, AppendProperties
  <2>2. Size(l) \in Nat /\ Size(d) \in Nat
    BY <1>1, LogFacts DEF LogsInv, StateTypeOK
  <2>3. Fits(Size(d), m)
    <3>1. Size(d) <= Size(l)
      BY <1>1 DEF LogsInv, PrefixOf, IsPrefixOf, Size
    <3> QED BY <3>1 DEF Fits
  <2>4. ASSUME NEW i \in 1 .. Len(old), IsEntries(old[i]), IsEntries(m)
        PROVE  End(old[i]) <= End(m)
    <3>1. SliceOf(old[i], server_log[l])
      BY <1>1, <2>4 DEF LogsInv, ChannelsGood, GoodFor, IsEntries
    <3> QED BY <2>4, <3>1 DEF SliceOf, End, Size
  <2>5. InOrder(m, m)
    BY <2>2 DEF InOrder
  <2> HIDE DEF old
  <2> SUFFICES ASSUME NEW i \in 1 .. Len(c)
               PROVE  /\ Fits(Size(d), c[i])
                      /\ \A j \in i .. Len(c) : InOrder(c[i], c[j])
    OBVIOUS
  <2>6. CASE i = Len(old) + 1
    <3>1. \A j \in i .. Len(c) : j = i
      BY <1>2, <2>1, <2>6
    <3> QED BY <2>1, <2>3, <2>5, <2>6, <3>1
  <2>7. CASE i # Len(old) + 1
    <3>1. i \in 1 .. Len(old) /\ c[i] = old[i]
      BY <1>2, <2>1, <2>7
    <3>2. ASSUME NEW j \in i .. Len(c) PROVE InOrder(c[i], c[j])
      <4>1. CASE j = Len(old) + 1
        BY <2>1, <2>4, <3>1, <4>1 DEF InOrder
      <4>2. CASE j # Len(old) + 1
        <5>1. j \in i .. Len(old) /\ j \in 1 .. Len(old)
          BY <1>2, <2>1, <3>1, <4>2
        <5> QED BY <1>3, <2>1, <3>1, <5>1
      <4> QED BY <4>1, <4>2
    <3> QED BY <1>3, <3>1, <3>2
  <2> QED BY <2>6, <2>7
<1> QED BY <1>4, <1>5

LEMMA OrderBeat ==
    ASSUME NEW l \in Servers, LogsInv(l), StateTypeOK', OnlyLeaderSends(l), ChannelOrder(l),
           NEW s \in Servers, LeaderBeats(s)
    PROVE  OnlyLeaderSends(l)' /\ ChannelOrder(l)' /\ BatchOrder(l)'
<1> DEFINE unsafe == {p \in Peers(s) : next_log_index[s][p] < 0}
           reached == {p \in Peers(s) : \A u \in unsafe : p < u}
           m == [p \in reached |-> BeatTo(s, p)]
<1>1. s = l
  BY DEF LeaderBeats, LogsInv, OnlyLeader
<1>2. /\ channel' = SendToAll(channel, s, reached, m, Ended)
      /\ UNCHANGED server_log
      /\ active = s /\ active' \in {active, Nobody}
  BY DEF LeaderBeats, Abort, EndUpdate, AllHandled, logVars
<1>3. ASSUME NEW d \in reached
      PROVE  m[d] \in RPC /\ (IsEntries(m[d]) => End(m[d]) = Size(l))
  <2>1. d \in Peers(l) /\ d \in Servers /\ d \in Int /\ d \notin unsafe
    BY <1>1, RanksFacts DEF Peers
  <2>2. next_log_index[l][d] \in Int
    BY <2>1 DEF LogsInv, StateTypeOK, LeaderTypeOK
  <2>3. next_log_index[l][d] >= 0
    BY <1>1, <2>1, <2>2
  <2> QED BY <1>1, <2>1, <2>3, BeatToTypes, BeatEnd DEF LogsInv, StateTypeOK
<1> HIDE DEF reached, m
<1>4. /\ channel \in Channels /\ s \in Ranks
      /\ \A d \in Servers : d \in Ranks
  BY RanksFacts DEF LogsInv, StateTypeOK, ChannelTypeOK, Channels
<1>5. \A p, d \in Ranks : channel'[p][d] =
         IF p = s /\ d \in reached \ Ended THEN Append(channel[p][d], m[d]) ELSE channel[p][d]
  BY <1>2, <1>4, SendToAllIs
<1>6. OnlyLeaderSends(l)'
  BY <1>1, <1>4, <1>5 DEF OnlyLeaderSends
<1>7. ChannelOrder(l)'
  <2> SUFFICES ASSUME NEW d \in Peers(l)
               PROVE  \A i \in 1 .. Len(channel'[l][d]) :
                         /\ Fits(Size(d), channel'[l][d][i])
                         /\ \A j \in i .. Len(channel'[l][d]) :
                               InOrder(channel'[l][d][i], channel'[l][d][j])
    BY <1>2 DEF ChannelOrder, Size
  <2>1. d \in Ranks /\ d \in Peers(l)
    BY <1>4 DEF Peers
  <2>2. CASE d \in reached \ Ended
    <3>1. channel'[l][d] = Append(channel[l][d], m[d])
      BY <1>1, <1>4, <1>5, <2>1, <2>2
    <3> QED BY <1>3, <2>2, <3>1, OrderAppend
  <2>3. CASE d \notin reached \ Ended
    <3>1. channel'[l][d] = channel[l][d]
      BY <1>1, <1>4, <1>5, <2>1, <2>3
    <3> QED BY <3>1 DEF ChannelOrder
  <2> QED BY <2>2, <2>3
<1>8. BatchOrder(l)'
  BY <1>1, <1>2, RanksFacts DEF BatchOrder, Peers
<1> QED BY <1>6, <1>7, <1>8

----------------------------------------------------------------------------
(* The commit index and the applied index. *)

\* The steps of a server that move neither index.
LEMMA IndexFrame ==
    ASSUME NEW s \in Servers, ServerStep(s), ~ApplyEntry(s), ~HandleHeartbeat(s),
           ~HandleAppendEntries(s), ~LeaderCommits(s)
    PROVE  UNCHANGED <<commit_index, last_log_applied>>
<1> USE DEF serverState, stateVars, dataVars, logVars, applyVars
<1>1. CASE StartUpdate(s) \/ ReceiveAll(s) \/ BeginHandling(s)
  BY <1>1 DEF StartUpdate, ReceiveAll, Receive, ReceiveGarbled, Drain, BeginHandling
<1>2. CASE HandleQuery(s)
  BY <1>2 DEF HandleQuery, StepDown, HandleVoteRequest, HandleVoteRequestThrows,
        HandleAppendEntriesDenied, AnswerSearchLeader, DenyNewLogEntry, PassOver, QueryDone
<1>3. CASE HandleMessage(s)
  BY <1>3 DEF HandleMessage, HandleDisplayOrSpeed, HandleStop, HandleCrash, HandleRecover,
        HandleServerTimeout, QueryDone
<1>4. CASE Routine(s)
  BY <1>4 DEF Routine, NoRoutine, FollowerTimesOut, CandidateDefers, CandidateWins,
        CandidateWaits, CandidateTimesOut, CandidateCounts, LeaderBeats, LeaderSkipsBeat,
        LeaderAppends, LeaderCountsSuccess, LeaderBacksUp, LeaderPassesOver, QueryDone
<1> QED BY <1>1, <1>2, <1>3, <1>4 DEF ServerStep

\* While no log shrinks, the indices stay within it, and the commit index
\* never falls.
LEMMA IndexStep ==
    ASSUME StateTypeOK, StateTypeOK', CommitWithinLog, NEW s \in Servers, ServerStep(s),
           \A d \in Servers : Len(server_log[d]) <= Len(server_log'[d])
    PROVE  /\ CommitWithinLog'
           /\ \A d \in Servers : commit_index[d] <= commit_index'[d]
<1>1. \A d \in Servers : /\ Len(server_log[d]) \in Nat /\ Len(server_log'[d]) \in Nat
                         /\ commit_index[d] \in Int /\ commit_index'[d] \in Int
                         /\ last_log_applied[d] \in Int /\ last_log_applied'[d] \in Int
                         /\ last_log_applied[d] <= commit_index[d]
                         /\ commit_index[d] < Len(server_log[d])
  <2>1. \A d \in Servers : server_log[d] \in Seq(LogEntry) /\ server_log'[d] \in Seq(LogEntry)
    BY DEF StateTypeOK, LogTypeOK
  <2>2. \A d \in Servers : Len(server_log[d]) \in Nat /\ Len(server_log'[d]) \in Nat
    BY <2>1, LenProperties
  <2> QED BY <2>2 DEF StateTypeOK, LogTypeOK, ApplyTypeOK, CommitWithinLog, Size
<1> DEFINE Good(d) == /\ last_log_applied'[d] <= commit_index'[d]
                      /\ commit_index'[d] < Len(server_log'[d])
                      /\ commit_index[d] <= commit_index'[d]
<1> SUFFICES \A d \in Servers : Good(d)
  BY DEF CommitWithinLog, Size
<1>2. ASSUME NEW d \in Servers, commit_index'[d] = commit_index[d],
             last_log_applied'[d] = last_log_applied[d]
      PROVE  Good(d)
  BY <1>1, <1>2
<1>3. ASSUME NEW lc \in Int, UNCHANGED last_log_applied,
             commit_index' = [commit_index EXCEPT ![s] =
                                FollowerCommit(s, lc, Len(server_log'[s]))]
      PROVE  \A d \in Servers : Good(d)
  <2>1. ASSUME NEW d \in Servers \ {s} PROVE Good(d)
    BY <1>2, <1>3, <2>1 DEF StateTypeOK, LogTypeOK
  <2>2. commit_index'[s] = FollowerCommit(s, lc, Len(server_log'[s]))
    BY <1>3 DEF StateTypeOK, LogTypeOK
  <2>3. Good(s)
    BY <1>1, <1>3, <2>2 DEF FollowerCommit, Least
  <2> QED BY <2>1, <2>3
<1>4. CASE ApplyEntry(s)
  <2>1. /\ commit_index[s] > last_log_applied[s] /\ UNCHANGED commit_index
        /\ last_log_applied' = [last_log_applied EXCEPT ![s] = last_log_applied[s] + 1]
    BY <1>4 DEF ApplyEntry, logVars
  <2>2. Good(s)
    <3>1. last_log_applied'[s] = last_log_applied[s] + 1
      BY <2>1 DEF StateTypeOK, ApplyTypeOK
    <3> QED BY <1>1, <2>1, <3>1
  <2>3. ASSUME NEW d \in Servers \ {s} PROVE Good(d)
    BY <1>2, <2>1 DEF StateTypeOK, ApplyTypeOK
  <2> QED BY <2>2, <2>3
<1>5. CASE HandleHeartbeat(s)
  <2> DEFINE q == batch[done + 1]
  <2>1. /\ done < Len(batch) /\ q.rpc.type = "HEARTBEAT"
        /\ commit_index' = [commit_index EXCEPT ![s] =
                              FollowerCommit(s, q.rpc.leader_commit, Size(s))]
        /\ UNCHANGED <<last_log_applied, server_log>>
    BY <1>5 DEF HandleHeartbeat, Handling, applyVars
  <2>2. q.rpc.leader_commit \in Int
    BY <2>1, QueryFacts, RpcFields DEF StateTypeOK
  <2>3. Size(s) = Len(server_log'[s])
    BY <2>1 DEF Size
  <2> HIDE DEF q
  <2> QED BY <1>3, <2>1, <2>2, <2>3
<1>6. CASE HandleAppendEntries(s)
  <2> DEFINE q == batch[done + 1]
  <2>1. /\ done < Len(batch) /\ q.rpc.type = "APPEND_ENTRIES"
        /\ commit_index' = [commit_index EXCEPT ![s] =
                              FollowerCommit(s, q.rpc.leader_commit, Len(server_log'[s]))]
        /\ UNCHANGED last_log_applied
    BY <1>6 DEF HandleAppendEntries, Handling, applyVars
  <2>2. q.rpc.leader_commit \in Int
    BY <2>1, QueryFacts, RpcFields DEF StateTypeOK
  <2> HIDE DEF q
  <2> QED BY <1>3, <2>1, <2>2
<1>7. CASE LeaderCommits(s)
  <2> DEFINE i == commit_index[s] + 1
  <2>1. /\ \/ i < Len(server_log[s]) /\ commit_index' = [commit_index EXCEPT ![s] = i]
           \/ UNCHANGED commit_index
        /\ UNCHANGED last_log_applied
    BY <1>7 DEF LeaderCommits, applyVars, Size
  <2>2. CASE UNCHANGED commit_index
    BY <1>2, <2>1, <2>2
  <2>3. CASE i < Len(server_log[s]) /\ commit_index' = [commit_index EXCEPT ![s] = i]
    <3>1. commit_index'[s] = i /\ \A d \in Servers \ {s} : commit_index'[d] = commit_index[d]
      BY <2>3 DEF StateTypeOK, LogTypeOK
    <3>2. Good(s)
      BY <1>1, <2>1, <2>3, <3>1
    <3> QED BY <1>2, <2>1, <3>1, <3>2
  <2> QED BY <2>1, <2>2, <2>3
<1>8. CASE ~ApplyEntry(s) /\ ~HandleHeartbeat(s) /\ ~HandleAppendEntries(s) /\ ~LeaderCommits(s)
  BY <1>2, <1>8, IndexFrame
<1> QED BY <1>4, <1>5, <1>6, <1>7, <1>8

----------------------------------------------------------------------------
(* The invariant, and what it gives. *)

\* A step of a server, or one of anyone else, who sends a server no entries
\* and has no batch of a server.
OutsideSends ==
    /\ UNCHANGED serverState
    /\ OutsideChannels
    /\ UNCHANGED <<active, batch, done>> \/ active' \notin Servers

TakesStep == OutsideSends \/ \E s \in Servers : ServerStep(s)

LEMMA UnderWayStep ==
    ASSUME NEW l \in Servers, Electable = {l}, OrderInv(l), StateTypeOK', TakesStep
    PROVE  OnlyLeaderSends(l)' /\ ChannelOrder(l)' /\ BatchOrder(l)'
<1>1. /\ StateTypeOK /\ LogsInv(l) /\ OnlyLeader(l) /\ LeadInv(l) /\ BatchGood(l)
      /\ OnlyLeaderSends(l) /\ ChannelOrder(l) /\ BatchOrder(l)
  BY DEF OrderInv, LeaderInv, LogsInv
<1>2. CASE OutsideSends
  <2>1. /\ \A d \in Peers(l) : server_log'[d] = server_log[d]
        /\ \A p \in Ranks, d \in Servers : OnlyAdds(p, channel[p][d], channel'[p][d])
    BY <1>2 DEF OutsideSends, OutsideChannels, serverState, logVars
  <2>2. active' \notin Peers(l) \/ (UNCHANGED <<active, batch>> /\ done <= done')
    <3>1. done \in Int
      BY <1>1 DEF StateTypeOK, UpdateTypeOK
    <3> QED BY <1>2, <3>1 DEF OutsideSends, Peers
  <2> QED BY <1>1, <2>1, <2>2, FitsStay, OrderFrame
<1>3. ASSUME NEW s \in Servers, StartUpdate(s)
      PROVE  OnlyLeaderSends(l)' /\ ChannelOrder(l)' /\ BatchOrder(l)'
  <2>1. batch = << >> /\ UNCHANGED <<batch, channel, server_log>>
    BY <1>1, <1>3 DEF StartUpdate, Begin, BatchGood, serverState, logVars
  <2>2. BatchOrder(l)'
    <3>1. Len(batch') = 0 /\ done' \in Nat
      BY <2>1, EmptySeq DEF StateTypeOK, UpdateTypeOK
    <3>2. PICK n \in Nat : n = done'
      BY <3>1
    <3>3. ASSUME NEW i \in n + 1 .. 0 PROVE FALSE
      <4>1. i \in Int /\ n + 1 <= i /\ i <= 0
        BY <3>3
      <4> QED BY <4>1
    <3> QED BY <3>1, <3>2, <3>3 DEF BatchOrder
  <2> QED BY <1>1, <2>1, <2>2 DEF OnlyLeaderSends, ChannelOrder, Size
<1>4. ASSUME NEW s \in Servers, ServerStep(s), ~StartUpdate(s)
      PROVE  OnlyLeaderSends(l)' /\ ChannelOrder(l)' /\ BatchOrder(l)'
  <2>1. CASE ReceiveAll(s)
    BY <1>1, <2>1, OrderReceive
  <2>2. CASE HandleAppendEntries(s)
    BY <1>1, <2>2, OrderMerge
  <2>3. CASE LeaderBeats(s)
    BY <1>1, <2>3, OrderBeat
  <2> QED BY <1>1, <1>4, <2>1, <2>2, <2>3, OrderQuiet
<1> QED BY <1>2, <1>3, <1>4 DEF TakesStep

\* No log shrinks, and each stays a beginning of what it becomes.
LEMMA LogsGrow ==
    ASSUME NEW l \in Servers, Electable = {l}, OrderInv(l), StateTypeOK', AnyStep(l), TakesStep
    PROVE  \A s \in Servers : IsPrefixOf(server_log[s], server_log'[s])
<1>1. /\ StateTypeOK /\ LogsInv(l) /\ LeadInv(l) /\ PrefixOf(l) /\ LeaderInv(l)
      /\ OnlyLeaderSends(l) /\ ChannelOrder(l) /\ BatchOrder(l)
  BY DEF OrderInv, LeaderInv, LogsInv
<1>2. PrefixOf(l)'
  BY <1>1, LeaderInvInductive DEF LeaderInv, LogsInv
<1>3. \A s \in Servers : /\ server_log[s] \in Seq(LogEntry) /\ server_log'[s] \in Seq(LogEntry)
                         /\ Len(server_log[s]) \in Nat /\ Len(server_log'[s]) \in Nat
  <2>1. \A s \in Servers : server_log[s] \in Seq(LogEntry) /\ server_log'[s] \in Seq(LogEntry)
    BY <1>1 DEF StateTypeOK, LogTypeOK
  <2> QED BY <2>1, LenProperties
<1>4. Grows(l)
  <2>1. CASE server_log'[l] = server_log[l]
    BY <1>3, <2>1, PrefixFacts DEF Grows
  <2>2. ASSUME NEW e \in LogEntry, server_log'[l] = Append(server_log[l], e) PROVE Grows(l)
    <3>1. IsPrefixOf(server_log[l], Append(server_log[l], e))
      BY <1>3, PrefixFacts
    <3> QED BY <2>2, <3>1 DEF Grows
  <2> QED BY <1>1, <2>1, <2>2, LeaderLogStep
<1>5. ASSUME NEW d \in Peers(l) PROVE Len(server_log[d]) <= Len(server_log'[d])
  <2>1. d \in Servers /\ d # l
    BY DEF Peers
  <2>2. CASE server_log'[d] = server_log[d]
    BY <1>3, <2>1, <2>2
  <2>3. ASSUME NEW s \in Servers, ServerStep(s)
        PROVE  Len(server_log[d]) <= Len(server_log'[d])
    <3>1. CASE HandleAppendEntries(s)
      BY <1>1, <2>1, <2>2, <3>1, OrderMerge
    <3>2. CASE LeaderAppends(s)
      <4>1. s = l
        BY <1>1, <3>2 DEF LeaderAppends, Leading, LeadInv
      <4>2. server_log'[d] = server_log[d]
        BY <1>1, <2>1, <3>2, <4>1 DEF LeaderAppends, StateTypeOK, LogTypeOK
      <4> QED BY <2>2, <4>2
    <3> QED BY <2>2, <2>3, <3>1, <3>2, LogsFrame
  <2>4. CASE OutsideSends
    BY <2>2, <2>4 DEF OutsideSends, serverState, logVars
  <2> QED BY <2>3, <2>4 DEF TakesStep
<1>6. ASSUME NEW d \in Peers(l) PROVE IsPrefixOf(server_log[d], server_log'[d])
  <2>1. d \in Servers
    BY DEF Peers
  <2>2. IsPrefixOf(server_log[d], server_log'[l])
    BY <1>1, <1>3, <1>4, <2>1, PrefixFacts DEF PrefixOf, Grows
  <2>3. IsPrefixOf(server_log'[d], server_log'[l])
    BY <1>2, <2>1 DEF PrefixOf
  <2>4. Len(server_log[d]) <= Len(server_log'[d]) /\ Len(server_log[d]) \in Nat
        /\ Len(server_log'[d]) \in Nat
    BY <1>3, <1>5, <2>1
  <2>5. ASSUME NEW i \in 1 .. Len(server_log[d]) PROVE server_log[d][i] = server_log'[d][i]
    <3>1. i \in 1 .. Len(server_log'[d])
      BY <2>4
    <3> QED BY <2>2, <2>3, <3>1 DEF IsPrefixOf
  <2> QED BY <2>4, <2>5 DEF IsPrefixOf
<1> QED BY <1>4, <1>6 DEF Grows, Peers

LEMMA OrderInvStep ==
    ASSUME NEW l \in Servers, Electable = {l}, OrderInv(l), StateTypeOK', AnyStep(l), TakesStep
    PROVE  /\ OrderInv(l)'
           /\ \A s \in Servers : IsPrefixOf(server_log[s], server_log'[s])
           /\ \A s \in Servers : commit_index[s] <= commit_index'[s]
<1>1. \A s \in Servers : IsPrefixOf(server_log[s], server_log'[s])
  BY LogsGrow
<1>2. LeaderInv(l)' /\ StateTypeOK /\ CommitWithinLog
  BY LeaderInvInductive DEF OrderInv, LeaderInv, LogsInv
<1>3. CommitWithinLog' /\ \A s \in Servers : commit_index[s] <= commit_index'[s]
  <2>1. ASSUME NEW s \in Servers, ServerStep(s)
        PROVE  CommitWithinLog' /\ \A d \in Servers : commit_index[d] <= commit_index'[d]
    <3>1. \A d \in Servers : Len(server_log[d]) <= Len(server_log'[d])
      BY <1>1 DEF IsPrefixOf
    <3> QED BY <1>2, <2>1, <3>1, IndexStep
  <2>2. CASE OutsideSends
    <3>1. UNCHANGED <<server_log, commit_index, last_log_applied>>
      BY <2>2 DEF OutsideSends, serverState, logVars, applyVars
    <3>2. \A d \in Servers : commit_index[d] \in Int
      BY <1>2 DEF StateTypeOK, LogTypeOK
    <3> QED BY <1>2, <3>1, <3>2 DEF CommitWithinLog, Size
  <2> QED BY <2>1, <2>2 DEF TakesStep
<1>4. OnlyLeaderSends(l)' /\ ChannelOrder(l)' /\ BatchOrder(l)'
  BY UnderWayStep
<1> QED BY <1>1, <1>2, <1>3, <1>4 DEF OrderInv

LEMMA OrderInvInit ==
    ASSUME NEW l \in Servers, Electable = {l}, ServerInit
    PROVE  OrderInv(l)
<1>1. LeaderInv(l)
  BY LeaderInvInductive
<1>2. \A p \in Ranks, d \in Servers : Len(channel[p][d]) = 0
  BY EmptySeq, RanksFacts DEF ServerInit, ProcessInit
<1>3. l \in Ranks /\ (\A d \in Peers(l) : d \in Servers) /\ active \notin Servers
  BY RanksFacts DEF Peers, ServerInit, ProcessInit
<1>4. OnlyLeaderSends(l) /\ ChannelOrder(l) /\ BatchOrder(l)
  BY <1>2, <1>3 DEF OnlyLeaderSends, ChannelOrder, BatchOrder, Peers
<1>5. CommitWithinLog
  BY EmptySeq DEF ServerInit, CommitWithinLog, Size
<1> QED BY <1>1, <1>4, <1>5 DEF OrderInv

\* What is committed stays: the commit index does not fall, the entries up to
\* it do not change.
LEMMA CommittedFacts ==
    ASSUME NEW l \in Servers, Electable = {l}, OrderInv(l), StateTypeOK', AnyStep(l), TakesStep
    PROVE  \A s \in Servers :
              /\ commit_index[s] <= commit_index'[s]
              /\ \A i \in 0 .. commit_index[s] : TermAt(s, i)' = TermAt(s, i)
<1> SUFFICES ASSUME NEW s \in Servers, NEW i \in 0 .. commit_index[s]
             PROVE  TermAt(s, i)' = TermAt(s, i)
  BY OrderInvStep
<1>1. /\ Len(server_log[s]) \in Nat /\ Len(server_log'[s]) \in Nat /\ commit_index[s] \in Int
      /\ commit_index[s] < Len(server_log[s])
  <2>1. server_log[s] \in Seq(LogEntry) /\ server_log'[s] \in Seq(LogEntry)
        /\ commit_index[s] \in Int
    BY DEF OrderInv, LeaderInv, LogsInv, StateTypeOK, LogTypeOK
  <2> QED BY <2>1, LenProperties DEF OrderInv, CommitWithinLog, Size
<1>2. Len(server_log[s]) <= Len(server_log'[s])
      /\ \A j \in 1 .. Len(server_log[s]) : server_log[s][j] = server_log'[s][j]
  BY LogsGrow DEF IsPrefixOf
<1>3. /\ i + 1 \in 1 .. Len(server_log[s]) /\ 0 <= i /\ i < Len(server_log[s])
      /\ i < Len(server_log'[s])
  BY <1>1, <1>2
<1>4. server_log[s][i + 1] = server_log'[s][i + 1]
  BY <1>2, <1>3
<1> QED BY <1>3, <1>4 DEF TermAt, Entry, Size

----------------------------------------------------------------------------
(* The files, and the log the servers implement. *)

\* What is applied next is in the log and in the leader's, and it is written
\* unless the file fails.
LEMMA ApplyTakesNext ==
    ASSUME NEW l \in Servers, OrderInv(l), NEW s \in Servers, ApplyEntry(s)
    PROVE  LET i == last_log_applied[s] + 1
               c == server_log[l][i + 1].command
           IN  /\ i \in Nat /\ i < Len(server_log[l]) /\ c \in Commands
               /\ last_log_applied' = [last_log_applied EXCEPT ![s] = i]
               /\ UNCHANGED server_log
               /\ \/ log_file' = [log_file EXCEPT ![s] = Append(log_file[s], c)]
                  \/ s \in FailingFiles /\ UNCHANGED log_file
<1> DEFINE i == last_log_applied[s] + 1
           c == server_log[l][i + 1].command
<1>1. /\ last_log_applied[s] \in Nat \cup {-1} /\ commit_index[s] \in Int
      /\ Size(s) \in Nat /\ Size(l) \in Nat
  BY LogFacts DEF OrderInv, LeaderInv, LogsInv, StateTypeOK, LogTypeOK, ApplyTypeOK
<1>2. commit_index[s] > last_log_applied[s] /\ commit_index[s] < Size(s)
  BY DEF ApplyEntry, OrderInv, CommitWithinLog
<1>3. i \in Nat /\ i < Size(s)
  BY <1>1, <1>2
<1>4. IsPrefixOf(server_log[s], server_log[l])
  BY DEF OrderInv, LeaderInv, LogsInv, PrefixOf
<1>5. i < Len(server_log[l]) /\ Entry(s, i) = server_log[l][i + 1]
  <2> HIDE DEF i
  <2> QED BY <1>1, <1>3, <1>4 DEF IsPrefixOf, Entry, Size
<1>6. c \in Commands
  <2>1. Entry(s, i) \in LogEntry
    <3> HIDE DEF i
    <3> QED BY <1>3, LogFacts DEF OrderInv, LeaderInv, LogsInv, StateTypeOK
  <2> QED BY <1>5, <2>1 DEF LogEntry
<1>7. last_log_applied' = [last_log_applied EXCEPT ![s] = i] /\ UNCHANGED server_log
  BY DEF ApplyEntry, logVars
<1>8. \/ log_file' = [log_file EXCEPT ![s] = Append(log_file[s], Entry(s, i).command)]
      \/ s \in FailingFiles /\ UNCHANGED log_file
  BY <1>1, <1>3 DEF ApplyEntry
<1> QED BY <1>3, <1>5, <1>6, <1>7, <1>8

\* A file holds commands of the entries applied, each from a place of its own,
\* in their order; it holds them all.
Traced(file, log, applied) ==
    \E origin \in [1 .. Len(file) -> 1 .. applied] :
        \A j \in 1 .. Len(file) :
            /\ file[j] = log[origin[j]].command
            /\ \A k \in 1 .. j - 1 : origin[k] < origin[j]

Complete(file, log, applied) ==
    Len(file) = applied /\ \A j \in 1 .. applied : file[j] = log[j].command

FilesInv(l) ==
    \A s \in Servers :
        /\ Traced(log_file[s], server_log[l], last_log_applied[s] + 1)
        /\ s \notin FailingFiles =>
              Complete(log_file[s], server_log[l], last_log_applied[s] + 1)

\* Both stay when the log changes beyond the entries applied, and a file is
\* traced though the next entry is not written.
LEMMA FileStays ==
    ASSUME NEW file \in Seq(Commands), NEW log, NEW longer, NEW n \in Nat,
           \A i \in 1 .. n : longer[i] = log[i]
    PROVE  /\ Traced(file, log, n) => Traced(file, longer, n) /\ Traced(file, longer, n + 1)
           /\ Complete(file, log, n) => Complete(file, longer, n)
<1> DEFINE m == Len(file)
<1>1. ASSUME Traced(file, log, n)
      PROVE  Traced(file, longer, n) /\ Traced(file, longer, n + 1)
  <2> HIDE DEF m
  <2>1. PICK origin \in [1 .. m -> 1 .. n] :
           \A j \in 1 .. m : /\ file[j] = log[origin[j]].command
                             /\ \A k \in 1 .. j - 1 : origin[k] < origin[j]
    BY <1>1 DEF Traced, m
  <2>2. \A j \in 1 .. m : file[j] = longer[origin[j]].command
    BY <2>1
  <2>3. origin \in [1 .. m -> 1 .. n + 1]
    BY <2>1
  <2> QED BY <2>1, <2>2, <2>3 DEF Traced, m
<1>2. ASSUME Complete(file, log, n) PROVE Complete(file, longer, n)
  BY <1>2 DEF Complete
<1> QED BY <1>1, <1>2

\* Both stay when the next entry is written.
LEMMA FileGrows ==
    ASSUME NEW file \in Seq(Commands), NEW log, NEW n \in Nat, NEW c \in Commands,
           log[n + 1].command = c
    PROVE  /\ Traced(file, log, n) => Traced(Append(file, c), log, n + 1)
           /\ Complete(file, log, n) => Complete(Append(file, c), log, n + 1)
<1> DEFINE m == Len(file)
           more == Append(file, c)
<1>1. /\ m \in Nat /\ Len(more) = m + 1 /\ more[m + 1] = c
      /\ \A j \in 1 .. m : more[j] = file[j]
  BY LenProperties, AppendProperties
<1> HIDE DEF more, m
<1>2. ASSUME Traced(file, log, n) PROVE Traced(more, log, n + 1)
  <2>1. PICK origin \in [1 .. m -> 1 .. n] :
           \A j \in 1 .. m : /\ file[j] = log[origin[j]].command
                             /\ \A k \in 1 .. j - 1 : origin[k] < origin[j]
    BY <1>2 DEF Traced, m
  <2> DEFINE further == [j \in 1 .. m + 1 |-> IF j <= m THEN origin[j] ELSE n + 1]
  <2>2. further \in [1 .. m + 1 -> 1 .. n + 1]
    BY <1>1, <2>1
  <2>3. further[m + 1] = n + 1 /\ \A j \in 1 .. m : further[j] = origin[j]
    BY <1>1
  <2> HIDE DEF further
  <2>4. ASSUME NEW j \in 1 .. m + 1
        PROVE  /\ more[j] = log[further[j]].command
               /\ \A k \in 1 .. j - 1 : further[k] < further[j]
    <3>1. CASE j \in 1 .. m
      BY <1>1, <2>1, <2>3, <3>1
    <3>2. CASE j = m + 1
      BY <1>1, <2>1, <2>3, <3>2
    <3> QED BY <1>1, <3>1, <3>2
  <2> QED BY <1>1, <2>2, <2>4 DEF Traced
<1>3. ASSUME Complete(file, log, n) PROVE Complete(more, log, n + 1)
  <2>1. m = n /\ \A j \in 1 .. n : file[j] = log[j].command
    BY <1>3 DEF Complete, m
  <2>2. ASSUME NEW j \in 1 .. n + 1 PROVE more[j] = log[j].command
    <3>1. j \in 1 .. n \/ j = n + 1
      OBVIOUS
    <3> QED BY <1>1, <2>1, <3>1
  <2> QED BY <1>1, <2>1, <2>2 DEF Complete
<1> QED BY <1>2, <1>3 DEF more

LEMMA FilesInit ==
    ASSUME NEW l \in Servers, ServerInit
    PROVE  FilesInv(l)
<1> SUFFICES ASSUME NEW s \in Servers
             PROVE  /\ Traced(log_file[s], server_log[l], last_log_applied[s] + 1)
                    /\ Complete(log_file[s], server_log[l], last_log_applied[s] + 1)
  BY DEF FilesInv
<1>1. log_file[s] = << >> /\ Len(log_file[s]) = 0 /\ last_log_applied[s] + 1 = 0
  BY EmptySeq DEF ServerInit
<1>2. Traced(log_file[s], server_log[l], 0)
  <2>1. [j \in 1 .. 0 |-> 0] \in [1 .. 0 -> 1 .. 0] /\ \A j \in 1 .. 0 : FALSE
    OBVIOUS
  <2> QED BY <1>1, <2>1 DEF Traced
<1> QED BY <1>1, <1>2 DEF Complete

LEMMA FilesStep ==
    ASSUME NEW l \in Servers, Electable = {l}, OrderInv(l), StateTypeOK', AnyStep(l), TakesStep,
           FilesInv(l)
    PROVE  FilesInv(l)'
<1> DEFINE n(s) == last_log_applied[s] + 1
<1>1. \A s \in Servers : /\ log_file[s] \in Seq(Commands) /\ n(s) \in Nat
                         /\ n(s) <= Len(server_log[l]) /\ Len(server_log[l]) \in Nat
  <2> SUFFICES ASSUME NEW s \in Servers
               PROVE  /\ log_file[s] \in Seq(Commands) /\ n(s) \in Nat
                      /\ n(s) <= Len(server_log[l]) /\ Len(server_log[l]) \in Nat
    OBVIOUS
  <2>1. /\ log_file[s] \in Seq(Commands) /\ last_log_applied[s] \in Nat \cup {-1}
        /\ commit_index[s] \in Int /\ Size(s) \in Nat /\ Size(l) \in Nat
    BY LogFacts DEF OrderInv, LeaderInv, LogsInv, StateTypeOK, LogTypeOK, ApplyTypeOK
  <2>2. last_log_applied[s] <= commit_index[s] /\ commit_index[s] < Size(s)
    BY DEF OrderInv, CommitWithinLog
  <2>3. Len(server_log[s]) <= Len(server_log[l])
    BY DEF OrderInv, LeaderInv, LogsInv, PrefixOf, IsPrefixOf
  <2> QED BY <2>1, <2>2, <2>3 DEF Size
<1>2. \A s \in Servers : \A i \in 1 .. n(s) : server_log'[l][i] = server_log[l][i]
  <2>1. \A i \in 1 .. Len(server_log[l]) : server_log[l][i] = server_log'[l][i]
    BY LogsGrow DEF IsPrefixOf
  <2> SUFFICES ASSUME NEW s \in Servers, NEW i \in 1 .. n(s)
               PROVE  server_log'[l][i] = server_log[l][i]
    OBVIOUS
  <2>2. i \in 1 .. Len(server_log[l])
    <3>1. n(s) \in Nat /\ n(s) <= Len(server_log[l]) /\ Len(server_log[l]) \in Nat
      BY <1>1
    <3> HIDE DEF n
    <3> QED BY <3>1
  <2> QED BY <2>1, <2>2
<1> DEFINE Follows(s) == /\ Traced(log_file[s], server_log[l], n(s))
                         /\ s \notin FailingFiles => Complete(log_file[s], server_log[l], n(s))
<1>3. ASSUME NEW s \in Servers, UNCHANGED <<last_log_applied[s], log_file[s]>>
      PROVE  Follows(s)'
  <2>1. Follows(s)
    BY DEF FilesInv
  <2>2. /\ Traced(log_file[s], server_log'[l], n(s))
        /\ s \notin FailingFiles => Complete(log_file[s], server_log'[l], n(s))
    BY <1>1, <1>2, <2>1, FileStays
  <2> QED BY <1>3, <2>2
<1>4. ASSUME NEW s \in Servers, ApplyEntry(s) PROVE FilesInv(l)'
  <2> DEFINE c == server_log[l][n(s) + 1].command
  <2>1. /\ c \in Commands
        /\ last_log_applied' = [last_log_applied EXCEPT ![s] = n(s)]
        /\ UNCHANGED server_log
        /\ \/ log_file' = [log_file EXCEPT ![s] = Append(log_file[s], c)]
           \/ s \in FailingFiles /\ UNCHANGED log_file
    BY <1>4, ApplyTakesNext
  <2>2. ASSUME NEW p \in Servers, p # s PROVE Follows(p)'
    <3>1. UNCHANGED <<last_log_applied[p], log_file[p]>>
      BY <2>1, <2>2 DEF OrderInv, LeaderInv, LogsInv, StateTypeOK, ApplyTypeOK
    <3> QED BY <1>3, <3>1
  <2>3. Follows(s)'
    <3>1. /\ last_log_applied'[s] + 1 = n(s) + 1 /\ server_log'[l] = server_log[l]
          /\ \/ log_file'[s] = Append(log_file[s], c)
             \/ s \in FailingFiles /\ log_file'[s] = log_file[s]
      BY <2>1 DEF OrderInv, LeaderInv, LogsInv, StateTypeOK, ApplyTypeOK
    <3>2. Follows(s)
      BY DEF FilesInv
    <3>3. CASE log_file'[s] = Append(log_file[s], c)
      <4>1. /\ Traced(log_file'[s], server_log[l], n(s) + 1)
            /\ s \notin FailingFiles => Complete(log_file'[s], server_log[l], n(s) + 1)
        <5> HIDE DEF n
        <5> QED BY <1>1, <2>1, <3>2, <3>3, FileGrows
      <4> QED BY <3>1, <4>1
    <3>4. CASE s \in FailingFiles /\ log_file'[s] = log_file[s]
      <4>1. Traced(log_file[s], server_log[l], n(s) + 1)
        <5> HIDE DEF n
        <5> QED BY <1>1, <3>2, FileStays
      <4> QED BY <3>1, <3>4, <4>1
    <3> QED BY <3>1, <3>3, <3>4
  <2> QED BY <2>2, <2>3 DEF FilesInv
<1>5. CASE UNCHANGED <<last_log_applied, log_file>>
  BY <1>3, <1>5 DEF FilesInv
<1> QED BY <1>4, <1>5, FilesChange

LEMMA FilesInvImplies ==
    ASSUME NEW l \in Servers, Electable = {l}, FilesInv(l)
    PROVE  FilesFollowLeader
BY DEF FilesInv, FilesFollowLeader, Traced, Complete

\* An append of the leader is an Accept of ReplicatedLog, a turn of the apply
\* loop an Apply, and every other step of the program changes nothing there.
LEMMA RefinementStep ==
    ASSUME NEW l \in Servers, Electable = {l}
    PROVE  /\ ServerInit => Promise!Init
           /\ OrderInv(l) /\ AnyStep(l) =>
                 [Promise!Next]_<<CommandsOf(server_log[TheLeader]), AppliedCount, log_file>>
<1> DEFINE log == CommandsOf(server_log[TheLeader])
<1>1. TheLeader = l
  BY DEF TheLeader
<1>2. ASSUME ServerInit PROVE Promise!Init
  <2>1. /\ server_log[l] = << >> /\ log_file = [s \in Servers |-> << >>]
        /\ last_log_applied = [s \in Servers |-> -1]
    BY <1>2 DEF ServerInit
  <2>2. CommandsOf(<< >>) = << >>
    <3>1. << >> \in Seq(LogEntry) /\ Len(<< >>) = 0
      BY EmptySeq
    <3>2. CommandsOf(<< >>) \in Seq(Commands) /\ Len(CommandsOf(<< >>)) = 0
      BY <3>1, CommandsOfFacts
    <3> QED BY <3>2, EmptySeq
  <2>3. AppliedCount = [s \in Servers |-> 0]
    BY <2>1 DEF AppliedCount
  <2> QED BY <1>1, <2>1, <2>2, <2>3 DEF Promise!Init
<1>3. ASSUME OrderInv(l), AnyStep(l)
      PROVE  [Promise!Next]_<<log, AppliedCount, log_file>>
  <2>1. server_log[l] \in Seq(LogEntry) /\ last_log_applied \in [Servers -> Nat \cup {-1}]
    BY <1>3 DEF OrderInv, LeaderInv, LogsInv, StateTypeOK, LogTypeOK, ApplyTypeOK
  <2>2. ASSUME NEW e \in LogEntry, server_log'[l] = Append(server_log[l], e),
               UNCHANGED <<last_log_applied, log_file>>
        PROVE  Promise!Next
    <3>1. log' = Append(log, e.command)
      BY <1>1, <2>1, <2>2, CommandsOfFacts
    <3>2. e.command \in Commands
      BY DEF LogEntry
    <3>3. UNCHANGED AppliedCount
      BY <2>2 DEF AppliedCount
    <3> QED BY <2>2, <3>1, <3>2, <3>3 DEF Promise!Next, Promise!Accept
  <2>3. ASSUME NEW s \in Servers, ApplyEntry(s) PROVE Promise!Next
    <3> DEFINE i == last_log_applied[s] + 1
               c == server_log[l][i + 1].command
    <3>1. /\ i \in Nat /\ i < Len(server_log[l])
          /\ last_log_applied' = [last_log_applied EXCEPT ![s] = i]
          /\ UNCHANGED server_log
          /\ \/ log_file' = [log_file EXCEPT ![s] = Append(log_file[s], c)]
             \/ s \in FailingFiles /\ UNCHANGED log_file
      BY <1>3, <2>3, ApplyTakesNext
    <3>2. log' = log
      BY <1>1, <3>1
    <3>3. AppliedCount[s] = i /\ AppliedCount' = [AppliedCount EXCEPT ![s] = i + 1]
      BY <2>1, <3>1 DEF AppliedCount
    <3>4. i < Len(log) /\ log[i + 1] = c
      <4>1. log = CommandsOf(server_log[l])
        BY <1>1
      <4>2. i + 1 \in 1 .. Len(server_log[l])
        <5>1. Len(server_log[l]) \in Nat
          BY <2>1, LenProperties
        <5> HIDE DEF i
        <5> QED BY <3>1, <5>1
      <4> HIDE DEF i, log
      <4> QED BY <2>1, <3>1, <4>1, <4>2, CommandsOfFacts DEF c
    <3> HIDE DEF i, c
    <3>5. Promise!Apply(s)
      BY <3>1, <3>2, <3>3, <3>4 DEF Promise!Apply
    <3> QED BY <3>5 DEF Promise!Next
  <2>4. CASE server_log'[l] = server_log[l]
    <3>1. log' = log
      BY <1>1, <2>4
    <3>2. CASE UNCHANGED <<last_log_applied, log_file>>
      BY <3>1, <3>2 DEF AppliedCount
    <3> QED BY <1>3, <2>3, <3>2, FilesChange
  <2> QED BY <1>3, <2>2, <2>4, LeaderLogStep DEF OrderInv, LeaderInv
<1> QED BY <1>2, <1>3
=============================================================================
