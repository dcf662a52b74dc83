--------------------------- MODULE ExchangeProofs ---------------------------
(***************************************************************************)
(* What the leader believes replicated, and what it commits, when only l   *)
(* may be elected, is never crashed, and beats only once its last beat to  *)
(* a follower is answered (MaxInFlight = 1).                               *)
(*                                                                         *)
(* MatchIsReplicated is not inductive: an acknowledgement says only that a *)
(* follower took some entries, and the leader counts one entry for it      *)
(* whatever it is for.  The invariant says that with every follower there  *)
(* is one exchange at most: either entries that follow those the leader    *)
(* has counted, or their acknowledgement, which the follower's longer log  *)
(* backs.  (With a second beat under way the leader counts twice: the run  *)
(* late_answers shows it.)                                                  *)
(***************************************************************************)
EXTENDS QueueProofs, FiniteSetTheorems

----------------------------------------------------------------------------
(* Who sends what. *)

\* s adds to its own channels and to no others, messages of the types T only.
Adds(T, s, before, after) ==
    \A p, d \in Ranks :
        /\ Len(before[p][d]) <= Len(after[p][d])
        /\ \A i \in 1 .. Len(before[p][d]) : after[p][d][i] = before[p][d][i]
        /\ \A i \in 1 .. Len(after[p][d]) : Len(before[p][d]) < i => after[p][d][i].type \in T
        /\ p # s => after[p][d] = before[p][d]

LEMMA AddsFacts ==
    ASSUME NEW T, NEW s, NEW a \in Channels, NEW b \in Channels, NEW c \in Channels
    PROVE  /\ Adds(T, s, a, a)
           /\ Adds(T, s, a, b) /\ Adds(T, s, b, c) => Adds(T, s, a, c)
<1>1. \A p, d \in Ranks : Len(a[p][d]) \in Nat /\ Len(b[p][d]) \in Nat /\ Len(c[p][d]) \in Nat
  <2>1. \A p, d \in Ranks : a[p][d] \in Seq(RPC) /\ b[p][d] \in Seq(RPC) /\ c[p][d] \in Seq(RPC)
    BY DEF Channels
  <2> QED BY <2>1, LenProperties
<1>2. Adds(T, s, a, a)
  BY <1>1 DEF Adds
<1>3. ASSUME Adds(T, s, a, b), Adds(T, s, b, c), NEW p \in Ranks, NEW d \in Ranks
      PROVE  /\ Len(a[p][d]) <= Len(c[p][d])
             /\ \A i \in 1 .. Len(a[p][d]) : c[p][d][i] = a[p][d][i]
             /\ \A i \in 1 .. Len(c[p][d]) : Len(a[p][d]) < i => c[p][d][i].type \in T
             /\ p # s => c[p][d] = a[p][d]
  <2>1. /\ Len(a[p][d]) <= Len(b[p][d]) /\ Len(b[p][d]) <= Len(c[p][d])
        /\ \A i \in 1 .. Len(a[p][d]) : b[p][d][i] = a[p][d][i]
        /\ \A i \in 1 .. Len(b[p][d]) : c[p][d][i] = b[p][d][i]
        /\ p # s => c[p][d] = a[p][d]
    BY <1>3 DEF Adds
  <2>2. ASSUME NEW i \in 1 .. Len(c[p][d]), Len(a[p][d]) < i PROVE c[p][d][i].type \in T
    <3>1. CASE i <= Len(b[p][d])
      <4>1. i \in 1 .. Len(b[p][d])
        BY <1>1, <3>1
      <4>2. c[p][d][i] = b[p][d][i] /\ b[p][d][i].type \in T
        BY <1>3, <2>1, <2>2, <4>1 DEF Adds
      <4> QED BY <4>2
    <3>2. CASE ~(i <= Len(b[p][d]))
      <4>1. Len(b[p][d]) < i
        BY <1>1, <3>2
      <4> QED BY <1>3, <4>1 DEF Adds
    <3> QED BY <3>1, <3>2
  <2> QED BY <1>1, <2>1, <2>2
<1> QED BY <1>2, <1>3 DEF Adds

LEMMA SendIsAdding ==
    ASSUME NEW chan \in Channels, NEW s \in Ranks, NEW dst, NEW m \in RPC,
           NEW T, m.type \in T, NEW ended
    PROVE  Adds(T, s, chan, SendMessage(chan, s, dst, m, ended))
<1> DEFINE new == SendMessage(chan, s, dst, m, ended)
<1>1. CASE dst \in ended \/ dst \notin Ranks
  <2>1. new = chan
    BY <1>1 DEF SendMessage, Channels
  <2> QED BY <2>1, AddsFacts
<1>2. CASE dst \notin ended /\ dst \in Ranks
  <2> SUFFICES ASSUME NEW p \in Ranks, NEW d \in Ranks
               PROVE  /\ Len(chan[p][d]) <= Len(new[p][d])
                      /\ \A i \in 1 .. Len(chan[p][d]) : new[p][d][i] = chan[p][d][i]
                      /\ \A i \in 1 .. Len(new[p][d]) : Len(chan[p][d]) < i => new[p][d][i].type \in T
                      /\ p # s => new[p][d] = chan[p][d]
    BY DEF Adds
  <2>1. PICK old \in Seq(RPC) : old = chan[p][d]
    BY DEF Channels
  <2>2. Len(old) \in Nat
    BY LenProperties
  <2>3. new[p][d] = IF p = s /\ d = dst THEN Append(old, m) ELSE old
    BY <1>2, <2>1 DEF SendMessage, Channels
  <2>4. /\ Len(Append(old, m)) = Len(old) + 1
        /\ \A i \in 1 .. Len(old) : Append(old, m)[i] = old[i]
        /\ Append(old, m)[Len(old) + 1] = m
    BY AppendProperties
  <2> HIDE DEF new
  <2>5. CASE p = s /\ d = dst
    <3>1. new[p][d] = Append(old, m)
      BY <2>3, <2>5
    <3> QED BY <2>1, <2>2, <2>4, <2>5, <3>1
  <2>6. CASE ~(p = s /\ d = dst)
    BY <2>1, <2>2, <2>3, <2>6
  <2> QED BY <2>5, <2>6
<1> QED BY <1>1, <1>2

LEMMA BroadcastIsAdding ==
    ASSUME NEW chan \in Channels, NEW s \in Ranks, NEW dests \in SUBSET Ranks, NEW m,
           NEW T, \A d \in dests : m[d] \in RPC /\ m[d].type \in T, NEW ended
    PROVE  Adds(T, s, chan, SendToAll(chan, s, dests, m, ended))
<1> SUFFICES ASSUME NEW p \in Ranks, NEW d \in Ranks, NEW new,
                    new = SendToAll(chan, s, dests, m, ended)[p][d]
             PROVE  /\ Len(chan[p][d]) <= Len(new)
                    /\ \A i \in 1 .. Len(chan[p][d]) : new[i] = chan[p][d][i]
                    /\ \A i \in 1 .. Len(new) : Len(chan[p][d]) < i => new[i].type \in T
                    /\ p # s => new = chan[p][d]
  BY DEF Adds
<1>1. PICK old \in Seq(RPC) : old = chan[p][d]
  BY DEF Channels
<1>2. Len(old) \in Nat
  BY LenProperties
<1>3. new = IF p = s /\ d \in dests \ ended THEN Append(old, m[d]) ELSE old
  BY <1>1, SendToAllIs
<1>4. CASE p = s /\ d \in dests \ ended
  <2>1. new = Append(old, m[d]) /\ m[d] \in RPC /\ m[d].type \in T
    BY <1>3, <1>4
  <2>2. /\ Len(Append(old, m[d])) = Len(old) + 1
        /\ \A i \in 1 .. Len(old) : Append(old, m[d])[i] = old[i]
        /\ Append(old, m[d])[Len(old) + 1] = m[d]
    BY <2>1, AppendProperties
  <2>3. \A i \in 1 .. Len(new) : Len(old) < i => new[i] = m[d]
    BY <1>2, <2>1, <2>2
  <2>4. Len(old) <= Len(new) /\ \A i \in 1 .. Len(old) : new[i] = old[i]
    BY <1>2, <2>1, <2>2
  <2> QED BY <1>1, <1>4, <2>1, <2>3, <2>4
<1>5. CASE ~(p = s /\ d \in dests \ ended)
  BY <1>1, <1>2, <1>3, <1>5
<1> QED BY <1>4, <1>5

AsksForVotes(s) ==
    \/ FollowerTimesOut(s)
    \/ CandidateTimesOut(s)
    \/ HandleServerTimeout(s) /\ status[s] = "FOLLOWER"

LEMMA VotesAreAdded ==
    ASSUME StateTypeOK, NEW s \in Servers, NEW T, "VOTE_REQUEST" \in T
    PROVE  Adds(T, s, channel, RequestVotes(s))
<1> DEFINE request == VoteRequest(current_term[s] + 1, s, Size(s) - 1, TermAt(s, Size(s) - 1))
           m == [p \in Peers(s) |-> request]
<1>1. request \in RPC /\ request.type = "VOTE_REQUEST"
  BY VoteRequestType, AnswerTypes DEF StateTypeOK
<1>2. \A d \in Peers(s) : m[d] \in RPC /\ m[d].type \in T
  <2> HIDE DEF request
  <2> QED BY <1>1
<1>3. RequestVotes(s) = SendToAll(channel, s, Peers(s), m, Ended)
  BY DEF RequestVotes
<1>4. channel \in Channels /\ s \in Ranks /\ Peers(s) \in SUBSET Ranks
  BY RanksFacts DEF StateTypeOK, ChannelTypeOK, Channels, Peers
<1> HIDE DEF m
<1> QED BY <1>2, <1>3, <1>4, BroadcastIsAdding

\* The types of what a step sends, receiving and the leader's beat apart.
LEMMA StepSends ==
    ASSUME StateTypeOK, NEW s \in Servers, ServerStep(s), ~ReceiveAll(s), ~LeaderBeats(s),
           NEW T,
           {"VOTE_RESPONSE", "MESSAGE_RESPONSE"} \subseteq T,
           AnswerSearchLeader(s) => "SEARCH_LEADER_RESPONSE" \in T,
           ApplyEntry(s) \/ DenyNewLogEntry(s) => "NEW_LOG_ENTRY_RESPONSE" \in T,
           HandleAppendEntries(s) \/ HandleAppendEntriesDenied(s)
              => "APPEND_ENTRIES_RESPONSE" \in T,
           CandidateWins(s) => "HEARTBEAT" \in T,
           AsksForVotes(s) => "VOTE_REQUEST" \in T
    PROVE  Adds(T, s, channel, channel')
<1> USE DEF stateVars, dataVars, electionVars, logVars
<1>1. channel \in Channels /\ s \in Ranks
  BY RanksFacts DEF StateTypeOK, ChannelTypeOK, Channels
<1>2. CASE UNCHANGED channel
  BY <1>1, <1>2, AddsFacts
<1>3. ASSUME NEW dst, NEW m \in RPC, m.type \in T, Reply(s, dst, m)
      PROVE  Adds(T, s, channel, channel')
  BY <1>1, <1>3, SendIsAdding DEF Reply
<1>4. current_term[s] \in Int /\ commit_index[s] \in Int
  BY DEF StateTypeOK, ElectionTypeOK, LogTypeOK
<1>5. CASE StartUpdate(s) \/ BeginHandling(s)
  BY <1>2, <1>5 DEF StartUpdate, Begin, BeginHandling
<1>6. CASE ApplyEntry(s)
  <2>1. UNCHANGED channel \/ Reply(s, Head(entries_queue[s]).source, NewLogEntryResponse(TRUE))
    BY <1>6 DEF ApplyEntry
  <2> QED BY <1>2, <1>3, <1>6, <2>1, RpcFacts, AnswerTypes
<1>7. CASE HandleQuery(s)
  <2> DEFINE q == batch[done + 1]
  <2>1. CASE StepDown(s) \/ HandleHeartbeat(s) \/ HandleVoteRequestThrows(s) \/ PassOver(s)
    BY <1>2, <2>1 DEF StepDown, HandleHeartbeat, HandleVoteRequestThrows, PassOver
  <2>2. CASE HandleVoteRequest(s)
    <3>1. PICK b \in BOOLEAN : b = GrantsVote(s, q.rpc)
      BY DEF GrantsVote
    <3>2. Reply(s, q.rpc.candidate_rank, VoteResponse(current_term[s], b))
      BY <2>2, <3>1 DEF HandleVoteRequest
    <3> QED BY <1>3, <1>4, <3>2, RpcFacts, AnswerTypes
  <2>3. CASE HandleAppendEntriesDenied(s)
    <3>1. Reply(s, q.rpc.leader_rank, AppendEntriesResponse(current_term[s], FALSE))
      BY <2>3 DEF HandleAppendEntriesDenied
    <3>2. /\ AppendEntriesResponse(current_term[s], FALSE) \in RPC
          /\ AppendEntriesResponse(current_term[s], FALSE).type \in T
      BY <1>4, <2>3, RpcFacts, AnswerTypes
    <3> QED BY <1>3, <3>1, <3>2
  <2>4. CASE HandleAppendEntries(s)
    <3>1. /\ Reply(s, q.rpc.leader_rank, AppendEntriesResponse(q.rpc.term, TRUE))
          /\ done < Len(batch)
      BY <2>4 DEF HandleAppendEntries, Handling
    <3>2. q.rpc.term \in Int
      BY <3>1, QueryFacts, RpcFields DEF StateTypeOK
    <3>3. /\ AppendEntriesResponse(q.rpc.term, TRUE) \in RPC
          /\ AppendEntriesResponse(q.rpc.term, TRUE).type \in T
      BY <2>4, <3>2, RpcFacts, AnswerTypes
    <3> QED BY <1>3, <3>1, <3>3
  <2>5. CASE AnswerSearchLeader(s)
    BY <1>3, <2>5, RpcFacts, AnswerTypes DEF AnswerSearchLeader
  <2>6. CASE DenyNewLogEntry(s)
    BY <1>3, <2>6, RpcFacts, AnswerTypes DEF DenyNewLogEntry
  <2> QED BY <1>7, <2>1, <2>2, <2>3, <2>4, <2>5, <2>6 DEF HandleQuery
<1>8. CASE HandleMessage(s)
  <2>1. ASSUME NEW b \in BOOLEAN, Answer(s, b) PROVE Adds(T, s, channel, channel')
    BY <1>3, <2>1, RpcFacts, AnswerTypes DEF Answer
  <2>2. CASE HandleDisplayOrSpeed(s) \/ HandleStop(s)
    BY <2>1, <2>2 DEF HandleDisplayOrSpeed, HandleStop
  <2>3. CASE HandleCrash(s) \/ HandleRecover(s)
    <3>1. PICK b \in BOOLEAN : Answer(s, b)
      BY <2>3 DEF HandleCrash, HandleRecover
    <3> QED BY <2>1, <3>1
  <2>4. CASE HandleServerTimeout(s)
    <3>1. CASE status[s] = "FOLLOWER"
      <4>1. PICK asked \in Channels : asked = RequestVotes(s)
        BY RequestVotesTypes DEF StateTypeOK
      <4>2. channel' = SendMessage(asked, s, batch[done + 1].source, MessageResponse(TRUE), Ended)
        BY <2>4, <3>1, <4>1 DEF HandleServerTimeout
      <4>3. MessageResponse(TRUE) \in RPC /\ MessageResponse(TRUE).type \in T
        BY RpcFacts, AnswerTypes
      <4>4. Adds(T, s, channel, asked)
        BY <2>4, <3>1, <4>1, VotesAreAdded DEF AsksForVotes
      <4>5. Adds(T, s, asked, channel')
        BY <1>1, <4>2, <4>3, SendIsAdding
      <4>6. channel' \in Channels
        BY <1>1, <4>2, <4>3, SendMessageFacts
      <4> QED BY <1>1, <4>4, <4>5, <4>6, AddsFacts
    <3>2. CASE status[s] # "FOLLOWER"
      BY <2>1, <2>4, <3>2 DEF HandleServerTimeout
    <3> QED BY <3>1, <3>2
  <2> QED BY <1>8, <2>2, <2>3, <2>4 DEF HandleMessage
<1>9. CASE Routine(s)
  <2>1. CASE FollowerTimesOut(s) \/ CandidateTimesOut(s)
    <3>1. channel' = RequestVotes(s)
      BY <2>1 DEF FollowerTimesOut, CandidateTimesOut
    <3> QED BY <2>1, <3>1, VotesAreAdded DEF AsksForVotes
  <2>2. CASE CandidateWins(s)
    <3> DEFINE heartbeat == Heartbeat(current_term[s], commit_index[s])
               m == [p \in Peers(s) |-> heartbeat]
    <3>1. heartbeat \in RPC /\ heartbeat.type \in T
      BY <1>4, <2>2, RpcFacts, AnswerTypes
    <3>2. \A d \in Peers(s) : m[d] \in RPC /\ m[d].type \in T
      <4> HIDE DEF heartbeat
      <4> QED BY <3>1
    <3>3. channel' = SendToAll(channel, s, Peers(s), m, Ended) /\ Peers(s) \in SUBSET Ranks
      BY <2>2, RanksFacts DEF CandidateWins, Peers
    <3> HIDE DEF m
    <3> QED BY <1>1, <3>2, <3>3, BroadcastIsAdding
  <2>3. CASE \/ NoRoutine(s) \/ CandidateDefers(s) \/ CandidateWaits(s) \/ LeaderSkipsBeat(s)
             \/ LeaderAppends(s) \/ LeaderCountsSuccess(s) \/ LeaderBacksUp(s)
             \/ LeaderPassesOver(s) \/ LeaderCommits(s)
    BY <1>2, <2>3 DEF NoRoutine, CandidateDefers, CandidateWaits, LeaderSkipsBeat,
       LeaderAppends, LeaderCountsSuccess, LeaderBacksUp, LeaderPassesOver, LeaderCommits
  <2> QED BY <1>9, <2>1, <2>2, <2>3 DEF Routine
<1> QED BY <1>5, <1>6, <1>7, <1>8, <1>9 DEF ServerStep

----------------------------------------------------------------------------
(* What is under way from one process to another. *)

\* The messages of type t from src that dst has yet to receive or, from query
\* `first' of its batch on, to handle, each with its place.
LinkOf(chan, act, bat, src, dst, t, first) ==
    {[stage |-> "sent", place |-> i, rpc |-> chan[src][dst][i]] :
        i \in {j \in 1 .. Len(chan[src][dst]) : chan[src][dst][j].type = t}}
    \cup {[stage |-> "taken", place |-> i, rpc |-> bat[i].rpc] :
        i \in {j \in first .. Len(bat) :
                  act = dst /\ bat[j].source = src /\ bat[j].rpc.type = t}}

AtMostOne(S) == \A x, y \in S : x = y

\* A step loses messages or moves them on, but adds and copies none.
Keeps(old, new) ==
    /\ \A x \in new : \E y \in old : x.rpc = y.rpc
    /\ AtMostOne(old) => AtMostOne(new)

LEMMA LinkFacts ==
    ASSUME NEW chan, NEW act, NEW bat, NEW src, NEW dst, NEW t, NEW first
    PROVE  /\ \A i \in 1 .. Len(chan[src][dst]) : chan[src][dst][i].type = t =>
                 [stage |-> "sent", place |-> i, rpc |-> chan[src][dst][i]]
                    \in LinkOf(chan, act, bat, src, dst, t, first)
           /\ \A i \in first .. Len(bat) :
                 act = dst /\ bat[i].source = src /\ bat[i].rpc.type = t =>
                    [stage |-> "taken", place |-> i, rpc |-> bat[i].rpc]
                       \in LinkOf(chan, act, bat, src, dst, t, first)
           /\ \A x \in LinkOf(chan, act, bat, src, dst, t, first) :
                 \/ \E i \in 1 .. Len(chan[src][dst]) :
                       /\ chan[src][dst][i].type = t
                       /\ x = [stage |-> "sent", place |-> i, rpc |-> chan[src][dst][i]]
                 \/ \E i \in first .. Len(bat) :
                       /\ act = dst /\ bat[i].source = src /\ bat[i].rpc.type = t
                       /\ x = [stage |-> "taken", place |-> i, rpc |-> bat[i].rpc]
  BY DEF LinkOf

LEMMA LinkShrinks ==
    ASSUME NEW chan, NEW chan2, NEW act, NEW act2, NEW bat, NEW bat2, NEW src, NEW dst, NEW t,
           NEW first \in Int, NEW first2 \in Int, Len(bat2) \in Nat,
           \A i \in 1 .. Len(chan2[src][dst]) : chan2[src][dst][i].type = t =>
              i \in 1 .. Len(chan[src][dst]) /\ chan2[src][dst][i] = chan[src][dst][i],
           \/ act2 = act /\ bat2 = bat /\ first <= first2
           \/ act2 # dst
           \/ Len(bat2) = 0 /\ first2 > 0
    PROVE  /\ LinkOf(chan2, act2, bat2, src, dst, t, first2)
                 \subseteq LinkOf(chan, act, bat, src, dst, t, first)
           /\ Keeps(LinkOf(chan, act, bat, src, dst, t, first),
                    LinkOf(chan2, act2, bat2, src, dst, t, first2))
<1> DEFINE old == LinkOf(chan, act, bat, src, dst, t, first)
           new == LinkOf(chan2, act2, bat2, src, dst, t, first2)
<1>1. ASSUME NEW x \in new PROVE x \in old
  <2>1. CASE \E i \in 1 .. Len(chan2[src][dst]) :
                /\ chan2[src][dst][i].type = t
                /\ x = [stage |-> "sent", place |-> i, rpc |-> chan2[src][dst][i]]
    <3>1. PICK i \in 1 .. Len(chan2[src][dst]) :
                /\ chan2[src][dst][i].type = t
                /\ x = [stage |-> "sent", place |-> i, rpc |-> chan2[src][dst][i]]
      BY <2>1
    <3>2. i \in 1 .. Len(chan[src][dst]) /\ chan2[src][dst][i] = chan[src][dst][i]
      BY <3>1
    <3> HIDE DEF old
    <3> QED BY <3>1, <3>2, LinkFacts DEF old
  <2>2. CASE \E i \in first2 .. Len(bat2) :
                /\ act2 = dst /\ bat2[i].source = src /\ bat2[i].rpc.type = t
                /\ x = [stage |-> "taken", place |-> i, rpc |-> bat2[i].rpc]
    <3>1. PICK i \in first2 .. Len(bat2) :
                /\ act2 = dst /\ bat2[i].source = src /\ bat2[i].rpc.type = t
                /\ x = [stage |-> "taken", place |-> i, rpc |-> bat2[i].rpc]
      BY <2>2
    <3>2. act2 = act /\ bat2 = bat /\ first <= first2
      BY <3>1
    <3>3. i \in first .. Len(bat)
      BY <3>1, <3>2
    <3> QED BY <3>1, <3>2, <3>3, LinkFacts
  <2>3. \/ \E i \in 1 .. Len(chan2[src][dst]) :
               /\ chan2[src][dst][i].type = t
               /\ x = [stage |-> "sent", place |-> i, rpc |-> chan2[src][dst][i]]
        \/ \E i \in first2 .. Len(bat2) :
               /\ act2 = dst /\ bat2[i].source = src /\ bat2[i].rpc.type = t
               /\ x = [stage |-> "taken", place |-> i, rpc |-> bat2[i].rpc]
    BY LinkFacts
  <2> QED BY <2>1, <2>2, <2>3
<1> HIDE DEF old, new
<1>2. new \subseteq old /\ Keeps(old, new)
  BY <1>1 DEF Keeps, AtMostOne
<1> QED BY <1>2 DEF old, new

\* What is received moves from the channel to the end of the batch, in order.
LEMMA LinkDrains ==
    ASSUME ChannelTypeOK, UpdateTypeOK, NEW s \in Ranks, NEW r \in Ranks,
           NEW n \in 1 .. Len(channel[r][s]), NEW k \in 0 .. n, Drain(s, r, k, n),
           NEW src \in Ranks, NEW dst \in Ranks, NEW t, NEW first \in Nat \ {0}
    PROVE  Keeps(LinkOf(channel, active, batch, src, dst, t, first),
                 LinkOf(channel', active', batch', src, dst, t, first))
<1> DEFINE old == LinkOf(channel, active, batch, src, dst, t, first)
           new == LinkOf(channel', active', batch', src, dst, t, first)
           Sent(i) == [stage |-> "sent", place |-> i, rpc |-> channel[r][s][i]]
           size == Len(batch)
<1>1. active = s /\ active' = s
  BY DEF Drain
<1>2. size \in Nat /\ Len(channel[r][s]) \in Nat
      /\ Len(channel[src][dst]) \in Nat
  <2>1. batch \in Seq(Query) /\ channel[r][s] \in Seq(RPC) /\ channel[src][dst] \in Seq(RPC)
    BY DEF UpdateTypeOK, ChannelTypeOK
  <2> QED BY <2>1, LenProperties
<1>3. /\ \A q, d \in Ranks : (q = r /\ d = s) \/ channel'[q][d] = channel[q][d]
      /\ \A i \in 1 .. Len(channel'[r][s]) :
            n + i \in 1 .. Len(channel[r][s]) /\ channel'[r][s][i] = channel[r][s][n + i]
      /\ Len(batch') = size + k
      /\ \A i \in 1 .. size : batch'[i] = batch[i]
      /\ \A i \in 1 .. Len(batch') : size < i =>
            /\ i - size \in 1 .. k
            /\ batch'[i] = [source |-> r, rpc |-> channel[r][s][i - size]]
  <2>1. /\ \A q, d \in Ranks : (q = r /\ d = s) \/ channel'[q][d] = channel[q][d]
        /\ \A i \in 1 .. Len(channel'[r][s]) :
              n + i \in 1 .. Len(channel[r][s]) /\ channel'[r][s][i] = channel[r][s][n + i]
        /\ Len(batch') = Len(batch) + k
        /\ \A i \in 1 .. Len(batch) : batch'[i] = batch[i]
        /\ \A i \in 1 .. Len(batch') : Len(batch) < i =>
              /\ i - Len(batch) \in 1 .. k
              /\ batch'[i] = [source |-> r, rpc |-> channel[r][s][i - Len(batch)]]
    BY DrainMoves
  <2> QED BY <2>1
\* Where a message was: the place and the index in its channel, or its place.
<1> DEFINE Was(x, y) ==
       /\ x.rpc = y.rpc
       /\ \/ x.stage = "sent" /\ (src # r \/ dst # s) /\ x = y
          \/ x.stage = "sent" /\ src = r /\ dst = s /\ y.stage = "sent" /\ y.place = n + x.place
          \/ x.stage = "taken" /\ x.place <= size /\ x = y
          \/ x.stage = "taken" /\ x.place > size /\ src = r /\ dst = s
                /\ y.stage = "sent" /\ y.place = x.place - size
<1>4. ASSUME NEW x \in new
      PROVE  /\ \E y \in old : Was(x, y)
             /\ \/ /\ x.stage = "sent" /\ x.place \in 1 .. Len(channel'[src][dst])
                   /\ x = [stage |-> "sent", place |-> x.place, rpc |-> x.rpc]
                \/ /\ x.stage = "taken" /\ x.place \in first .. size + k
                   /\ x = [stage |-> "taken", place |-> x.place, rpc |-> x.rpc]
  <2>1. CASE \E i \in 1 .. Len(channel'[src][dst]) :
                /\ channel'[src][dst][i].type = t
                /\ x = [stage |-> "sent", place |-> i, rpc |-> channel'[src][dst][i]]
    <3>1. PICK i \in 1 .. Len(channel'[src][dst]) :
                /\ channel'[src][dst][i].type = t
                /\ x = [stage |-> "sent", place |-> i, rpc |-> channel'[src][dst][i]]
      BY <2>1
    <3>2. x.stage = "sent" /\ x.place = i /\ x.rpc = channel'[src][dst][i]
      BY <3>1
    <3>3. CASE src = r /\ dst = s
      <4>1. n + i \in 1 .. Len(channel[r][s]) /\ channel'[r][s][i] = channel[r][s][n + i]
        BY <1>3, <3>3
      <4>2. Sent(n + i) \in old
        BY <3>1, <3>3, <4>1, LinkFacts
      <4>3. Was(x, Sent(n + i))
        BY <3>2, <3>3, <4>1
      <4> QED BY <3>1, <3>2, <4>2, <4>3
    <3>4. CASE ~(src = r /\ dst = s)
      <4>1. channel'[src][dst] = channel[src][dst]
        BY <1>3, <3>4
      <4>2. x \in old
        BY <3>1, <4>1, LinkFacts
      <4>3. Was(x, x)
        BY <3>2, <3>4
      <4> QED BY <3>1, <3>2, <4>2, <4>3
    <3> QED BY <3>3, <3>4
  <2>2. CASE \E i \in first .. Len(batch') :
                /\ active' = dst /\ batch'[i].source = src /\ batch'[i].rpc.type = t
                /\ x = [stage |-> "taken", place |-> i, rpc |-> batch'[i].rpc]
    <3>1. PICK i \in first .. Len(batch') :
                /\ active' = dst /\ batch'[i].source = src /\ batch'[i].rpc.type = t
                /\ x = [stage |-> "taken", place |-> i, rpc |-> batch'[i].rpc]
      BY <2>2
    <3>2. x.stage = "taken" /\ x.place = i /\ x.rpc = batch'[i].rpc /\ dst = s
      BY <1>1, <3>1
    <3>3. i \in first .. size + k /\ i \in 1 .. Len(batch')
      BY <1>2, <1>3, <3>1
    <3>4. CASE i <= size
      <4>1. i \in first .. size /\ i \in 1 .. size
        BY <1>2, <3>3, <3>4
      <4>2. batch'[i] = batch[i]
        BY <1>3, <4>1
      <4>3. x \in old
        BY <1>1, <3>1, <4>1, <4>2, LinkFacts
      <4>4. Was(x, x)
        BY <3>2, <3>4
      <4> QED BY <3>1, <3>2, <3>3, <4>3, <4>4
    <3>5. CASE ~(i <= size)
      <4>1. size < i /\ i \in Int
        BY <1>2, <3>3, <3>5
      <4>2. i - size \in 1 .. k /\ batch'[i] = [source |-> r, rpc |-> channel[r][s][i - size]]
        BY <1>3, <3>3, <4>1
      <4>3. src = r /\ batch'[i].rpc = channel[r][s][i - size]
        BY <3>1, <4>2
      <4>4. i - size \in 1 .. Len(channel[r][s])
        BY <1>2, <4>2
      <4>5. Sent(i - size) \in old
        BY <3>1, <3>2, <4>3, <4>4, LinkFacts
      <4>6. Was(x, Sent(i - size))
        BY <3>2, <4>1, <4>3
      <4> QED BY <3>1, <3>2, <3>3, <4>5, <4>6
    <3> QED BY <3>4, <3>5
  <2> QED BY <2>1, <2>2, LinkFacts
<1>5. ASSUME NEW x \in new, NEW z \in new, NEW y \in old, Was(x, y), Was(z, y)
      PROVE  x = z
  <2> DEFINE Placed(v) ==
        \/ /\ v.stage = "sent" /\ v.place \in 1 .. Len(channel'[src][dst])
           /\ v = [stage |-> "sent", place |-> v.place, rpc |-> v.rpc]
        \/ /\ v.stage = "taken" /\ v.place \in first .. size + k
           /\ v = [stage |-> "taken", place |-> v.place, rpc |-> v.rpc]
  <2>1. Placed(x) /\ Placed(z)
    BY <1>4
  <2>2. x.rpc = z.rpc
    BY <1>5
  <2>3. (x.stage = "sent" \/ x.stage = "taken") /\ x.place \in Int
        /\ (z.stage = "sent" \/ z.stage = "taken") /\ z.place \in Int
    BY <2>1
  <2>4. x.stage = z.stage /\ x.place = z.place
    BY <1>2, <1>5, <2>1, <2>3
  <2> QED BY <2>1, <2>2, <2>4
<1>6. \A x \in new : \E y \in old : Was(x, y)
  BY <1>4
<1>7. \A x \in new : \E y \in old : x.rpc = y.rpc
  BY <1>6
<1>8. ASSUME AtMostOne(old), NEW x \in new, NEW z \in new PROVE x = z
  <2>1. PICK y \in old : Was(x, y)
    BY <1>6
  <2>2. PICK w \in old : Was(z, w)
    BY <1>6
  <2>3. w = y
    BY <1>8 DEF AtMostOne
  <2> HIDE DEF Was, old, new
  <2> QED BY <1>5, <2>1, <2>2, <2>3
<1> HIDE DEF old, new
<1>9. Keeps(old, new)
  BY <1>7, <1>8 DEF Keeps, AtMostOne
<1> QED BY <1>9 DEF old, new

----------------------------------------------------------------------------
(* The invariant. *)

\* The first query of its batch a leader has still to count.
FirstAck == IF phase = "lead" THEN done + 1 ELSE 1

EntriesOn(l, p)  == LinkOf(channel, active, batch, l, p, "APPEND_ENTRIES", done + 1)
AcksOn(l, p)     == LinkOf(channel, active, batch, p, l, "APPEND_ENTRIES_RESPONSE", FirstAck)
RequestsOn(l, p) == LinkOf(channel, active, batch, l, p, "VOTE_REQUEST", done + 1)

\* One exchange at a time: the entries that follow what p is known to have,
\* or their acknowledgement.
OneExchange(l, p) ==
    /\ AtMostOne(EntriesOn(l, p))
    /\ AtMostOne(AcksOn(l, p))
    /\ EntriesOn(l, p) = {} \/ AcksOn(l, p) = {}
    /\ EntriesOn(l, p) \cup AcksOn(l, p) # {} => status[l] = "LEADER"
    /\ RequestsOn(l, p) # {} => Size(p) = 0 /\ EntriesOn(l, p) = {}

GoodEntries(l, p, m) ==
    /\ m.leader_rank = l
    /\ m.term = current_term[l]
    /\ m.prev_log_index = log_index_match[l][p]
    /\ m.prev_log_index # -1 => m.prev_log_term = TermAt(l, m.prev_log_index)
    /\ Len(m.entries) >= 1

ExchangeGood(l, p) ==
    /\ \A x \in EntriesOn(l, p) : GoodEntries(l, p, x.rpc)
    /\ \A x \in AcksOn(l, p) : x.rpc.success /\ log_index_match[l][p] + 1 < Size(p)

Indexes(l, p) ==
    /\ log_index_match[l][p] >= -1
    /\ log_index_match[l][p] < Size(p)
    /\ next_log_index[l][p] = log_index_match[l][p] + 1

ExchangeInv(l) ==
    \A p \in Peers(l) : OneExchange(l, p) /\ ExchangeGood(l, p) /\ Indexes(l, p)

\* m may be on its way from p to d while l has committed up to c.
UnderCommit(l, c, p, d, m) ==
    /\ m.type \in {"HEARTBEAT", "APPEND_ENTRIES"} => m.leader_commit <= c
    /\ m.type \in {"VOTE_REQUEST", "APPEND_ENTRIES"} => p = l /\ d # l
    /\ m.type = "VOTE_REQUEST" => m.last_log_index = -1

CommitsUnder(l) ==
    /\ \A d \in Servers : commit_index[d] <= commit_index[l]
    /\ \A p \in Ranks, d \in Servers : \A i \in 1 .. Len(channel[p][d]) :
          UnderCommit(l, commit_index[l], p, d, channel[p][d][i])
    /\ active \in Servers => \A i \in 1 .. Len(batch) :
          UnderCommit(l, commit_index[l], batch[i].source, active, batch[i].rpc)

CommitHeld(l) ==
    commit_index[l] >= 0 => 2 * Cardinality({p \in Servers : commit_index[l] < Size(p)}) > NServers

CountInv(l) ==
    /\ QueueInv(l)
    /\ CommitsUnder(l)
    /\ ExchangeInv(l)
    /\ CommitHeld(l)

\* The others send a server requests and orders, and an update is either
\* theirs or left alone.
OutsidePlain ==
    /\ \A p \in Ranks, d \in Servers : \A i \in 1 .. Len(channel'[p][d]) :
          \/ \E j \in 1 .. Len(channel[p][d]) : channel'[p][d][i] = channel[p][d][j]
          \/ channel'[p][d][i].type \in {"NEW_LOG_ENTRY", "SEARCH_LEADER", "MESSAGE",
                                         "MESSAGE_RESPONSE"}
    /\ UNCHANGED <<active, phase, batch, done>> \/ active' \notin Servers

PlainTurn == (OutsideTurn /\ OutsidePlain) \/ \E s \in Servers : ServerStep(s)

----------------------------------------------------------------------------
(* What a step leaves alone. *)

\* Nothing new of type t has been sent by src to dst.
NoNew(t, src, dst) ==
    \A i \in 1 .. Len(channel'[src][dst]) : channel'[src][dst][i].type = t =>
        i \in 1 .. Len(channel[src][dst]) /\ channel'[src][dst][i] = channel[src][dst][i]

LEMMA AddsNothingNew ==
    ASSUME StateTypeOK, StateTypeOK', NEW s, NEW T, Adds(T, s, channel, channel'),
           NEW src \in Ranks, NEW dst \in Ranks, NEW t, t \notin T \/ src # s
    PROVE  NoNew(t, src, dst)
<1>1. Len(channel[src][dst]) \in Nat /\ Len(channel'[src][dst]) \in Nat
  <2>1. channel[src][dst] \in Seq(RPC) /\ channel'[src][dst] \in Seq(RPC)
    BY DEF StateTypeOK, ChannelTypeOK
  <2> QED BY <2>1, LenProperties
<1>2. CASE src # s
  <2>1. channel'[src][dst] = channel[src][dst]
    BY <1>2 DEF Adds
  <2> QED BY <2>1 DEF NoNew
<1>3. CASE t \notin T
  <2> SUFFICES ASSUME NEW i \in 1 .. Len(channel'[src][dst]), channel'[src][dst][i].type = t
               PROVE  i \in 1 .. Len(channel[src][dst])
                      /\ channel'[src][dst][i] = channel[src][dst][i]
    BY DEF NoNew
  <2>1. ~(Len(channel[src][dst]) < i)
    BY <1>3 DEF Adds
  <2>2. i \in 1 .. Len(channel[src][dst])
    BY <1>1, <2>1
  <2> QED BY <2>2 DEF Adds
<1> QED BY <1>2, <1>3

LEMMA OutsideNothingNew ==
    ASSUME StateTypeOK, StateTypeOK', OutsideTurn, NEW src \in Servers, NEW dst \in Servers, NEW t
    PROVE  NoNew(t, src, dst)
<1>1. src \in Ranks /\ dst \in Ranks
  BY RanksFacts
<1>2. Len(channel[src][dst]) \in Nat /\ Len(channel'[src][dst]) \in Nat
  <2>1. channel[src][dst] \in Seq(RPC) /\ channel'[src][dst] \in Seq(RPC)
    BY <1>1 DEF StateTypeOK, ChannelTypeOK
  <2> QED BY <2>1, LenProperties
<1>3. /\ Len(channel'[src][dst]) <= Len(channel[src][dst])
      /\ \A i \in 1 .. Len(channel[src][dst]) : channel'[src][dst][i] = channel[src][dst][i]
  BY <1>1 DEF OutsideTurn, OutsideChannels, OnlyAdds
<1> QED BY <1>2, <1>3 DEF NoNew

\* Within an update the loops go forward over the batch.
LEMMA LoopsForward ==
    ASSUME StateTypeOK, NEW s \in Servers, ServerStep(s), ~StartUpdate(s), ~ReceiveAll(s)
    PROVE  /\ active = s
           /\ \/ EndUpdate
              \/ /\ UNCHANGED <<active, batch>>
                 /\ phase = "lead" => phase' = "lead" /\ done <= done'
                 /\ LeaderBeats(s) \/ LeaderSkipsBeat(s) \/ done <= done'
<1> DEFINE Forward ==
        /\ UNCHANGED <<active, batch>>
        /\ phase = "lead" => phase' = "lead" /\ done <= done'
        /\ LeaderBeats(s) \/ LeaderSkipsBeat(s) \/ done <= done'
<1> SUFFICES active = s /\ (EndUpdate \/ Forward)
  OBVIOUS
<1>1. active = s
  BY UpdateGoesOn
<1>2. done \in Int
  BY DEF StateTypeOK, UpdateTypeOK
<1>3. NextQuery => Forward
  BY <1>2 DEF NextQuery
<1>4. UNCHANGED <<active, phase, batch, done>> => Forward
  BY <1>2
<1>5. CASE ApplyEntry(s)
  <2>1. EndUpdate \/ (UNCHANGED <<active, batch, done>> /\ phase # "lead")
    BY <1>5 DEF ApplyEntry, Abort
  <2> QED BY <1>1, <1>2, <2>1
<1>6. CASE BeginHandling(s)
  BY <1>1, <1>2, <1>6 DEF BeginHandling
<1>7. CASE HandleQuery(s)
  <2>1. NextQuery \/ UNCHANGED <<active, phase, batch, done>> \/ EndUpdate
    BY <1>7 DEF HandleQuery, StepDown, HandleHeartbeat, HandleVoteRequest,
       HandleVoteRequestThrows, HandleAppendEntriesDenied, HandleAppendEntries,
       AnswerSearchLeader, DenyNewLogEntry, PassOver, QueryDone, Abort
  <2> QED BY <1>1, <1>3, <1>4, <2>1
<1>8. CASE HandleMessage(s)
  <2>1. NextQuery
    BY <1>8 DEF HandleMessage, HandleDisplayOrSpeed, HandleStop, HandleCrash, HandleRecover,
       HandleServerTimeout, QueryDone
  <2> QED BY <1>1, <1>3, <2>1
<1>9. CASE LeaderBeats(s)
  <2>1. EndUpdate \/ (UNCHANGED <<active, batch>> /\ phase # "lead")
    BY <1>9 DEF LeaderBeats, Abort, AllHandled
  <2> QED BY <1>1, <1>9, <2>1
<1>10. CASE LeaderSkipsBeat(s)
  <2>1. UNCHANGED <<active, batch>> /\ phase # "lead"
    BY <1>10 DEF LeaderSkipsBeat, AllHandled
  <2> QED BY <1>1, <1>10, <2>1
<1>11. CASE Routine(s) /\ ~LeaderBeats(s) /\ ~LeaderSkipsBeat(s)
  <2>1. NextQuery \/ EndUpdate
    BY <1>11 DEF Routine, NoRoutine, FollowerTimesOut, CandidateDefers, CandidateWins,
       CandidateWaits, CandidateTimesOut, CandidateCounts, LeaderAppends, LeaderCountsSuccess,
       LeaderBacksUp, LeaderPassesOver, LeaderCommits, QueryDone, Abort
  <2> QED BY <1>1, <1>3, <2>1
<1> QED BY <1>5, <1>6, <1>7, <1>8, <1>9, <1>10, <1>11 DEF ServerStep

----------------------------------------------------------------------------
(* Nobody has committed, nor been told, more than l has committed. *)

\* What is heard of a commit index is at most l's.
LEMMA CommitIsUnder ==
    ASSUME NEW l \in Servers, LogsInv(l), CommitsUnder(l), NEW s \in Servers,
           active = s, done < Len(batch),
           batch[done + 1].rpc.type \in {"HEARTBEAT", "APPEND_ENTRIES"}, NEW size \in Nat
    PROVE  FollowerCommit(s, batch[done + 1].rpc.leader_commit, size) <= commit_index[l]
<1>1. commit_index[s] \in Int /\ commit_index[l] \in Int /\ commit_index[s] <= commit_index[l]
  BY DEF LogsInv, StateTypeOK, LogTypeOK, CommitsUnder
<1>2. done + 1 \in 1 .. Len(batch) /\ batch[done + 1].rpc \in RPC
  BY QueryFacts DEF LogsInv, StateTypeOK
<1>3. UnderCommit(l, commit_index[l], batch[done + 1].source, active, batch[done + 1].rpc)
  BY <1>2 DEF CommitsUnder
<1>4. batch[done + 1].rpc.leader_commit \in Int
      /\ batch[done + 1].rpc.leader_commit <= commit_index[l]
  BY <1>2, <1>3, RpcFields DEF UnderCommit
<1> QED BY <1>1, <1>4 DEF FollowerCommit, Least

LEMMA CommitsStayUnder ==
    ASSUME NEW l \in Servers, LogsInv(l), StateTypeOK', LeadInv(l), CommitsUnder(l),
           commit_index[l] <= commit_index'[l], PlainTurn
    PROVE  \A d \in Servers : commit_index'[d] <= commit_index'[l]
<1>1. /\ StateTypeOK
      /\ \A d \in Servers : /\ commit_index[d] \in Int /\ commit_index'[d] \in Int
                            /\ commit_index[d] <= commit_index[l]
  BY DEF LogsInv, StateTypeOK, LogTypeOK, CommitsUnder
<1>2. CASE OutsideTurn
  BY <1>1, <1>2 DEF OutsideTurn, serverState, logVars
<1>3. ASSUME NEW s \in Servers, ServerStep(s), commit_index'[s] <= commit_index'[l]
      PROVE  \A d \in Servers : commit_index'[d] <= commit_index'[l]
  <2>1. \A d \in Servers : d # s => commit_index'[d] = commit_index[d]
    BY <1>1, <1>3, OthersStay DEF OwnState
  <2> QED BY <1>1, <1>3, <2>1
<1>4. ASSUME NEW s \in Servers, ServerStep(s)
      PROVE  commit_index'[s] <= commit_index'[l]
  <2>1. CASE HandleHeartbeat(s)
    <3>1. /\ commit_index' = [commit_index EXCEPT ![s] =
                FollowerCommit(s, batch[done + 1].rpc.leader_commit, Size(s))]
          /\ active = s /\ done < Len(batch) /\ batch[done + 1].rpc.type = "HEARTBEAT"
      BY <2>1 DEF HandleHeartbeat, Handling
    <3>2. Size(s) \in Nat
      BY <1>1, LogFacts DEF StateTypeOK
    <3>3. FollowerCommit(s, batch[done + 1].rpc.leader_commit, Size(s)) <= commit_index[l]
      BY <3>1, <3>2, CommitIsUnder
    <3>4. commit_index'[s] = FollowerCommit(s, batch[done + 1].rpc.leader_commit, Size(s))
      BY <1>1, <3>1 DEF StateTypeOK, LogTypeOK
    <3> QED BY <1>1, <3>3, <3>4
  <2>2. CASE HandleAppendEntries(s)
    <3>1. PICK size : size = Len(server_log'[s])
      OBVIOUS
    <3>2. /\ commit_index' = [commit_index EXCEPT ![s] =
                FollowerCommit(s, batch[done + 1].rpc.leader_commit, size)]
          /\ active = s /\ done < Len(batch) /\ batch[done + 1].rpc.type = "APPEND_ENTRIES"
      BY <2>2, <3>1 DEF HandleAppendEntries, Handling
    <3>3. size \in Nat
      <4>1. server_log'[s] \in Seq(LogEntry)
        BY DEF StateTypeOK, LogTypeOK
      <4> QED BY <3>1, <4>1, LenProperties
    <3>4. FollowerCommit(s, batch[done + 1].rpc.leader_commit, size) <= commit_index[l]
      BY <3>2, <3>3, CommitIsUnder
    <3>5. commit_index'[s] = FollowerCommit(s, batch[done + 1].rpc.leader_commit, size)
      BY <1>1, <3>2 DEF StateTypeOK, LogTypeOK
    <3> QED BY <1>1, <3>4, <3>5
  <2>3. CASE LeaderCommits(s)
    <3>1. s = l
      BY <2>3 DEF LeaderCommits, LeadInv
    <3> QED BY <1>1, <3>1
  <2>4. CASE ApplyEntry(s)
    BY <1>1, <2>4 DEF ApplyEntry, logVars
  <2>5. CASE ~HandleHeartbeat(s) /\ ~HandleAppendEntries(s) /\ ~LeaderCommits(s) /\ ~ApplyEntry(s)
    BY <1>1, <1>4, <2>5, IndexFrame
  <2> QED BY <2>1, <2>2, <2>3, <2>4, <2>5
<1> QED BY <1>2, <1>3, <1>4 DEF PlainTurn

\* Only l asks for votes, and only before its first entry.
LEMMA OnlyEmptyAsks ==
    ASSUME NEW l \in Servers, Electable = {l}, LogsInv(l), StillLeads(l),
           NEW s \in Servers, AsksForVotes(s)
    PROVE  s = l /\ status[l] # "LEADER" /\ Size(l) = 0
<1>1. s = l
  <2>1. CASE FollowerTimesOut(s) \/ CandidateTimesOut(s)
    BY <2>1 DEF FollowerTimesOut, CandidateTimesOut, ElectionTimeout
  <2>2. CASE HandleServerTimeout(s)
    <3>1. /\ active = s /\ done < Len(batch)
          /\ batch[done + 1].rpc.type = "MESSAGE" /\ batch[done + 1].rpc.kind = "SERVER_TIMEOUT"
      BY <2>2 DEF HandleServerTimeout, Ordered, Handling
    <3>2. done + 1 \in 1 .. Len(batch)
      BY <3>1, QueryFacts DEF LogsInv, StateTypeOK
    <3>3. GoodFor(l, batch[done + 1].rpc, s)
      BY <3>1, <3>2 DEF LogsInv, BatchGood
    <3> QED BY <3>1, <3>3 DEF GoodFor
  <2> QED BY <2>1, <2>2 DEF AsksForVotes
<1>2. status[l] # "LEADER"
  BY <1>1 DEF AsksForVotes, FollowerTimesOut, CandidateTimesOut, CandidateCounts
<1> QED BY <1>1, <1>2 DEF StillLeads

\* A winner is l.
LEMMA WinnerIsLeader ==
    ASSUME NEW l \in Servers, LogsInv(l), StillLeads(l), NEW s \in Servers, CandidateWins(s)
    PROVE  s = l /\ status[l] # "LEADER" /\ Size(l) = 0
<1>1. status[s] = "CANDIDATE"
  BY DEF CandidateWins, CandidateCounts
<1>2. s = l
  BY <1>1 DEF LogsInv, OnlyLeader
<1> QED BY <1>1, <1>2 DEF StillLeads

LEMMA RequestsSent ==
    ASSUME StateTypeOK, NEW s \in Servers, NEW p \in Ranks, NEW d \in Ranks,
           NEW i \in 1 .. Len(RequestVotes(s)[p][d])
    PROVE  \/ i \in 1 .. Len(channel[p][d]) /\ RequestVotes(s)[p][d][i] = channel[p][d][i]
           \/ /\ p = s /\ d \in Peers(s)
              /\ RequestVotes(s)[p][d][i].type = "VOTE_REQUEST"
              /\ RequestVotes(s)[p][d][i].last_log_index = Size(s) - 1
<1> DEFINE request == VoteRequest(current_term[s] + 1, s, Size(s) - 1, TermAt(s, Size(s) - 1))
           m == [e \in Peers(s) |-> request]
<1>1. request \in RPC
  BY VoteRequestType DEF StateTypeOK
<1>2. request.type = "VOTE_REQUEST" /\ request.last_log_index = Size(s) - 1
  BY DEF VoteRequest
<1> HIDE DEF request
<1>3. \A e \in Peers(s) : m[e] = request
  OBVIOUS
<1>4. RequestVotes(s) = SendToAll(channel, s, Peers(s), m, Ended)
  BY DEF RequestVotes, request
<1>5. channel \in Channels /\ s \in Ranks /\ Peers(s) \in SUBSET Ranks
  BY RanksFacts DEF StateTypeOK, ChannelTypeOK, Channels, Peers
<1> HIDE DEF m
<1>6. \/ i \in 1 .. Len(channel[p][d]) /\ RequestVotes(s)[p][d][i] = channel[p][d][i]
      \/ p = s /\ d \in Peers(s) /\ RequestVotes(s)[p][d][i] = m[d]
  BY <1>1, <1>3, <1>4, <1>5, SendToAllFacts
<1> QED BY <1>2, <1>3, <1>6

\* What is sent.
LEMMA SentUnderCommit ==
    ASSUME NEW l \in Servers, Electable = {l}, LogsInv(l), StateTypeOK', StillLeads(l),
           commit_index[l] <= commit_index'[l],
           NEW s \in Servers, ServerStep(s),
           NEW p \in Ranks, NEW d \in Servers, NEW i \in 1 .. Len(channel'[p][d])
    PROVE  \/ \E j \in 1 .. Len(channel[p][d]) : channel'[p][d][i] = channel[p][d][j]
           \/ UnderCommit(l, commit_index'[l], p, d, channel'[p][d][i])
<1> DEFINE Old == \E j \in 1 .. Len(channel[p][d]) : channel'[p][d][i] = channel[p][d][j]
           New == UnderCommit(l, commit_index'[l], p, d, channel'[p][d][i])
           Answers == {"VOTE_RESPONSE", "NEW_LOG_ENTRY_RESPONSE", "SEARCH_LEADER_RESPONSE",
                       "MESSAGE_RESPONSE", "APPEND_ENTRIES_RESPONSE"}
<1>1. StateTypeOK /\ d \in Ranks /\ s \in Ranks
  BY RanksFacts DEF LogsInv
<1>2. commit_index[l] \in Int /\ commit_index'[l] \in Int
      /\ Len(channel[p][d]) \in Nat /\ Len(channel'[p][d]) \in Nat
  <2>1. channel[p][d] \in Seq(RPC) /\ channel'[p][d] \in Seq(RPC)
    BY <1>1 DEF StateTypeOK, ChannelTypeOK
  <2> QED BY <1>1, <2>1, LenProperties DEF StateTypeOK, LogTypeOK
<1>3. channel'[p][d][i].type \in Answers => New
  BY DEF UnderCommit
<1>4. CASE ReceiveAll(s)
  <2>1. PICK r \in Ranks : Receive(s, r) \/ ReceiveGarbled(s, r)
    BY <1>4 DEF ReceiveAll
  <2>2. PICK n \in 1 .. Len(channel[r][s]) : \E k \in 0 .. n : Drain(s, r, k, n)
    BY <1>1, <2>1, ReceiveIsDrain DEF StateTypeOK
  <2>3. PICK k \in 0 .. n : Drain(s, r, k, n)
    BY <2>2
  <2> QED BY <1>1, <2>3, DrainFacts DEF StateTypeOK
<1>5. CASE LeaderBeats(s)
  <2>1. s = l /\ UNCHANGED commit_index
    BY <1>5 DEF LeaderBeats, logVars, LogsInv, OnlyLeader
  <2>2. \/ Old
        \/ channel'[p][d][i] = BeatTo(l, d) /\ d \in Peers(l)
    BY <1>1, <1>5, <2>1, BeatIsSent
  <2>3. p = l \/ Old
    <3>1. p # l => channel'[p][d] = channel[p][d]
      <4>1. PICK dests, m : channel' = SendToAll(channel, l, dests, m, Ended)
        BY <1>5, <2>1 DEF LeaderBeats
      <4>2. channel \in Channels
        BY <1>1 DEF StateTypeOK, ChannelTypeOK, Channels
      <4> QED BY <1>1, <2>1, <4>1, <4>2, SendToAllIs
    <3> QED BY <3>1
  <2>4. /\ BeatTo(l, d).type \in {"HEARTBEAT", "APPEND_ENTRIES"}
        /\ BeatTo(l, d).leader_commit = commit_index[l]
    BY DEF BeatTo, AppendEntries, Heartbeat
  <2>5. BeatTo(l, d).leader_commit <= commit_index'[l]
    BY <1>2, <2>4
  <2> QED BY <2>2, <2>3, <2>4, <2>5 DEF UnderCommit, Peers
<1>6. CASE CandidateWins(s)
  <2>1. s = l
    BY <1>6, WinnerIsLeader
  <2> DEFINE heartbeat == Heartbeat(current_term[s], commit_index[s])
             m == [e \in Peers(s) |-> heartbeat]
  <2>2. channel' = SendToAll(channel, s, Peers(s), m, Ended)
    BY <1>6 DEF CandidateWins
  <2>3. heartbeat \in RPC
    BY <1>1, RpcFacts DEF StateTypeOK, ElectionTypeOK, LogTypeOK
  <2>4. heartbeat.type = "HEARTBEAT" /\ heartbeat.leader_commit <= commit_index'[l]
    BY <1>2, <2>1 DEF Heartbeat
  <2> HIDE DEF heartbeat
  <2>5. \A e \in Peers(s) : m[e] = heartbeat
    OBVIOUS
  <2>6. channel \in Channels /\ Peers(s) \in SUBSET Ranks
    BY <1>1, RanksFacts DEF StateTypeOK, ChannelTypeOK, Channels, Peers
  <2> HIDE DEF m
  <2>7. \/ i \in 1 .. Len(channel[p][d]) /\ channel'[p][d][i] = channel[p][d][i]
        \/ p = s /\ d \in Peers(s) /\ channel'[p][d][i] = m[d]
    BY <1>1, <2>2, <2>3, <2>5, <2>6, SendToAllFacts
  <2> QED BY <2>4, <2>5, <2>7 DEF UnderCommit
<1>7. CASE AsksForVotes(s)
  <2>1. s = l /\ Size(l) = 0
    BY <1>7, OnlyEmptyAsks
  <2>2. PICK asked \in Channels : asked = RequestVotes(s)
    BY <1>1, RequestVotesTypes DEF StateTypeOK
  <2>3. \A k \in 1 .. Len(asked[p][d]) :
           \/ k \in 1 .. Len(channel[p][d]) /\ asked[p][d][k] = channel[p][d][k]
           \/ UnderCommit(l, commit_index'[l], p, d, asked[p][d][k])
    <3>1. \A k \in 1 .. Len(asked[p][d]) :
             \/ k \in 1 .. Len(channel[p][d]) /\ asked[p][d][k] = channel[p][d][k]
             \/ /\ p = s /\ d \in Peers(s)
                /\ asked[p][d][k].type = "VOTE_REQUEST"
                /\ asked[p][d][k].last_log_index = Size(s) - 1
      BY <1>1, <2>2, RequestsSent
    <3> QED BY <2>1, <3>1 DEF UnderCommit, Peers
  <2>4. CASE channel' = asked
    BY <2>3, <2>4
  <2>5. CASE channel' = SendMessage(asked, s, batch[done + 1].source, MessageResponse(TRUE), Ended)
    <3>1. MessageResponse(TRUE) \in RPC
      BY RpcFacts
    <3>2. PICK answer \in RPC : answer = MessageResponse(TRUE)
      BY <3>1
    <3>3. PICK dst : dst = batch[done + 1].source
      OBVIOUS
    <3>4. channel' = SendMessage(asked, s, dst, answer, Ended)
      BY <2>5, <3>2, <3>3
    <3>5. \/ i \in 1 .. Len(asked[p][d]) /\ channel'[p][d][i] = asked[p][d][i]
          \/ channel'[p][d][i] = answer
      BY <1>1, <3>4, SendMessageFacts
    <3> QED BY <1>3, <2>3, <3>2, <3>5, AnswerTypes
  <2>6. CASE FollowerTimesOut(s) \/ CandidateTimesOut(s)
    BY <2>2, <2>4, <2>6 DEF FollowerTimesOut, CandidateTimesOut
  <2>7. CASE HandleServerTimeout(s) /\ status[s] = "FOLLOWER"
    <3>1. channel' = SendMessage(RequestVotes(s), s, batch[done + 1].source,
                                 MessageResponse(TRUE), Ended)
      BY <2>7 DEF HandleServerTimeout
    <3> QED BY <2>2, <2>5, <3>1
  <2> QED BY <1>7, <2>6, <2>7 DEF AsksForVotes
<1>8. CASE ~ReceiveAll(s) /\ ~LeaderBeats(s) /\ ~CandidateWins(s) /\ ~AsksForVotes(s)
  <2>1. PICK T : T = Answers
    OBVIOUS
  <2>2. Adds(T, s, channel, channel')
    BY <1>1, <1>8, <2>1, StepSends
  <2>3. CASE i \in 1 .. Len(channel[p][d])
    BY <1>1, <2>2, <2>3 DEF Adds
  <2>4. CASE i \notin 1 .. Len(channel[p][d])
    <3>1. Len(channel[p][d]) < i
      BY <1>2, <2>4
    <3> QED BY <1>1, <1>3, <2>1, <2>2, <3>1 DEF Adds
  <2> QED BY <2>3, <2>4
<1> QED BY <1>4, <1>5, <1>6, <1>7, <1>8

LEMMA CommitsUnderStep ==
    ASSUME NEW l \in Servers, Electable = {l}, LogsInv(l), LeadInv(l), SilenceInv, StillLeads(l),
           StateTypeOK', CommitsUnder(l), commit_index[l] <= commit_index'[l], PlainTurn
    PROVE  CommitsUnder(l)'
<1>1. StateTypeOK /\ AnyTurn
  BY DEF LogsInv, PlainTurn, AnyTurn
<1>2. \A d \in Servers : commit_index'[d] <= commit_index'[l]
  BY CommitsStayUnder
<1>3. PICK c \in Int : c = commit_index'[l]
  BY DEF StateTypeOK, LogTypeOK
<1>4. commit_index[l] \in Int /\ commit_index[l] <= c
  BY <1>1, <1>3 DEF StateTypeOK, LogTypeOK
<1> DEFINE G == {x \in Ranks \X Servers \X RPC : UnderCommit(l, c, x[1], x[2], x[3])}
<1>5. \A p \in Ranks, d \in Servers : \A m :
         <<p, d, m>> \in G <=> m \in RPC /\ UnderCommit(l, c, p, d, m)
  OBVIOUS
<1> HIDE DEF G
<1>6. \A p, d : \A m \in RPC :
         UnderCommit(l, commit_index[l], p, d, m) => UnderCommit(l, c, p, d, m)
  <2> SUFFICES ASSUME NEW p, NEW d, NEW m \in RPC, UnderCommit(l, commit_index[l], p, d, m)
               PROVE  UnderCommit(l, c, p, d, m)
    OBVIOUS
  <2>1. m.type \in {"HEARTBEAT", "APPEND_ENTRIES"} => m.leader_commit \in Int
    BY RpcFields
  <2> QED BY <1>4, <2>1 DEF UnderCommit
<1>7. /\ \A p \in Ranks, d \in Servers : channel[p][d] \in Seq(RPC) /\ channel'[p][d] \in Seq(RPC)
      /\ batch \in Seq(Query)
  BY <1>1, RanksFacts DEF StateTypeOK, ChannelTypeOK, UpdateTypeOK
<1>8. \A p \in Ranks, d \in Servers :
         /\ \A i \in 1 .. Len(channel[p][d]) : channel[p][d][i] \in RPC
         /\ \A i \in 1 .. Len(channel'[p][d]) : channel'[p][d][i] \in RPC
  BY <1>7, ElementOfSeq
<1>9. \A i \in 1 .. Len(batch) : batch[i].source \in Ranks /\ batch[i].rpc \in RPC
  <2>1. \A i \in 1 .. Len(batch) : batch[i] \in Query
    BY <1>7, ElementOfSeq
  <2> QED BY <2>1 DEF Query
<1>10. \A p \in Ranks, d \in Servers : \A i \in 1 .. Len(channel[p][d]) :
          <<p, d, channel[p][d][i]>> \in G
  BY <1>5, <1>6, <1>8 DEF CommitsUnder
<1>11. active \in Servers => \A i \in 1 .. Len(batch) :
          <<batch[i].source, active, batch[i].rpc>> \in G
  BY <1>5, <1>6, <1>9 DEF CommitsUnder
<1>12. ASSUME NEW p \in Ranks, NEW d \in Servers, NEW i \in 1 .. Len(channel'[p][d])
       PROVE  \/ \E j \in 1 .. Len(channel[p][d]) : channel'[p][d][i] = channel[p][d][j]
              \/ <<p, d, channel'[p][d][i]>> \in G
  <2>1. channel'[p][d][i] \in RPC
    BY <1>8
  <2>2. CASE OutsidePlain
    <3>1. \/ \E j \in 1 .. Len(channel[p][d]) : channel'[p][d][i] = channel[p][d][j]
          \/ UnderCommit(l, c, p, d, channel'[p][d][i])
      BY <2>2 DEF OutsidePlain, UnderCommit
    <3> QED BY <1>5, <2>1, <3>1
  <2>3. CASE \E s \in Servers : ServerStep(s)
    <3>1. \/ \E j \in 1 .. Len(channel[p][d]) : channel'[p][d][i] = channel[p][d][j]
          \/ UnderCommit(l, c, p, d, channel'[p][d][i])
      BY <1>3, <2>3, SentUnderCommit
    <3> QED BY <1>5, <2>1, <3>1
  <2> QED BY <2>2, <2>3 DEF PlainTurn
<1>13. /\ \A p \in Ranks, d \in Servers : \A i \in 1 .. Len(channel'[p][d]) :
             <<p, d, channel'[p][d][i]>> \in G
       /\ active' \in Servers => \A i \in 1 .. Len(batch') :
             <<batch'[i].source, active', batch'[i].rpc>> \in G
  BY <1>1, <1>10, <1>11, <1>12, UnderWayFrom
<1>14. \A p \in Ranks, d \in Servers : \A i \in 1 .. Len(channel'[p][d]) :
          UnderCommit(l, commit_index'[l], p, d, channel'[p][d][i])
  BY <1>3, <1>5, <1>13
<1>15. active' \in Servers => \A i \in 1 .. Len(batch') :
          UnderCommit(l, commit_index'[l], batch'[i].source, active', batch'[i].rpc)
  <2>1. StateTypeOK' => \A i \in 1 .. Len(batch') : batch'[i].source \in Ranks
    <3>1. ASSUME StateTypeOK', NEW i \in 1 .. Len(batch') PROVE batch'[i].source \in Ranks
      <4>1. batch' \in Seq(Query)
        BY <3>1 DEF StateTypeOK, UpdateTypeOK
      <4>2. batch'[i] \in Query
        BY <4>1, ElementOfSeq
      <4> QED BY <4>2 DEF Query
    <3> QED BY <3>1
  <2> QED BY <1>3, <1>5, <1>13, <2>1
<1> QED BY <1>2, <1>14, <1>15 DEF CommitsUnder, UnderCommit

----------------------------------------------------------------------------
(* The exchange of l with a follower p. *)

LEMMA PeerFacts ==
    ASSUME NEW l \in Servers, LogsInv(l), NEW p \in Peers(l)
    PROVE  /\ p \in Servers /\ p # l /\ p \in Ranks /\ l \in Ranks
           /\ Size(p) \in Nat /\ Size(l) \in Nat /\ Size(p) <= Size(l)
           /\ log_index_match[l][p] \in Int /\ next_log_index[l][p] \in Int
           /\ done + 1 \in Nat \ {0} /\ FirstAck \in Nat \ {0}
<1>1. p \in Servers /\ p # l /\ p \in Ranks /\ l \in Ranks
  BY RanksFacts DEF Peers
<1>2. Size(p) \in Nat /\ Size(l) \in Nat
  BY <1>1, LogFacts DEF LogsInv, StateTypeOK
<1>3. Size(p) <= Size(l)
  BY <1>1 DEF LogsInv, PrefixOf, IsPrefixOf, Size
<1>4. log_index_match[l][p] \in Int /\ next_log_index[l][p] \in Int
  BY <1>1 DEF LogsInv, StateTypeOK, LeaderTypeOK
<1>5. done \in Nat
  BY DEF LogsInv, StateTypeOK, UpdateTypeOK
<1> QED BY <1>1, <1>2, <1>3, <1>4, <1>5 DEF FirstAck

\* An entry of p is the leader's.
LEMMA PeerTerm ==
    ASSUME NEW l \in Servers, LogsInv(l), NEW p \in Peers(l), NEW i \in 0 .. Size(p) - 1
    PROVE  TermAt(p, i) = TermAt(l, i)
<1>1. p \in Servers /\ Size(p) \in Nat /\ Size(l) \in Nat /\ Size(p) <= Size(l)
  BY PeerFacts
<1>2. i + 1 \in 1 .. Len(server_log[p])
  BY <1>1 DEF Size
<1>3. server_log[p][i + 1] = server_log[l][i + 1]
  BY <1>1, <1>2 DEF LogsInv, PrefixOf, IsPrefixOf
<1> QED BY <1>1, <1>3 DEF TermAt, Entry

\* Entries that a server handles are part of its exchange with l.
LEMMA EntriesHandled ==
    ASSUME NEW l \in Servers, LogsInv(l), TermsUnder(l), CommitsUnder(l), ExchangeInv(l),
           NEW s \in Servers, active = s, done < Len(batch),
           batch[done + 1].rpc.type = "APPEND_ENTRIES"
    PROVE  /\ s \in Peers(l)
           /\ [stage |-> "taken", place |-> done + 1, rpc |-> batch[done + 1].rpc] \in EntriesOn(l, s)
           /\ GoodEntries(l, s, batch[done + 1].rpc)
           /\ ~DeniesEntries(s, batch[done + 1].rpc)
           /\ status[l] = "LEADER"
<1> DEFINE m == batch[done + 1].rpc
           x == [stage |-> "taken", place |-> done + 1, rpc |-> m]
<1>1. done + 1 \in 1 .. Len(batch) /\ m \in RPC
  BY QueryFacts DEF LogsInv, StateTypeOK
<1>2. batch[done + 1].source = l /\ s # l
  BY <1>1 DEF CommitsUnder, UnderCommit
<1>3. s \in Peers(l)
  BY <1>2 DEF Peers
<1>4. Len(batch) \in Nat
  <2>1. batch \in Seq(Query)
    BY DEF LogsInv, StateTypeOK, UpdateTypeOK
  <2> QED BY <2>1, LenProperties
<1>5. x \in EntriesOn(l, s)
  <2>1. done + 1 \in done + 1 .. Len(batch)
    BY <1>1, <1>4
  <2> QED BY <1>2, <2>1, LinkFacts DEF EntriesOn
<1>6. x.rpc = m
  OBVIOUS
<1> HIDE DEF x
<1>7. GoodEntries(l, s, m)
  BY <1>3, <1>5, <1>6 DEF ExchangeInv, ExchangeGood
<1>8. status[l] = "LEADER"
  BY <1>3, <1>5 DEF ExchangeInv, OneExchange
<1>9. current_term[s] \in Int /\ current_term[l] \in Int /\ current_term[s] <= current_term[l]
  BY DEF TermsUnder, LogsInv, StateTypeOK, ElectionTypeOK
<1>10. ASSUME m.prev_log_index # -1
       PROVE  m.prev_log_index \in 0 .. Size(s) - 1 /\ TermAt(s, m.prev_log_index) = m.prev_log_term
  <2>1. m.prev_log_index = log_index_match[l][s] /\ m.prev_log_term = TermAt(l, m.prev_log_index)
    BY <1>7, <1>10 DEF GoodEntries
  <2>2. m.prev_log_index \in 0 .. Size(s) - 1
    BY <1>3, <1>10, <2>1, PeerFacts DEF ExchangeInv, Indexes
  <2> QED BY <1>3, <2>1, <2>2, PeerTerm
<1>11. m.term = current_term[l]
  BY <1>7 DEF GoodEntries
<1>12. Size(s) \in Nat
  BY <1>3, PeerFacts
<1> HIDE DEF m
<1>13. ~DeniesEntries(s, m)
  BY <1>9, <1>10, <1>11, <1>12 DEF DeniesEntries
<1> QED BY <1>3, <1>5, <1>7, <1>8, <1>13 DEF x, m

\* The links of l and p when a step sends nothing new on them.
LEMMA LinksShrink ==
    ASSUME NEW l \in Servers, LogsInv(l), StateTypeOK', LeadInv(l), PlainTurn,
           \A s \in Servers : ~ReceiveAll(s), NEW p \in Peers(l)
    PROVE  /\ NoNew("APPEND_ENTRIES", l, p) =>
                 EntriesOn(l, p)' \subseteq EntriesOn(l, p) /\ Keeps(EntriesOn(l, p), EntriesOn(l, p)')
           /\ NoNew("VOTE_REQUEST", l, p) =>
                 RequestsOn(l, p)' \subseteq RequestsOn(l, p)
                    /\ Keeps(RequestsOn(l, p), RequestsOn(l, p)')
           /\ NoNew("APPEND_ENTRIES_RESPONSE", p, l) =>
                 AcksOn(l, p)' \subseteq AcksOn(l, p) /\ Keeps(AcksOn(l, p), AcksOn(l, p)')
<1>1. /\ p \in Servers /\ p # l /\ done \in Nat /\ done' \in Nat /\ Nobody \notin Servers
      /\ done + 1 \in Int /\ FirstAck \in Nat \ {0}
  BY PeerFacts, RanksFacts DEF LogsInv, StateTypeOK, UpdateTypeOK
<1>2. Len(batch') \in Nat
  <2>1. batch' \in Seq(Query)
    BY DEF StateTypeOK, UpdateTypeOK
  <2> QED BY <2>1, LenProperties
<1>3. PICK n \in Nat : n = done'
  BY <1>1
<1>4. PICK f \in Nat \ {0} : (phase' = "lead" => f = n + 1) /\ (phase' # "lead" => f = 1)
  <2>1. n + 1 \in Nat \ {0} /\ 1 \in Nat \ {0}
    OBVIOUS
  <2> QED BY <2>1
<1>5. \/ done <= n /\ active' = active /\ batch' = batch
      \/ active' # p
      \/ Len(batch') = 0
  <2>1. CASE OutsidePlain
    BY <1>1, <1>3, <2>1 DEF OutsidePlain
  <2>2. ASSUME NEW s \in Servers, ServerStep(s)
        PROVE  \/ done <= n /\ active' = active /\ batch' = batch
               \/ active' # p
               \/ Len(batch') = 0
    <3>1. CASE StartUpdate(s)
      <4>1. active = Nobody /\ batch' = batch
        BY <3>1 DEF StartUpdate, Begin
      <4>2. batch' = << >>
        BY <4>1 DEF LogsInv, BatchGood
      <4> QED BY <4>2, EmptySeq
    <3>2. CASE LeaderBeats(s) \/ LeaderSkipsBeat(s)
      <4>1. s = l
        BY <3>2 DEF LeaderBeats, LeaderSkipsBeat, LogsInv, OnlyLeader
      <4>2. active' = l \/ active' = Nobody
        BY <3>2, <4>1 DEF LeaderBeats, LeaderSkipsBeat, AllHandled, Abort, EndUpdate
      <4> QED BY <1>1, <4>2
    <3>3. CASE ~StartUpdate(s) /\ ~LeaderBeats(s) /\ ~LeaderSkipsBeat(s)
      <4>1. EndUpdate \/ (UNCHANGED <<active, batch>> /\ done <= done')
        BY <2>2, <3>3, LoopsForward DEF LogsInv
      <4> QED BY <1>1, <1>3, <4>1 DEF EndUpdate
    <3> QED BY <3>1, <3>2, <3>3
  <2> QED BY <2>1, <2>2 DEF PlainTurn
<1>6. \/ FirstAck <= f /\ active' = active /\ batch' = batch
      \/ active' # l
      \/ Len(batch') = 0
  <2>1. CASE OutsidePlain
    <3>1. CASE active' \notin Servers
      BY <3>1
    <3>2. CASE UNCHANGED <<active, phase, batch, done>>
      <4>1. n = done /\ f = FirstAck
        BY <1>3, <1>4, <3>2 DEF FirstAck
      <4> QED BY <3>2, <4>1
    <3> QED BY <2>1, <3>1, <3>2 DEF OutsidePlain
  <2>2. ASSUME NEW s \in Servers, ServerStep(s)
        PROVE  \/ FirstAck <= f /\ active' = active /\ batch' = batch
               \/ active' # l
               \/ Len(batch') = 0
    <3>1. CASE StartUpdate(s)
      <4>1. active = Nobody /\ batch' = batch
        BY <3>1 DEF StartUpdate, Begin
      <4>2. batch' = << >>
        BY <4>1 DEF LogsInv, BatchGood
      <4> QED BY <4>2, EmptySeq
    <3>2. CASE ~StartUpdate(s)
      <4>1. \/ EndUpdate
            \/ UNCHANGED <<active, batch>> /\ (phase = "lead" => phase' = "lead" /\ done <= done')
        BY <2>2, <3>2, LoopsForward DEF LogsInv
      <4>2. EndUpdate => active' # l
        BY <1>1 DEF EndUpdate
      <4>3. ASSUME UNCHANGED <<active, batch>>, phase = "lead" => phase' = "lead" /\ done <= done'
            PROVE  FirstAck <= f
        <5>1. CASE phase = "lead"
          <6>1. f = n + 1 /\ done <= n
            BY <1>3, <1>4, <4>3, <5>1
          <6>2. FirstAck = done + 1
            BY <5>1 DEF FirstAck
          <6> QED BY <1>1, <6>1, <6>2
        <5>2. CASE phase # "lead"
          BY <1>4, <5>2 DEF FirstAck
        <5> QED BY <5>1, <5>2
      <4> QED BY <4>1, <4>2, <4>3
    <3> QED BY <3>1, <3>2
  <2> QED BY <2>1, <2>2 DEF PlainTurn
<1>7. ASSUME NEW t, NoNew(t, l, p)
      PROVE  /\ LinkOf(channel', active', batch', l, p, t, n + 1)
                   \subseteq LinkOf(channel, active, batch, l, p, t, done + 1)
             /\ Keeps(LinkOf(channel, active, batch, l, p, t, done + 1),
                      LinkOf(channel', active', batch', l, p, t, n + 1))
  <2>1. n + 1 \in Int /\ n + 1 > 0 /\ (done <= n => done + 1 <= n + 1)
    BY <1>1
  <2> QED BY <1>1, <1>2, <1>5, <1>7, <2>1, LinkShrinks DEF NoNew
<1>8. ASSUME NEW t, NoNew(t, p, l)
      PROVE  /\ LinkOf(channel', active', batch', p, l, t, f)
                   \subseteq LinkOf(channel, active, batch, p, l, t, FirstAck)
             /\ Keeps(LinkOf(channel, active, batch, p, l, t, FirstAck),
                      LinkOf(channel', active', batch', p, l, t, f))
  <2>1. PICK e \in Nat \ {0} : e = FirstAck
    BY <1>1
  <2>2. e \in Int /\ f \in Int /\ f > 0
    OBVIOUS
  <2>3. /\ LinkOf(channel', active', batch', p, l, t, f)
              \subseteq LinkOf(channel, active, batch, p, l, t, e)
        /\ Keeps(LinkOf(channel, active, batch, p, l, t, e),
                 LinkOf(channel', active', batch', p, l, t, f))
    BY <1>2, <1>6, <1>8, <2>1, <2>2, LinkShrinks DEF NoNew
  <2> QED BY <2>1, <2>3
<1>9. /\ EntriesOn(l, p)' = LinkOf(channel', active', batch', l, p, "APPEND_ENTRIES", n + 1)
      /\ RequestsOn(l, p)' = LinkOf(channel', active', batch', l, p, "VOTE_REQUEST", n + 1)
      /\ AcksOn(l, p)' = LinkOf(channel', active', batch', p, l, "APPEND_ENTRIES_RESPONSE", f)
  BY <1>3, <1>4 DEF EntriesOn, RequestsOn, AcksOn, FirstAck
<1> QED BY <1>7, <1>8, <1>9 DEF EntriesOn, RequestsOn, AcksOn

\* The same when s receives.
LEMMA LinksDrain ==
    ASSUME NEW l \in Servers, LogsInv(l), NEW s \in Servers, ReceiveAll(s), NEW p \in Peers(l)
    PROVE  /\ Keeps(EntriesOn(l, p), EntriesOn(l, p)')
           /\ Keeps(RequestsOn(l, p), RequestsOn(l, p)')
           /\ Keeps(AcksOn(l, p), AcksOn(l, p)')
<1>1. p \in Ranks /\ l \in Ranks /\ s \in Ranks /\ StateTypeOK
      /\ done + 1 \in Nat \ {0} /\ FirstAck \in Nat \ {0}
  BY PeerFacts, RanksFacts DEF LogsInv
<1>2. PICK r \in Ranks : Receive(s, r) \/ ReceiveGarbled(s, r)
  BY DEF ReceiveAll
<1>3. PICK n \in 1 .. Len(channel[r][s]) : \E k \in 0 .. n : Drain(s, r, k, n)
  BY <1>1, <1>2, ReceiveIsDrain DEF StateTypeOK
<1>4. PICK k \in 0 .. n : Drain(s, r, k, n)
  BY <1>3
<1>5. PICK e \in Nat \ {0} : e = done + 1
  BY <1>1
<1>6. PICK f \in Nat \ {0} : f = FirstAck
  BY <1>1
<1>7. (done + 1)' = e /\ FirstAck' = f
  BY <1>4, <1>5, <1>6 DEF Drain, FirstAck
<1>8. /\ \A t : Keeps(LinkOf(channel, active, batch, l, p, t, e),
                       LinkOf(channel', active', batch', l, p, t, e))
      /\ \A t : Keeps(LinkOf(channel, active, batch, p, l, t, f),
                       LinkOf(channel', active', batch', p, l, t, f))
  BY <1>1, <1>4, LinkDrains DEF StateTypeOK
<1>9. /\ EntriesOn(l, p)' = LinkOf(channel', active', batch', l, p, "APPEND_ENTRIES", e)
      /\ RequestsOn(l, p)' = LinkOf(channel', active', batch', l, p, "VOTE_REQUEST", e)
      /\ AcksOn(l, p)' = LinkOf(channel', active', batch', p, l, "APPEND_ENTRIES_RESPONSE", f)
  BY <1>7 DEF EntriesOn, RequestsOn, AcksOn
<1>10. /\ EntriesOn(l, p) = LinkOf(channel, active, batch, l, p, "APPEND_ENTRIES", e)
       /\ RequestsOn(l, p) = LinkOf(channel, active, batch, l, p, "VOTE_REQUEST", e)
       /\ AcksOn(l, p) = LinkOf(channel, active, batch, p, l, "APPEND_ENTRIES_RESPONSE", f)
  BY <1>5, <1>6 DEF EntriesOn, RequestsOn, AcksOn
<1> QED BY <1>8, <1>9, <1>10

\* A leader goes on leading, in its term.
LEMMA LeaderFrame ==
    ASSUME NEW l \in Servers, StateTypeOK, StateTypeOK', TermsUnder(l), StillLeads(l), PlainTurn,
           status[l] = "LEADER"
    PROVE  status'[l] = "LEADER" /\ current_term'[l] = current_term[l]
<1> USE DEF serverState, stateVars, dataVars, electionVars
<1>1. CASE OutsideTurn
  BY <1>1 DEF OutsideTurn
<1>2. ASSUME NEW s \in Servers, s # l, ServerStep(s)
      PROVE  status'[l] = "LEADER" /\ current_term'[l] = current_term[l]
  BY <1>2, OthersStay DEF OwnState
<1>3. CASE ServerStep(l)
  <2>1. ~HandleCrash(l) /\ ~StepDown(l)
    BY NeverDown
  <2>2. status'[l] = "LEADER"
    BY <1>3, <2>1, LeaderRemains
  <2>3. CASE UNCHANGED current_term
    BY <2>2, <2>3
  <2>4. CASE StartUpdate(l) \/ ReceiveAll(l) \/ ApplyEntry(l) \/ BeginHandling(l)
    BY <2>3, <2>4 DEF StartUpdate, ReceiveAll, ApplyEntry, BeginHandling
  <2>5. CASE HandleQuery(l)
    BY <2>1, <2>3, <2>5 DEF HandleQuery, HandleHeartbeat, HandleVoteRequest,
       HandleVoteRequestThrows, HandleAppendEntriesDenied, HandleAppendEntries,
       AnswerSearchLeader, DenyNewLogEntry, PassOver, QueryDone
  <2>6. CASE HandleMessage(l)
    BY <2>1, <2>3, <2>6 DEF HandleMessage, HandleDisplayOrSpeed, HandleStop, HandleRecover,
       HandleServerTimeout, QueryDone
  <2>7. CASE Routine(l)
    BY <2>3, <2>7 DEF Routine, NoRoutine, FollowerTimesOut, CandidateDefers, CandidateWins,
       CandidateWaits, CandidateTimesOut, CandidateCounts, LeaderBeats, LeaderSkipsBeat,
       LeaderAppends, LeaderCountsSuccess, LeaderBacksUp, LeaderPassesOver, LeaderCommits, QueryDone
  <2> QED BY <1>3, <2>4, <2>5, <2>6, <2>7 DEF ServerStep
<1> QED BY <1>1, <1>2, <1>3 DEF PlainTurn

\* Who moves the leader's indexes.
LEMMA IndexesFrame ==
    ASSUME NEW l \in Servers, StateTypeOK, NEW s \in Servers, ServerStep(s), ~CandidateWins(s),
           ~LeaderCountsSuccess(s), ~LeaderBacksUp(s), s # l \/ ~HandleCrash(s)
    PROVE  UNCHANGED <<next_log_index[l], log_index_match[l]>>
<1> USE DEF serverState, stateVars, dataVars, leaderVars
<1>1. CASE UNCHANGED <<next_log_index, log_index_match>>
  BY <1>1
<1>2. CASE StartUpdate(s) \/ ReceiveAll(s) \/ ApplyEntry(s) \/ BeginHandling(s)
  BY <1>1, <1>2 DEF StartUpdate, ReceiveAll, ApplyEntry, BeginHandling
<1>3. CASE HandleQuery(s)
  BY <1>1, <1>3 DEF HandleQuery, StepDown, HandleHeartbeat, HandleVoteRequest,
     HandleVoteRequestThrows, HandleAppendEntriesDenied, HandleAppendEntries,
     AnswerSearchLeader, DenyNewLogEntry, PassOver, QueryDone
<1>4. CASE HandleCrash(s)
  <2>1. \/ UNCHANGED <<next_log_index, log_index_match>>
        \/ /\ next_log_index' = [next_log_index EXCEPT ![s] = [p \in Servers |-> 0]]
           /\ log_index_match' = [log_index_match EXCEPT ![s] = [p \in Servers |-> -1]]
    BY <1>4 DEF HandleCrash
  <2> QED BY <1>4, <2>1 DEF StateTypeOK, LeaderTypeOK
<1>5. CASE HandleMessage(s) /\ ~HandleCrash(s)
  BY <1>1, <1>5 DEF HandleMessage, HandleDisplayOrSpeed, HandleStop, HandleRecover,
     HandleServerTimeout, QueryDone
<1>6. CASE Routine(s)
  BY <1>1, <1>6 DEF Routine, NoRoutine, FollowerTimesOut, CandidateDefers,
     CandidateWaits, CandidateTimesOut, CandidateCounts, LeaderBeats, LeaderSkipsBeat,
     LeaderAppends, LeaderPassesOver, LeaderCommits, QueryDone
<1> QED BY <1>2, <1>3, <1>4, <1>5, <1>6 DEF ServerStep

\* The leader's log is the only one that a leader's own entries reach.
LEMMA PeerLogFrame ==
    ASSUME NEW l \in Servers, LogsInv(l), LeadInv(l), NEW p \in Peers(l), PlainTurn,
           ~HandleAppendEntries(p)
    PROVE  server_log'[p] = server_log[p]
<1>1. StateTypeOK /\ p \in Servers /\ p # l
  BY DEF LogsInv, Peers
<1>2. CASE OutsideTurn
  BY <1>2 DEF OutsideTurn, serverState, logVars
<1>3. ASSUME NEW s \in Servers, s # p, ServerStep(s) PROVE server_log'[p] = server_log[p]
  BY <1>1, <1>3, OthersStay DEF OwnState
<1>4. CASE ServerStep(p)
  <2>1. ~LeaderAppends(p)
    BY <1>1 DEF LeaderAppends, Leading, LeadInv
  <2> QED BY <1>1, <1>4, <2>1, LogsFrame
<1> QED BY <1>1, <1>2, <1>3, <1>4 DEF PlainTurn

\* A step that only loses messages and moves them on.
LEMMA ExchangeKept ==
    ASSUME NEW l \in Servers, LogsInv(l), StateTypeOK', NEW p \in Peers(l),
           OneExchange(l, p), ExchangeGood(l, p), Indexes(l, p),
           Keeps(EntriesOn(l, p), EntriesOn(l, p)'),
           Keeps(RequestsOn(l, p), RequestsOn(l, p)'),
           Keeps(AcksOn(l, p), AcksOn(l, p)'),
           status[l] = "LEADER" => status'[l] = "LEADER" /\ current_term'[l] = current_term[l],
           IsPrefixOf(server_log[l], server_log'[l]), server_log'[p] = server_log[p],
           next_log_index'[l][p] = next_log_index[l][p],
           log_index_match'[l][p] = log_index_match[l][p]
    PROVE  OneExchange(l, p)' /\ ExchangeGood(l, p)' /\ Indexes(l, p)'
<1>1. /\ EntriesOn(l, p) = {} => EntriesOn(l, p)' = {}
      /\ AcksOn(l, p) = {} => AcksOn(l, p)' = {}
      /\ RequestsOn(l, p) = {} => RequestsOn(l, p)' = {}
  BY DEF Keeps
<1>2. Size(p)' = Size(p)
  BY DEF Size
<1>3. Indexes(l, p)'
  BY <1>2 DEF Indexes
<1>4. OneExchange(l, p)'
  BY <1>1, <1>2 DEF OneExchange, Keeps
<1>5. ASSUME NEW x \in EntriesOn(l, p)' PROVE GoodEntries(l, p, x.rpc)'
  <2>1. PICK m : m = x.rpc
    OBVIOUS
  <2>2. GoodEntries(l, p, m)
    BY <1>5, <2>1 DEF Keeps, ExchangeGood
  <2>3. status[l] = "LEADER"
    BY <1>1, <1>5 DEF OneExchange
  <2>4. m.prev_log_index # -1 => TermAt(l, m.prev_log_index)' = TermAt(l, m.prev_log_index)
    <3> SUFFICES ASSUME m.prev_log_index # -1
                 PROVE  TermAt(l, m.prev_log_index)' = TermAt(l, m.prev_log_index)
      OBVIOUS
    <3>1. m.prev_log_index \in 0 .. Size(p) - 1
      BY <2>2, PeerFacts DEF GoodEntries, Indexes
    <3>2. PICK i \in 0 .. Size(p) - 1 : i = m.prev_log_index
      BY <3>1
    <3>3. i + 1 \in 1 .. Size(l) /\ i < Size(l)
      BY PeerFacts
    <3>4. Size(l) <= Size(l)' /\ Entry(l, i)' = Entry(l, i)
      BY <3>3 DEF IsPrefixOf, Size, Entry
    <3>5. i < Size(l)'
      <4>1. Size(l)' \in Nat
        BY LenProperties DEF StateTypeOK, LogTypeOK, Size
      <4> QED BY <3>3, <3>4, <4>1, PeerFacts
    <3> QED BY <3>2, <3>3, <3>4, <3>5 DEF TermAt
  <2>5. GoodEntries(l, p, m)'
    BY <2>2, <2>3, <2>4 DEF GoodEntries
  <2> QED BY <2>1, <2>5
<1>6. ASSUME NEW x \in AcksOn(l, p)'
      PROVE  x.rpc.success /\ (log_index_match[l][p] + 1 < Size(p))'
  BY <1>2, <1>6 DEF Keeps, ExchangeGood
<1> QED BY <1>3, <1>4, <1>5, <1>6 DEF ExchangeGood

LEMMA CountInvParts ==
    ASSUME NEW l \in Servers, CountInv(l)
    PROVE  /\ StateTypeOK /\ LogsInv(l) /\ LeadInv(l) /\ SilenceInv /\ TermsUnder(l)
           /\ StillLeads(l) /\ QueueFits(l) /\ CommitWithinLog
           /\ CommitsUnder(l) /\ ExchangeInv(l) /\ CommitHeld(l)
  BY DEF CountInv, QueueInv, OrderInv, LeaderInv, LogsInv

LEMMA ReceivesInReceive == \A s : ReceiveAll(s) => phase = "receive"
  BY DEF ReceiveAll, Receive, ReceiveGarbled, Drain

\* No entries are ever denied.
LEMMA NeverDenied ==
    ASSUME NEW l \in Servers, CountInv(l), NEW s \in Servers
    PROVE  ~HandleAppendEntriesDenied(s)
<1> SUFFICES ASSUME HandleAppendEntriesDenied(s) PROVE FALSE
  OBVIOUS
<1>1. /\ active = s /\ done < Len(batch) /\ batch[done + 1].rpc.type = "APPEND_ENTRIES"
      /\ DeniesEntries(s, batch[done + 1].rpc)
  BY DEF HandleAppendEntriesDenied, Handling
<1> QED BY <1>1, CountInvParts, EntriesHandled

\* The types of the messages of an exchange, and those that start none.
Exchanged == {"APPEND_ENTRIES", "APPEND_ENTRIES_RESPONSE", "VOTE_REQUEST"}
Harmless  == {"VOTE_RESPONSE", "NEW_LOG_ENTRY_RESPONSE", "SEARCH_LEADER_RESPONSE",
              "MESSAGE_RESPONSE", "HEARTBEAT"}

\* l before its first entry: nothing of p is under way, and nothing held.
LEMMA BeforeFirstEntry ==
    ASSUME NEW l \in Servers, CountInv(l), NEW p \in Peers(l),
           status[l] # "LEADER", Size(l) = 0
    PROVE  /\ EntriesOn(l, p) = {} /\ AcksOn(l, p) = {}
           /\ Size(p) = 0
<1>1. OneExchange(l, p) /\ LogsInv(l)
  BY CountInvParts DEF ExchangeInv
<1>2. Size(p) = 0
  BY <1>1, PeerFacts
<1> QED BY <1>1, <1>2 DEF OneExchange

\* Asking for votes.
LEMMA ExchangeAsks ==
    ASSUME NEW l \in Servers, Electable = {l}, CountInv(l), StateTypeOK',
           NEW s \in Servers, ServerStep(s), AsksForVotes(s), NEW p \in Peers(l)
    PROVE  OneExchange(l, p)' /\ ExchangeGood(l, p)' /\ Indexes(l, p)'
<1>1. /\ StateTypeOK /\ LogsInv(l) /\ LeadInv(l) /\ PlainTurn
      /\ Indexes(l, p)
  BY CountInvParts DEF ExchangeInv, PlainTurn
<1>2. s = l /\ status[l] # "LEADER" /\ Size(l) = 0
  BY CountInvParts, OnlyEmptyAsks
<1>3. EntriesOn(l, p) = {} /\ AcksOn(l, p) = {} /\ Size(p) = 0
  BY <1>2, BeforeFirstEntry
<1>4. UNCHANGED dataVars /\ phase = "handle"
  BY DEF AsksForVotes, FollowerTimesOut, CandidateTimesOut, CandidateCounts, HandleServerTimeout,
     AllHandled, Ordered, Handling, dataVars, logVars, applyVars, leaderVars
<1>5. UNCHANGED <<server_log, next_log_index, log_index_match>>
  BY <1>4 DEF dataVars, logVars, leaderVars
<1>6. \A d \in Servers : ~ReceiveAll(d)
  BY <1>4, ReceivesInReceive
<1>7. ~LeaderBeats(s) /\ ~HandleAppendEntries(s) /\ ~HandleAppendEntriesDenied(s)
  BY <1>1, <1>2, LeaderMergesNothing, NeverDenied DEF LeaderBeats
<1>8. PICK T : T = Harmless \cup {"VOTE_REQUEST"}
  OBVIOUS
<1>9. Adds(T, s, channel, channel')
  BY <1>1, <1>6, <1>7, <1>8, StepSends DEF Harmless
<1>10. "APPEND_ENTRIES" \notin T /\ "APPEND_ENTRIES_RESPONSE" \notin T
  BY <1>8 DEF Harmless
<1>11. p \in Ranks /\ l \in Ranks
  BY <1>1, PeerFacts
<1>12. NoNew("APPEND_ENTRIES", l, p) /\ NoNew("APPEND_ENTRIES_RESPONSE", p, l)
  BY <1>1, <1>9, <1>10, <1>11, AddsNothingNew
<1>13. EntriesOn(l, p)' = {} /\ AcksOn(l, p)' = {}
  BY <1>1, <1>3, <1>6, <1>12, LinksShrink
<1>14. Size(p)' = 0 /\ Indexes(l, p)'
  BY <1>1, <1>3, <1>5 DEF Size, Indexes
<1> QED BY <1>13, <1>14 DEF OneExchange, ExchangeGood, AtMostOne

\* Winning.
LEMMA ExchangeWins ==
    ASSUME NEW l \in Servers, CountInv(l), StateTypeOK',
           NEW s \in Servers, ServerStep(s), CandidateWins(s), NEW p \in Peers(l)
    PROVE  OneExchange(l, p)' /\ ExchangeGood(l, p)' /\ Indexes(l, p)'
<1>1. /\ StateTypeOK /\ LogsInv(l) /\ LeadInv(l) /\ PlainTurn
      /\ OneExchange(l, p)
  BY CountInvParts DEF ExchangeInv, PlainTurn
<1>2. s = l /\ status[l] # "LEADER" /\ Size(l) = 0
  BY CountInvParts, WinnerIsLeader
<1>3. EntriesOn(l, p) = {} /\ AcksOn(l, p) = {} /\ Size(p) = 0
  BY <1>2, BeforeFirstEntry
<1>4. phase = "handle" /\ UNCHANGED server_log
  BY DEF CandidateWins, CandidateCounts, AllHandled, logVars
<1>5. /\ next_log_index' = [next_log_index EXCEPT ![l] = [d \in Servers |-> Size(l)]]
      /\ log_index_match' = [log_index_match EXCEPT ![l] = [d \in Servers |-> -1]]
  BY <1>2 DEF CandidateWins
<1>6. next_log_index'[l][p] = 0 /\ log_index_match'[l][p] = -1
  BY <1>1, <1>2, <1>5, PeerFacts DEF StateTypeOK, LeaderTypeOK
<1>7. \A d \in Servers : ~ReceiveAll(d)
  BY <1>4, ReceivesInReceive
<1>8. /\ ~LeaderBeats(s) /\ ~HandleAppendEntries(s) /\ ~HandleAppendEntriesDenied(s)
      /\ ~AsksForVotes(s)
  <2>1. HasMajority(vote_count[s] + VotesIn(batch)) /\ status[s] = "CANDIDATE"
    BY DEF CandidateWins, CandidateCounts
  <2>2. ~AsksForVotes(s)
    BY <2>1 DEF AsksForVotes, FollowerTimesOut, CandidateTimesOut
  <2> QED BY <1>1, <1>2, <2>2, LeaderMergesNothing, NeverDenied DEF LeaderBeats
<1>9. PICK T : T = Harmless
  OBVIOUS
<1>10. Adds(T, s, channel, channel')
  BY <1>1, <1>7, <1>8, <1>9, StepSends DEF Harmless
<1>11. T \cap Exchanged = {}
  BY <1>9 DEF Harmless, Exchanged
<1>12. p \in Ranks /\ l \in Ranks
  BY <1>1, PeerFacts
<1>13. /\ NoNew("APPEND_ENTRIES", l, p) /\ NoNew("APPEND_ENTRIES_RESPONSE", p, l)
       /\ NoNew("VOTE_REQUEST", l, p)
  BY <1>1, <1>10, <1>11, <1>12, AddsNothingNew DEF Exchanged
<1>14. EntriesOn(l, p)' = {} /\ AcksOn(l, p)' = {}
  BY <1>1, <1>3, <1>7, <1>13, LinksShrink
<1>15. Size(p)' = 0 /\ Indexes(l, p)'
  BY <1>3, <1>4, <1>6 DEF Size, Indexes
<1> QED BY <1>14, <1>15 DEF OneExchange, ExchangeGood, AtMostOne
\* What a server has after it has handled entries.
LEMMA MergedSize ==
    ASSUME NEW l \in Servers, LogsInv(l), NEW s \in Servers, HandleAppendEntries(s)
    PROVE  Len(server_log'[s]) = End(batch[done + 1].rpc)
<1> DEFINE ae == batch[done + 1].rpc
           merged == MergedLog(server_log[s], ae.prev_log_index, ae.entries)
<1>1. /\ active = s /\ done < Len(batch) /\ IsEntries(ae) /\ ~DeniesEntries(s, ae)
      /\ server_log' = [server_log EXCEPT ![s] = merged]
  BY DEF HandleAppendEntries, Handling, IsEntries
<1>2. done + 1 \in 1 .. Len(batch) /\ ae \in RPC
  BY <1>1, QueryFacts DEF LogsInv, StateTypeOK
<1>3. SliceOf(ae, server_log[l]) /\ IsPrefixOf(server_log[s], server_log[l])
  BY <1>1, <1>2 DEF LogsInv, BatchGood, GoodFor, IsEntries, PrefixOf
<1> HIDE DEF ae
<1>4. ae.prev_log_index \in Nat \cup {-1} /\ ae.entries \in Seq(LogEntry)
  BY <1>1, <1>2, RpcFields DEF IsEntries
<1>5. /\ server_log[s] \in Seq(LogEntry) /\ server_log[l] \in Seq(LogEntry)
      /\ Len(server_log[s]) \in Nat
  BY LogFacts DEF LogsInv, StateTypeOK, Size
<1>6. ae.prev_log_index < Len(server_log[s])
  BY <1>1, <1>4, <1>5 DEF DeniesEntries, Size
<1>7. Len(merged) = End(ae)
  BY <1>3, <1>4, <1>5, <1>6, MergeOfSlice DEF End
<1>8. server_log'[s] = merged
  <2> HIDE DEF merged
  <2> QED BY <1>1 DEF LogsInv, StateTypeOK, LogTypeOK
<1> QED BY <1>7, <1>8 DEF ae

\* Handling the entries: they give way to their acknowledgement.
LEMMA ExchangeMerges ==
    ASSUME NEW l \in Servers, CountInv(l), StateTypeOK', PlainTurn,
           NEW p \in Peers(l), ServerStep(p), HandleAppendEntries(p),
           Size(p) <= Size(p)'
    PROVE  OneExchange(l, p)' /\ ExchangeGood(l, p)' /\ Indexes(l, p)'
<1> DEFINE m == batch[done + 1].rpc
           x == [stage |-> "taken", place |-> done + 1, rpc |-> m]
           ack == AppendEntriesResponse(m.term, TRUE)
<1>1. /\ StateTypeOK /\ LogsInv(l) /\ LeadInv(l) /\ OneExchange(l, p) /\ ExchangeGood(l, p)
      /\ Indexes(l, p) /\ TermsUnder(l) /\ StillLeads(l)
  BY CountInvParts DEF ExchangeInv
<1>2. /\ p \in Servers /\ p # l /\ p \in Ranks /\ l \in Ranks /\ Size(p) \in Nat
      /\ log_index_match[l][p] \in Int /\ done \in Nat
  BY <1>1, PeerFacts DEF StateTypeOK, UpdateTypeOK
<1>3. /\ active = p /\ done < Len(batch) /\ m.type = "APPEND_ENTRIES" /\ phase = "handle"
      /\ done' = done + 1 /\ active' = active
  BY DEF HandleAppendEntries, Handling, NextQuery
<1>4. x \in EntriesOn(l, p) /\ GoodEntries(l, p, m) /\ status[l] = "LEADER"
      /\ ~DeniesEntries(p, m)
  BY <1>1, <1>2, <1>3, CountInvParts, EntriesHandled
<1>5. \A z \in EntriesOn(l, p) : z = x
  BY <1>1, <1>4 DEF OneExchange, AtMostOne
<1>6. AcksOn(l, p) = {} /\ RequestsOn(l, p) = {}
  BY <1>1, <1>4 DEF OneExchange
<1>7. m.leader_rank = l /\ m \in RPC /\ m.term \in Int
  BY <1>3, <1>4, QueryFacts, RpcFields, <1>1 DEF GoodEntries, StateTypeOK
<1>8. ack \in RPC /\ ack.type = "APPEND_ENTRIES_RESPONSE" /\ ack.success
  BY <1>7, RpcFacts DEF AppendEntriesResponse
<1>9. channel' = SendMessage(channel, p, l, ack, Ended)
  BY <1>7 DEF HandleAppendEntries, Reply
<1> HIDE DEF ack
<1>10. PICK a \in RPC : a = ack
  BY <1>8
<1>11. \A q, d \in Ranks : \A i \in 1 .. Len(channel'[q][d]) :
          \/ i \in 1 .. Len(channel[q][d]) /\ channel'[q][d][i] = channel[q][d][i]
          \/ q = p /\ d = l /\ channel'[q][d][i] = a
  <2>1. channel \in Channels
    BY <1>1 DEF StateTypeOK, ChannelTypeOK, Channels
  <2> QED BY <1>2, <1>9, <1>10, <2>1, SendMessageFacts
<1>12. \A s \in Servers : ~ReceiveAll(s)
  BY <1>3, ReceivesInReceive
\* No entries are left, and no requests.
<1>13. EntriesOn(l, p)' = {} /\ RequestsOn(l, p)' = {}
  <2>1. NoNew("APPEND_ENTRIES", l, p) /\ NoNew("VOTE_REQUEST", l, p)
    BY <1>2, <1>11 DEF NoNew
  <2>2. EntriesOn(l, p)' \subseteq EntriesOn(l, p) /\ RequestsOn(l, p)' \subseteq RequestsOn(l, p)
    BY <1>1, <1>12, <2>1, LinksShrink
  <2>3. x \notin EntriesOn(l, p)'
    <3>1. PICK n \in Nat : n = done + 1
      BY <1>2
    <3>2. EntriesOn(l, p)' = LinkOf(channel', active', batch', l, p, "APPEND_ENTRIES", n + 1)
      BY <1>3, <3>1 DEF EntriesOn
    <3>3. x.stage = "taken" /\ x.place = n
      BY <3>1
    <3> HIDE DEF x
    <3>4. \A z \in LinkOf(channel', active', batch', l, p, "APPEND_ENTRIES", n + 1) :
             z.stage = "sent" \/ z.place \in n + 1 .. Len(batch')
      BY DEF LinkOf
    <3>5. n \notin n + 1 .. Len(batch')
      BY <3>1
    <3> QED BY <3>2, <3>3, <3>4, <3>5
  <2> QED BY <1>5, <1>6, <2>2, <2>3
\* One acknowledgement is.
<1>14. \A z \in AcksOn(l, p)' :
          z = [stage |-> "sent", place |-> Len(channel[p][l]) + 1, rpc |-> a]
  <2> SUFFICES ASSUME NEW z \in AcksOn(l, p)'
               PROVE  z = [stage |-> "sent", place |-> Len(channel[p][l]) + 1, rpc |-> a]
    OBVIOUS
  <2>1. FirstAck' = 1 /\ FirstAck = 1
    BY <1>3 DEF FirstAck, HandleAppendEntries, NextQuery
  <2>2. AcksOn(l, p)' = LinkOf(channel', active', batch', p, l, "APPEND_ENTRIES_RESPONSE", 1)
    BY <2>1 DEF AcksOn
  <2>3. PICK i \in 1 .. Len(channel'[p][l]) :
           /\ channel'[p][l][i].type = "APPEND_ENTRIES_RESPONSE"
           /\ z = [stage |-> "sent", place |-> i, rpc |-> channel'[p][l][i]]
    BY <1>2, <1>3, <2>2, LinkFacts
  <2>4. ~(i \in 1 .. Len(channel[p][l]) /\ channel'[p][l][i] = channel[p][l][i])
    <3> SUFFICES ASSUME i \in 1 .. Len(channel[p][l]), channel'[p][l][i] = channel[p][l][i]
                 PROVE  FALSE
      OBVIOUS
    <3>1. [stage |-> "sent", place |-> i, rpc |-> channel[p][l][i]] \in AcksOn(l, p)
      BY <2>3, LinkFacts DEF AcksOn
    <3> QED BY <1>6, <3>1
  <2>5. channel'[p][l][i] = a
    BY <1>2, <1>11, <2>4
  <2>6. i = Len(channel[p][l]) + 1
    <3>1. channel[p][l] \in Seq(RPC)
      BY <1>1, <1>2 DEF StateTypeOK, ChannelTypeOK
    <3>2. Len(channel[p][l]) \in Nat /\ Len(Append(channel[p][l], a)) = Len(channel[p][l]) + 1
          /\ \A j \in 1 .. Len(channel[p][l]) : Append(channel[p][l], a)[j] = channel[p][l][j]
      BY <3>1, LenProperties, AppendProperties
    <3>3. channel'[p][l] = channel[p][l] \/ channel'[p][l] = Append(channel[p][l], a)
      <4>1. \/ channel' = channel
            \/ channel' = [channel EXCEPT ![p][l] = Append(channel[p][l], a)]
        BY <1>9, <1>10 DEF SendMessage
      <4>2. channel \in [Ranks -> [Ranks -> Seq(RPC)]]
        BY <1>1 DEF StateTypeOK, ChannelTypeOK
      <4> QED BY <1>2, <4>1, <4>2
    <3>4. i \notin 1 .. Len(channel[p][l])
      BY <2>4, <3>2, <3>3
    <3> QED BY <3>2, <3>3, <3>4
  <2> QED BY <2>3, <2>5, <2>6
\* p has what it acknowledges.
<1>15. Size(p) <= Size(p)' /\ log_index_match[l][p] + 1 < Size(p)'
  <2>1. m.prev_log_index = log_index_match[l][p] /\ Len(m.entries) >= 1
    BY <1>4 DEF GoodEntries
  <2>2. Size(p)' = m.prev_log_index + 1 + Len(m.entries)
    BY <1>1, <1>2, MergedSize DEF End, Size
  <2>3. Len(m.entries) \in Nat
    <3>1. m.entries \in Seq(LogEntry)
      BY <1>3, <1>7, RpcFields
    <3> QED BY <3>1, LenProperties
  <2> HIDE DEF m
  <2>4. Size(p)' \in Nat
    BY <1>2, LenProperties DEF StateTypeOK, LogTypeOK, Size
  <2> QED BY <1>1, <1>2, <2>1, <2>2, <2>3, <2>4 DEF Indexes
<1>16. UNCHANGED <<status, next_log_index, log_index_match>>
  BY DEF HandleAppendEntries, electionVars, leaderVars
<1>17. OneExchange(l, p)'
  <2>1. AtMostOne(EntriesOn(l, p))' /\ AtMostOne(AcksOn(l, p))'
    BY <1>13, <1>14 DEF AtMostOne
  <2> QED BY <1>4, <1>13, <1>16, <2>1 DEF OneExchange
<1>18. ExchangeGood(l, p)'
  <2>1. a.success
    BY <1>8, <1>10
  <2>2. \A z \in AcksOn(l, p)' : z.rpc = a
    BY <1>14
  <2> QED BY <1>13, <1>15, <1>16, <2>1, <2>2 DEF ExchangeGood
<1>19. Indexes(l, p)'
  <2>1. Size(p)' \in Nat
    BY <1>2, LenProperties DEF StateTypeOK, LogTypeOK, Size
  <2> QED BY <1>1, <1>2, <1>15, <1>16, <2>1 DEF Indexes
<1> QED BY <1>17, <1>18, <1>19

\* A beat: nothing is under way with the servers it reaches.
LEMMA BeatReaches ==
    ASSUME NEW l \in Servers, CountInv(l), MaxInFlight = 1, LeaderBeats(l),
           NEW p \in Peers(l), p \notin Ended
    PROVE  /\ Len(channel[l][p]) = 0 /\ Len(channel[p][l]) = 0
           /\ \A i \in 1 .. Len(batch) : batch[i].source # p
<1>1. p \in Ranks /\ l \in Ranks /\ StateTypeOK
  BY CountInvParts, PeerFacts
<1>2. /\ Len(channel[l][p]) \in Nat /\ Len(channel[p][l]) \in Nat /\ Len(batch) \in Nat
  <2>1. channel[l][p] \in Seq(RPC) /\ channel[p][l] \in Seq(RPC) /\ batch \in Seq(Query)
    BY <1>1 DEF StateTypeOK, ChannelTypeOK, UpdateTypeOK
  <2> QED BY <2>1, LenProperties
<1> DEFINE taken == {i \in 1 .. Len(batch) : batch[i].source = p}
<1>3. IsFiniteSet(taken) /\ Cardinality(taken) \in Nat
  <2>1. IsFiniteSet(1 .. Len(batch))
    BY <1>2, FS_Interval
  <2>2. IsFiniteSet(taken)
    BY <2>1, FS_Subset
  <2> QED BY <2>2, FS_CardinalityType
<1>4. PICK a \in Nat, b \in Nat, c \in Nat :
         a = Len(channel[l][p]) /\ b = Len(channel[p][l]) /\ c = Cardinality(taken)
  BY <1>2, <1>3
<1>5. a + b + c < 1
  BY <1>4 DEF LeaderBeats, HeartbeatTimeout, InFlight
<1>6. a = 0 /\ b = 0 /\ c = 0
  BY <1>5
<1>7. taken = {}
  BY <1>3, <1>4, <1>6, FS_EmptySet
<1> QED BY <1>4, <1>6, <1>7

LEMMA ExchangeBeats ==
    ASSUME NEW l \in Servers, Electable = {l}, MaxInFlight = 1, CountInv(l), StateTypeOK',
           NEW s \in Servers, ServerStep(s), LeaderBeats(s), NEW p \in Peers(l)
    PROVE  OneExchange(l, p)' /\ ExchangeGood(l, p)' /\ Indexes(l, p)'
<1>1. /\ StateTypeOK /\ LogsInv(l) /\ LeadInv(l) /\ OneExchange(l, p) /\ ExchangeGood(l, p)
      /\ ExchangeInv(l) /\ Indexes(l, p) /\ TermsUnder(l) /\ StillLeads(l) /\ PlainTurn
  BY CountInvParts DEF ExchangeInv, PlainTurn
<1>2. s = l /\ status[l] = "LEADER" /\ phase = "handle" /\ active = l
  BY <1>1 DEF LeaderBeats, LogsInv, OnlyLeader, AllHandled
<1>3. /\ p \in Servers /\ p # l /\ p \in Ranks /\ l \in Ranks /\ Size(p) \in Nat
      /\ Size(l) \in Nat /\ next_log_index[l][p] \in Int
      /\ log_index_match[l][p] \in Int /\ done \in Nat
  BY <1>1, PeerFacts DEF StateTypeOK, UpdateTypeOK
<1>4. UNCHANGED <<status, current_term, server_log, next_log_index, log_index_match>>
  BY DEF LeaderBeats, electionVars, logVars, leaderVars
<1>5. \A d \in Servers : ~ReceiveAll(d)
  BY <1>2, ReceivesInReceive
<1>6. channel \in Channels
  BY <1>1 DEF StateTypeOK, ChannelTypeOK, Channels
<1>7. \A u \in Peers(l) : ~(next_log_index[l][u] < 0)
  BY <1>1, PeerFacts DEF ExchangeInv, Indexes
<1>8. channel' = SendToAll(channel, l, Peers(l), [d \in Peers(l) |-> BeatTo(l, d)], Ended)
  <2>1. {u \in Peers(l) : next_log_index[l][u] < 0} = {}
    BY <1>7
  <2>2. {d \in Peers(l) : \A u \in {u \in Peers(l) : next_log_index[l][u] < 0} : d < u} = Peers(l)
    BY <2>1
  <2> QED BY <1>2, <2>2 DEF LeaderBeats
<1>9. PICK beats : beats = [d \in Peers(l) |-> BeatTo(l, d)]
  OBVIOUS
<1>10. /\ channel'[p][l] = channel[p][l]
       /\ channel'[l][p] = IF p \in Ended THEN channel[l][p] ELSE Append(channel[l][p], BeatTo(l, p))
  <2>1. beats[p] = BeatTo(l, p)
    BY <1>9
  <2>2. channel'[p][l] = IF p = l /\ l \in Peers(l) \ Ended THEN Append(channel[p][l], beats[l])
                         ELSE channel[p][l]
    BY <1>3, <1>6, <1>8, <1>9, SendToAllIs
  <2>3. channel'[l][p] = IF l = l /\ p \in Peers(l) \ Ended THEN Append(channel[l][p], beats[p])
                         ELSE channel[l][p]
    BY <1>3, <1>6, <1>8, <1>9, SendToAllIs
  <2> QED BY <1>3, <2>1, <2>2, <2>3
<1>11. NoNew("APPEND_ENTRIES_RESPONSE", p, l)
  BY <1>10 DEF NoNew
<1>12. AcksOn(l, p)' \subseteq AcksOn(l, p) /\ Keeps(AcksOn(l, p), AcksOn(l, p)')
  BY <1>1, <1>5, <1>11, LinksShrink
\* A server that has ended receives nothing.
<1>13. CASE p \in Ended
  <2>1. NoNew("APPEND_ENTRIES", l, p) /\ NoNew("VOTE_REQUEST", l, p)
    BY <1>10, <1>13 DEF NoNew
  <2>2. /\ Keeps(EntriesOn(l, p), EntriesOn(l, p)')
        /\ Keeps(RequestsOn(l, p), RequestsOn(l, p)')
    BY <1>1, <1>5, <2>1, LinksShrink
  <2>3. IsPrefixOf(server_log[l], server_log'[l])
    <3>1. server_log[l] \in Seq(LogEntry)
      BY <1>1 DEF StateTypeOK, LogTypeOK
    <3> QED BY <1>4, <3>1, PrefixFacts
  <2> QED BY <1>1, <1>4, <1>12, <2>2, <2>3, ExchangeKept
<1>14. CASE p \notin Ended
  <2>1. /\ Len(channel[l][p]) = 0 /\ Len(channel[p][l]) = 0
        /\ \A i \in 1 .. Len(batch) : batch[i].source # p
    BY <1>2, <1>14, BeatReaches
  <2>2. AcksOn(l, p)' = {}
    <3>1. FirstAck = 1
      BY <1>2 DEF FirstAck
    <3>2. AcksOn(l, p) = {}
      <4>1. AcksOn(l, p) = LinkOf(channel, active, batch, p, l, "APPEND_ENTRIES_RESPONSE", 1)
        BY <3>1 DEF AcksOn
      <4> QED BY <2>1, <4>1, LinkFacts
    <3> QED BY <1>12, <3>2
  <2>3. PICK beat : beat = BeatTo(l, p)
    OBVIOUS
  <2>4. channel'[l][p] = <<beat>>
    <3>1. channel[l][p] \in Seq(RPC)
      BY <1>1, <1>3 DEF StateTypeOK, ChannelTypeOK
    <3>2. channel[l][p] = << >>
      BY <2>1, <3>1, EmptySeq
    <3> QED BY <1>10, <1>14, <2>3, <3>2
  <2>5. active' # p
    BY <1>2, <1>3, RanksFacts DEF LeaderBeats, Abort, EndUpdate
  <2>6. \A t, f, z : z \in LinkOf(channel', active', batch', l, p, t, f) =>
           beat.type = t /\ z = [stage |-> "sent", place |-> 1, rpc |-> beat]
    <3> SUFFICES ASSUME NEW t, NEW f, NEW z \in LinkOf(channel', active', batch', l, p, t, f)
                 PROVE  beat.type = t /\ z = [stage |-> "sent", place |-> 1, rpc |-> beat]
      OBVIOUS
    <3>1. PICK i \in 1 .. Len(channel'[l][p]) :
             /\ channel'[l][p][i].type = t
             /\ z = [stage |-> "sent", place |-> i, rpc |-> channel'[l][p][i]]
      BY <2>5, LinkFacts
    <3>2. Len(<<beat>>) = 1 /\ <<beat>>[1] = beat
      OBVIOUS
    <3>3. i = 1
      BY <2>4, <3>1, <3>2
    <3> QED BY <2>4, <3>1, <3>2, <3>3
  <2>7. beat.type # "VOTE_REQUEST"
    BY <2>3 DEF BeatTo, AppendEntries, Heartbeat
  <2>8. RequestsOn(l, p)' = {}
    <3>1. RequestsOn(l, p)' = LinkOf(channel', active', batch', l, p, "VOTE_REQUEST", (done + 1)')
      BY DEF RequestsOn
    <3> QED BY <2>6, <2>7, <3>1
  <2>9. \A z \in EntriesOn(l, p)' :
           beat.type = "APPEND_ENTRIES" /\ z = [stage |-> "sent", place |-> 1, rpc |-> beat]
    <3>1. EntriesOn(l, p)' = LinkOf(channel', active', batch', l, p, "APPEND_ENTRIES", (done + 1)')
      BY DEF EntriesOn
    <3> QED BY <2>6, <3>1
  <2>10. ASSUME beat.type = "APPEND_ENTRIES"
         PROVE  GoodEntries(l, p, beat)'
    <3> DEFINE next == next_log_index[l][p]
               entries == SubSeq(server_log[l], next + 1, Size(l))
    <3>1. Size(l) - 1 >= next /\ beat = AppendEntries(current_term[l], l, next - 1,
                                   TermAt(l, next - 1), entries, commit_index[l])
      BY <2>3, <2>10 DEF BeatTo, Heartbeat
    <3>2. Len(entries) >= 1
      <4>1. server_log[l] \in Seq(LogEntry)
        BY <1>1 DEF StateTypeOK, LogTypeOK
      <4>2. next \in Nat /\ next + 1 \in 1 .. Len(server_log[l]) + 1 /\ next + 1 <= Size(l)
        BY <1>1, <1>3, <3>1 DEF Indexes, Size
      <4> HIDE DEF next
      <4>3. Len(entries) = Size(l) - (next + 1) + 1
        BY <1>3, <4>1, <4>2, SubSeqProperties DEF Size
      <4> HIDE DEF entries
      <4> QED BY <1>3, <4>2, <4>3
    <3> HIDE DEF entries
    <3>3. /\ beat.leader_rank = l /\ beat.term = current_term[l]
          /\ beat.prev_log_index = next - 1 /\ beat.prev_log_term = TermAt(l, next - 1)
          /\ beat.entries = entries
      BY <3>1 DEF AppendEntries
    <3>4. next - 1 = log_index_match[l][p]
      BY <1>1, <1>3 DEF Indexes
    <3>5. GoodEntries(l, p, beat)
      BY <3>2, <3>3, <3>4 DEF GoodEntries
    <3>6. TermAt(l, beat.prev_log_index)' = TermAt(l, beat.prev_log_index)
      BY <1>4 DEF TermAt, Entry, Size
    <3> QED BY <1>4, <3>5, <3>6 DEF GoodEntries
  <2>11. OneExchange(l, p)'
    <3>1. AtMostOne(EntriesOn(l, p))' /\ AtMostOne(AcksOn(l, p))'
      BY <2>2, <2>9 DEF AtMostOne
    <3> QED BY <1>2, <1>4, <2>2, <2>8, <3>1 DEF OneExchange
  <2>12. ExchangeGood(l, p)'
    <3>1. ASSUME NEW z \in EntriesOn(l, p)' PROVE GoodEntries(l, p, z.rpc)'
      <4>1. z.rpc = beat /\ beat.type = "APPEND_ENTRIES"
        BY <2>9, <3>1
      <4> QED BY <2>10, <4>1
    <3> QED BY <2>2, <3>1 DEF ExchangeGood
  <2>13. Indexes(l, p)'
    BY <1>1, <1>4 DEF Indexes, Size
  <2> QED BY <2>11, <2>12, <2>13
<1> QED BY <1>13, <1>14

\* The leader counts: an acknowledgement is worth one entry, which p has.
LEMMA ExchangeCounts ==
    ASSUME NEW l \in Servers, Electable = {l}, CountInv(l), StateTypeOK',
           NEW s \in Servers, ServerStep(s), LeaderCountsSuccess(s) \/ LeaderBacksUp(s),
           NEW p \in Peers(l)
    PROVE  OneExchange(l, p)' /\ ExchangeGood(l, p)' /\ Indexes(l, p)'
<1> DEFINE q == batch[done + 1]
           x == [stage |-> "taken", place |-> done + 1, rpc |-> q.rpc]
<1>1. /\ StateTypeOK /\ LogsInv(l) /\ LeadInv(l) /\ OneExchange(l, p) /\ ExchangeGood(l, p)
      /\ Indexes(l, p) /\ PlainTurn /\ LeadersLead
  BY CountInvParts DEF ExchangeInv, PlainTurn, SilenceInv
<1>2. /\ p \in Servers /\ p # l /\ p \in Ranks /\ l \in Ranks /\ Size(p) \in Nat
      /\ log_index_match[l][p] \in Int /\ next_log_index[l][p] \in Int /\ done \in Nat
  BY <1>1, PeerFacts DEF StateTypeOK, UpdateTypeOK
<1>3. /\ active = s /\ phase = "lead" /\ done < Len(batch)
      /\ q.rpc.type = "APPEND_ENTRIES_RESPONSE"
      /\ done' = done + 1 /\ phase' = "lead" /\ active' = active /\ batch' = batch
      /\ UNCHANGED <<status, current_term, server_log, channel>>
  BY DEF LeaderCountsSuccess, LeaderBacksUp, Leading, NextQuery, electionVars, logVars
<1>4. s = l /\ status[l] = "LEADER"
  BY <1>1, <1>3 DEF LeadInv, LeadersLead
<1>5. \A d \in Servers : ~ReceiveAll(d)
  BY <1>3, ReceivesInReceive
<1>6. \A t, src, dst : NoNew(t, src, dst)
  BY <1>3 DEF NoNew
<1>7. /\ EntriesOn(l, p)' \subseteq EntriesOn(l, p) /\ Keeps(EntriesOn(l, p), EntriesOn(l, p)')
      /\ AcksOn(l, p)' \subseteq AcksOn(l, p) /\ Keeps(AcksOn(l, p), AcksOn(l, p)')
      /\ Keeps(RequestsOn(l, p), RequestsOn(l, p)')
  BY <1>1, <1>5, <1>6, LinksShrink
<1>8. next_log_index \in [Servers -> [Servers -> Int]] /\ log_index_match \in [Servers -> [Servers -> Int]]
  BY <1>1 DEF StateTypeOK, LeaderTypeOK
<1>9. PICK r : r = q.source
  OBVIOUS
<1>10. CASE r # p
  <2>1. /\ \/ log_index_match' = log_index_match
           \/ \E v : log_index_match' = [log_index_match EXCEPT ![l][r] = v]
        /\ \/ next_log_index' = next_log_index
           \/ \E v : next_log_index' = [next_log_index EXCEPT ![l][r] = v]
    BY <1>4, <1>9 DEF LeaderCountsSuccess, LeaderBacksUp
  <2>2. log_index_match'[l][p] = log_index_match[l][p]
    BY <1>2, <1>8, <1>10, <2>1
  <2>3. next_log_index'[l][p] = next_log_index[l][p]
    BY <1>2, <1>8, <1>10, <2>1
  <2>4. IsPrefixOf(server_log[l], server_log'[l])
    <3>1. server_log[l] \in Seq(LogEntry)
      BY <1>1 DEF StateTypeOK, LogTypeOK
    <3> QED BY <1>3, <3>1, PrefixFacts
  <2> QED BY <1>1, <1>3, <1>7, <2>2, <2>3, <2>4, ExchangeKept
<1>11. CASE r = p
  <2>1. FirstAck = done + 1 /\ done + 1 \in done + 1 .. Len(batch)
    <3>1. batch \in Seq(Query)
      BY <1>1 DEF StateTypeOK, UpdateTypeOK
    <3>2. Len(batch) \in Nat
      BY <3>1, LenProperties
    <3> QED BY <1>2, <1>3, <3>2 DEF FirstAck
  <2>2. AcksOn(l, p) = LinkOf(channel, active, batch, p, l, "APPEND_ENTRIES_RESPONSE", done + 1)
    BY <2>1 DEF AcksOn
  <2>3. x \in AcksOn(l, p)
    <3>1. PICK i : i = done + 1
      OBVIOUS
    <3>2. /\ i \in i .. Len(batch) /\ active = l /\ batch[i].source = p
          /\ batch[i].rpc.type = "APPEND_ENTRIES_RESPONSE"
      BY <1>3, <1>4, <1>9, <1>11, <2>1, <3>1
    <3>3. [stage |-> "taken", place |-> i, rpc |-> batch[i].rpc]
             \in LinkOf(channel, active, batch, p, l, "APPEND_ENTRIES_RESPONSE", i)
      BY <3>2, LinkFacts
    <3> QED BY <2>2, <3>1, <3>3
  <2>4. q.rpc.success /\ log_index_match[l][p] + 1 < Size(p)
    <3>1. x.rpc = q.rpc
      OBVIOUS
    <3> HIDE DEF x
    <3> QED BY <1>1, <2>3, <3>1 DEF ExchangeGood
  <2>5. EntriesOn(l, p)' = {}
    BY <1>1, <1>7, <2>3 DEF OneExchange
  <2>6. AcksOn(l, p)' = {}
    <3>1. x \notin AcksOn(l, p)'
      <4>1. PICK n \in Nat : n = done + 1
        BY <1>2
      <4>2. AcksOn(l, p)' = LinkOf(channel', active', batch', p, l, "APPEND_ENTRIES_RESPONSE", n + 1)
        BY <1>3, <4>1 DEF AcksOn, FirstAck
      <4>3. x.stage = "taken" /\ x.place = n
        BY <4>1
      <4> HIDE DEF x
      <4>4. \A z \in LinkOf(channel', active', batch', p, l, "APPEND_ENTRIES_RESPONSE", n + 1) :
               z.stage = "sent" \/ z.place \in n + 1 .. Len(batch')
        BY DEF LinkOf
      <4>5. n \notin n + 1 .. Len(batch')
        BY <4>1
      <4> QED BY <4>2, <4>3, <4>4, <4>5
    <3>2. \A z \in AcksOn(l, p) : z = x
      BY <1>1, <2>3 DEF OneExchange, AtMostOne
    <3> QED BY <1>7, <3>1, <3>2
  <2>7. LeaderCountsSuccess(s)
    BY <2>4 DEF LeaderBacksUp
  <2>8. PICK match \in Int : match = log_index_match[l][p] + 1
    BY <1>2
  <2>9. /\ log_index_match' = [log_index_match EXCEPT ![l][p] = match]
        /\ next_log_index' = [next_log_index EXCEPT ![l][p] = match + 1]
    <3>1. next_log_index[l][p] = match
      BY <1>1, <1>2, <2>8 DEF Indexes
    <3>2. /\ log_index_match' = [log_index_match EXCEPT ![l][p] = log_index_match[l][p] + 1]
          /\ next_log_index' = IF log_index_match[l][p] + 1 >= next_log_index[l][p]
                               THEN [next_log_index EXCEPT ![l][p] = next_log_index[l][p] + 1]
                               ELSE next_log_index
      BY <1>4, <1>9, <1>11, <2>7 DEF LeaderCountsSuccess
    <3> QED BY <2>8, <3>1, <3>2
  <2>10. log_index_match'[l][p] = match /\ next_log_index'[l][p] = match + 1
    BY <1>2, <1>8, <2>9
  <2>11. Indexes(l, p)'
    BY <1>1, <1>2, <1>3, <2>4, <2>8, <2>10 DEF Indexes, Size
  <2>12. RequestsOn(l, p)' # {} => Size(p)' = 0
    <3>1. RequestsOn(l, p)' # {} => RequestsOn(l, p) # {}
      BY <1>7 DEF Keeps
    <3> QED BY <1>1, <1>3, <3>1 DEF OneExchange, Size
  <2>13. OneExchange(l, p)' /\ ExchangeGood(l, p)'
    BY <2>5, <2>6, <2>12 DEF OneExchange, ExchangeGood, AtMostOne
  <2> QED BY <2>11, <2>13
<1> QED BY <1>10, <1>11

\* Every step.
LEMMA ExchangeStep ==
    ASSUME NEW l \in Servers, Electable = {l}, MaxInFlight = 1, CountInv(l), StateTypeOK',
           PlainTurn, \A d \in Servers : IsPrefixOf(server_log[d], server_log'[d])
    PROVE  ExchangeInv(l)'
<1> DEFINE Goal(p) == OneExchange(l, p)' /\ ExchangeGood(l, p)' /\ Indexes(l, p)'
<1> SUFFICES ASSUME NEW p \in Peers(l) PROVE Goal(p)
  BY DEF ExchangeInv, Peers
<1>1. /\ StateTypeOK /\ LogsInv(l) /\ LeadInv(l) /\ TermsUnder(l) /\ StillLeads(l)
      /\ OneExchange(l, p) /\ ExchangeGood(l, p) /\ Indexes(l, p)
  BY CountInvParts DEF ExchangeInv
<1>2. p \in Servers /\ p # l /\ p \in Ranks /\ l \in Ranks
  BY <1>1, PeerFacts
<1>3. status[l] = "LEADER" => status'[l] = "LEADER" /\ current_term'[l] = current_term[l]
  BY <1>1, LeaderFrame
<1>4. ASSUME Keeps(EntriesOn(l, p), EntriesOn(l, p)'), Keeps(RequestsOn(l, p), RequestsOn(l, p)'),
             Keeps(AcksOn(l, p), AcksOn(l, p)'), server_log'[p] = server_log[p],
             UNCHANGED <<next_log_index[l], log_index_match[l]>>
      PROVE  Goal(p)
  <2>1. /\ IsPrefixOf(server_log[l], server_log'[l])
        /\ next_log_index'[l][p] = next_log_index[l][p]
        /\ log_index_match'[l][p] = log_index_match[l][p]
    BY <1>4
  <2> QED BY <1>1, <1>3, <1>4, <2>1, ExchangeKept
<1>5. ASSUME NEW s \in Servers, ReceiveAll(s) PROVE Goal(p)
  <2>1. UNCHANGED <<next_log_index[l], log_index_match[l]>> /\ server_log'[p] = server_log[p]
    BY <1>5 DEF ReceiveAll, serverState, logVars, leaderVars
  <2>2. /\ Keeps(EntriesOn(l, p), EntriesOn(l, p)')
        /\ Keeps(RequestsOn(l, p), RequestsOn(l, p)')
        /\ Keeps(AcksOn(l, p), AcksOn(l, p)')
    BY <1>1, <1>5, LinksDrain
  <2> QED BY <1>4, <2>1, <2>2
<1>6. ASSUME \A d \in Servers : ~ReceiveAll(d),
             NoNew("APPEND_ENTRIES", l, p), NoNew("VOTE_REQUEST", l, p),
             NoNew("APPEND_ENTRIES_RESPONSE", p, l), server_log'[p] = server_log[p],
             UNCHANGED <<next_log_index[l], log_index_match[l]>>
      PROVE  Goal(p)
  <2>1. /\ Keeps(EntriesOn(l, p), EntriesOn(l, p)')
        /\ Keeps(RequestsOn(l, p), RequestsOn(l, p)')
        /\ Keeps(AcksOn(l, p), AcksOn(l, p)')
    BY <1>1, <1>6, LinksShrink
  <2> QED BY <1>4, <1>6, <2>1
<1>7. CASE OutsideTurn /\ (\A d \in Servers : ~ReceiveAll(d))
  <2>1. \A t : NoNew(t, l, p) /\ NoNew(t, p, l)
    BY <1>1, <1>2, <1>7, OutsideNothingNew
  <2>2. UNCHANGED <<next_log_index[l], log_index_match[l]>> /\ server_log'[p] = server_log[p]
    BY <1>7 DEF OutsideTurn, serverState, logVars, leaderVars
  <2> QED BY <1>6, <1>7, <2>1, <2>2
<1>8. ASSUME NEW s \in Servers, ServerStep(s), \A d \in Servers : ~ReceiveAll(d) PROVE Goal(p)
  <2>1. CASE LeaderBeats(s)
    BY <1>8, <2>1, ExchangeBeats
  <2>2. CASE LeaderCountsSuccess(s) \/ LeaderBacksUp(s)
    BY <1>8, <2>2, ExchangeCounts
  <2>3. CASE CandidateWins(s)
    BY <1>8, <2>3, ExchangeWins
  <2>4. CASE AsksForVotes(s)
    BY <1>8, <2>4, ExchangeAsks
  <2>5. CASE s = p /\ HandleAppendEntries(s)
    <3>1. Size(p) <= Size(p)'
      BY <1>2 DEF IsPrefixOf, Size
    <3> QED BY <1>8, <2>5, <3>1, ExchangeMerges
  <2>6. CASE /\ ~LeaderBeats(s) /\ ~LeaderCountsSuccess(s) /\ ~LeaderBacksUp(s)
             /\ ~CandidateWins(s) /\ ~AsksForVotes(s) /\ ~(s = p /\ HandleAppendEntries(s))
    <3>1. PICK T : T = IF HandleAppendEntries(s) THEN Harmless \cup {"APPEND_ENTRIES_RESPONSE"}
                       ELSE Harmless
      OBVIOUS
    <3>2. ~HandleAppendEntriesDenied(s)
      BY NeverDenied
    <3>3. Adds(T, s, channel, channel')
      BY <1>1, <1>8, <2>6, <3>1, <3>2, StepSends DEF Harmless
    <3>4. /\ "APPEND_ENTRIES" \notin T /\ "VOTE_REQUEST" \notin T
          /\ "APPEND_ENTRIES_RESPONSE" \notin T \/ p # s
      BY <2>6, <3>1 DEF Harmless
    <3>5. /\ NoNew("APPEND_ENTRIES", l, p) /\ NoNew("VOTE_REQUEST", l, p)
          /\ NoNew("APPEND_ENTRIES_RESPONSE", p, l)
      BY <1>1, <1>2, <3>3, <3>4, AddsNothingNew
    <3>6. s # l \/ ~HandleCrash(s)
      BY <1>1, NeverDown
    <3>7. UNCHANGED <<next_log_index[l], log_index_match[l]>>
      BY <1>1, <1>8, <2>6, <3>6, IndexesFrame
    <3>8. server_log'[p] = server_log[p]
      <4>1. CASE ~HandleAppendEntries(p)
        BY <1>1, <4>1, PeerLogFrame
      <4>2. CASE s # p
        BY <1>1, <1>2, <1>8, <4>2, OthersStay DEF OwnState
      <4> QED BY <2>6, <4>1, <4>2
    <3> QED BY <1>6, <1>8, <3>5, <3>7, <3>8
  <2> QED BY <2>1, <2>2, <2>3, <2>4, <2>5, <2>6
<1> QED BY <1>5, <1>7, <1>8 DEF PlainTurn

----------------------------------------------------------------------------
(* A committed entry is on a majority. *)

LEMMA ServersFinite == \A S \in SUBSET Servers : IsFiniteSet(S) /\ Cardinality(S) \in Nat
<1>1. IsFiniteSet(Servers)
  <2>1. NClients + 1 \in Int /\ NClients + NServers \in Int
    BY RanksAssumption
  <2> QED BY <2>1, FS_Interval DEF Servers
<1> QED BY <1>1, FS_Subset, FS_CardinalityType

\* More than half of the servers, as HasMajority has it.
LEMMA MajorityIsHalf ==
    ASSUME NEW n \in Nat, HasMajority(n)
    PROVE  2 * n > NServers
<1>1. n > NServers \div 2
  BY DEF HasMajority
<1> QED BY <1>1, RanksAssumption

\* The servers that the leader believes to have an entry, and itself.
LEMMA ReplicatedOnMajority ==
    ASSUME NEW l \in Servers, CountInv(l), NEW i \in Int, i < Size(l), Replicated(l, i)
    PROVE  2 * Cardinality({p \in Servers : i < Size(p)}) > NServers
<1> DEFINE M == {p \in Peers(l) : log_index_match[l][p] >= i}
           H == {p \in Servers : i < Size(p)}
<1>1. M \in SUBSET Servers /\ H \in SUBSET Servers /\ l \notin M
  BY DEF Peers
<1>2. IsFiniteSet(M) /\ IsFiniteSet(H) /\ Cardinality(M) \in Nat /\ Cardinality(H) \in Nat
  BY <1>1, ServersFinite
<1>3. M \cup {l} \in SUBSET H
  <2>1. ASSUME NEW p \in M PROVE p \in H
    <3>1. p \in Peers(l) /\ log_index_match[l][p] >= i
      OBVIOUS
    <3>2. /\ p \in Servers /\ Size(p) \in Nat /\ log_index_match[l][p] \in Int
          /\ log_index_match[l][p] < Size(p)
      BY <3>1, CountInvParts, PeerFacts DEF ExchangeInv, Indexes
    <3>3. i < Size(p)
      BY <3>1, <3>2
    <3> QED BY <3>2, <3>3
  <2> QED BY <2>1
<1>4. Cardinality(M \cup {l}) = Cardinality(M) + 1
  BY <1>1, <1>2, FS_AddElement
<1>5. Cardinality(M \cup {l}) <= Cardinality(H)
  BY <1>2, <1>3, FS_Subset
<1>6. 2 * (1 + Cardinality(M)) > NServers
  <2>1. HasMajority(1 + Cardinality(M))
    BY DEF Replicated
  <2>2. 1 + Cardinality(M) \in Nat
    BY <1>2
  <2> HIDE DEF M
  <2> QED BY <2>1, <2>2, MajorityIsHalf
<1> HIDE DEF M, H
<1>7. 2 * Cardinality(H) > NServers
  <2>1. PICK m \in Nat, h \in Nat : m = Cardinality(M) /\ h = Cardinality(H)
    BY <1>2
  <2>2. m + 1 <= h /\ 2 * (1 + m) > NServers
    BY <1>4, <1>5, <1>6, <2>1
  <2>3. 2 * h > NServers
    BY <2>2, RanksAssumption
  <2> QED BY <2>1, <2>3
<1> QED BY <1>7 DEF H

\* Who moves the leader's commit index.
LEMMA LeaderCommitStep ==
    ASSUME NEW l \in Servers, CountInv(l), StateTypeOK', PlainTurn,
           commit_index[l] <= commit_index'[l]
    PROVE  \/ commit_index'[l] = commit_index[l]
           \/ /\ commit_index'[l] = commit_index[l] + 1
              /\ commit_index[l] + 1 < Size(l)
              /\ Replicated(l, commit_index[l] + 1)
<1>1. /\ StateTypeOK /\ LogsInv(l) /\ LeadInv(l) /\ CommitsUnder(l)
      /\ commit_index \in [Servers -> Int] /\ commit_index[l] \in Int /\ commit_index'[l] \in Int
  BY CountInvParts DEF StateTypeOK, LogTypeOK
<1>2. CASE OutsideTurn
  BY <1>2 DEF OutsideTurn, serverState, logVars
<1>3. ASSUME NEW s \in Servers, ServerStep(s), s # l PROVE commit_index'[l] = commit_index[l]
  BY <1>1, <1>3, OthersStay DEF OwnState
<1>4. ASSUME ServerStep(l), ~LeaderCommits(l) PROVE commit_index'[l] = commit_index[l]
  <2>1. ~HandleAppendEntries(l)
    BY <1>1, LeaderMergesNothing
  <2>2. CASE ApplyEntry(l)
    BY <2>2 DEF ApplyEntry, logVars
  <2>3. CASE HandleHeartbeat(l)
    <3>1. /\ commit_index' = [commit_index EXCEPT ![l] =
                FollowerCommit(l, batch[done + 1].rpc.leader_commit, Size(l))]
          /\ active = l /\ done < Len(batch) /\ batch[done + 1].rpc.type = "HEARTBEAT"
      BY <2>3 DEF HandleHeartbeat, Handling
    <3>2. Size(l) \in Nat
      BY <1>1, LogFacts DEF StateTypeOK
    <3>3. FollowerCommit(l, batch[done + 1].rpc.leader_commit, Size(l)) <= commit_index[l]
      BY <1>1, <3>1, <3>2, CommitIsUnder
    <3>4. commit_index'[l] = FollowerCommit(l, batch[done + 1].rpc.leader_commit, Size(l))
      BY <1>1, <3>1
    <3> QED BY <1>1, <3>3, <3>4
  <2> QED BY <1>4, <2>1, <2>2, <2>3, IndexFrame
<1>5. CASE LeaderCommits(l)
  <2>1. PICK i \in Int : i = commit_index[l] + 1
    BY <1>1
  <2>2. commit_index' = IF Replicated(l, i) /\ i < Size(l) /\ Entry(l, i).term = current_term[l]
                        THEN [commit_index EXCEPT ![l] = i] ELSE commit_index
    BY <1>5, <2>1 DEF LeaderCommits
  <2> QED BY <1>1, <2>1, <2>2
<1> QED BY <1>2, <1>3, <1>4, <1>5 DEF PlainTurn

LEMMA CommitHeldStep ==
    ASSUME NEW l \in Servers, CountInv(l), StateTypeOK', PlainTurn,
           commit_index[l] <= commit_index'[l],
           \A d \in Servers : IsPrefixOf(server_log[d], server_log'[d])
    PROVE  CommitHeld(l)'
<1> SUFFICES ASSUME commit_index'[l] >= 0
             PROVE  2 * Cardinality({p \in Servers : commit_index'[l] < Size(p)'}) > NServers
  BY DEF CommitHeld
<1>1. PICK c : c = commit_index'[l]
  OBVIOUS
<1>2. StateTypeOK /\ CommitHeld(l) /\ commit_index[l] \in Int /\ c \in Int
  BY <1>1, CountInvParts DEF StateTypeOK, LogTypeOK
<1>3. 2 * Cardinality({p \in Servers : c < Size(p)}) > NServers
  <2>1. CASE c = commit_index[l]
    BY <1>1, <1>2, <2>1 DEF CommitHeld
  <2>2. CASE c = commit_index[l] + 1 /\ c < Size(l) /\ Replicated(l, c)
    BY <1>2, <2>2, ReplicatedOnMajority
  <2> QED BY <1>1, <2>1, <2>2, LeaderCommitStep
<1> DEFINE old == {p \in Servers : c < Size(p)}
           new == {p \in Servers : c < Size(p)'}
<1>4. old \in SUBSET new
  <2>1. ASSUME NEW p \in Servers, c < Size(p) PROVE c < Size(p)'
    <3>1. Size(p) \in Nat /\ Size(p)' \in Nat
      <4>1. server_log[p] \in Seq(LogEntry) /\ server_log'[p] \in Seq(LogEntry)
        BY <1>2 DEF StateTypeOK, LogTypeOK
      <4> QED BY <4>1, LenProperties DEF Size
    <3>2. Size(p) <= Size(p)'
      BY DEF IsPrefixOf, Size
    <3> QED BY <1>2, <2>1, <3>1, <3>2
  <2> QED BY <2>1
<1>5. IsFiniteSet(new) /\ Cardinality(new) \in Nat /\ Cardinality(old) \in Nat
  BY ServersFinite
<1>6. Cardinality(old) <= Cardinality(new)
  BY <1>4, <1>5, FS_Subset
<1> HIDE DEF old, new
<1>7. 2 * Cardinality(old) > NServers
  BY <1>3 DEF old
<1>8. 2 * Cardinality(new) > NServers
  <2>1. PICK m \in Nat, h \in Nat : m = Cardinality(old) /\ h = Cardinality(new)
    BY <1>5
  <2>2. m <= h /\ 2 * m > NServers
    BY <1>6, <1>7, <2>1
  <2>3. 2 * h > NServers
    BY <2>2, RanksAssumption
  <2> QED BY <2>1, <2>3
<1> QED BY <1>1, <1>8 DEF new

----------------------------------------------------------------------------
(* The invariant holds. *)

LEMMA CountInvInit ==
    ASSUME NEW l \in Servers, Electable = {l}, ServerInit
    PROVE  CountInv(l)
<1>1. QueueInv(l)
  BY QueueInvInit
<1>2. /\ \A p \in Ranks, d \in Servers : Len(channel[p][d]) = 0
      /\ active \notin Servers
  BY EmptySeq, RanksFacts DEF ServerInit, ProcessInit
<1>3. /\ \A d \in Servers : commit_index[d] = -1 /\ Size(d) = 0
      /\ \A d, p \in Servers : next_log_index[d][p] = 0 /\ log_index_match[d][p] = -1
  BY EmptySeq DEF ServerInit, Size
<1>4. CommitsUnder(l)
  <2>1. \A p \in Ranks, d \in Servers : 1 .. Len(channel[p][d]) = {}
    BY <1>2
  <2>2. \A d \in Servers : commit_index[d] <= commit_index[l]
    BY <1>3
  <2> QED BY <1>2, <2>1, <2>2 DEF CommitsUnder
<1>5. ASSUME NEW p \in Peers(l)
      PROVE  OneExchange(l, p) /\ ExchangeGood(l, p) /\ Indexes(l, p)
  <2>1. p \in Servers /\ p \in Ranks /\ l \in Ranks
    BY RanksFacts DEF Peers
  <2>2. 1 .. Len(channel[l][p]) = {} /\ 1 .. Len(channel[p][l]) = {} /\ active # l /\ active # p
    BY <1>2, <2>1
  <2>3. EntriesOn(l, p) = {}
    BY <2>2 DEF EntriesOn, LinkOf
  <2>4. AcksOn(l, p) = {}
    BY <2>2 DEF AcksOn, LinkOf
  <2>5. RequestsOn(l, p) = {}
    BY <2>2 DEF RequestsOn, LinkOf
  <2>6. Indexes(l, p)
    BY <1>3, <2>1 DEF Indexes
  <2> QED BY <2>3, <2>4, <2>5, <2>6 DEF OneExchange, ExchangeGood, AtMostOne
<1>6. CommitHeld(l)
  BY <1>3 DEF CommitHeld
<1> QED BY <1>1, <1>4, <1>5, <1>6 DEF CountInv, ExchangeInv

LEMMA CountInvStep ==
    ASSUME NEW l \in Servers, Electable = {l}, MaxInFlight = 1, CountInv(l), StateTypeOK',
           AnyStep(l), TakesStep, MildTurn(l), PlainTurn
    PROVE  CountInv(l)'
<1>1. /\ QueueInv(l) /\ OrderInv(l) /\ LogsInv(l) /\ LeadInv(l) /\ SilenceInv /\ StillLeads(l)
      /\ CommitsUnder(l)
  BY CountInvParts DEF CountInv, QueueInv
<1>2. QueueInv(l)'
  BY <1>1, QueueInvStep
<1>3. /\ \A d \in Servers : IsPrefixOf(server_log[d], server_log'[d])
      /\ commit_index[l] <= commit_index'[l]
  BY <1>1, OrderInvStep
<1>4. CommitsUnder(l)'
  BY <1>1, <1>3, CommitsUnderStep
<1>5. ExchangeInv(l)'
  BY <1>3, ExchangeStep
<1>6. CommitHeld(l)'
  BY <1>3, CommitHeldStep
<1> QED BY <1>2, <1>4, <1>5, <1>6 DEF CountInv

----------------------------------------------------------------------------
(* What follows from it. *)

\* Two logs that begin the leader's hold the same entries.
LEMMA SameEntries ==
    ASSUME NEW l \in Servers, LogsInv(l), NEW s \in Servers, NEW p \in Servers,
           NEW i \in Nat, i < Size(s), i < Size(p)
    PROVE  Entry(p, i) = Entry(s, i)
<1>1. /\ IsPrefixOf(server_log[s], server_log[l]) /\ IsPrefixOf(server_log[p], server_log[l])
      /\ Size(s) \in Nat /\ Size(p) \in Nat
  <2>1. server_log[s] \in Seq(LogEntry) /\ server_log[p] \in Seq(LogEntry)
    BY DEF LogsInv, StateTypeOK, LogTypeOK
  <2> QED BY <2>1, LenProperties DEF LogsInv, PrefixOf, Size
<1>2. i + 1 \in 1 .. Size(s) /\ i + 1 \in 1 .. Size(p)
  BY <1>1
<1> QED BY <1>1, <1>2 DEF IsPrefixOf, Size, Entry

LEMMA CountInvImplies ==
    ASSUME NEW l \in Servers, CountInv(l)
    PROVE  MatchIsReplicated /\ CommittedOnMajority
<1>1. StateTypeOK /\ LogsInv(l) /\ ExchangeInv(l) /\ CommitHeld(l) /\ CommitsUnder(l)
      /\ CommitWithinLog
  BY CountInvParts
<1>2. \A s \in Servers : status[s] = "LEADER" => s = l
  BY <1>1 DEF LogsInv, OnlyLeader
<1>3. MatchIsReplicated
  <2> SUFFICES ASSUME NEW p \in Peers(l), NEW i \in 0 .. log_index_match[l][p]
               PROVE  i < Size(l) /\ i < Size(p) /\ Entry(p, i) = Entry(l, i)
    BY <1>2 DEF MatchIsReplicated
  <2>1. /\ p \in Servers /\ Size(p) \in Nat /\ Size(l) \in Nat /\ Size(p) <= Size(l)
        /\ log_index_match[l][p] \in Int /\ log_index_match[l][p] < Size(p)
    BY <1>1, PeerFacts DEF ExchangeInv, Indexes
  <2>2. i \in Nat /\ i < Size(p) /\ i < Size(l)
    BY <2>1
  <2> QED BY <1>1, <2>1, <2>2, SameEntries
<1>4. ASSUME NEW s \in Servers, commit_index[s] >= 0
      PROVE  2 * Cardinality({p \in Servers :
                   /\ commit_index[s] < Size(p)
                   /\ Entry(p, commit_index[s]) = Entry(s, commit_index[s])}) > NServers
  <2> DEFINE old == {p \in Servers : commit_index[l] < Size(p)}
             new == {p \in Servers : /\ commit_index[s] < Size(p)
                                     /\ Entry(p, commit_index[s]) = Entry(s, commit_index[s])}
  <2>1. /\ commit_index[s] \in Nat /\ commit_index[l] \in Int /\ commit_index[s] < Size(s)
        /\ commit_index[s] <= commit_index[l]
    BY <1>1, <1>4 DEF StateTypeOK, LogTypeOK, CommitsUnder, CommitWithinLog
  <2>2. old \in SUBSET new
    <3>1. ASSUME NEW p \in Servers, commit_index[l] < Size(p)
          PROVE  /\ commit_index[s] < Size(p)
                 /\ Entry(p, commit_index[s]) = Entry(s, commit_index[s])
      <4>1. Size(p) \in Nat
        <5>1. server_log[p] \in Seq(LogEntry)
          BY <1>1 DEF StateTypeOK, LogTypeOK
        <5> QED BY <5>1, LenProperties DEF Size
      <4>2. commit_index[s] < Size(p)
        BY <2>1, <3>1, <4>1
      <4> QED BY <1>1, <2>1, <4>2, SameEntries
    <3> QED BY <3>1
  <2>3. IsFiniteSet(new) /\ Cardinality(new) \in Nat /\ Cardinality(old) \in Nat
    BY ServersFinite
  <2>4. Cardinality(old) <= Cardinality(new)
    BY <2>2, <2>3, FS_Subset
  <2>5. 2 * Cardinality(old) > NServers
    BY <1>1, <2>1 DEF CommitHeld
  <2> HIDE DEF old, new
  <2>6. 2 * Cardinality(new) > NServers
    <3>1. PICK m \in Nat, h \in Nat : m = Cardinality(old) /\ h = Cardinality(new)
      BY <2>3
    <3>2. m <= h /\ 2 * m > NServers
      BY <2>4, <2>5, <3>1
    <3>3. 2 * h > NServers
      BY <3>2, RanksAssumption
    <3> QED BY <3>1, <3>3
  <2> QED BY <2>6 DEF new
<1> QED BY <1>3, <1>4 DEF CommittedOnMajority

----------------------------------------------------------------------------
(* No server throws. *)

\* The apply loop finds the entry and, on the leader, the request it answers.
LEMMA ApplyFinds ==
    ASSUME NEW l \in Servers, CountInv(l), NEW s \in Servers, ApplyEntry(s)
    PROVE  UNCHANGED aborted
<1>1. /\ StateTypeOK /\ LogsInv(l) /\ CommitWithinLog /\ QueueFits(l)
      /\ status[s] = "LEADER" => s = l
  BY CountInvParts DEF LogsInv, OnlyLeader
<1>2. /\ last_log_applied[s] \in Int /\ commit_index[s] \in Int /\ Size(s) \in Nat
      /\ last_log_applied[s] < commit_index[s] /\ commit_index[s] < Size(s)
  <2>1. last_log_applied[s] \in Nat \cup {-1} /\ commit_index[s] \in Int
    BY <1>1 DEF StateTypeOK, ApplyTypeOK, LogTypeOK
  <2>2. Size(s) \in Nat
    BY <1>1, LogFacts DEF StateTypeOK
  <2>3. commit_index[s] > last_log_applied[s] /\ commit_index[s] < Size(s)
    BY <1>1 DEF ApplyEntry, CommitWithinLog
  <2> QED BY <2>1, <2>2, <2>3
<1>3. ~(last_log_applied[s] + 1 >= Size(s))
  BY <1>2
<1>4. status[s] = "LEADER" => entries_queue[s] # << >>
  <2> SUFFICES ASSUME s = l, entries_queue[s] = << >> PROVE FALSE
    BY <1>1
  <2>1. Len(entries_queue[l]) = 0
    BY EmptySeq
  <2>2. Len(entries_queue[l]) = Size(l) - (last_log_applied[l] + 1)
    BY <1>1 DEF QueueFits
  <2> QED BY <1>2, <2>1, <2>2
<1> QED BY <1>3, <1>4 DEF ApplyEntry, endVars

\* Whoever is asked for its vote has an empty log, as the candidate has.
LEMMA VotesAreFound ==
    ASSUME NEW l \in Servers, CountInv(l), NEW s \in Servers
    PROVE  ~HandleVoteRequestThrows(s)
<1> SUFFICES ASSUME HandleVoteRequestThrows(s) PROVE FALSE
  OBVIOUS
<1>1. /\ active = s /\ done < Len(batch) /\ batch[done + 1].rpc.type = "VOTE_REQUEST"
      /\ VoteThrows(s, batch[done + 1].rpc)
  BY DEF HandleVoteRequestThrows, Handling
<1>2. /\ StateTypeOK /\ CommitsUnder(l) /\ ExchangeInv(l)
  BY CountInvParts
<1>3. PICK i : i = done + 1
  OBVIOUS
<1>4. i \in 1 .. Len(batch) /\ i \in i .. Len(batch)
  <2>1. done + 1 \in 1 .. Len(batch)
    BY <1>1, <1>2, QueryFacts DEF StateTypeOK
  <2> QED BY <1>3, <2>1
<1>5. UnderCommit(l, commit_index[l], batch[i].source, active, batch[i].rpc)
  BY <1>1, <1>2, <1>4 DEF CommitsUnder
<1>6. batch[i].source = l /\ s \in Peers(l) /\ batch[i].rpc.last_log_index = -1
  BY <1>1, <1>3, <1>5 DEF UnderCommit, Peers
<1>7. [stage |-> "taken", place |-> i, rpc |-> batch[i].rpc] \in RequestsOn(l, s)
  BY <1>1, <1>3, <1>4, <1>6, LinkFacts DEF RequestsOn
<1>8. Size(s) = 0
  BY <1>2, <1>6, <1>7 DEF ExchangeInv, OneExchange
<1> QED BY <1>1, <1>3, <1>6, <1>8 DEF VoteThrows

\* No next index of the leader is negative.
LEMMA BeatsAreSafe ==
    ASSUME NEW l \in Servers, CountInv(l), NEW s \in Servers, LeaderBeats(s)
    PROVE  UNCHANGED aborted
<1>1. LogsInv(l) /\ ExchangeInv(l) /\ s = l
  BY CountInvParts DEF LogsInv, OnlyLeader, LeaderBeats
<1>2. {p \in Peers(s) : next_log_index[s][p] < 0} = {}
  <2>1. ASSUME NEW p \in Peers(l) PROVE ~(next_log_index[l][p] < 0)
    <3>1. /\ log_index_match[l][p] \in Int /\ log_index_match[l][p] >= -1
          /\ next_log_index[l][p] = log_index_match[l][p] + 1
      BY <1>1, PeerFacts DEF ExchangeInv, Indexes
    <3> QED BY <3>1
  <2> QED BY <1>1, <2>1
<1> QED BY <1>2 DEF LeaderBeats, endVars

\* No match index has run past the leader's log.
LEMMA CommitsAreSafe ==
    ASSUME NEW l \in Servers, CountInv(l), NServers >= 2, NEW s \in Servers, LeaderCommits(s)
    PROVE  UNCHANGED aborted
<1>1. StateTypeOK /\ LogsInv(l) /\ ExchangeInv(l) /\ s = l
  BY CountInvParts DEF LeadInv, LeaderCommits
<1>2. PICK i \in Int : i = commit_index[l] + 1
  BY <1>1 DEF StateTypeOK, LogTypeOK
<1>3. ~(Replicated(l, i) /\ i >= Size(l))
  <2> SUFFICES ASSUME i >= Size(l), Replicated(l, i) PROVE FALSE
    OBVIOUS
  <2>1. {p \in Peers(l) : log_index_match[l][p] >= i} = {}
    <3>1. ASSUME NEW p \in Peers(l) PROVE ~(log_index_match[l][p] >= i)
      <4>1. /\ log_index_match[l][p] \in Int /\ Size(p) \in Nat /\ Size(l) \in Nat
            /\ log_index_match[l][p] < Size(p) /\ Size(p) <= Size(l)
        BY <1>1, PeerFacts DEF ExchangeInv, Indexes
      <4> QED BY <4>1
    <3> QED BY <3>1
  <2>2. HasMajority(1 + 0)
    BY <2>1, FS_EmptySet DEF Replicated
  <2>3. 2 * 1 > NServers
    BY <2>2, MajorityIsHalf
  <2> QED BY <2>3, RanksAssumption
<1> QED BY <1>1, <1>2, <1>3 DEF LeaderCommits, endVars

LEMMA NoServerAborts ==
    ASSUME NEW l \in Servers, CountInv(l), NServers >= 2, NEW s \in Servers, ServerStep(s)
    PROVE  UNCHANGED aborted
<1> USE DEF stateVars, dataVars, endVars
<1>1. CASE StartUpdate(s) \/ ReceiveAll(s) \/ BeginHandling(s)
  BY <1>1 DEF StartUpdate, Begin, ReceiveAll, Receive, ReceiveGarbled, Drain, BeginHandling
<1>2. CASE ApplyEntry(s)
  BY <1>2, ApplyFinds
<1>3. CASE HandleQuery(s)
  BY <1>3, VotesAreFound DEF HandleQuery, StepDown, HandleHeartbeat, HandleVoteRequest,
     HandleAppendEntriesDenied, HandleAppendEntries, AnswerSearchLeader, DenyNewLogEntry,
     PassOver, QueryDone
<1>4. CASE HandleMessage(s)
  BY <1>4 DEF HandleMessage, HandleDisplayOrSpeed, HandleStop, HandleCrash, HandleRecover,
     HandleServerTimeout, QueryDone
<1>5. CASE LeaderBeats(s) \/ LeaderCommits(s)
  BY <1>5, BeatsAreSafe, CommitsAreSafe
<1>6. CASE Routine(s) /\ ~LeaderBeats(s) /\ ~LeaderCommits(s)
  BY <1>6 DEF Routine, NoRoutine, FollowerTimesOut, CandidateDefers, CandidateWins,
     CandidateWaits, CandidateTimesOut, CandidateCounts, LeaderSkipsBeat, LeaderAppends,
     LeaderCountsSuccess, LeaderBacksUp, LeaderPassesOver, QueryDone
<1> QED BY <1>1, <1>2, <1>3, <1>4, <1>5, <1>6 DEF ServerStep

----------------------------------------------------------------------------
(* From outside.  What clients and controller do to the servers, in one    *)
(* formula from which the steps the invariants are proved for follow.      *)

\* A request, an answer or an order; no server but those of C is crashed.
FromOutside(C, m, d) ==
    /\ m.type \in {"NEW_LOG_ENTRY", "SEARCH_LEADER", "MESSAGE", "MESSAGE_RESPONSE"}
    /\ m.term = -1
    /\ IsCrash(m) => d \in C
    /\ \A l \in Servers : Electable = {l} => GoodFor(l, m, d)

OnlyFromOutside(C) ==
    \A p \in Ranks, d \in Servers : \A i \in 1 .. Len(channel'[p][d]) :
        \/ \E j \in 1 .. Len(channel[p][d]) : channel'[p][d][i] = channel[p][d][j]
        \/ FromOutside(C, channel'[p][d][i], d)

OutsideMove(C) ==
    /\ UNCHANGED serverState
    /\ OutsideChannels
    /\ OnlyFromOutside(C)
    /\ \/ UNCHANGED <<active, phase, batch, done>>
       \/ EndUpdate
       \/ active' \in Clients /\ phase' # "lead"
    /\ \/ UNCHANGED aborted /\ (active' \in {active, Nobody} \/ active' \notin aborted)
       \/ \E c \in Clients : Abort(c)

ServerMove == \E s \in Servers : ServerStep(s)

LEMMA SentFromOutside ==
    ASSUME ChannelTypeOK, NEW C, NEW src \in Ranks, src \notin Servers, NEW dst,
           NEW m \in RPC, Quiet(m, src), dst \in Servers => FromOutside(C, m, dst),
           channel' = SendMessage(channel, src, dst, m, Ended)
    PROVE  ChannelTypeOK' /\ OutsideChannels /\ OnlyFromOutside(C)
<1>1. channel \in Channels
  BY DEF ChannelTypeOK, Channels
<1>2. ChannelTypeOK' /\ OutsideChannels
  BY <1>1, SendMessageFacts, OutsideChannelsFacts DEF ChannelTypeOK, Channels
<1>3. \A p, d \in Ranks : \A i \in 1 .. Len(channel'[p][d]) :
         \/ i \in 1 .. Len(channel[p][d]) /\ channel'[p][d][i] = channel[p][d][i]
         \/ p = src /\ d = dst /\ channel'[p][d][i] = m
  BY <1>1, SendMessageFacts
<1>4. OnlyFromOutside(C)
  BY <1>3, RanksFacts DEF OnlyFromOutside
<1> QED BY <1>2, <1>4

\* Nothing is sent.
LEMMA NothingSent ==
    ASSUME ChannelTypeOK, UNCHANGED channel, NEW C
    PROVE  ChannelTypeOK' /\ OutsideChannels /\ OnlyFromOutside(C)
BY TypeFrames, RanksFacts, OutsideChannelsFacts DEF OnlyFromOutside

LEMMA OutsideIsTurn ==
    ASSUME NEW C, OutsideMove(C) \/ ServerMove
    PROVE  /\ AnyTurn /\ TakesStep /\ PlainTurn
           /\ C = {} => SparingTurn
           /\ \A l \in Servers : l \notin C => MildTurn(l)
           /\ \A l \in Servers : Electable = {l} => AnyStep(l)
<1>1. CASE ServerMove
  BY <1>1 DEF ServerMove, AnyTurn, TakesStep, PlainTurn, SparingTurn, MildTurn, AnyStep
<1>2. CASE OutsideMove(C)
  <2>1. /\ \/ UNCHANGED <<active, phase, batch, done>>
           \/ active' = Nobody /\ EndUpdate /\ phase' # "lead"
           \/ active' \in Clients /\ phase' # "lead"
        /\ UNCHANGED <<active, phase, batch, done>> \/ active' \notin Servers
    BY <1>2, ClientFacts, RanksFacts DEF OutsideMove, EndUpdate
  <2>2. OutsideTurn /\ OutsideSends
    BY <1>2, <2>1 DEF OutsideMove, OutsideTurn, OutsideSends
  <2>3. OutsidePlain
    BY <1>2, <2>1 DEF OutsideMove, OnlyFromOutside, FromOutside, OutsidePlain
  <2>4. ASSUME C = {} PROVE OutsideSpares
    <3>1. \A m, d : FromOutside(C, m, d) => m.type # "APPEND_ENTRIES" /\ ~IsCrash(m)
      BY <2>4 DEF FromOutside
    <3> QED BY <1>2, <3>1 DEF OutsideMove, OnlyFromOutside, OutsideSpares
  <2>5. ASSUME NEW l \in Servers, l \notin C PROVE OutsideMild(l)
    <3>1. \A m, d : FromOutside(C, m, d) => UnderTerm(l, -1, m, d)
      BY <2>5 DEF FromOutside, UnderTerm
    <3> QED BY <1>2, <3>1 DEF OutsideMove, OnlyFromOutside, OutsideMild
  <2>6. ASSUME NEW l \in Servers, Electable = {l} PROVE OutsideStep(l)
    <3>1. \A m, d : FromOutside(C, m, d) => GoodFor(l, m, d)
      BY <2>6 DEF FromOutside
    <3>2. \A p \in Ranks, d \in Servers : \A i \in 1 .. Len(channel'[p][d]) :
             \/ \E j \in 1 .. Len(channel[p][d]) : channel'[p][d][i] = channel[p][d][j]
             \/ GoodFor(l, channel'[p][d][i], d)
      BY <1>2, <3>1 DEF OutsideMove, OnlyFromOutside
    <3> QED BY <1>2, <2>1, <3>2 DEF OutsideMove, OutsideStep
  <2> QED BY <2>2, <2>3, <2>4, <2>5, <2>6
          DEF AnyTurn, TakesStep, PlainTurn, SparingTurn, MildTurn, AnyStep
<1> QED BY <1>1, <1>2

\* One lemma for what is proved of any specification with such steps: the
\* invariant of one exchange is kept, and no process aborts but a client.
LEMMA CountInvTurn ==
    ASSUME NEW l \in Servers, Electable = {l}, MaxInFlight = 1, CountInv(l), StateTypeOK',
           NEW C, l \notin C, OutsideMove(C) \/ ServerMove
    PROVE  CountInv(l)'
BY OutsideIsTurn, CountInvStep
==============================================================================
