----------------------------- MODULE LeaderProofs -----------------------------
(***************************************************************************)
(* The servers when only one of them, l, may be elected: every log is a    *)
(* beginning of l's log, every file a beginning of its commands, and the   *)
(* servers implement ReplicatedLog.  For any number of clients, servers,   *)
(* requests and orders (crashes and recoveries among them), any number of  *)
(* RPCs under way, any terms.                                              *)
(*                                                                         *)
(* PrefixOfLeader is not inductive: entries merged into a log come out of  *)
(* a channel.  The invariant says what is under way: only l asks a server  *)
(* to append entries, never itself, and what it sends is a slice of its    *)
(* own log, which nobody shortens.                                         *)
(***************************************************************************)
EXTENDS RaftTypes

\* The entries of ae are those that follow its previous index in log.
SliceOf(ae, log) ==
    /\ ae.prev_log_index + 1 + Len(ae.entries) <= Len(log)
    /\ \A j \in 1 .. Len(ae.entries) : ae.entries[j] = log[ae.prev_log_index + 1 + j]

\* m may be on its way to server s.
GoodFor(l, m, s) ==
    /\ m.type = "APPEND_ENTRIES" => s # l /\ SliceOf(m, server_log[l])
    /\ m.type = "MESSAGE" => (m.kind = "SERVER_TIMEOUT" => s = l)

ChannelsGood(l) ==
    \A src \in Ranks, s \in Servers : \A i \in 1 .. Len(channel[src][s]) :
        GoodFor(l, channel[src][s][i], s)

BatchGood(l) ==
    /\ active \in Servers => \A i \in 1 .. Len(batch) : GoodFor(l, batch[i].rpc, active)
    /\ active = Nobody => batch = << >>

OnlyLeader(l) == \A s \in Servers : status[s] \in {"CANDIDATE", "LEADER"} => s = l

PrefixOf(l) == \A s \in Servers : IsPrefixOf(server_log[s], server_log[l])

\* The leader's routine is run by l.
LeadInv(l) == phase = "lead" => active = l

LogsInv(l) ==
    /\ StateTypeOK
    /\ OnlyLeader(l)
    /\ ChannelsGood(l)
    /\ BatchGood(l)
    /\ PrefixOf(l)

LeaderInv(l) == LogsInv(l) /\ LeadInv(l)

\* The ranks of the clients.
LEMMA ClientFacts ==
    /\ Clients \subseteq Ranks
    /\ Nobody \notin Clients
    /\ \A c \in Clients : c \notin Servers
BY RanksAssumption, SMT DEF Servers, Clients, Ranks, Nobody

----------------------------------------------------------------------------
(* Prefixes, and messages under way while l's log grows. *)

LEMMA PrefixFacts ==
    ASSUME NEW S, NEW a \in Seq(S), NEW b \in Seq(S), NEW c \in Seq(S)
    PROVE  /\ IsPrefixOf(a, a)
           /\ IsPrefixOf(a, b) /\ IsPrefixOf(b, c) => IsPrefixOf(a, c)
           /\ \A e \in S : IsPrefixOf(a, Append(a, e))
<1>1. Len(a) \in Nat /\ Len(b) \in Nat /\ Len(c) \in Nat
  BY LenProperties
<1>2. IsPrefixOf(a, a)
  BY <1>1 DEF IsPrefixOf
<1>3. IsPrefixOf(a, b) /\ IsPrefixOf(b, c) => IsPrefixOf(a, c)
  BY <1>1 DEF IsPrefixOf
<1>4. ASSUME NEW e \in S PROVE IsPrefixOf(a, Append(a, e))
  <2>1. /\ Len(Append(a, e)) = Len(a) + 1
        /\ \A i \in 1 .. Len(a) : Append(a, e)[i] = a[i]
    BY AppendProperties
  <2> QED BY <1>1, <2>1 DEF IsPrefixOf
<1> QED BY <1>2, <1>3, <1>4

Grows(l) == IsPrefixOf(server_log[l], server_log'[l])

LEMMA GoodStays ==
    ASSUME LogTypeOK, LogTypeOK', NEW l \in Servers, Grows(l),
           NEW m \in RPC, NEW s, GoodFor(l, m, s)
    PROVE  GoodFor(l, m, s)'
<1>1. Len(server_log[l]) \in Nat /\ Len(server_log'[l]) \in Nat
  <2>1. server_log[l] \in Seq(LogEntry) /\ server_log'[l] \in Seq(LogEntry)
    BY DEF LogTypeOK
  <2> QED BY <2>1, LenProperties
<1>2. CASE m.type = "APPEND_ENTRIES"
  <2>1. SliceOf(m, server_log[l]) /\ s # l
    BY <1>2 DEF GoodFor
  <2>2. m.prev_log_index \in Nat \cup {-1} /\ m.entries \in Seq(LogEntry)
    BY <1>2, RpcFields
  <2>3. Len(m.entries) \in Nat
    BY <2>2, LenProperties
  <2>4. SliceOf(m, server_log'[l])
    <3>1. m.prev_log_index + 1 + Len(m.entries) <= Len(server_log'[l])
      BY <1>1, <2>1, <2>2, <2>3 DEF SliceOf, Grows, IsPrefixOf
    <3>2. ASSUME NEW j \in 1 .. Len(m.entries)
          PROVE  m.entries[j] = server_log'[l][m.prev_log_index + 1 + j]
      <4>1. m.prev_log_index + 1 + j \in 1 .. Len(server_log[l])
        BY <1>1, <2>1, <2>2, <2>3 DEF SliceOf
      <4>2. m.entries[j] = server_log[l][m.prev_log_index + 1 + j]
        BY <2>1 DEF SliceOf
      <4> QED BY <4>1, <4>2 DEF Grows, IsPrefixOf
    <3> QED BY <3>1, <3>2 DEF SliceOf
  <2> QED BY <1>2, <2>1, <2>4 DEF GoodFor
<1>3. CASE m.type # "APPEND_ENTRIES"
  BY <1>3 DEF GoodFor
<1> QED BY <1>2, <1>3

LEMMA ChannelsStay ==
    ASSUME LogTypeOK, LogTypeOK', ChannelTypeOK', NEW l \in Servers, Grows(l), ChannelsGood(l),
           \A p \in Ranks, d \in Servers : \A i \in 1 .. Len(channel'[p][d]) :
              \/ \E j \in 1 .. Len(channel[p][d]) : channel'[p][d][i] = channel[p][d][j]
              \/ GoodFor(l, channel'[p][d][i], d)
    PROVE  ChannelsGood(l)'
<1>1. ASSUME NEW p \in Ranks, NEW d \in Servers, NEW i \in 1 .. Len(channel'[p][d])
      PROVE  GoodFor(l, channel[p][d][i], d)'
  <2>1. channel'[p][d][i] \in RPC
    <3>1. channel'[p][d] \in Seq(RPC)
      BY RanksFacts DEF ChannelTypeOK
    <3> QED BY <3>1, ElementOfSeq
  <2>2. PICK m \in RPC : m = channel'[p][d][i]
    BY <2>1
  <2>3. GoodFor(l, m, d)
    BY <2>2 DEF ChannelsGood
  <2>4. GoodFor(l, m, d)'
    BY <2>3, GoodStays
  <2> QED BY <2>2, <2>4 DEF GoodFor, SliceOf
<1> QED BY <1>1 DEF ChannelsGood

\* Sends of one message, of a message to each of several servers.
LEMMA ReplyGood ==
    ASSUME LogTypeOK, LogTypeOK', ChannelTypeOK, ChannelTypeOK', NEW l \in Servers, Grows(l),
           ChannelsGood(l), NEW s \in Ranks, NEW dst, NEW m \in RPC, GoodFor(l, m, dst),
           channel' = SendMessage(channel, s, dst, m, Ended)
    PROVE  ChannelsGood(l)'
<1>1. channel \in Channels
  BY DEF ChannelTypeOK, Channels
<1>2. \A p, d \in Ranks : \A i \in 1 .. Len(channel'[p][d]) :
         \/ i \in 1 .. Len(channel[p][d]) /\ channel'[p][d][i] = channel[p][d][i]
         \/ p = s /\ d = dst /\ channel'[p][d][i] = m
  BY <1>1, SendMessageFacts
<1>3. \A p \in Ranks, d \in Servers : \A i \in 1 .. Len(channel'[p][d]) :
         \/ \E j \in 1 .. Len(channel[p][d]) : channel'[p][d][i] = channel[p][d][j]
         \/ GoodFor(l, channel'[p][d][i], d)
  BY <1>2, RanksFacts
<1> QED BY <1>3, ChannelsStay

LEMMA BroadcastGood ==
    ASSUME LogTypeOK, LogTypeOK', ChannelTypeOK, ChannelTypeOK', NEW l \in Servers, Grows(l),
           ChannelsGood(l), NEW s \in Ranks, NEW dests \in SUBSET Ranks, NEW m,
           \A d \in dests : m[d] \in RPC /\ GoodFor(l, m[d], d),
           channel' = SendToAll(channel, s, dests, m, Ended)
    PROVE  ChannelsGood(l)'
<1>1. channel \in Channels
  BY DEF ChannelTypeOK, Channels
<1>2. \A p, d \in Ranks : \A i \in 1 .. Len(channel'[p][d]) :
         \/ i \in 1 .. Len(channel[p][d]) /\ channel'[p][d][i] = channel[p][d][i]
         \/ p = s /\ d \in dests /\ channel'[p][d][i] = m[d]
  BY <1>1, SendToAllFacts
<1>3. \A p \in Ranks, d \in Servers : \A i \in 1 .. Len(channel'[p][d]) :
         \/ \E j \in 1 .. Len(channel[p][d]) : channel'[p][d][i] = channel[p][d][j]
         \/ GoodFor(l, channel'[p][d][i], d)
  BY <1>2, RanksFacts
<1> QED BY <1>3, ChannelsStay

LEMMA NeutralGood ==
    ASSUME NEW l, NEW m, NEW s, m.type \notin {"APPEND_ENTRIES", "MESSAGE"}
    PROVE  GoodFor(l, m, s)
BY DEF GoodFor

\* The batch keeps good, and an update that ends has none.
LEMMA BatchStays ==
    ASSUME UpdateTypeOK, LogTypeOK, LogTypeOK', NEW l \in Servers, Grows(l), BatchGood(l)
    PROVE  /\ UNCHANGED <<active, batch>> => BatchGood(l)'
           /\ EndUpdate => BatchGood(l)'
<1>1. ASSUME UNCHANGED <<active, batch>> PROVE BatchGood(l)'
  <2>1. ASSUME active \in Servers, NEW i \in 1 .. Len(batch)
        PROVE  GoodFor(l, batch[i].rpc, active)'
    <3>1. batch[i].rpc \in RPC
      <4>1. batch[i] \in Query
        BY ElementOfSeq DEF UpdateTypeOK
      <4> QED BY <4>1 DEF Query
    <3>2. PICK m \in RPC, s \in {active} : m = batch[i].rpc /\ s = active
      BY <3>1
    <3>3. GoodFor(l, m, s)'
      BY <2>1, <3>2, GoodStays DEF BatchGood
    <3> QED BY <1>1, <3>2, <3>3 DEF GoodFor, SliceOf
  <2> QED BY <1>1, <2>1 DEF BatchGood
<1>2. ASSUME EndUpdate PROVE BatchGood(l)'
  <2>1. batch' = << >> /\ Len(batch') = 0
    BY <1>2, EmptySeq DEF EndUpdate
  <2> QED BY <2>1 DEF BatchGood
<1> QED BY <1>1, <1>2

----------------------------------------------------------------------------
(* The steps that leave the logs alone. *)

LEMMA SameLogs ==
    ASSUME LogTypeOK, NEW l \in Servers, PrefixOf(l), UNCHANGED server_log
    PROVE  Grows(l) /\ PrefixOf(l)'
<1>1. server_log[l] \in Seq(LogEntry)
  BY DEF LogTypeOK
<1> QED BY <1>1, PrefixFacts DEF Grows, PrefixOf, IsPrefixOf

LEMMA SameChannels ==
    ASSUME LogTypeOK, LogTypeOK', ChannelTypeOK, ChannelTypeOK', NEW l \in Servers, Grows(l),
           ChannelsGood(l), UNCHANGED channel
    PROVE  ChannelsGood(l)'
<1>1. \A p \in Ranks, d \in Servers : \A i \in 1 .. Len(channel'[p][d]) :
         \E j \in 1 .. Len(channel[p][d]) : channel'[p][d][i] = channel[p][d][j]
  OBVIOUS
<1> QED BY <1>1, ChannelsStay

\* A step inside an update that changes no log.
LEMMA QuietStep ==
    ASSUME NEW l \in Servers, LogsInv(l), StateTypeOK', UNCHANGED server_log,
           OnlyLeader(l)', UNCHANGED channel \/ ChannelsGood(l)',
           UNCHANGED <<active, batch>> \/ EndUpdate
    PROVE  LogsInv(l)'
<1>1. Grows(l) /\ PrefixOf(l)'
  BY SameLogs DEF LogsInv, StateTypeOK
<1>2. ChannelsGood(l)'
  BY <1>1, SameChannels DEF LogsInv, StateTypeOK
<1>3. BatchGood(l)'
  BY <1>1, BatchStays DEF LogsInv, StateTypeOK
<1> QED BY <1>1, <1>2, <1>3 DEF LogsInv

\* What such a step sends.
LEMMA QuietReply ==
    ASSUME NEW l \in Servers, LogsInv(l), StateTypeOK', UNCHANGED server_log,
           NEW s \in Servers, NEW dst, NEW m \in RPC,
           m.type \notin {"APPEND_ENTRIES", "MESSAGE"}, Reply(s, dst, m)
    PROVE  ChannelsGood(l)'
<1>1. Grows(l)
  BY SameLogs DEF LogsInv, StateTypeOK
<1>2. s \in Ranks /\ GoodFor(l, m, dst)
  BY RanksFacts, NeutralGood
<1> QED BY <1>1, <1>2, ReplyGood DEF LogsInv, StateTypeOK, Reply

LEMMA QuietBroadcast ==
    ASSUME NEW l \in Servers, LogsInv(l), StateTypeOK', UNCHANGED server_log,
           NEW s \in Servers, NEW dests \in SUBSET Servers, NEW m,
           \A d \in dests : m[d] \in RPC /\ GoodFor(l, m[d], d),
           channel' = SendToAll(channel, s, dests, m, Ended)
    PROVE  ChannelsGood(l)'
<1>1. Grows(l)
  BY SameLogs DEF LogsInv, StateTypeOK
<1>2. s \in Ranks /\ dests \in SUBSET Ranks
  BY RanksFacts
<1> QED BY <1>1, <1>2, BroadcastGood DEF LogsInv, StateTypeOK

\* The types of the answers a server gives.
LEMMA AnswerTypes ==
    /\ \A t, v : VoteResponse(t, v).type = "VOTE_RESPONSE"
    /\ \A t, b : AppendEntriesResponse(t, b).type = "APPEND_ENTRIES_RESPONSE"
    /\ \A b : NewLogEntryResponse(b).type = "NEW_LOG_ENTRY_RESPONSE"
    /\ \A r : SearchLeaderResponse(r).type = "SEARCH_LEADER_RESPONSE"
    /\ \A b : MessageResponse(b).type = "MESSAGE_RESPONSE"
    /\ \A t, c : Heartbeat(t, c).type = "HEARTBEAT"
    /\ \A t, r, i, u : VoteRequest(t, r, i, u).type = "VOTE_REQUEST"
BY DEF VoteResponse, AppendEntriesResponse, NewLogEntryResponse, SearchLeaderResponse,
       MessageResponse, Heartbeat, VoteRequest

LEMMA RoleSteps ==
    ASSUME NEW l \in Servers, StateTypeOK, OnlyLeader(l), NEW s \in Servers
    PROVE  /\ UNCHANGED status => OnlyLeader(l)'
           /\ SetAsFollower(s) => OnlyLeader(l)'
           /\ SetAsCandidate(s) /\ s = l => OnlyLeader(l)'
           /\ status' = [status EXCEPT ![s] = "DEAD"] => OnlyLeader(l)'
           /\ status' = [status EXCEPT ![s] = "LEADER"] /\ s = l => OnlyLeader(l)'
BY DEF StateTypeOK, ElectionTypeOK, OnlyLeader, SetAsFollower, SetAsCandidate

----------------------------------------------------------------------------
(* Receiving and applying. *)

LEMMA LogsReceive ==
    ASSUME NEW l \in Servers, LogsInv(l), StateTypeOK', NEW s \in Servers,
           StartUpdate(s) \/ ReceiveAll(s)
    PROVE  LogsInv(l)'
<1>1. UNCHANGED <<server_log, status>>
  BY DEF StartUpdate, ReceiveAll, serverState, logVars, electionVars
<1>2. Grows(l) /\ PrefixOf(l)' /\ OnlyLeader(l)'
  BY <1>1, SameLogs, RoleSteps DEF LogsInv, StateTypeOK
<1>3. CASE StartUpdate(s)
  <2>1. batch' = << >> /\ active' # Nobody /\ UNCHANGED channel
    BY <1>3, RanksFacts DEF StartUpdate, Begin, LogsInv, BatchGood
  <2>2. BatchGood(l)'
    BY <2>1, EmptySeq DEF BatchGood
  <2>3. ChannelsGood(l)'
    BY <1>2, <2>1, SameChannels DEF LogsInv, StateTypeOK
  <2> QED BY <1>2, <2>2, <2>3 DEF LogsInv
<1>4. CASE ReceiveAll(s)
  <2> s \in Ranks
    BY RanksFacts
  <2>1. PICK p \in Ranks : Receive(s, p) \/ ReceiveGarbled(s, p)
    BY <1>4 DEF ReceiveAll
  <2>2. PICK n \in 1 .. Len(channel[p][s]) : \E k \in 0 .. n : Drain(s, p, k, n)
    BY <2>1, ReceiveIsDrain DEF LogsInv, StateTypeOK
  <2>3. PICK k \in 0 .. n : Drain(s, p, k, n)
    BY <2>2
  <2>4. /\ \A q, d \in Ranks : \A i \in 1 .. Len(channel'[q][d]) :
               \E j \in 1 .. Len(channel[q][d]) : channel'[q][d][i] = channel[q][d][j]
        /\ \A i \in 1 .. Len(batch') :
               \/ i \in 1 .. Len(batch) /\ batch'[i] = batch[i]
               \/ \E j \in 1 .. Len(channel[p][s]) : batch'[i].rpc = channel[p][s][j]
    BY <2>3, DrainFacts DEF LogsInv, StateTypeOK
  <2>5. ChannelsGood(l)'
    <3>1. \A q \in Ranks, d \in Servers : \A i \in 1 .. Len(channel'[q][d]) :
             \E j \in 1 .. Len(channel[q][d]) : channel'[q][d][i] = channel[q][d][j]
      BY <2>4, RanksFacts
    <3> QED BY <1>2, <3>1, ChannelsStay DEF LogsInv, StateTypeOK
  <2>6. active' = s /\ active = s /\ s # Nobody
    BY <2>3, RanksFacts DEF Drain
  <2>7. ASSUME NEW i \in 1 .. Len(batch') PROVE GoodFor(l, batch'[i].rpc, s)
    BY <2>4, <2>6 DEF LogsInv, BatchGood, ChannelsGood
  <2>8. BatchGood(l)'
    BY <1>1, <2>6, <2>7 DEF BatchGood, GoodFor, SliceOf
  <2> QED BY <1>2, <2>5, <2>8 DEF LogsInv
<1> QED BY <1>3, <1>4

LEMMA LogsApply ==
    ASSUME NEW l \in Servers, LogsInv(l), StateTypeOK', NEW s \in Servers,
           ApplyEntry(s) \/ BeginHandling(s)
    PROVE  LogsInv(l)'
<1>1. CASE ApplyEntry(s)
  <2>1. UNCHANGED <<server_log, status>>
    BY <1>1 DEF ApplyEntry, logVars, electionVars
  <2>2. OnlyLeader(l)'
    BY <2>1, RoleSteps DEF LogsInv
  <2>3. UNCHANGED channel \/ Reply(s, Head(entries_queue[s]).source, NewLogEntryResponse(TRUE))
    BY <1>1 DEF ApplyEntry
  <2>4. UNCHANGED channel \/ ChannelsGood(l)'
    BY <2>1, <2>3, QuietReply, RpcFacts, AnswerTypes
  <2>5. UNCHANGED <<active, batch>> \/ EndUpdate
    BY <1>1 DEF ApplyEntry, Abort
  <2> QED BY <2>1, <2>2, <2>4, <2>5, QuietStep
<1>2. CASE BeginHandling(s)
  <2>1. UNCHANGED <<server_log, status, channel, active, batch>>
    BY <1>2 DEF BeginHandling, stateVars, dataVars, logVars, electionVars
  <2>2. OnlyLeader(l)'
    BY <2>1, RoleSteps DEF LogsInv
  <2> QED BY <2>1, <2>2, QuietStep
<1> QED BY <1>1, <1>2

----------------------------------------------------------------------------
(* Handling the queries. *)

\* Merging a slice of the leader's log into a beginning of it yields a
\* beginning of it: there is no conflict, nothing is dropped.
LEMMA MergeOfSlice ==
    ASSUME NEW old \in Seq(LogEntry), NEW whole \in Seq(LogEntry), IsPrefixOf(old, whole),
           NEW ae, ae.entries \in Seq(LogEntry), ae.prev_log_index \in Nat \cup {-1},
           ae.prev_log_index < Len(old), SliceOf(ae, whole)
    PROVE  /\ IsPrefixOf(MergedLog(old, ae.prev_log_index, ae.entries), whole)
           /\ Len(MergedLog(old, ae.prev_log_index, ae.entries)) =
                 ae.prev_log_index + 1 + Len(ae.entries)
<1> DEFINE prev == ae.prev_log_index
           new == ae.entries
           size == prev + 1 + Len(new)
           merged == [i \in 1 .. size |-> IF i <= Len(old) THEN old[i] ELSE new[i - prev - 1]]
<1>1. /\ Len(old) \in Nat /\ Len(whole) \in Nat /\ Len(new) \in Nat
      /\ prev \in Int /\ prev >= -1 /\ size \in Nat
  BY LenProperties
<1>2. size <= Len(whole) /\ \A j \in 1 .. Len(new) : new[j] = whole[prev + 1 + j]
  BY DEF SliceOf
<1>3. Len(old) <= Len(whole) /\ \A i \in 1 .. Len(old) : old[i] = whole[i]
  BY DEF IsPrefixOf
<1>4. ASSUME NEW i \in (prev + 2) .. size PROVE new[i - prev - 1] = whole[i]
  <2> HIDE DEF prev, new
  <2>1. i - prev - 1 \in 1 .. Len(new) /\ prev + 1 + (i - prev - 1) = i
    BY <1>1
  <2> QED BY <1>2, <2>1
<1>5. Conflicts(old, prev, new) = {}
  <2> SUFFICES ASSUME NEW i \in (prev + 2) .. Least(size, Len(old))
               PROVE  old[i].term = new[i - prev - 1].term
    BY DEF Conflicts
  <2> HIDE DEF prev, new
  <2>1. i \in (prev + 2) .. size /\ i \in 1 .. Len(old)
    BY <1>1 DEF Least
  <2> QED BY <1>3, <1>4, <2>1
<1>6. MergedLog(old, prev, new) = merged
  BY <1>5 DEF MergedLog
<1>7. ASSUME NEW i \in 1 .. size PROVE merged[i] = whole[i]
  <2>1. CASE i <= Len(old)
    BY <1>1, <1>3, <2>1
  <2>2. CASE i > Len(old)
    <3>1. i \in (prev + 2) .. size
      BY <1>1, <2>2
    <3>2. merged[i] = new[i - prev - 1]
      BY <1>1, <2>2
    <3> QED BY <1>4, <3>1, <3>2
  <2> QED BY <1>1, <2>1, <2>2
<1>8. Len(merged) = size
  <2> HIDE DEF new, prev
  <2> QED BY <1>1
<1> HIDE DEF merged
<1>9. Len(MergedLog(old, ae.prev_log_index, ae.entries)) =
         ae.prev_log_index + 1 + Len(ae.entries)
  BY <1>6, <1>8
<1> HIDE DEF size
<1> QED BY <1>2, <1>6, <1>7, <1>8, <1>9 DEF IsPrefixOf

LEMMA LogsMerge ==
    ASSUME NEW l \in Servers, LogsInv(l), StateTypeOK', NEW s \in Servers, HandleAppendEntries(s)
    PROVE  LogsInv(l)'
<1> DEFINE ae == batch[done + 1].rpc
           merged == MergedLog(server_log[s], ae.prev_log_index, ae.entries)
<1>1. /\ active = s /\ done < Len(batch) /\ ae.type = "APPEND_ENTRIES" /\ ~DeniesEntries(s, ae)
      /\ server_log' = [server_log EXCEPT ![s] = merged]
      /\ Reply(s, ae.leader_rank, AppendEntriesResponse(ae.term, TRUE))
      /\ UNCHANGED <<status, active, batch>>
  BY DEF HandleAppendEntries, Handling, NextQuery, electionVars
<1>2. done + 1 \in 1 .. Len(batch) /\ ae \in RPC
  BY <1>1, QueryFacts DEF LogsInv, StateTypeOK
<1>3. s # l /\ SliceOf(ae, server_log[l])
  BY <1>1, <1>2 DEF LogsInv, BatchGood, GoodFor
<1>4. ae.prev_log_index \in Nat \cup {-1} /\ ae.entries \in Seq(LogEntry) /\ ae.term \in Int
  <2> HIDE DEF ae
  <2> QED BY <1>1, <1>2, RpcFields
<1>5. \A p \in Servers : server_log[p] \in Seq(LogEntry) /\ Len(server_log[p]) \in Nat
  <2>1. \A p \in Servers : server_log[p] \in Seq(LogEntry)
    BY DEF LogsInv, StateTypeOK, LogTypeOK
  <2> QED BY <2>1, LenProperties
<1>6. ae.prev_log_index < Len(server_log[s])
  <2> HIDE DEF ae
  <2> QED BY <1>1, <1>4, <1>5 DEF DeniesEntries, Size
<1>7. IsPrefixOf(merged, server_log[l])
  <2>1. IsPrefixOf(server_log[s], server_log[l])
    BY DEF LogsInv, PrefixOf
  <2> HIDE DEF ae
  <2> QED BY <1>3, <1>4, <1>5, <1>6, <2>1, MergeOfSlice
<1>8. server_log'[l] = server_log[l] /\ server_log'[s] = merged
      /\ \A p \in Servers \ {s} : server_log'[p] = server_log[p]
  <2> HIDE DEF merged
  <2> QED BY <1>1, <1>3 DEF LogsInv, StateTypeOK, LogTypeOK
<1>9. PrefixOf(l)' /\ Grows(l)
  <2> HIDE DEF merged
  <2> QED BY <1>5, <1>7, <1>8, PrefixFacts DEF LogsInv, PrefixOf, Grows
<1>10. ChannelsGood(l)'
  <2>1. AppendEntriesResponse(ae.term, TRUE) \in RPC
    BY <1>4, RpcFacts
  <2>2. GoodFor(l, AppendEntriesResponse(ae.term, TRUE), ae.leader_rank)
    BY AnswerTypes, NeutralGood
  <2> HIDE DEF ae
  <2> QED BY <1>1, <1>9, <2>1, <2>2, RanksFacts, ReplyGood DEF LogsInv, StateTypeOK, Reply
<1>11. BatchGood(l)'
  BY <1>1, <1>9, BatchStays DEF LogsInv, StateTypeOK
<1>12. OnlyLeader(l)'
  BY <1>1, RoleSteps DEF LogsInv
<1> QED BY <1>9, <1>10, <1>11, <1>12 DEF LogsInv

LEMMA LogsHandleQuery ==
    ASSUME NEW l \in Servers, LogsInv(l), StateTypeOK', NEW s \in Servers, HandleQuery(s)
    PROVE  LogsInv(l)'
<1> DEFINE q == batch[done + 1]
<1> USE DEF electionVars, logVars, dataVars, stateVars
<1>1. current_term[s] \in Int
  BY DEF LogsInv, StateTypeOK, ElectionTypeOK
<1>2. ASSUME UNCHANGED <<server_log, status, active, batch>>,
             \/ UNCHANGED channel
             \/ \E dst, m : /\ m \in RPC /\ m.type \notin {"APPEND_ENTRIES", "MESSAGE"}
                           /\ Reply(s, dst, m)
      PROVE  LogsInv(l)'
  <2>1. OnlyLeader(l)'
    BY <1>2, RoleSteps DEF LogsInv
  <2>2. UNCHANGED channel \/ ChannelsGood(l)'
    BY <1>2, QuietReply
  <2> QED BY <1>2, <2>1, <2>2, QuietStep
<1>3. CASE StepDown(s)
  <2>1. UNCHANGED <<server_log, channel, active, batch>> /\ SetAsFollower(s)
    BY <1>3 DEF StepDown
  <2>2. OnlyLeader(l)'
    BY <2>1, RoleSteps DEF LogsInv
  <2> QED BY <2>1, <2>2, QuietStep
<1>4. CASE HandleHeartbeat(s)
  BY <1>2, <1>4 DEF HandleHeartbeat, NextQuery
<1>5. CASE HandleVoteRequest(s)
  <2>1. GrantsVote(s, q.rpc) \in BOOLEAN
    BY DEF GrantsVote
  <2>2. VoteResponse(current_term[s], GrantsVote(s, q.rpc)) \in RPC
    BY <1>1, <2>1, RpcFacts
  <2>3. /\ Reply(s, q.rpc.candidate_rank, VoteResponse(current_term[s], GrantsVote(s, q.rpc)))
        /\ UNCHANGED <<server_log, status, active, batch>>
    BY <1>5 DEF HandleVoteRequest, NextQuery
  <2> QED BY <1>2, <2>2, <2>3, AnswerTypes
<1>6. CASE HandleVoteRequestThrows(s)
  <2>1. UNCHANGED <<server_log, status, channel>> /\ EndUpdate
    BY <1>6 DEF HandleVoteRequestThrows, Abort
  <2>2. OnlyLeader(l)'
    BY <2>1, RoleSteps DEF LogsInv
  <2> QED BY <2>1, <2>2, QuietStep
<1>7. CASE HandleAppendEntriesDenied(s)
  <2>1. AppendEntriesResponse(current_term[s], FALSE) \in RPC
    BY <1>1, RpcFacts
  <2>2. /\ Reply(s, q.rpc.leader_rank, AppendEntriesResponse(current_term[s], FALSE))
        /\ UNCHANGED <<server_log, status, active, batch>>
    BY <1>7 DEF HandleAppendEntriesDenied, QueryDone, NextQuery
  <2> QED BY <1>2, <2>1, <2>2, AnswerTypes
<1>8. CASE HandleAppendEntries(s)
  BY <1>8, LogsMerge
<1>9. CASE AnswerSearchLeader(s)
  <2>1. /\ Reply(s, q.source, SearchLeaderResponse(s))
        /\ UNCHANGED <<server_log, status, active, batch>>
    BY <1>9 DEF AnswerSearchLeader, QueryDone, NextQuery
  <2>2. SearchLeaderResponse(s) \in RPC
    BY RpcFacts
  <2> QED BY <1>2, <2>1, <2>2, AnswerTypes
<1>10. CASE DenyNewLogEntry(s)
  <2>1. /\ Reply(s, q.source, NewLogEntryResponse(FALSE))
        /\ UNCHANGED <<server_log, status, active, batch>>
    BY <1>10 DEF DenyNewLogEntry, QueryDone, NextQuery
  <2>2. NewLogEntryResponse(FALSE) \in RPC
    BY RpcFacts
  <2> QED BY <1>2, <2>1, <2>2, AnswerTypes
<1>11. CASE PassOver(s)
  BY <1>2, <1>11 DEF PassOver, QueryDone, NextQuery
<1> QED BY <1>3, <1>4, <1>5, <1>6, <1>7, <1>8, <1>9, <1>10, <1>11 DEF HandleQuery

\* A timed out follower is l, the only one ordered to, and asks for votes.
LEMMA VotesGood ==
    ASSUME NEW l \in Servers, LogsInv(l), StateTypeOK', NEW s \in Servers,
           UNCHANGED server_log, channel' = RequestVotes(s)
    PROVE  ChannelsGood(l)'
<1> DEFINE request == VoteRequest(current_term[s] + 1, s, Size(s) - 1, TermAt(s, Size(s) - 1))
           m == [p \in Peers(s) |-> request]
<1>1. request \in RPC
  BY VoteRequestType DEF LogsInv, StateTypeOK
<1>2. request.type = "VOTE_REQUEST"
  BY AnswerTypes
<1>3. \A d \in Peers(s) : m[d] \in RPC /\ GoodFor(l, m[d], d)
  <2> HIDE DEF request
  <2> QED BY <1>1, <1>2, NeutralGood
<1>4. channel' = SendToAll(channel, s, Peers(s), m, Ended) /\ Peers(s) \in SUBSET Servers
  BY DEF RequestVotes, Peers
<1> HIDE DEF m
<1> QED BY <1>3, <1>4, QuietBroadcast

\* The same when an answer follows the requests.
LEMMA AnswerAfterGood ==
    ASSUME NEW l \in Servers, LogsInv(l), StateTypeOK', NEW s \in Servers, NEW dst, NEW m \in RPC,
           GoodFor(l, m, dst), UNCHANGED server_log, NEW asked \in Channels,
           \A p, d \in Ranks : \A i \in 1 .. Len(asked[p][d]) :
              \/ \E j \in 1 .. Len(channel[p][d]) : asked[p][d][i] = channel[p][d][j]
              \/ asked[p][d][i].type = "VOTE_REQUEST",
           channel' = SendMessage(asked, s, dst, m, Ended)
    PROVE  ChannelsGood(l)'
<1>1. \A p, d \in Ranks : \A i \in 1 .. Len(channel'[p][d]) :
         \/ i \in 1 .. Len(asked[p][d]) /\ channel'[p][d][i] = asked[p][d][i]
         \/ p = s /\ d = dst /\ channel'[p][d][i] = m
  BY RanksFacts, SendMessageFacts
<1>2. ASSUME NEW p \in Ranks, NEW d \in Servers, NEW i \in 1 .. Len(channel'[p][d])
      PROVE  \/ \E j \in 1 .. Len(channel[p][d]) : channel'[p][d][i] = channel[p][d][j]
             \/ GoodFor(l, channel'[p][d][i], d)
  <2>1. d \in Ranks
    BY RanksFacts
  <2>2. CASE i \in 1 .. Len(asked[p][d]) /\ channel'[p][d][i] = asked[p][d][i]
    <3>1. CASE asked[p][d][i].type = "VOTE_REQUEST"
      BY <2>2, <3>1, NeutralGood
    <3> QED BY <2>1, <2>2, <3>1
  <2>3. CASE d = dst /\ channel'[p][d][i] = m
    BY <2>3
  <2> QED BY <1>1, <2>1, <2>2, <2>3
<1>3. Grows(l)
  BY SameLogs DEF LogsInv, StateTypeOK
<1> QED BY <1>2, <1>3, ChannelsStay DEF LogsInv, StateTypeOK

LEMMA VotesAndAnswerGood ==
    ASSUME NEW l \in Servers, LogsInv(l), StateTypeOK', NEW s \in Servers, NEW dst,
           UNCHANGED server_log,
           channel' = SendMessage(RequestVotes(s), s, dst, MessageResponse(TRUE), Ended)
    PROVE  ChannelsGood(l)'
<1> DEFINE request == VoteRequest(current_term[s] + 1, s, Size(s) - 1, TermAt(s, Size(s) - 1))
           m == [p \in Peers(s) |-> request]
<1>1. request \in RPC /\ request.type = "VOTE_REQUEST"
  BY VoteRequestType, AnswerTypes DEF LogsInv, StateTypeOK
<1>2. /\ s \in Ranks /\ channel \in Channels /\ Peers(s) \in SUBSET Ranks
      /\ RequestVotes(s) \in Channels
  BY RanksFacts, RequestVotesTypes DEF LogsInv, StateTypeOK, ChannelTypeOK, Channels, Peers
<1>3. \A d \in Peers(s) : m[d] \in RPC /\ m[d].type = "VOTE_REQUEST"
  <2> HIDE DEF request
  <2> QED BY <1>1
<1>4. PICK asked \in Channels : asked = RequestVotes(s)
  BY <1>2
<1>5. asked = SendToAll(channel, s, Peers(s), m, Ended)
  BY <1>4 DEF RequestVotes
<1> HIDE DEF m
<1>6. \A p, d \in Ranks : \A i \in 1 .. Len(asked[p][d]) :
         \/ i \in 1 .. Len(channel[p][d]) /\ asked[p][d][i] = channel[p][d][i]
         \/ p = s /\ d \in Peers(s) /\ asked[p][d][i] = m[d]
  BY <1>2, <1>3, <1>5, SendToAllFacts
<1>7. \A p, d \in Ranks : \A i \in 1 .. Len(asked[p][d]) :
         \/ \E j \in 1 .. Len(channel[p][d]) : asked[p][d][i] = channel[p][d][j]
         \/ asked[p][d][i].type = "VOTE_REQUEST"
  BY <1>3, <1>6
<1>8. MessageResponse(TRUE) \in RPC /\ GoodFor(l, MessageResponse(TRUE), dst)
  BY RpcFacts, AnswerTypes, NeutralGood
<1>9. channel' = SendMessage(asked, s, dst, MessageResponse(TRUE), Ended)
  BY <1>4
<1> QED BY <1>7, <1>8, <1>9, AnswerAfterGood

LEMMA LogsHandleMessage ==
    ASSUME NEW l \in Servers, LogsInv(l), StateTypeOK', NEW s \in Servers, HandleMessage(s)
    PROVE  LogsInv(l)'
<1> DEFINE q == batch[done + 1]
<1> USE DEF electionVars, logVars, dataVars, stateVars
<1>1. UNCHANGED <<server_log, active, batch>> /\ active = s /\ done < Len(batch)
  BY DEF HandleMessage, HandleDisplayOrSpeed, HandleStop, HandleCrash, HandleRecover,
         HandleServerTimeout, QueryDone, NextQuery, Ordered, Handling
<1>2. ASSUME NEW b \in BOOLEAN, Answer(s, b) PROVE ChannelsGood(l)'
  BY <1>1, <1>2, RpcFacts, AnswerTypes, QuietReply DEF Answer
<1>3. CASE HandleDisplayOrSpeed(s)
  <2>1. ChannelsGood(l)'
    BY <1>2, <1>3 DEF HandleDisplayOrSpeed
  <2>2. OnlyLeader(l)'
    BY <1>3, RoleSteps DEF HandleDisplayOrSpeed, QueryDone, LogsInv
  <2> QED BY <1>1, <2>1, <2>2, QuietStep
<1>4. CASE HandleStop(s)
  <2>1. ChannelsGood(l)'
    BY <1>2, <1>4 DEF HandleStop
  <2>2. OnlyLeader(l)'
    BY <1>4, RoleSteps DEF HandleStop, LogsInv
  <2> QED BY <1>1, <2>1, <2>2, QuietStep
<1>5. CASE HandleCrash(s)
  <2>1. ChannelsGood(l)'
    <3>1. Answer(s, status[s] # "DEAD") /\ (status[s] # "DEAD") \in BOOLEAN
      BY <1>5 DEF HandleCrash
    <3> QED BY <1>2, <3>1
  <2>2. status' = [status EXCEPT ![s] = "DEAD"] \/ UNCHANGED status
    BY <1>5 DEF HandleCrash
  <2>3. OnlyLeader(l)'
    BY <2>2, RoleSteps DEF LogsInv
  <2> QED BY <1>1, <2>1, <2>3, QuietStep
<1>6. CASE HandleRecover(s)
  <2>1. ChannelsGood(l)'
    <3>1. Answer(s, status[s] = "DEAD") /\ (status[s] = "DEAD") \in BOOLEAN
      BY <1>6 DEF HandleRecover
    <3> QED BY <1>2, <3>1
  <2>2. SetAsFollower(s) \/ UNCHANGED status
    BY <1>6 DEF HandleRecover
  <2>3. OnlyLeader(l)'
    BY <2>2, RoleSteps DEF LogsInv
  <2> QED BY <1>1, <2>1, <2>3, QuietStep
<1>7. CASE HandleServerTimeout(s)
  <2>1. s = l
    <3>1. q.rpc.type = "MESSAGE" /\ q.rpc.kind = "SERVER_TIMEOUT"
      BY <1>7 DEF HandleServerTimeout, Ordered, Handling
    <3>2. done + 1 \in 1 .. Len(batch)
      BY <1>1, QueryFacts DEF LogsInv, StateTypeOK
    <3> QED BY <1>1, <3>1, <3>2 DEF LogsInv, BatchGood, GoodFor
  <2>2. CASE status[s] = "FOLLOWER"
    <3>1. /\ SetAsCandidate(s)
          /\ channel' = SendMessage(RequestVotes(s), s, q.source, MessageResponse(TRUE), Ended)
      BY <1>7, <2>2 DEF HandleServerTimeout
    <3>2. OnlyLeader(l)'
      BY <2>1, <3>1, RoleSteps DEF LogsInv
    <3>3. ChannelsGood(l)'
      BY <1>1, <3>1, VotesAndAnswerGood
    <3> QED BY <1>1, <3>2, <3>3, QuietStep
  <2>3. CASE status[s] # "FOLLOWER"
    <3>1. ChannelsGood(l)' /\ UNCHANGED status
      BY <1>2, <1>7, <2>3 DEF HandleServerTimeout
    <3>2. OnlyLeader(l)'
      BY <3>1, RoleSteps DEF LogsInv
    <3> QED BY <1>1, <3>1, <3>2, QuietStep
  <2> QED BY <2>2, <2>3
<1> QED BY <1>3, <1>4, <1>5, <1>6, <1>7 DEF HandleMessage

----------------------------------------------------------------------------
(* The routines. *)

LEMMA LogsElection ==
    ASSUME NEW l \in Servers, Electable = {l}, LogsInv(l), StateTypeOK', NEW s \in Servers,
           \/ NoRoutine(s) \/ FollowerTimesOut(s) \/ CandidateDefers(s) \/ CandidateWins(s)
           \/ CandidateWaits(s) \/ CandidateTimesOut(s)
    PROVE  LogsInv(l)'
<1> USE DEF electionVars, logVars, dataVars, stateVars
<1>1. UNCHANGED server_log /\ EndUpdate
  BY DEF NoRoutine, FollowerTimesOut, CandidateDefers, CandidateWins, CandidateWaits,
         CandidateTimesOut, CandidateCounts
<1>2. ASSUME UNCHANGED channel, UNCHANGED status \/ SetAsFollower(s) PROVE LogsInv(l)'
  <2>1. OnlyLeader(l)'
    BY <1>2, RoleSteps DEF LogsInv
  <2> QED BY <1>1, <1>2, <2>1, QuietStep
<1>3. ASSUME ElectionTimeout(s), SetAsCandidate(s), channel' = RequestVotes(s) PROVE LogsInv(l)'
  <2>1. s = l
    BY <1>3 DEF ElectionTimeout
  <2>2. OnlyLeader(l)'
    BY <1>3, <2>1, RoleSteps DEF LogsInv
  <2>3. ChannelsGood(l)'
    BY <1>1, <1>3, VotesGood
  <2> QED BY <1>1, <2>2, <2>3, QuietStep
<1>4. CASE NoRoutine(s)
  BY <1>2, <1>4 DEF NoRoutine
<1>5. CASE FollowerTimesOut(s)
  BY <1>3, <1>5 DEF FollowerTimesOut
<1>6. CASE CandidateDefers(s)
  BY <1>2, <1>6 DEF CandidateDefers
<1>7. CASE CandidateWins(s)
  <2> DEFINE heartbeat == Heartbeat(current_term[s], commit_index[s])
             m == [p \in Peers(s) |-> heartbeat]
  <2>1. s = l
    BY <1>7 DEF CandidateWins, CandidateCounts, LogsInv, OnlyLeader
  <2>2. OnlyLeader(l)'
    BY <1>7, <2>1, RoleSteps DEF CandidateWins, LogsInv
  <2>3. heartbeat \in RPC /\ heartbeat.type = "HEARTBEAT"
    <3>1. current_term[s] \in Int /\ commit_index[s] \in Int
      BY DEF LogsInv, StateTypeOK, ElectionTypeOK, LogTypeOK
    <3> QED BY <3>1, RpcFacts, AnswerTypes
  <2>4. \A d \in Peers(s) : m[d] \in RPC /\ GoodFor(l, m[d], d)
    <3> HIDE DEF heartbeat
    <3> QED BY <2>3, NeutralGood
  <2>5. channel' = SendToAll(channel, s, Peers(s), m, Ended) /\ Peers(s) \in SUBSET Servers
    BY <1>7 DEF CandidateWins, Peers
  <2>6. ChannelsGood(l)'
    <3> HIDE DEF m
    <3> QED BY <1>1, <2>4, <2>5, QuietBroadcast
  <2> QED BY <1>1, <2>2, <2>6, QuietStep
<1>8. CASE CandidateWaits(s)
  BY <1>2, <1>8 DEF CandidateWaits
<1>9. CASE CandidateTimesOut(s)
  BY <1>3, <1>9 DEF CandidateTimesOut
<1> QED BY <1>4, <1>5, <1>6, <1>7, <1>8, <1>9

\* What the leader beats is a slice of its log, or a heartbeat.
LEMMA BeatGood ==
    ASSUME NEW l \in Servers, LogsInv(l), NEW p \in Peers(l), next_log_index[l][p] >= 0
    PROVE  GoodFor(l, BeatTo(l, p), p)
<1> DEFINE next == next_log_index[l][p]
           sent == SubSeq(server_log[l], next + 1, Size(l))
           ae == AppendEntries(current_term[l], l, next - 1, TermAt(l, next - 1), sent,
                               commit_index[l])
<1>1. p \in Servers /\ p # l
  BY DEF Peers
<1>2. next \in Int
  BY <1>1 DEF LogsInv, StateTypeOK, LeaderTypeOK
<1>3. Size(l) \in Nat /\ server_log[l] \in Seq(LogEntry)
  BY LogFacts DEF LogsInv, StateTypeOK
<1>4. CASE Size(l) - 1 >= next
  <2>1. BeatTo(l, p) = ae
    BY <1>4 DEF BeatTo
  <2>2. ae.type = "APPEND_ENTRIES" /\ ae.prev_log_index = next - 1 /\ ae.entries = sent
    BY DEF AppendEntries
  <2>3. /\ Len(sent) = Size(l) - next
        /\ \A j \in 1 .. Len(sent) : sent[j] = server_log[l][next + j]
    <3>1. \A i \in next + 1 .. Size(l) : server_log[l][i] \in LogEntry
      BY <1>2, <1>3, ElementOfSeq DEF Size
    <3> HIDE DEF next
    <3>2. /\ Len(sent) = IF next + 1 <= Size(l) THEN Size(l) - (next + 1) + 1 ELSE 0
          /\ \A j \in 1 .. Size(l) - (next + 1) + 1 : sent[j] = server_log[l][next + 1 + j - 1]
      BY <1>2, <1>3, <3>1, SubSeqProperties
    <3>3. Size(l) - (next + 1) + 1 = Size(l) - next /\ next + 1 <= Size(l)
      BY <1>2, <1>3, <1>4
    <3>4. ASSUME NEW j \in 1 .. Len(sent) PROVE sent[j] = server_log[l][next + j]
      <4>1. next + 1 + j - 1 = next + j /\ j \in 1 .. Size(l) - (next + 1) + 1
        BY <1>2, <1>3, <3>2, <3>3
      <4> HIDE DEF sent
      <4> QED BY <3>2, <4>1
    <3> HIDE DEF sent
    <3> QED BY <3>2, <3>3, <3>4
  <2> HIDE DEF ae, sent, next
  <2>4. SliceOf(ae, server_log[l])
    BY <1>2, <1>3, <2>2, <2>3 DEF SliceOf, Size
  <2> QED BY <1>1, <2>1, <2>2, <2>4 DEF GoodFor
<1>5. CASE ~(Size(l) - 1 >= next)
  <2>1. BeatTo(l, p) = Heartbeat(current_term[l], commit_index[l])
    BY <1>5 DEF BeatTo
  <2> QED BY <2>1, AnswerTypes, NeutralGood
<1> QED BY <1>4, <1>5

LEMMA LogsBeat ==
    ASSUME NEW l \in Servers, LogsInv(l), StateTypeOK', NEW s \in Servers, LeaderBeats(s)
    PROVE  LogsInv(l)'
<1> DEFINE unsafe == {p \in Peers(s) : next_log_index[s][p] < 0}
           reached == {p \in Peers(s) : \A u \in unsafe : p < u}
           m == [p \in reached |-> BeatTo(s, p)]
<1>1. s = l
  BY DEF LeaderBeats, LogsInv, OnlyLeader
<1>2. ASSUME NEW p \in reached PROVE m[p] \in RPC /\ GoodFor(l, m[p], p)
  <2>1. p \in Peers(l) /\ p \in Servers /\ p \in Int /\ p \notin unsafe
    BY <1>1, RanksFacts DEF Peers
  <2>2. next_log_index[l][p] \in Int
    BY <2>1 DEF LogsInv, StateTypeOK, LeaderTypeOK
  <2>3. next_log_index[l][p] >= 0
    BY <1>1, <2>1, <2>2
  <2>4. BeatTo(l, p) \in RPC /\ GoodFor(l, BeatTo(l, p), p)
    BY <2>1, <2>3, BeatToTypes, BeatGood DEF LogsInv, StateTypeOK
  <2> QED BY <1>1, <2>4
<1>3. /\ channel' = SendToAll(channel, s, reached, m, Ended)
      /\ reached \in SUBSET Servers
      /\ UNCHANGED <<server_log, status>>
      /\ UNCHANGED <<active, batch>> \/ EndUpdate
  BY DEF LeaderBeats, Peers, Abort, logVars, electionVars
<1>4. ChannelsGood(l)'
  <2> HIDE DEF m, reached
  <2> QED BY <1>2, <1>3, QuietBroadcast
<1>5. OnlyLeader(l)'
  BY <1>3, RoleSteps DEF LogsInv
<1> QED BY <1>3, <1>4, <1>5, QuietStep

LEMMA LogsAppend ==
    ASSUME NEW l \in Servers, Electable = {l}, LogsInv(l), StateTypeOK', NEW s \in Servers,
           LeaderAppends(s), s = l
    PROVE  LogsInv(l)'
<1> DEFINE entry == [term |-> current_term[s], command |-> batch[done + 1].rpc.command]
<1>1. /\ server_log' = [server_log EXCEPT ![s] = Append(server_log[s], entry)]
      /\ UNCHANGED <<status, channel, active, batch>>
  BY DEF LeaderAppends, electionVars, NextQuery
<1> HIDE DEF entry
<1>2. \A p \in Servers : server_log[p] \in Seq(LogEntry) /\ server_log'[p] \in Seq(LogEntry)
  BY DEF LogsInv, StateTypeOK, LogTypeOK
<1>3. server_log'[l] = Append(server_log[l], entry)
      /\ \A p \in Servers \ {l} : server_log'[p] = server_log[p]
  BY <1>1 DEF LogsInv, StateTypeOK, LogTypeOK
<1>4. Grows(l)
  <2>1. Len(server_log[l]) \in Nat
    BY <1>2, LenProperties
  <2>2. /\ Len(Append(server_log[l], entry)) = Len(server_log[l]) + 1
        /\ \A i \in 1 .. Len(server_log[l]) : Append(server_log[l], entry)[i] = server_log[l][i]
    BY <1>2, <2>1
  <2> QED BY <1>3, <2>1, <2>2 DEF Grows, IsPrefixOf
<1>5. PrefixOf(l)'
  BY <1>2, <1>3, <1>4, PrefixFacts DEF LogsInv, PrefixOf, Grows
<1>6. ChannelsGood(l)' /\ BatchGood(l)' /\ OnlyLeader(l)'
  BY <1>1, <1>4, SameChannels, BatchStays, RoleSteps DEF LogsInv, StateTypeOK
<1> QED BY <1>5, <1>6 DEF LogsInv

----------------------------------------------------------------------------
(* The steps of the program: those of the servers, and those of anyone else, *)
(* which leave the servers' state alone and send them no entries.          *)

OutsideStep(l) ==
    /\ UNCHANGED serverState
    /\ \A p \in Ranks, d \in Servers : \A i \in 1 .. Len(channel'[p][d]) :
          \/ \E j \in 1 .. Len(channel[p][d]) : channel'[p][d][i] = channel[p][d][j]
          \/ GoodFor(l, channel'[p][d][i], d)
    /\ UNCHANGED <<active, batch>> \/ EndUpdate \/ active' \in Clients
    /\ UNCHANGED <<active, phase>> \/ phase' # "lead"

AnyStep(l) == OutsideStep(l) \/ \E s \in Servers : ServerStep(s)

LEMMA LogsStep ==
    ASSUME NEW l \in Servers, Electable = {l}, LogsInv(l), LeadInv(l), StateTypeOK', AnyStep(l)
    PROVE  LogsInv(l)'
<1>2. ASSUME NEW s \in Servers, ServerStep(s) PROVE LogsInv(l)'
  <2>1. CASE StartUpdate(s) \/ ReceiveAll(s)
    BY <2>1, LogsReceive
  <2>2. CASE ApplyEntry(s) \/ BeginHandling(s)
    BY <2>2, LogsApply
  <2>3. CASE HandleQuery(s)
    BY <2>3, LogsHandleQuery
  <2>4. CASE HandleMessage(s)
    BY <2>4, LogsHandleMessage
  <2>5. CASE \/ NoRoutine(s) \/ FollowerTimesOut(s) \/ CandidateDefers(s) \/ CandidateWins(s)
             \/ CandidateWaits(s) \/ CandidateTimesOut(s)
    BY <2>5, LogsElection
  <2>6. CASE LeaderBeats(s)
    BY <2>6, LogsBeat
  <2>7. CASE LeaderAppends(s)
    <3>1. s = l
      BY <2>7 DEF LeaderAppends, Leading, LeadInv
    <3> QED BY <2>7, <3>1, LogsAppend
  <2>8. CASE \/ LeaderSkipsBeat(s) \/ LeaderCountsSuccess(s) \/ LeaderBacksUp(s)
             \/ LeaderPassesOver(s) \/ LeaderCommits(s)
    <3>1. UNCHANGED <<server_log, status, channel>>
          /\ (UNCHANGED <<active, batch>> \/ EndUpdate)
      BY <2>8 DEF LeaderSkipsBeat, LeaderCountsSuccess, LeaderBacksUp, LeaderPassesOver,
                  LeaderCommits, Abort, NextQuery, QueryDone, stateVars, dataVars, logVars,
                  electionVars
    <3>2. OnlyLeader(l)'
      BY <3>1, RoleSteps DEF LogsInv
    <3> QED BY <3>1, <3>2, QuietStep
  <2> QED BY <1>2, <2>1, <2>2, <2>3, <2>4, <2>5, <2>6, <2>7, <2>8 DEF ServerStep, Routine
<1>3. CASE OutsideStep(l)
  <2>1. UNCHANGED <<server_log, status>>
    BY <1>3 DEF OutsideStep, serverState, logVars, electionVars
  <2>2. OnlyLeader(l)' /\ Grows(l) /\ PrefixOf(l)'
    BY <2>1, RoleSteps, SameLogs DEF LogsInv, StateTypeOK
  <2>3. ChannelsGood(l)'
    BY <1>3, <2>2, ChannelsStay DEF LogsInv, StateTypeOK, OutsideStep
  <2>4. BatchGood(l)'
    <3>1. CASE active' \in Clients
      <4>1. active' \notin Servers /\ active' # Nobody
        BY <3>1, RanksFacts, ClientFacts
      <4> QED BY <4>1 DEF BatchGood
    <3>2. CASE UNCHANGED <<active, batch>> \/ EndUpdate
      BY <2>2, <3>2, BatchStays DEF LogsInv, StateTypeOK
    <3> QED BY <1>3, <3>1, <3>2 DEF OutsideStep
  <2> QED BY <2>2, <2>3, <2>4 DEF LogsInv
<1> QED BY <1>2, <1>3 DEF AnyStep

LEMMA LeadStep ==
    ASSUME NEW l \in Servers, LogsInv(l), LeadInv(l), AnyStep(l)
    PROVE  LeadInv(l)'
<1>1. ASSUME UNCHANGED <<active, phase>> \/ phase' # "lead" PROVE LeadInv(l)'
  BY <1>1 DEF LeadInv
<1> USE DEF updateVars
<1>2. ASSUME NEW s \in Servers, ServerStep(s) PROVE LeadInv(l)'
  <2>1. CASE StartUpdate(s) \/ ReceiveAll(s)
    BY <1>1, <2>1 DEF StartUpdate, Begin, ReceiveAll, Receive, ReceiveGarbled, Drain
  <2>2. CASE ApplyEntry(s) \/ BeginHandling(s)
    BY <1>1, <2>2 DEF ApplyEntry, BeginHandling, Abort, EndUpdate
  <2>3. CASE HandleQuery(s)
    BY <1>1, <2>3 DEF HandleQuery, StepDown, HandleHeartbeat, HandleVoteRequest,
          HandleVoteRequestThrows, HandleAppendEntriesDenied, HandleAppendEntries,
          AnswerSearchLeader, DenyNewLogEntry, PassOver, QueryDone, NextQuery, Abort, EndUpdate
  <2>4. CASE HandleMessage(s)
    BY <1>1, <2>4 DEF HandleMessage, HandleDisplayOrSpeed, HandleStop, HandleCrash,
          HandleRecover, HandleServerTimeout, QueryDone, NextQuery
  <2>5. CASE \/ NoRoutine(s) \/ FollowerTimesOut(s) \/ CandidateDefers(s) \/ CandidateWins(s)
             \/ CandidateWaits(s) \/ CandidateTimesOut(s)
    BY <1>1, <2>5 DEF NoRoutine, FollowerTimesOut, CandidateDefers, CandidateWins,
          CandidateWaits, CandidateTimesOut, CandidateCounts, EndUpdate
  <2>6. CASE LeaderBeats(s) \/ LeaderSkipsBeat(s)
    <3>1. s = l
      BY <2>6 DEF LeaderBeats, LeaderSkipsBeat, LogsInv, OnlyLeader
    <3>2. active = s /\ (UNCHANGED active \/ phase' # "lead")
      BY <2>6 DEF LeaderBeats, LeaderSkipsBeat, AllHandled, Abort, EndUpdate
    <3> QED BY <3>1, <3>2 DEF LeadInv
  <2>7. CASE \/ LeaderAppends(s) \/ LeaderCountsSuccess(s) \/ LeaderBacksUp(s)
             \/ LeaderPassesOver(s) \/ LeaderCommits(s)
    BY <1>1, <2>7 DEF LeaderAppends, LeaderCountsSuccess, LeaderBacksUp, LeaderPassesOver,
          LeaderCommits, QueryDone, NextQuery, Abort, EndUpdate
  <2> QED BY <1>2, <2>1, <2>2, <2>3, <2>4, <2>5, <2>6, <2>7 DEF ServerStep, Routine
<1>3. CASE OutsideStep(l)
  BY <1>1, <1>3 DEF OutsideStep
<1> QED BY <1>2, <1>3 DEF AnyStep

LEMMA LogsInit ==
    ASSUME NEW l \in Servers, ServerInit
    PROVE  LogsInv(l) /\ LeadInv(l)
<1>1. StateTypeOK
  BY TypeInit
<1>2. OnlyLeader(l) /\ LeadInv(l)
  BY DEF ServerInit, ProcessInit, OnlyLeader, LeadInv
<1>3. ChannelsGood(l) /\ BatchGood(l)
  <2>1. batch = << >> /\ Len(batch) = 0
    BY EmptySeq DEF ServerInit, ProcessInit
  <2>2. \A p, d \in Ranks : Len(channel[p][d]) = 0
    BY EmptySeq DEF ServerInit, ProcessInit
  <2> QED BY <2>1, <2>2, RanksFacts DEF ChannelsGood, BatchGood
<1>4. PrefixOf(l)
  <2>1. \A s \in Servers : server_log[s] = << >>
    BY DEF ServerInit, ProcessInit
  <2>2. IsPrefixOf(<< >>, << >>)
    BY EmptySeq, PrefixFacts
  <2> QED BY <2>1, <2>2 DEF PrefixOf
<1> QED BY <1>1, <1>2, <1>3, <1>4 DEF LogsInv

----------------------------------------------------------------------------
(* What changes the logs, what the files. *)

\* Two steps of a server change logs.
LEMMA LogsFrame ==
    ASSUME NEW s \in Servers, ServerStep(s), ~HandleAppendEntries(s), ~LeaderAppends(s)
    PROVE  UNCHANGED server_log
<1> USE DEF serverState, stateVars, dataVars, logVars
<1>1. CASE StartUpdate(s) \/ ReceiveAll(s) \/ ApplyEntry(s) \/ BeginHandling(s)
  BY <1>1 DEF StartUpdate, ReceiveAll, Receive, ReceiveGarbled, Drain, ApplyEntry, BeginHandling
<1>2. CASE HandleQuery(s)
  BY <1>2 DEF HandleQuery, StepDown, HandleHeartbeat, HandleVoteRequest,
        HandleVoteRequestThrows, HandleAppendEntriesDenied, AnswerSearchLeader,
        DenyNewLogEntry, PassOver, QueryDone
<1>3. CASE HandleMessage(s)
  BY <1>3 DEF HandleMessage, HandleDisplayOrSpeed, HandleStop, HandleCrash, HandleRecover,
        HandleServerTimeout, QueryDone
<1>4. CASE Routine(s)
  BY <1>4 DEF Routine, NoRoutine, FollowerTimesOut, CandidateDefers, CandidateWins,
        CandidateWaits, CandidateTimesOut, CandidateCounts, LeaderBeats, LeaderSkipsBeat,
        LeaderCountsSuccess, LeaderBacksUp, LeaderPassesOver, LeaderCommits, QueryDone
<1> QED BY <1>1, <1>2, <1>3, <1>4 DEF ServerStep

\* Only the leader's routine changes its log, by an entry at its end.
LEMMA LeaderLogStep ==
    ASSUME NEW l \in Servers, Electable = {l}, LogsInv(l), LeadInv(l), AnyStep(l)
    PROVE  \/ server_log'[l] = server_log[l]
           \/ /\ UNCHANGED <<last_log_applied, log_file>>
              /\ \E e \in LogEntry : server_log'[l] = Append(server_log[l], e)
<1> USE DEF serverState, stateVars, dataVars, logVars, applyVars
<1>1. ASSUME NEW s \in Servers, HandleAppendEntries(s) PROVE server_log'[l] = server_log[l]
  <2>1. /\ active = s /\ done < Len(batch) /\ batch[done + 1].rpc.type = "APPEND_ENTRIES"
        /\ server_log' = [server_log EXCEPT ![s] = MergedLog(server_log[s],
               batch[done + 1].rpc.prev_log_index, batch[done + 1].rpc.entries)]
    BY <1>1 DEF HandleAppendEntries, Handling
  <2>2. done + 1 \in 1 .. Len(batch)
    BY <2>1, QueryFacts DEF LogsInv, StateTypeOK
  <2>3. s # l
    BY <2>1, <2>2 DEF LogsInv, BatchGood, GoodFor
  <2> QED BY <2>1, <2>3 DEF LogsInv, StateTypeOK, LogTypeOK
<1>2. ASSUME NEW s \in Servers, LeaderAppends(s)
      PROVE  /\ UNCHANGED <<last_log_applied, log_file>>
             /\ \E e \in LogEntry : server_log'[l] = Append(server_log[l], e)
  <2> DEFINE q == batch[done + 1]
             entry == [term |-> current_term[s], command |-> q.rpc.command]
  <2>1. /\ active = s /\ phase = "lead" /\ done < Len(batch) /\ q.rpc.type = "NEW_LOG_ENTRY"
        /\ server_log' = [server_log EXCEPT ![s] = Append(server_log[s], entry)]
        /\ UNCHANGED <<last_log_applied, log_file>>
    BY <1>2 DEF LeaderAppends, Leading
  <2>2. s = l
    BY <2>1 DEF LeadInv
  <2>3. entry \in LogEntry
    <3>1. q.rpc \in RPC
      BY <2>1, QueryFacts DEF LogsInv, StateTypeOK
    <3>2. q.rpc.command \in Commands
      BY <2>1, <3>1, RpcFields
    <3>3. current_term[s] \in Int
      BY DEF LogsInv, StateTypeOK, ElectionTypeOK
    <3> QED BY <3>2, <3>3 DEF LogEntry
  <2> HIDE DEF entry
  <2> QED BY <2>1, <2>2, <2>3 DEF LogsInv, StateTypeOK, LogTypeOK
<1>3. ASSUME NEW s \in Servers, ServerStep(s), ~HandleAppendEntries(s), ~LeaderAppends(s)
      PROVE  UNCHANGED server_log
  BY <1>3, LogsFrame
<1>4. CASE OutsideStep(l)
  BY <1>4 DEF OutsideStep
<1> QED BY <1>1, <1>2, <1>3, <1>4 DEF AnyStep

\* Only ApplyEntry writes to a file, and only for a log index not yet applied.
LEMMA FilesChange ==
    ASSUME NEW l \in Servers, AnyStep(l)
    PROVE  \/ UNCHANGED <<last_log_applied, log_file>>
           \/ \E s \in Servers : ApplyEntry(s)
<1> USE DEF serverState, stateVars, dataVars, applyVars
<1>1. ASSUME NEW s \in Servers, ServerStep(s), ~ApplyEntry(s)
      PROVE  UNCHANGED <<last_log_applied, log_file>>
  <2>1. CASE StartUpdate(s) \/ ReceiveAll(s) \/ BeginHandling(s)
    BY <2>1 DEF StartUpdate, ReceiveAll, Receive, ReceiveGarbled, Drain, BeginHandling
  <2>2. CASE HandleQuery(s)
    BY <2>2 DEF HandleQuery, StepDown, HandleHeartbeat, HandleVoteRequest,
          HandleVoteRequestThrows, HandleAppendEntriesDenied, HandleAppendEntries,
          AnswerSearchLeader, DenyNewLogEntry, PassOver, QueryDone
  <2>3. CASE HandleMessage(s)
    BY <2>3 DEF HandleMessage, HandleDisplayOrSpeed, HandleStop, HandleCrash, HandleRecover,
          HandleServerTimeout, QueryDone
  <2>4. CASE Routine(s)
    BY <2>4 DEF Routine, NoRoutine, FollowerTimesOut, CandidateDefers, CandidateWins,
          CandidateWaits, CandidateTimesOut, CandidateCounts, LeaderBeats, LeaderSkipsBeat,
          LeaderAppends, LeaderCountsSuccess, LeaderBacksUp, LeaderPassesOver, LeaderCommits,
          QueryDone
  <2> QED BY <1>1, <2>1, <2>2, <2>3, <2>4 DEF ServerStep
<1>2. CASE OutsideStep(l)
  BY <1>2 DEF OutsideStep
<1> QED BY <1>1, <1>2 DEF AnyStep

LEMMA CommandsOfFacts ==
    ASSUME NEW s \in Seq(LogEntry)
    PROVE  /\ CommandsOf(s) \in Seq(Commands)
           /\ Len(CommandsOf(s)) = Len(s)
           /\ \A i \in 1 .. Len(s) : CommandsOf(s)[i] = s[i].command
           /\ \A e \in LogEntry : CommandsOf(Append(s, e)) = Append(CommandsOf(s), e.command)
<1>1. Len(s) \in Nat /\ \A i \in 1 .. Len(s) : s[i].command \in Commands
  <2>1. \A i \in 1 .. Len(s) : s[i] \in LogEntry
    BY ElementOfSeq
  <2> QED BY <2>1, LenProperties DEF LogEntry
<1>2. CommandsOf(s) \in [1 .. Len(s) -> Commands]
  BY <1>1 DEF CommandsOf
<1>3. CommandsOf(s) \in Seq(Commands) /\ Len(CommandsOf(s)) = Len(s)
  BY <1>1, <1>2, FunctionIsSeq
<1>4. \A i \in 1 .. Len(s) : CommandsOf(s)[i] = s[i].command
  BY DEF CommandsOf
<1>5. ASSUME NEW e \in LogEntry
      PROVE  CommandsOf(Append(s, e)) = Append(CommandsOf(s), e.command)
  <2> DEFINE longer == Append(s, e)
             more == Append(CommandsOf(s), e.command)
  <2>1. /\ longer \in Seq(LogEntry) /\ Len(longer) = Len(s) + 1 /\ longer[Len(s) + 1] = e
        /\ \A i \in 1 .. Len(s) : longer[i] = s[i]
    BY AppendProperties
  <2>2. e.command \in Commands
    BY DEF LogEntry
  <2>3. /\ more \in Seq(Commands) /\ Len(more) = Len(s) + 1 /\ more[Len(s) + 1] = e.command
        /\ \A i \in 1 .. Len(s) : more[i] = CommandsOf(s)[i]
    BY <1>3, <2>2, AppendProperties
  <2> HIDE DEF longer, more
  <2>4. \A i \in 1 .. Len(s) + 1 : longer[i].command = more[i]
    BY <1>1, <1>4, <2>1, <2>3
  <2>5. CommandsOf(longer) = [i \in 1 .. Len(s) + 1 |-> longer[i].command]
    BY <2>1 DEF CommandsOf
  <2>6. more = [i \in 1 .. Len(s) + 1 |-> more[i]]
    BY <2>3, LenProperties
  <2> QED BY <2>4, <2>5, <2>6 DEF longer, more
<1> QED BY <1>3, <1>4, <1>5

\* LeaderInv is inductive, given the types.
LEMMA LeaderInvInductive ==
    ASSUME NEW l \in Servers, Electable = {l}
    PROVE  /\ ServerInit => LeaderInv(l)
           /\ LeaderInv(l) /\ StateTypeOK' /\ AnyStep(l) => LeaderInv(l)'
BY LogsInit, LogsStep, LeadStep DEF LeaderInv

\* What the invariant gives.
LEMMA LeaderInvImplies ==
    ASSUME NEW l \in Servers, Electable = {l}
    PROVE  LeaderInv(l) => PrefixOfLeader
BY DEF LeaderInv, LogsInv, PrefixOf, PrefixOfLeader
=============================================================================
