------------------------------ MODULE RaftTypes ------------------------------
(***************************************************************************)
(* The steps of a server keep the types, for any number of clients and     *)
(* servers and any bounds.  First lemmas about the channels, the batch and *)
(* the merge of logs, which the other proofs use too.                      *)
(***************************************************************************)
EXTENDS ServerProperties, SequenceTheorems, FiniteSetTheorems, TLAPS

----------------------------------------------------------------------------
(* Ranks and RPCs. *)

LEMMA RanksFacts ==
    /\ Servers \subseteq Ranks
    /\ Clients \subseteq Ranks
    /\ Controller \in Ranks
    /\ Servers \subseteq Nat \ {0}
    /\ Nobody \notin Servers
    /\ Nobody \in Ranks
BY RanksAssumption, SMT DEF Servers, Clients, Ranks, Controller, Nobody

\* Every constructor yields an RPC.
LEMMA RpcFacts ==
    /\ \A t, c \in Int : Heartbeat(t, c) \in RPC
    /\ \A t, i, u \in Int, s \in Servers : VoteRequest(t, s, i, u) \in RPC
    /\ \A t \in Int, v \in BOOLEAN : VoteResponse(t, v) \in RPC
    /\ \A t, u, c \in Int, s \in Servers, i \in Nat \cup {-1}, e \in Seq(LogEntry) :
          AppendEntries(t, s, i, u, e, c) \in RPC
    /\ \A t \in Int, b \in BOOLEAN : AppendEntriesResponse(t, b) \in RPC
    /\ \A v \in Commands : NewLogEntry(v) \in RPC
    /\ \A b \in BOOLEAN : NewLogEntryResponse(b) \in RPC
    /\ SearchLeader \in RPC
    /\ \A s \in Servers : SearchLeaderResponse(s) \in RPC
    /\ \A k \in ServerOrders \cup ClientOrders, x \in Seq(Commands) : Message(k, x) \in RPC
    /\ \A b \in BOOLEAN : MessageResponse(b) \in RPC
BY SMT DEF RPC, Heartbeat, VoteRequest, VoteResponse, AppendEntries, AppendEntriesResponse,
       NewLogEntry, NewLogEntryResponse, SearchLeader, SearchLeaderResponse, Message,
       MessageResponse, HeartbeatRpc, VoteRequestRpc, VoteResponseRpc, AppendEntriesRpc,
       AppendEntriesResponseRpc, ClientRpc, ControllerRpc

\* What the fields of an RPC of each type are.
LEMMA RpcFields ==
    ASSUME NEW m \in RPC
    PROVE  /\ m.term \in Int
           /\ m.type = "HEARTBEAT" => m.leader_commit \in Int
           /\ m.type = "VOTE_REQUEST" =>
                 /\ m.candidate_rank \in Servers
                 /\ m.last_log_index \in Int
                 /\ m.last_log_term \in Int
           /\ m.type = "VOTE_RESPONSE" => m.vote \in BOOLEAN
           /\ m.type = "APPEND_ENTRIES" =>
                 /\ m.leader_rank \in Servers
                 /\ m.prev_log_index \in Nat \cup {-1}
                 /\ m.prev_log_term \in Int
                 /\ m.entries \in Seq(LogEntry)
                 /\ m.leader_commit \in Int
           /\ m.type = "APPEND_ENTRIES_RESPONSE" => m.success \in BOOLEAN
           /\ m.type = "NEW_LOG_ENTRY" => m.command \in Commands
           /\ m.type = "NEW_LOG_ENTRY_RESPONSE" => m.success \in BOOLEAN
           /\ m.type = "SEARCH_LEADER_RESPONSE" => m.leader_rank \in Servers
           /\ m.type = "MESSAGE" => m.content \in Seq(Commands)
BY SMT DEF RPC, HeartbeatRpc, VoteRequestRpc, VoteResponseRpc, AppendEntriesRpc,
       AppendEntriesResponseRpc, ClientRpc, ControllerRpc

----------------------------------------------------------------------------
(* Channels. *)

Channels == [Ranks -> [Ranks -> Seq(RPC)]]

\* A send keeps the channels channels, and puts nothing anywhere but m at the
\* end of the channel from src to dst.
LEMMA SendMessageFacts ==
    ASSUME NEW chan \in Channels, NEW src \in Ranks, NEW dst, NEW m \in RPC, NEW ended
    PROVE  /\ SendMessage(chan, src, dst, m, ended) \in Channels
           /\ \A p, d \in Ranks :
                 \A i \in 1 .. Len(SendMessage(chan, src, dst, m, ended)[p][d]) :
                    \/ /\ i \in 1 .. Len(chan[p][d])
                       /\ SendMessage(chan, src, dst, m, ended)[p][d][i] = chan[p][d][i]
                    \/ /\ p = src /\ d = dst
                       /\ SendMessage(chan, src, dst, m, ended)[p][d][i] = m
<1> DEFINE new == SendMessage(chan, src, dst, m, ended)
<1>1. CASE dst \in ended \/ dst \notin Ranks
  <2>1. new = chan
    BY <1>1 DEF SendMessage, Channels
  <2> QED BY <2>1 DEF Channels
<1>2. CASE dst \notin ended /\ dst \in Ranks
  <2>1. new = [chan EXCEPT ![src][dst] = Append(chan[src][dst], m)]
    BY <1>2 DEF SendMessage
  <2>2. chan[src][dst] \in Seq(RPC)
    BY <1>2 DEF Channels
  <2>3. /\ Append(chan[src][dst], m) \in Seq(RPC)
        /\ Len(Append(chan[src][dst], m)) = Len(chan[src][dst]) + 1
        /\ \A i \in 1 .. Len(chan[src][dst]) : Append(chan[src][dst], m)[i] = chan[src][dst][i]
        /\ Append(chan[src][dst], m)[Len(chan[src][dst]) + 1] = m
    BY <2>2, AppendProperties
  <2>4. new \in Channels
    BY <2>1, <2>3, <1>2 DEF Channels
  <2>5. ASSUME NEW p \in Ranks, NEW d \in Ranks, NEW i \in 1 .. Len(new[p][d])
        PROVE  \/ i \in 1 .. Len(chan[p][d]) /\ new[p][d][i] = chan[p][d][i]
               \/ p = src /\ d = dst /\ new[p][d][i] = m
    <3>1. CASE p = src /\ d = dst
      <4>1. new[p][d] = Append(chan[src][dst], m)
        BY <2>1, <3>1, <1>2 DEF Channels
      <4>2. Len(chan[src][dst]) \in Nat
        BY <2>2, LenProperties
      <4> QED BY <3>1, <4>1, <4>2, <2>3, SMT
    <3>2. CASE ~(p = src /\ d = dst)
      <4>1. new[p][d] = chan[p][d]
        BY <2>1, <3>2, <1>2 DEF Channels
      <4> QED BY <4>1
    <3> QED BY <3>1, <3>2
  <2> QED BY <2>4, <2>5
<1> QED BY <1>1, <1>2

\* The same of a send to several ranks, each with a message of its own.
LEMMA SendToAllFacts ==
    ASSUME NEW chan \in Channels, NEW src \in Ranks, NEW dests \in SUBSET Ranks,
           NEW m, \A d \in dests : m[d] \in RPC, NEW ended
    PROVE  /\ SendToAll(chan, src, dests, m, ended) \in Channels
           /\ \A p, d \in Ranks :
                 \A i \in 1 .. Len(SendToAll(chan, src, dests, m, ended)[p][d]) :
                    \/ /\ i \in 1 .. Len(chan[p][d])
                       /\ SendToAll(chan, src, dests, m, ended)[p][d][i] = chan[p][d][i]
                    \/ /\ p = src /\ d \in dests
                       /\ SendToAll(chan, src, dests, m, ended)[p][d][i] = m[d]
<1> DEFINE new == SendToAll(chan, src, dests, m, ended)
           row == [d \in Ranks |-> IF d \in dests \ ended
                                   THEN Append(chan[src][d], m[d]) ELSE chan[src][d]]
<1>1. new = [chan EXCEPT ![src] = row]
  BY DEF SendToAll
<1>2. \A d \in Ranks : chan[src][d] \in Seq(RPC)
  BY DEF Channels
<1>3. ASSUME NEW d \in Ranks
      PROVE  /\ row[d] \in Seq(RPC)
             /\ \A i \in 1 .. Len(row[d]) :
                   \/ i \in 1 .. Len(chan[src][d]) /\ row[d][i] = chan[src][d][i]
                   \/ d \in dests /\ row[d][i] = m[d]
  <2>1. CASE d \in dests \ ended
    <3>1. row[d] = Append(chan[src][d], m[d])
      BY <2>1
    <3>2. chan[src][d] \in Seq(RPC) /\ m[d] \in RPC
      BY <1>2, <2>1
    <3>3. /\ Append(chan[src][d], m[d]) \in Seq(RPC)
          /\ Len(Append(chan[src][d], m[d])) = Len(chan[src][d]) + 1
          /\ \A i \in 1 .. Len(chan[src][d]) : Append(chan[src][d], m[d])[i] = chan[src][d][i]
          /\ Append(chan[src][d], m[d])[Len(chan[src][d]) + 1] = m[d]
      BY <3>2, AppendProperties
    <3>4. Len(chan[src][d]) \in Nat
      BY <3>2, LenProperties
    <3> HIDE DEF row
    <3> QED BY <2>1, <3>1, <3>3, <3>4, SMT
  <2>2. CASE d \notin dests \ ended
    <3>1. row[d] = chan[src][d]
      BY <2>2
    <3> QED BY <3>1, <1>2
  <2> QED BY <2>1, <2>2
<1>4. row \in [Ranks -> Seq(RPC)]
  <2>1. DOMAIN row = Ranks /\ row = [d \in Ranks |-> row[d]]
    OBVIOUS
  <2> HIDE DEF row
  <2> QED BY <1>3, <2>1
<1>5. new \in Channels
  <2> HIDE DEF row
  <2> QED BY <1>1, <1>4 DEF Channels
<1>6. ASSUME NEW p \in Ranks, NEW d \in Ranks, NEW i \in 1 .. Len(new[p][d])
      PROVE  \/ i \in 1 .. Len(chan[p][d]) /\ new[p][d][i] = chan[p][d][i]
             \/ p = src /\ d \in dests /\ new[p][d][i] = m[d]
  <2> HIDE DEF row
  <2>1. CASE p = src
    <3>1. new[p][d] = row[d]
      BY <1>1, <2>1 DEF Channels
    <3> QED BY <2>1, <3>1, <1>3
  <2>2. CASE p # src
    <3>1. new[p][d] = chan[p][d]
      BY <1>1, <2>2 DEF Channels
    <3> QED BY <3>1
  <2> QED BY <2>1, <2>2
<1> QED BY <1>5, <1>6

\* What Drain takes out of a channel: the channel of the pair loses its first
\* n messages, the others stay; the batch grows by the first k of them.
LEMMA DrainMoves ==
    ASSUME ChannelTypeOK, UpdateTypeOK, NEW s \in Ranks, NEW p \in Ranks,
           NEW n \in 1 .. Len(channel[p][s]), NEW k \in 0 .. n,
           Drain(s, p, k, n)
    PROVE  /\ channel' \in Channels
           /\ \A q, d \in Ranks : (q = p /\ d = s) \/ channel'[q][d] = channel[q][d]
           /\ \A i \in 1 .. Len(channel'[p][s]) :
                 n + i \in 1 .. Len(channel[p][s]) /\ channel'[p][s][i] = channel[p][s][n + i]
           /\ batch' \in Seq(Query)
           /\ Len(batch') = Len(batch) + k
           /\ \A i \in 1 .. Len(batch) : batch'[i] = batch[i]
           /\ \A i \in 1 .. Len(batch') : Len(batch) < i =>
                 /\ i - Len(batch) \in 1 .. k
                 /\ batch'[i] = [source |-> p, rpc |-> channel[p][s][i - Len(batch)]]
<1> DEFINE c == channel[p][s]
           taken == [i \in 1 .. k |-> [source |-> p, rpc |-> c[i]]]
<1>1. c \in Seq(RPC) /\ Len(c) \in Nat
  BY LenProperties DEF ChannelTypeOK
<1>2. \A i \in 1 .. Len(c) : c[i] \in RPC
  BY <1>1, ElementOfSeq
<1>3. taken \in Seq(Query) /\ Len(taken) = k /\ \A i \in 1 .. k : taken[i] = [source |-> p, rpc |-> c[i]]
  <2>1. \A i \in 1 .. k : [source |-> p, rpc |-> c[i]] \in Query
    BY <1>1, <1>2 DEF Query
  <2>2. k \in Nat
    BY <1>1
  <2> HIDE DEF c
  <2> QED BY <2>1, <2>2, SMT
<1>4. /\ SubSeq(c, n + 1, Len(c)) \in Seq(RPC)
      /\ Len(SubSeq(c, n + 1, Len(c))) = IF n + 1 <= Len(c) THEN Len(c) - (n + 1) + 1 ELSE 0
      /\ \A i \in 1 .. Len(c) - (n + 1) + 1 : SubSeq(c, n + 1, Len(c))[i] = c[n + 1 + i - 1]
  <2>1. \A i \in n + 1 .. Len(c) : c[i] \in RPC
    BY <1>1, <1>2
  <2>2. n + 1 \in Int /\ Len(c) \in Int
    BY <1>1
  <2> HIDE DEF c
  <2> QED BY <2>1, <2>2, SubSeqProperties
<1>5. channel' = [channel EXCEPT ![p][s] = SubSeq(c, n + 1, Len(c))] /\ batch' = batch \o taken
  BY DEF Drain
<1>6. channel' \in Channels
  BY <1>1, <1>4, <1>5 DEF Channels, ChannelTypeOK
<1>7. \A q, d \in Ranks : (q = p /\ d = s) \/ channel'[q][d] = channel[q][d]
  BY <1>1, <1>5 DEF ChannelTypeOK
<1>8. ASSUME NEW i \in 1 .. Len(channel'[p][s])
      PROVE  n + i \in 1 .. Len(c) /\ channel'[p][s][i] = c[n + i]
  <2>1. channel'[p][s] = SubSeq(c, n + 1, Len(c))
    BY <1>1, <1>5 DEF ChannelTypeOK
  <2> HIDE DEF c
  <2> QED BY <1>1, <1>4, <2>1, SMT
<1>9. /\ batch' \in Seq(Query)
      /\ Len(batch') = Len(batch) + Len(taken)
      /\ \A i \in 1 .. Len(batch) + Len(taken) :
            batch'[i] = IF i <= Len(batch) THEN batch[i] ELSE taken[i - Len(batch)]
  <2> HIDE DEF taken
  <2> QED BY <1>3, <1>5, ConcatProperties DEF UpdateTypeOK
<1>10. Len(batch) \in Nat /\ k \in Nat
  BY <1>1, LenProperties DEF UpdateTypeOK
<1>11. \A i \in 1 .. Len(batch) : batch'[i] = batch[i]
  <2> HIDE DEF taken
  <2> QED BY <1>3, <1>9, <1>10, SMT
<1>12. ASSUME NEW i \in 1 .. Len(batch'), Len(batch) < i
       PROVE  /\ i - Len(batch) \in 1 .. k
              /\ batch'[i] = [source |-> p, rpc |-> c[i - Len(batch)]]
  <2>1. i - Len(batch) \in 1 .. k /\ batch'[i] = taken[i - Len(batch)]
    <3> HIDE DEF taken
    <3> QED BY <1>3, <1>9, <1>10, <1>12, SMT
  <2> HIDE DEF taken
  <2> QED BY <1>3, <2>1
<1> QED BY <1>3, <1>6, <1>7, <1>8, <1>9, <1>11, <1>12

\* The same, when only what the messages are matters and not their order.
LEMMA DrainFacts ==
    ASSUME ChannelTypeOK, UpdateTypeOK, NEW s \in Ranks, NEW p \in Ranks,
           NEW n \in 1 .. Len(channel[p][s]), NEW k \in 0 .. n,
           Drain(s, p, k, n)
    PROVE  /\ channel' \in Channels
           /\ \A q, d \in Ranks : \A i \in 1 .. Len(channel'[q][d]) :
                 \E j \in 1 .. Len(channel[q][d]) : channel'[q][d][i] = channel[q][d][j]
           /\ batch' \in Seq(Query)
           /\ Len(batch') = Len(batch) + k
           /\ \A i \in 1 .. Len(batch') :
                 \/ i \in 1 .. Len(batch) /\ batch'[i] = batch[i]
                 \/ /\ batch'[i].source = p
                    /\ \E j \in 1 .. Len(channel[p][s]) : batch'[i].rpc = channel[p][s][j]
<1>1. /\ channel' \in Channels
      /\ \A q, d \in Ranks : (q = p /\ d = s) \/ channel'[q][d] = channel[q][d]
      /\ \A i \in 1 .. Len(channel'[p][s]) :
            n + i \in 1 .. Len(channel[p][s]) /\ channel'[p][s][i] = channel[p][s][n + i]
      /\ batch' \in Seq(Query)
      /\ Len(batch') = Len(batch) + k
      /\ \A i \in 1 .. Len(batch) : batch'[i] = batch[i]
      /\ \A i \in 1 .. Len(batch') : Len(batch) < i =>
            /\ i - Len(batch) \in 1 .. k
            /\ batch'[i] = [source |-> p, rpc |-> channel[p][s][i - Len(batch)]]
  BY DrainMoves
<1>2. /\ Len(batch) \in Nat /\ Len(batch') \in Nat
      /\ n \in Int /\ Len(channel[p][s]) \in Nat /\ n <= Len(channel[p][s])
  <2>1. channel[p][s] \in Seq(RPC)
    BY DEF ChannelTypeOK
  <2> QED BY <1>1, <2>1, LenProperties DEF UpdateTypeOK
<1>3. ASSUME NEW i \in 1 .. Len(batch')
      PROVE  \/ i \in 1 .. Len(batch) /\ batch'[i] = batch[i]
             \/ /\ batch'[i].source = p
                /\ \E j \in 1 .. Len(channel[p][s]) : batch'[i].rpc = channel[p][s][j]
  <2>1. CASE i <= Len(batch)
    BY <1>1, <1>2, <2>1
  <2>2. CASE Len(batch) < i
    <3>1. i - Len(batch) \in 1 .. Len(channel[p][s])
      BY <1>1, <1>2, <2>2
    <3>2. batch'[i] = [source |-> p, rpc |-> channel[p][s][i - Len(batch)]]
      BY <1>1, <2>2
    <3> QED BY <3>1, <3>2
  <2> QED BY <1>2, <2>1, <2>2
<1>4. ASSUME NEW q \in Ranks, NEW d \in Ranks, NEW i \in 1 .. Len(channel'[q][d])
      PROVE  \E j \in 1 .. Len(channel[q][d]) : channel'[q][d][i] = channel[q][d][j]
  <2>1. CASE q = p /\ d = s
    <3>1. n + i \in 1 .. Len(channel[p][s]) /\ channel'[p][s][i] = channel[p][s][n + i]
      BY <1>1, <2>1
    <3> QED BY <2>1, <3>1
  <2>2. CASE channel'[q][d] = channel[q][d]
    BY <2>2
  <2> QED BY <1>1, <2>1, <2>2
<1> QED BY <1>1, <1>3, <1>4

----------------------------------------------------------------------------
(* The merge of logs and the query at hand. *)

\* A function on 1 .. n is a sequence of length n.
LEMMA FunctionIsSeq ==
    ASSUME NEW S, NEW n \in Nat, NEW f \in [1 .. n -> S]
    PROVE  f \in Seq(S) /\ Len(f) = n
BY SMT

\* Merging yields a log, each of whose entries is the old one of that place
\* or one of the new ones.
LEMMA MergedLogFacts ==
    ASSUME NEW old \in Seq(LogEntry), NEW new \in Seq(LogEntry),
           NEW prev \in Nat \cup {-1}, prev < Len(old)
    PROVE  /\ MergedLog(old, prev, new) \in Seq(LogEntry)
           /\ Len(MergedLog(old, prev, new)) \in Nat
           /\ Len(MergedLog(old, prev, new)) =
                 prev + 1 + Len(new) - (IF Conflicts(old, prev, new) = {} THEN 0 ELSE 1)
<1> DEFINE conflicts == Conflicts(old, prev, new)
           size == prev + 1 + Len(new)
           plain == [i \in 1 .. size |-> IF i <= Len(old) THEN old[i] ELSE new[i - prev - 1]]
           cut == [i \in 1 .. size - 1 |-> IF \A c \in conflicts : i < c
                                          THEN old[i] ELSE new[i - prev]]
<1>1. /\ Len(old) \in Nat /\ Len(new) \in Nat /\ size \in Nat
      /\ \A i \in 1 .. Len(old) : old[i] \in LogEntry
      /\ \A i \in 1 .. Len(new) : new[i] \in LogEntry
  BY LenProperties, ElementOfSeq
<1>2. \A c \in conflicts : c \in Int /\ prev + 2 <= c /\ c <= size /\ c <= Len(old)
  BY <1>1 DEF Conflicts, Least
<1>3. CASE conflicts = {}
  <2>1. \A i \in 1 .. size : (IF i <= Len(old) THEN old[i] ELSE new[i - prev - 1]) \in LogEntry
    BY <1>1, SMT
  <2>2. plain \in [1 .. size -> LogEntry]
    <3> HIDE DEF size
    <3> QED BY <2>1
  <2>3. MergedLog(old, prev, new) = plain
    BY <1>3 DEF MergedLog
  <2> HIDE DEF conflicts, size, plain
  <2>4. plain \in Seq(LogEntry) /\ Len(plain) = size
    BY <1>1, <2>2, FunctionIsSeq
  <2> QED BY <1>1, <1>3, <2>4, <2>3 DEF conflicts, size
<1>4. CASE conflicts # {}
  <2>1. size - 1 \in Nat
    BY <1>1, <1>2, <1>4, SMT
  <2>2. ASSUME NEW i \in 1 .. size - 1
        PROVE  (IF \A c \in conflicts : i < c THEN old[i] ELSE new[i - prev]) \in LogEntry
    <3>1. CASE \A c \in conflicts : i < c
      <4>1. i \in 1 .. Len(old)
        <5> HIDE DEF conflicts, size
        <5> QED BY <1>1, <1>2, <1>4, <3>1 DEF size
      <4> QED BY <1>1, <3>1, <4>1
    <3>2. CASE ~(\A c \in conflicts : i < c)
      <4>1. i - prev \in 1 .. Len(new)
        <5> HIDE DEF conflicts
        <5> QED BY <1>1, <1>2, <3>2
      <4> QED BY <1>1, <3>2, <4>1
    <3> QED BY <3>1, <3>2
  <2>3. cut \in [1 .. size - 1 -> LogEntry]
    <3> HIDE DEF size, conflicts
    <3> QED BY <2>2
  <2>4. MergedLog(old, prev, new) = cut
    BY <1>4 DEF MergedLog
  <2> HIDE DEF conflicts, size, cut
  <2>5. cut \in Seq(LogEntry) /\ Len(cut) = size - 1
    BY <2>1, <2>3, FunctionIsSeq
  <2> QED BY <1>4, <2>1, <2>5, <2>4 DEF conflicts, size
<1> QED BY <1>3, <1>4

\* The query an update has come to is a query.
LEMMA QueryFacts ==
    ASSUME UpdateTypeOK, done < Len(batch)
    PROVE  /\ done + 1 \in 1 .. Len(batch)
           /\ batch[done + 1].source \in Ranks
           /\ batch[done + 1].rpc \in RPC
<1>1. batch \in Seq(Query) /\ Len(batch) \in Nat /\ done \in Nat
  BY LenProperties DEF UpdateTypeOK
<1>2. done + 1 \in 1 .. Len(batch)
  BY <1>1
<1>3. batch[done + 1] \in Query
  BY <1>1, <1>2, ElementOfSeq
<1> QED BY <1>2, <1>3 DEF Query

\* The number of votes in a batch is a natural number.
LEMMA VotesFacts ==
    ASSUME UpdateTypeOK
    PROVE  VotesIn(batch) \in Nat
<1> DEFINE votes == {i \in 1 .. Len(batch) : batch[i].rpc.type = "VOTE_RESPONSE" /\ batch[i].rpc.vote}
<1>1. Len(batch) \in Nat
  BY LenProperties DEF UpdateTypeOK
<1>2. IsFiniteSet(1 .. Len(batch))
  BY <1>1, FS_Interval
<1>3. votes \subseteq 1 .. Len(batch)
  OBVIOUS
<1>4. IsFiniteSet(votes)
  BY <1>2, <1>3, FS_Subset
<1> QED BY <1>4, FS_CardinalityType DEF VotesIn

----------------------------------------------------------------------------
(* Type correctness. *)

\* What a step leaves alone keeps its type.
LEMMA TypeFrames ==
    /\ ElectionTypeOK /\ UNCHANGED electionVars => ElectionTypeOK'
    /\ LogTypeOK /\ UNCHANGED logVars => LogTypeOK'
    /\ ApplyTypeOK /\ UNCHANGED applyVars => ApplyTypeOK'
    /\ LeaderTypeOK /\ UNCHANGED leaderVars => LeaderTypeOK'
    /\ EndTypeOK /\ UNCHANGED endVars => EndTypeOK'
    /\ ChannelTypeOK /\ UNCHANGED channel => ChannelTypeOK'
    /\ UpdateTypeOK /\ UNCHANGED updateVars => UpdateTypeOK'
BY DEF ElectionTypeOK, electionVars, LogTypeOK, logVars, ApplyTypeOK, applyVars, LeaderTypeOK,
       leaderVars, EndTypeOK, endVars, ChannelTypeOK, UpdateTypeOK, updateVars

LEMMA ClockTypes ==
    ASSUME UpdateTypeOK
    PROVE  /\ ResetClock => clocks_reset' \subseteq Clocks
           /\ KeepClock => clocks_reset' \subseteq Clocks
BY DEF UpdateTypeOK, ResetClock, KeepClock, Resets, Clocks

\* The two ways an update moves on keep the types of its control.
LEMMA UpdateTypes ==
    ASSUME UpdateTypeOK
    PROVE  /\ EndUpdate => UpdateTypeOK'
           /\ NextQuery /\ done < Len(batch) /\ clocks_reset' \subseteq Clocks => UpdateTypeOK'
           /\ done' = 0 /\ clocks_reset' \subseteq Clocks /\ phase' = "lead"
                 /\ UNCHANGED <<active, source, batch>> => UpdateTypeOK'
<1>1. Len(batch) \in Nat
  BY LenProperties DEF UpdateTypeOK
<1>2. ASSUME EndUpdate PROVE UpdateTypeOK'
  <2>1. batch' \in Seq(Query) /\ Len(batch') = 0
    BY <1>2, EmptySeq DEF EndUpdate
  <2>2. done' \in 0 .. Len(batch')
    BY <1>2, <2>1 DEF EndUpdate
  <2> QED BY <1>2, <2>1, <2>2, RanksFacts DEF EndUpdate, UpdateTypeOK
<1> QED BY <1>1, <1>2 DEF NextQuery, UpdateTypeOK

LEMMA AbortTypes ==
    ASSUME UpdateTypeOK, EndTypeOK, NEW s \in Servers, Abort(s)
    PROVE  UpdateTypeOK' /\ EndTypeOK'
BY UpdateTypes, RanksFacts DEF Abort, EndTypeOK

\* An answer, a vote request or a beat keeps the channels channels.
LEMMA ReplyTypes ==
    ASSUME ChannelTypeOK, NEW s \in Servers, NEW dst, NEW m \in RPC, Reply(s, dst, m)
    PROVE  ChannelTypeOK'
<1>1. s \in Ranks /\ channel \in Channels
  BY RanksFacts DEF ChannelTypeOK, Channels
<1>2. SendMessage(channel, s, dst, m, Ended) \in Channels
  BY <1>1, SendMessageFacts
<1> QED BY <1>2 DEF Reply, ChannelTypeOK, Channels

LEMMA LogFacts ==
    ASSUME LogTypeOK, NEW s \in Servers
    PROVE  /\ server_log[s] \in Seq(LogEntry)
           /\ Size(s) \in Nat
           /\ \A i \in 0 .. Size(s) - 1 : Entry(s, i) \in LogEntry
<1>1. server_log[s] \in Seq(LogEntry)
  BY DEF LogTypeOK
<1>2. Len(server_log[s]) \in Nat
  BY <1>1, LenProperties
<1>3. ASSUME NEW i \in 0 .. Size(s) - 1 PROVE Entry(s, i) \in LogEntry
  <2>1. i + 1 \in 1 .. Len(server_log[s])
    BY <1>2 DEF Size
  <2> QED BY <1>1, <2>1, ElementOfSeq DEF Entry
<1> QED BY <1>1, <1>2, <1>3 DEF Size

LEMMA TermAtType ==
    ASSUME LogTypeOK, NEW s \in Servers, NEW i \in Int
    PROVE  TermAt(s, i) \in Int
<1>1. CASE 0 <= i /\ i < Size(s)
  <2>1. Entry(s, i) \in LogEntry
    BY <1>1, LogFacts
  <2> QED BY <1>1, <2>1 DEF TermAt, LogEntry
<1> QED BY <1>1 DEF TermAt

LEMMA VoteRequestType ==
    ASSUME ElectionTypeOK, LogTypeOK, NEW s \in Servers
    PROVE  VoteRequest(current_term[s] + 1, s, Size(s) - 1, TermAt(s, Size(s) - 1)) \in RPC
<1>1. Size(s) \in Nat
  BY LogFacts
<1>2. TermAt(s, Size(s) - 1) \in Int
  BY <1>1, TermAtType
<1>3. current_term[s] + 1 \in Int
  BY DEF ElectionTypeOK
<1> QED BY <1>1, <1>2, <1>3, RpcFacts

LEMMA RequestVotesTypes ==
    ASSUME ChannelTypeOK, ElectionTypeOK, LogTypeOK, NEW s \in Servers
    PROVE  RequestVotes(s) \in Channels
<1> DEFINE request == VoteRequest(current_term[s] + 1, s, Size(s) - 1, TermAt(s, Size(s) - 1))
           m == [p \in Peers(s) |-> request]
<1>1. s \in Ranks /\ channel \in Channels /\ Peers(s) \in SUBSET Ranks
  BY RanksFacts DEF ChannelTypeOK, Channels, Peers
<1>2. request \in RPC
  BY VoteRequestType
<1>3. \A d \in Peers(s) : m[d] \in RPC
  BY <1>2
<1>4. RequestVotes(s) = SendToAll(channel, s, Peers(s), m, Ended)
  BY DEF RequestVotes
<1>5. SendToAll(channel, s, Peers(s), m, Ended) \in Channels
  <2> HIDE DEF m
  <2> QED BY <1>1, <1>3, SendToAllFacts
<1> QED BY <1>4, <1>5

LEMMA BeatToTypes ==
    ASSUME ElectionTypeOK, LogTypeOK, LeaderTypeOK, NEW s \in Servers, NEW p \in Servers,
           next_log_index[s][p] >= 0
    PROVE  BeatTo(s, p) \in RPC
<1> DEFINE next == next_log_index[s][p]
           beat == AppendEntries(current_term[s], s, next - 1, TermAt(s, next - 1),
                                 SubSeq(server_log[s], next + 1, Size(s)), commit_index[s])
<1>1. server_log[s] \in Seq(LogEntry) /\ Size(s) \in Nat
  BY LenProperties DEF LogTypeOK, Size
<1>2. next \in Int /\ next >= 0 /\ commit_index[s] \in Int /\ current_term[s] \in Int
  BY DEF LeaderTypeOK, LogTypeOK, ElectionTypeOK
<1>3. \A i \in 1 .. Size(s) : server_log[s][i] \in LogEntry
  BY <1>1, ElementOfSeq DEF Size
<1>4. TermAt(s, next - 1) \in Int
  BY <1>2, TermAtType
<1>5. SubSeq(server_log[s], next + 1, Size(s)) \in Seq(LogEntry)
  <2>1. \A i \in next + 1 .. Size(s) : server_log[s][i] \in LogEntry
    BY <1>1, <1>2, <1>3
  <2> HIDE DEF next
  <2> QED BY <1>1, <1>2, <2>1, SubSeqProperties
<1>6. next - 1 \in Nat \cup {-1}
  BY <1>2
<1>7. beat \in RPC
  <2> HIDE DEF next
  <2> QED BY <1>2, <1>4, <1>5, <1>6, RpcFacts
<1>8. Heartbeat(current_term[s], commit_index[s]) \in RPC
  BY <1>2, RpcFacts
<1> QED BY <1>7, <1>8 DEF BeatTo

----------------------------------------------------------------------------
(* The steps of an update, one group after the other. *)

LEMMA TypeInit == ServerInit => StateTypeOK
<1> SUFFICES ASSUME ServerInit PROVE StateTypeOK
  OBVIOUS
<1> USE DEF ServerInit, ProcessInit
<1>1. \A S : << >> \in Seq(S) /\ Len(<< >>) = 0
  BY EmptySeq
<1>2. ElectionTypeOK /\ ApplyTypeOK /\ EndTypeOK
  BY <1>1 DEF ElectionTypeOK, ApplyTypeOK, EndTypeOK, Statuses
<1>3. LogTypeOK /\ LeaderTypeOK
  BY <1>1 DEF LogTypeOK, LeaderTypeOK
<1>4. ChannelTypeOK
  BY <1>1 DEF ChannelTypeOK
<1>5. UpdateTypeOK
  <2>1. batch \in Seq(Query) /\ done \in 0 .. Len(batch)
    BY <1>1
  <2> QED BY <2>1, RanksFacts DEF UpdateTypeOK
<1> QED BY <1>2, <1>3, <1>4, <1>5 DEF StateTypeOK

\* A receive, clean or garbled, takes n messages and keeps at most as many.
LEMMA ReceiveIsDrain ==
    ASSUME ChannelTypeOK, NEW s \in Ranks, NEW p \in Ranks,
           Receive(s, p) \/ ReceiveGarbled(s, p)
    PROVE  \E n \in 1 .. Len(channel[p][s]) : \E k \in 0 .. n : Drain(s, p, k, n)
<1>1. Len(channel[p][s]) \in Nat
  <2>1. channel[p][s] \in Seq(RPC)
    BY DEF ChannelTypeOK
  <2> QED BY <2>1, LenProperties
<1>2. ASSUME NEW k \in 1 .. Len(channel[p][s]), Drain(s, p, k, k)
      PROVE  \E n \in 1 .. Len(channel[p][s]) : \E j \in 0 .. n : Drain(s, p, j, n)
  <2>1. k \in 0 .. k
    OBVIOUS
  <2> QED BY <1>2, <2>1
<1>3. ASSUME NEW k \in 0 .. Len(channel[p][s]) - 1, Drain(s, p, k, k + 1)
      PROVE  \E n \in 1 .. Len(channel[p][s]) : \E j \in 0 .. n : Drain(s, p, j, n)
  <2>1. k \in 0 .. k + 1 /\ k + 1 \in 1 .. Len(channel[p][s])
    BY <1>1
  <2> QED BY <1>3, <2>1
<1> QED BY <1>2, <1>3 DEF Receive, ReceiveGarbled

LEMMA ReceiveTypes ==
    ASSUME StateTypeOK, NEW s \in Servers,
           StartUpdate(s) \/ ReceiveAll(s)
    PROVE  StateTypeOK'
<1> USE DEF StateTypeOK
<1>1. CASE StartUpdate(s)
  <2>1. UpdateTypeOK'
    BY <1>1, RanksFacts DEF StartUpdate, Begin, UpdateTypeOK
  <2> QED BY <1>1, <2>1, TypeFrames DEF StartUpdate, Begin, serverState
<1>2. CASE ReceiveAll(s)
  <2> s \in Ranks
    BY RanksFacts
  <2>1. PICK p \in Ranks : Receive(s, p) \/ ReceiveGarbled(s, p)
    BY <1>2 DEF ReceiveAll
  <2>2. PICK n \in 1 .. Len(channel[p][s]) : \E k \in 0 .. n : Drain(s, p, k, n)
    BY <2>1, ReceiveIsDrain
  <2>3. PICK k \in 0 .. n : Drain(s, p, k, n)
    BY <2>2
  <2>4. channel' \in Channels /\ batch' \in Seq(Query) /\ Len(batch') = Len(batch) + k
    BY <2>3, DrainFacts
  <2>5. done \in 0 .. Len(batch') /\ p + 1 \in Nat
    <3>1. Len(batch) \in Nat /\ done \in 0 .. Len(batch)
      BY LenProperties DEF UpdateTypeOK
    <3> QED BY <3>1, <2>4, RanksAssumption DEF Ranks
  <2>6. UpdateTypeOK'
    BY <2>3, <2>4, <2>5 DEF UpdateTypeOK, Drain
  <2>7. ChannelTypeOK'
    BY <2>4 DEF ChannelTypeOK, Channels
  <2> QED BY <2>3, <2>6, <2>7, <1>2, TypeFrames DEF ReceiveAll, Drain, serverState
<1> QED BY <1>1, <1>2

LEMMA ApplyTypes ==
    ASSUME StateTypeOK, NEW s \in Servers,
           ApplyEntry(s) \/ BeginHandling(s)
    PROVE  StateTypeOK'
<1> USE DEF StateTypeOK
<1>1. CASE ApplyEntry(s)
  <2> DEFINE i == last_log_applied[s] + 1
             queue == entries_queue[s]
             acks == /\ queue # << >>
                     /\ Reply(s, Head(queue).source, NewLogEntryResponse(TRUE))
                     /\ entries_queue' = [entries_queue EXCEPT ![s] = Tail(queue)]
  <2>1. i \in Nat /\ Size(s) \in Nat
    <3>1. ApplyTypeOK /\ LogTypeOK
      OBVIOUS
    <3>2. last_log_applied[s] \in Nat \cup {-1}
      BY <3>1 DEF ApplyTypeOK
    <3>3. Size(s) \in Nat
      BY <3>1, LogFacts
    <3> QED BY <3>2, <3>3
  <2>2. ApplyTypeOK'
    <3>1. CASE i < Size(s)
      <4>1. Entry(s, i) \in LogEntry
        BY <2>1, <3>1, LogFacts
      <4>2. Entry(s, i).command \in Commands
        BY <4>1 DEF LogEntry
      <4>3. Append(log_file[s], Entry(s, i).command) \in Seq(Commands)
        BY <4>2, AppendProperties DEF ApplyTypeOK
      <4> QED BY <1>1, <2>1, <3>1, <4>3 DEF ApplyEntry, ApplyTypeOK
    <3> QED BY <1>1, <2>1, <3>1 DEF ApplyEntry, ApplyTypeOK
  <2>3. LeaderTypeOK' /\ ChannelTypeOK'
    <3>1. CASE acks
      <4>1. queue \in Seq([source : Ranks, command : Commands]) /\ queue # << >>
        BY <3>1 DEF LeaderTypeOK
      <4>2. Tail(queue) \in Seq([source : Ranks, command : Commands])
        BY <4>1, HeadTailProperties
      <4>3. ChannelTypeOK'
        BY <3>1, RpcFacts, ReplyTypes
      <4>4. entries_queue' = [entries_queue EXCEPT ![s] = Tail(queue)]
        BY <3>1
      <4> HIDE DEF queue
      <4>5. LeaderTypeOK'
        BY <1>1, <4>2, <4>4 DEF ApplyEntry, LeaderTypeOK
      <4> QED BY <4>3, <4>5
    <3>2. CASE ~acks
      <4>1. UNCHANGED <<channel, entries_queue>>
        BY <1>1, <3>2 DEF ApplyEntry
      <4> QED BY <1>1, <4>1, TypeFrames DEF ApplyEntry, leaderVars
    <3> QED BY <3>1, <3>2
  <2>4. UpdateTypeOK' /\ EndTypeOK'
    <3>1. CASE Abort(s)
      BY <3>1, AbortTypes
    <3>2. CASE ~Abort(s)
      <4>1. phase' = "apply" /\ UNCHANGED <<endVars, active, source, batch, done, clocks_reset>>
        BY <1>1, <3>2 DEF ApplyEntry
      <4> QED BY <4>1, TypeFrames DEF UpdateTypeOK
    <3> QED BY <3>1, <3>2
  <2> QED BY <1>1, <2>2, <2>3, <2>4, TypeFrames DEF ApplyEntry
<1>2. CASE BeginHandling(s)
  <2>1. UpdateTypeOK'
    BY <1>2 DEF BeginHandling, UpdateTypeOK
  <2> QED BY <1>2, <2>1, TypeFrames DEF BeginHandling, stateVars, dataVars
<1> QED BY <1>1, <1>2

\* The commit index a server takes from its leader is an integer.
LEMMA FollowerCommitType ==
    ASSUME LogTypeOK, NEW s \in Servers, NEW c \in Int, NEW size \in Nat
    PROVE  FollowerCommit(s, c, size) \in Int
BY DEF LogTypeOK, FollowerCommit, Least

LEMMA HandleEntriesTypes ==
    ASSUME StateTypeOK, NEW s \in Servers, HandleAppendEntries(s)
    PROVE  StateTypeOK'
<1> DEFINE ae == batch[done + 1].rpc
           merged == MergedLog(server_log[s], ae.prev_log_index, ae.entries)
<1> USE DEF StateTypeOK
<1>1. done < Len(batch) /\ ae \in RPC /\ ae.type = "APPEND_ENTRIES"
  BY QueryFacts DEF HandleAppendEntries, Handling
<1>2. /\ ae.prev_log_index \in Nat \cup {-1} /\ ae.entries \in Seq(LogEntry)
      /\ ae.leader_commit \in Int /\ ae.term \in Int
  <2> HIDE DEF ae
  <2> QED BY <1>1, RpcFields
<1>3. server_log[s] \in Seq(LogEntry) /\ Size(s) \in Nat
  BY LogFacts
<1>4. ae.prev_log_index < Len(server_log[s])
  <2>1. ~DeniesEntries(s, ae)
    BY DEF HandleAppendEntries
  <2> HIDE DEF ae
  <2> QED BY <1>2, <1>3, <2>1 DEF DeniesEntries, Size
<1>5. merged \in Seq(LogEntry) /\ Len(merged) \in Nat
  <2> HIDE DEF ae
  <2> QED BY <1>2, <1>3, <1>4, MergedLogFacts
<1>6. server_log' = [server_log EXCEPT ![s] = merged]
  BY DEF HandleAppendEntries
<1>7. server_log'[s] = merged
  BY <1>6 DEF LogTypeOK
<1>8. commit_index' = [commit_index EXCEPT ![s] =
                         FollowerCommit(s, ae.leader_commit, Len(merged))]
  BY <1>7 DEF HandleAppendEntries
<1>9. FollowerCommit(s, ae.leader_commit, Len(merged)) \in Int
  <2> HIDE DEF ae, merged
  <2> QED BY <1>2, <1>5, FollowerCommitType
<1>10. LogTypeOK'
  <2> HIDE DEF ae, merged
  <2> QED BY <1>5, <1>6, <1>8, <1>9 DEF LogTypeOK
<1>11. ChannelTypeOK'
  <2>1. AppendEntriesResponse(ae.term, TRUE) \in RPC
    BY <1>2, RpcFacts
  <2> QED BY <2>1, ReplyTypes DEF HandleAppendEntries
<1>12. UpdateTypeOK'
  BY <1>1, UpdateTypes, ClockTypes DEF HandleAppendEntries
<1> QED BY <1>10, <1>11, <1>12, TypeFrames DEF HandleAppendEntries

LEMMA HandleQueryTypes ==
    ASSUME StateTypeOK, NEW s \in Servers, HandleQuery(s)
    PROVE  StateTypeOK'
<1> USE DEF StateTypeOK
<1> DEFINE q == batch[done + 1]
<1>1. done < Len(batch) /\ q.rpc \in RPC /\ q.rpc.term \in Int
  <2>1. done < Len(batch)
    BY DEF HandleQuery, StepDown, HandleHeartbeat, HandleVoteRequest, HandleVoteRequestThrows,
           HandleAppendEntriesDenied, HandleAppendEntries, AnswerSearchLeader, DenyNewLogEntry,
           PassOver, Handling
  <2>2. q.rpc \in RPC
    BY <2>1, QueryFacts
  <2> QED BY <2>1, <2>2, RpcFields
<1>2. ASSUME QueryDone PROVE UpdateTypeOK' /\ UNCHANGED stateVars
  BY <1>1, <1>2, UpdateTypes DEF QueryDone, UpdateTypeOK
<1>3. ASSUME UNCHANGED stateVars, UpdateTypeOK', ChannelTypeOK' PROVE StateTypeOK'
  BY <1>3, TypeFrames DEF stateVars, dataVars
<1>4. current_term[s] \in Nat
  BY DEF ElectionTypeOK
<1>5. CASE StepDown(s)
  <2>1. q.rpc.term \in Nat
    BY <1>1, <1>4, <1>5 DEF StepDown, MustStepDown
  <2>2. ElectionTypeOK'
    BY <1>5, <2>1 DEF StepDown, SetAsFollower, ElectionTypeOK, Statuses
  <2>3. UpdateTypeOK'
    BY <1>5 DEF StepDown, ResetClock, Resets, Clocks, UpdateTypeOK
  <2> QED BY <1>5, <2>2, <2>3, TypeFrames DEF StepDown, dataVars
<1>6. CASE HandleHeartbeat(s)
  <2>1. q.rpc.leader_commit \in Int
    <3>1. q.rpc.type = "HEARTBEAT"
      BY <1>6 DEF HandleHeartbeat, Handling
    <3> QED BY <1>1, <3>1, RpcFields
  <2>2. Size(s) \in Nat
    BY LogFacts
  <2>3. FollowerCommit(s, q.rpc.leader_commit, Size(s)) \in Int
    BY <2>1, <2>2, FollowerCommitType
  <2>4. LogTypeOK'
    BY <1>6, <2>3 DEF HandleHeartbeat, LogTypeOK
  <2>5. ElectionTypeOK'
    BY <1>6 DEF HandleHeartbeat, ElectionTypeOK
  <2>6. UpdateTypeOK'
    BY <1>1, <1>6, UpdateTypes, ClockTypes DEF HandleHeartbeat
  <2> QED BY <1>6, <2>4, <2>5, <2>6, TypeFrames DEF HandleHeartbeat
<1>7. CASE HandleVoteRequest(s)
  <2>1. q.rpc.candidate_rank \in Servers
    <3>1. q.rpc.type = "VOTE_REQUEST"
      BY <1>7 DEF HandleVoteRequest, Handling
    <3> QED BY <1>1, <3>1, RpcFields
  <2>2. ElectionTypeOK'
    BY <1>7, <2>1 DEF HandleVoteRequest, ElectionTypeOK
  <2>3. VoteResponse(current_term[s], GrantsVote(s, q.rpc)) \in RPC
    <3>1. GrantsVote(s, q.rpc) \in BOOLEAN
      BY DEF GrantsVote
    <3> QED BY <1>4, <3>1, RpcFacts
  <2>4. ChannelTypeOK'
    BY <1>7, <2>3, ReplyTypes DEF HandleVoteRequest
  <2>5. UpdateTypeOK'
    BY <1>1, <1>7, UpdateTypes, ClockTypes DEF HandleVoteRequest
  <2> QED BY <1>7, <2>2, <2>4, <2>5, TypeFrames DEF HandleVoteRequest, dataVars
<1>8. CASE HandleVoteRequestThrows(s)
  <2>1. UpdateTypeOK' /\ EndTypeOK'
    BY <1>8, AbortTypes DEF HandleVoteRequestThrows
  <2> QED BY <1>8, <2>1, TypeFrames DEF HandleVoteRequestThrows
<1>9. CASE HandleAppendEntriesDenied(s)
  <2>1. AppendEntriesResponse(current_term[s], FALSE) \in RPC
    <3>1. current_term[s] \in Int /\ FALSE \in BOOLEAN
      BY <1>4
    <3> HIDE DEF StateTypeOK
    <3> QED BY <3>1, RpcFacts
  <2> QED BY <1>2, <1>3, <1>9, <2>1, ReplyTypes DEF HandleAppendEntriesDenied
<1>10. CASE HandleAppendEntries(s)
  BY <1>10, HandleEntriesTypes
<1>11. CASE AnswerSearchLeader(s)
  BY <1>2, <1>3, <1>11, RpcFacts, ReplyTypes DEF AnswerSearchLeader
<1>12. CASE DenyNewLogEntry(s)
  BY <1>2, <1>3, <1>12, RpcFacts, ReplyTypes DEF DenyNewLogEntry
<1>13. CASE PassOver(s)
  BY <1>2, <1>3, <1>13, TypeFrames DEF PassOver
<1> QED BY <1>5, <1>6, <1>7, <1>8, <1>9, <1>10, <1>11, <1>12, <1>13 DEF HandleQuery

\* Becoming a follower or a candidate.
LEMMA BecomeTypes ==
    ASSUME ElectionTypeOK, NEW s \in Servers
    PROVE  /\ SetAsFollower(s) /\ UNCHANGED current_term => ElectionTypeOK'
           /\ SetAsCandidate(s) => ElectionTypeOK'
BY DEF SetAsFollower, SetAsCandidate, ElectionTypeOK, Statuses

LEMMA HandleMessageTypes ==
    ASSUME StateTypeOK, NEW s \in Servers, HandleMessage(s)
    PROVE  StateTypeOK'
<1> USE DEF StateTypeOK
<1>1. done < Len(batch)
  BY DEF HandleMessage, HandleDisplayOrSpeed, HandleStop, HandleCrash, HandleRecover,
         HandleServerTimeout, Ordered, Handling
<1>2. NextQuery /\ clocks_reset' \subseteq Clocks
  BY DEF HandleMessage, HandleDisplayOrSpeed, HandleStop, HandleCrash, HandleRecover,
         HandleServerTimeout, KeepClock, ResetClock, Resets, Clocks, QueryDone, UpdateTypeOK
<1>3. UpdateTypeOK'
  BY <1>1, <1>2, UpdateTypes
<1>4. ASSUME NEW b \in BOOLEAN, Answer(s, b) PROVE ChannelTypeOK'
  BY <1>4, RpcFacts, ReplyTypes DEF Answer
<1>5. CASE HandleDisplayOrSpeed(s)
  BY <1>3, <1>4, <1>5, TypeFrames DEF HandleDisplayOrSpeed, QueryDone, stateVars, dataVars
<1>6. CASE HandleStop(s)
  <2>1. EndTypeOK'
    BY <1>6, RanksFacts DEF HandleStop, EndTypeOK
  <2> QED BY <1>3, <1>4, <1>6, <2>1, TypeFrames DEF HandleStop
<1>7. CASE HandleCrash(s)
  <2>1. Answer(s, status[s] # "DEAD") /\ (status[s] # "DEAD") \in BOOLEAN
    BY <1>7 DEF HandleCrash
  <2>2. ChannelTypeOK'
    BY <1>4, <2>1
  <2>3. ElectionTypeOK' /\ LeaderTypeOK'
    <3>1. CASE status[s] # "DEAD"
      <4>1. /\ status' = [status EXCEPT ![s] = "DEAD"]
            /\ vote_count' = [vote_count EXCEPT ![s] = 0]
            /\ current_term' = [current_term EXCEPT ![s] = 0]
            /\ voted_for' = [voted_for EXCEPT ![s] = 0]
        BY <1>7, <3>1 DEF HandleCrash
      <4>2. ElectionTypeOK'
        BY <4>1 DEF ElectionTypeOK, Statuses
      <4>3. /\ entries_queue' = [entries_queue EXCEPT ![s] = << >>]
            /\ next_log_index' = [next_log_index EXCEPT ![s] = [p \in Servers |-> 0]]
            /\ log_index_match' = [log_index_match EXCEPT ![s] = [p \in Servers |-> -1]]
        BY <1>7, <3>1 DEF HandleCrash
      <4>4. << >> \in Seq([source : Ranks, command : Commands])
        BY EmptySeq
      <4>5. /\ [p \in Servers |-> 0] \in [Servers -> Int]
            /\ [p \in Servers |-> -1] \in [Servers -> Int]
        OBVIOUS
      <4>6. /\ next_log_index' \in [Servers -> [Servers -> Int]]
            /\ log_index_match' \in [Servers -> [Servers -> Int]]
        BY <4>3, <4>5 DEF LeaderTypeOK
      <4>7. entries_queue' \in [Servers -> Seq([source : Ranks, command : Commands])]
        BY <4>3, <4>4 DEF LeaderTypeOK
      <4> QED BY <4>2, <4>6, <4>7 DEF LeaderTypeOK
    <3>2. CASE status[s] = "DEAD"
      BY <1>7, <3>2, TypeFrames DEF HandleCrash
    <3> QED BY <3>1, <3>2
  <2> QED BY <1>3, <1>7, <2>2, <2>3, TypeFrames DEF HandleCrash
<1>8. CASE HandleRecover(s)
  <2>1. Answer(s, status[s] = "DEAD") /\ (status[s] = "DEAD") \in BOOLEAN
    BY <1>8 DEF HandleRecover
  <2>2. ElectionTypeOK'
    BY <1>8, BecomeTypes, TypeFrames DEF HandleRecover, electionVars
  <2>3. ChannelTypeOK'
    BY <1>4, <2>1
  <2> QED BY <1>3, <1>8, <2>2, <2>3, TypeFrames DEF HandleRecover, dataVars
<1>9. CASE HandleServerTimeout(s)
  <2>1. CASE status[s] = "FOLLOWER"
    <3>1. ElectionTypeOK'
      BY <1>9, <2>1, BecomeTypes DEF HandleServerTimeout
    <3>2. channel' = SendMessage(RequestVotes(s), s, batch[done + 1].source,
                                 MessageResponse(TRUE), Ended)
      BY <1>9, <2>1 DEF HandleServerTimeout
    <3>3. RequestVotes(s) \in Channels /\ s \in Ranks /\ MessageResponse(TRUE) \in RPC
      BY RanksFacts, RpcFacts, RequestVotesTypes
    <3>4. ChannelTypeOK'
      BY <3>2, <3>3, SendMessageFacts DEF ChannelTypeOK, Channels
    <3> QED BY <1>3, <1>9, <3>1, <3>4, TypeFrames DEF HandleServerTimeout, dataVars
  <2>2. CASE status[s] # "FOLLOWER"
    BY <1>3, <1>4, <1>9, <2>2, TypeFrames DEF HandleServerTimeout, dataVars
  <2> QED BY <2>1, <2>2
<1> QED BY <1>5, <1>6, <1>7, <1>8, <1>9 DEF HandleMessage

\* The routines of a follower and of a candidate.
LEMMA ElectionTypes ==
    ASSUME StateTypeOK, NEW s \in Servers,
           \/ NoRoutine(s) \/ FollowerTimesOut(s) \/ CandidateDefers(s) \/ CandidateWins(s)
           \/ CandidateWaits(s) \/ CandidateTimesOut(s)
    PROVE  StateTypeOK'
<1> USE DEF StateTypeOK
<1>1. UpdateTypeOK'
  <2>1. EndUpdate
    BY DEF NoRoutine, FollowerTimesOut, CandidateDefers, CandidateWins, CandidateWaits,
           CandidateTimesOut, CandidateCounts
  <2> QED BY <2>1, UpdateTypes
<1>2. vote_count[s] + VotesIn(batch) \in Nat
  BY VotesFacts DEF ElectionTypeOK
<1>3. ASSUME channel' = RequestVotes(s) PROVE ChannelTypeOK'
  BY <1>3, RequestVotesTypes DEF ChannelTypeOK, Channels
<1>4. CASE NoRoutine(s)
  BY <1>1, <1>4, TypeFrames DEF NoRoutine, stateVars, dataVars
<1>5. CASE FollowerTimesOut(s)
  <2>1. ElectionTypeOK'
    BY <1>5, BecomeTypes DEF FollowerTimesOut
  <2> QED BY <1>1, <1>3, <1>5, <2>1, TypeFrames DEF FollowerTimesOut, dataVars
<1>6. CASE CandidateDefers(s)
  <2>1. ElectionTypeOK'
    BY <1>6, BecomeTypes DEF CandidateDefers
  <2> QED BY <1>1, <1>6, <2>1, TypeFrames DEF CandidateDefers, dataVars
<1>7. CASE CandidateWins(s)
  <2> DEFINE heartbeat == Heartbeat(current_term[s], commit_index[s])
             m == [p \in Peers(s) |-> heartbeat]
  <2>1. ElectionTypeOK'
    BY <1>2, <1>7 DEF CandidateWins, ElectionTypeOK, Statuses
  <2>2. Size(s) \in Int
    BY LogFacts
  <2>3. LeaderTypeOK'
    <3>1. /\ [p \in Servers |-> Size(s)] \in [Servers -> Int]
          /\ [p \in Servers |-> -1] \in [Servers -> Int]
      BY <2>2
    <3>2. /\ next_log_index' = [next_log_index EXCEPT ![s] = [p \in Servers |-> Size(s)]]
          /\ log_index_match' = [log_index_match EXCEPT ![s] = [p \in Servers |-> -1]]
          /\ entries_queue' = entries_queue
      BY <1>7 DEF CandidateWins, CandidateCounts
    <3> QED BY <3>1, <3>2 DEF LeaderTypeOK
  <2>4. heartbeat \in RPC
    <3>1. current_term[s] \in Int /\ commit_index[s] \in Int
      BY DEF ElectionTypeOK, LogTypeOK
    <3> QED BY <3>1, RpcFacts
  <2>5. channel' = SendToAll(channel, s, Peers(s), m, Ended)
    BY <1>7 DEF CandidateWins
  <2>6. s \in Ranks /\ channel \in Channels /\ Peers(s) \in SUBSET Ranks
    BY RanksFacts DEF ChannelTypeOK, Channels, Peers
  <2>7. \A d \in Peers(s) : m[d] \in RPC
    BY <2>4
  <2>8. ChannelTypeOK'
    <3> HIDE DEF m
    <3> QED BY <2>5, <2>6, <2>7, SendToAllFacts DEF ChannelTypeOK, Channels
  <2> QED BY <1>1, <1>7, <2>1, <2>3, <2>8, TypeFrames DEF CandidateWins, CandidateCounts
<1>8. CASE CandidateWaits(s)
  <2>1. ElectionTypeOK'
    BY <1>2, <1>8 DEF CandidateWaits, ElectionTypeOK
  <2> QED BY <1>1, <1>8, <2>1, TypeFrames DEF CandidateWaits, CandidateCounts, leaderVars
<1>9. CASE CandidateTimesOut(s)
  <2>1. ElectionTypeOK'
    BY <1>9, BecomeTypes DEF CandidateTimesOut
  <2>2. ChannelTypeOK'
    BY <1>3, <1>9 DEF CandidateTimesOut
  <2> QED BY <1>1, <1>9, <2>1, <2>2, TypeFrames DEF CandidateTimesOut, CandidateCounts, leaderVars
<1> QED BY <1>4, <1>5, <1>6, <1>7, <1>8, <1>9

\* The routine of the leader.
LEMMA LeaderTypes ==
    ASSUME StateTypeOK, NEW s \in Servers,
           \/ LeaderBeats(s) \/ LeaderSkipsBeat(s) \/ LeaderAppends(s) \/ LeaderCountsSuccess(s)
           \/ LeaderBacksUp(s) \/ LeaderPassesOver(s) \/ LeaderCommits(s)
    PROVE  StateTypeOK'
<1> USE DEF StateTypeOK
<1>1. CASE LeaderBeats(s)
  <2> DEFINE unsafe == {p \in Peers(s) : next_log_index[s][p] < 0}
             reached == {p \in Peers(s) : \A u \in unsafe : p < u}
             m == [p \in reached |-> BeatTo(s, p)]
  <2>1. ASSUME NEW p \in reached PROVE m[p] \in RPC
    <3>0. p \in Peers(s)
      OBVIOUS
    <3>1. p \in Servers /\ p \in Int
      <4> HIDE DEF unsafe, reached, m
      <4> QED BY <3>0, RanksFacts DEF Peers
    <3>2. next_log_index[s][p] \in Int
      BY <3>1 DEF LeaderTypeOK
    <3>3. p \notin unsafe
      BY <3>1
    <3>4. next_log_index[s][p] >= 0
      BY <3>2, <3>3
    <3> QED BY <3>1, <3>4, BeatToTypes
  <2>2. channel' = SendToAll(channel, s, reached, m, Ended)
    BY <1>1 DEF LeaderBeats
  <2>3. s \in Ranks /\ channel \in Channels /\ reached \in SUBSET Ranks
    BY RanksFacts DEF ChannelTypeOK, Channels, Peers
  <2>4. ChannelTypeOK'
    <3> HIDE DEF m, reached
    <3> QED BY <2>1, <2>2, <2>3, SendToAllFacts DEF ChannelTypeOK, Channels
  <2>5. UpdateTypeOK' /\ EndTypeOK'
    <3>1. CASE unsafe = {}
      BY <1>1, <3>1, UpdateTypes, ClockTypes, TypeFrames DEF LeaderBeats
    <3>2. CASE unsafe # {}
      BY <1>1, <3>2, AbortTypes DEF LeaderBeats
    <3> QED BY <3>1, <3>2
  <2> QED BY <1>1, <2>4, <2>5, TypeFrames DEF LeaderBeats
<1>2. CASE LeaderSkipsBeat(s)
  <2>1. UpdateTypeOK'
    BY <1>2, UpdateTypes DEF LeaderSkipsBeat, UpdateTypeOK
  <2> QED BY <1>2, <2>1, TypeFrames DEF LeaderSkipsBeat, stateVars, dataVars
<1> DEFINE q == batch[done + 1]
<1>3. ASSUME Leading(s, q), NextQuery, KeepClock
      PROVE  UpdateTypeOK' /\ q.rpc \in RPC /\ q.source \in Ranks
  <2>1. done < Len(batch) /\ clocks_reset' \subseteq Clocks
    BY <1>3 DEF Leading, KeepClock, UpdateTypeOK
  <2> QED BY <1>3, <2>1, UpdateTypes, QueryFacts
<1>4. CASE LeaderAppends(s)
  <2>1. UpdateTypeOK' /\ q.rpc \in RPC /\ q.source \in Ranks /\ q.rpc.type = "NEW_LOG_ENTRY"
    BY <1>3, <1>4 DEF LeaderAppends
  <2>2. q.rpc.command \in Commands
    BY <2>1, RpcFields
  <2> DEFINE entry == [term |-> current_term[s], command |-> q.rpc.command]
             request == [source |-> q.source, command |-> q.rpc.command]
  <2>3. entry \in LogEntry
    <3>1. current_term[s] \in Int
      BY DEF ElectionTypeOK
    <3> QED BY <2>2, <3>1 DEF LogEntry
  <2>4. LogTypeOK'
    <3>1. server_log' = [server_log EXCEPT ![s] = Append(server_log[s], entry)]
      BY <1>4 DEF LeaderAppends
    <3>2. Append(server_log[s], entry) \in Seq(LogEntry)
      BY <2>3, AppendProperties DEF LogTypeOK
    <3> HIDE DEF entry
    <3> QED BY <1>4, <3>1, <3>2 DEF LeaderAppends, LogTypeOK
  <2>5. LeaderTypeOK'
    <3>1. entries_queue' = [entries_queue EXCEPT ![s] = Append(entries_queue[s], request)]
      BY <1>4 DEF LeaderAppends, Enqueued
    <3>2. request \in [source : Ranks, command : Commands]
      BY <2>1, <2>2
    <3>3. Append(entries_queue[s], request) \in Seq([source : Ranks, command : Commands])
      BY <3>2, AppendProperties DEF LeaderTypeOK
    <3> HIDE DEF request
    <3> QED BY <1>4, <3>1, <3>3 DEF LeaderAppends, LeaderTypeOK
  <2> QED BY <1>4, <2>1, <2>4, <2>5, TypeFrames DEF LeaderAppends
<1>5. CASE LeaderCountsSuccess(s)
  <2> DEFINE p == q.source
             match == log_index_match[s][p] + 1
  <2>1. UpdateTypeOK'
    BY <1>3, <1>5 DEF LeaderCountsSuccess
  <2>2. p \in Servers => match \in Int /\ next_log_index[s][p] + 1 \in Int
    BY DEF LeaderTypeOK
  <2>3. /\ log_index_match' = [log_index_match EXCEPT ![s][p] = match]
        /\ \/ next_log_index' = [next_log_index EXCEPT ![s][p] = next_log_index[s][p] + 1]
           \/ UNCHANGED next_log_index
        /\ UNCHANGED entries_queue
    BY <1>5 DEF LeaderCountsSuccess
  <2>4. LeaderTypeOK'
    <3> HIDE DEF p, match
    <3>1. log_index_match' \in [Servers -> [Servers -> Int]]
      BY <2>2, <2>3 DEF LeaderTypeOK
    <3>2. next_log_index' \in [Servers -> [Servers -> Int]]
      <4>1. CASE next_log_index' = [next_log_index EXCEPT ![s][p] = next_log_index[s][p] + 1]
        BY <2>2, <4>1 DEF LeaderTypeOK
      <4>2. CASE UNCHANGED next_log_index
        BY <4>2 DEF LeaderTypeOK
      <4> QED BY <2>3, <4>1, <4>2
    <3> QED BY <2>3, <3>1, <3>2 DEF LeaderTypeOK
  <2> QED BY <1>5, <2>1, <2>4, TypeFrames DEF LeaderCountsSuccess
<1>6. CASE LeaderBacksUp(s)
  <2> DEFINE p == q.source
  <2>1. UpdateTypeOK'
    BY <1>3, <1>6 DEF LeaderBacksUp
  <2>2. p \in Servers => next_log_index[s][p] - 1 \in Int
    BY DEF LeaderTypeOK
  <2>3. /\ next_log_index' = [next_log_index EXCEPT ![s][p] = next_log_index[s][p] - 1]
        /\ UNCHANGED <<log_index_match, entries_queue>>
    BY <1>6 DEF LeaderBacksUp
  <2>4. LeaderTypeOK'
    <3> HIDE DEF p
    <3> QED BY <2>2, <2>3 DEF LeaderTypeOK
  <2> QED BY <1>6, <2>1, <2>4, TypeFrames DEF LeaderBacksUp
<1>7. CASE LeaderPassesOver(s)
  <2>1. UpdateTypeOK'
    BY <1>3, <1>7 DEF LeaderPassesOver, QueryDone, KeepClock
  <2> QED BY <1>7, <2>1, TypeFrames DEF LeaderPassesOver, QueryDone, stateVars, dataVars
<1>8. CASE LeaderCommits(s)
  <2>1. LogTypeOK'
    <3>1. commit_index[s] + 1 \in Int
      BY DEF LogTypeOK
    <3>2. \/ commit_index' = [commit_index EXCEPT ![s] = commit_index[s] + 1]
          \/ commit_index' = commit_index
      BY <1>8 DEF LeaderCommits
    <3>3. UNCHANGED server_log
      BY <1>8 DEF LeaderCommits
    <3> QED BY <3>1, <3>2, <3>3 DEF LogTypeOK
  <2>2. UpdateTypeOK' /\ EndTypeOK'
    BY <1>8, AbortTypes, UpdateTypes, TypeFrames DEF LeaderCommits
  <2> QED BY <1>8, <2>1, <2>2, TypeFrames DEF LeaderCommits
<1> QED BY <1>1, <1>2, <1>4, <1>5, <1>6, <1>7, <1>8

\* Every step of a server keeps the types.
LEMMA ServerStepTypes ==
    ASSUME StateTypeOK, NEW s \in Servers, ServerStep(s)
    PROVE  StateTypeOK'
BY ReceiveTypes, ApplyTypes, HandleQueryTypes, HandleMessageTypes, ElectionTypes, LeaderTypes
   DEF ServerStep, Routine

=============================================================================
