----------------------------- MODULE QueueProofs -----------------------------
(***************************************************************************)
(* Acknowledgements, when only l may be elected and is never crashed (a    *)
(* crash clears its queue, but not its log): the front of l's queue is the *)
(* request whose entry l applies next.                                     *)
(*                                                                         *)
(* l must go on leading from its first entry on.  It does because nobody   *)
(* ever has a term above l's, so that no message makes it step down.       *)
(***************************************************************************)
EXTENDS AnyLeaderProofs

----------------------------------------------------------------------------
(* The invariant. *)

\* m may be on its way to d while l has term t.
UnderTerm(l, t, m, d) ==
    /\ m.term <= t
    /\ d = l => ~IsCrash(m)

TermsUnder(l) ==
    /\ \A d \in Servers : current_term[d] <= current_term[l]
    /\ \A p \in Ranks, d \in Servers : \A i \in 1 .. Len(channel[p][d]) :
          UnderTerm(l, current_term[l], channel[p][d][i], d)
    /\ active \in Servers => \A i \in 1 .. Len(batch) :
          UnderTerm(l, current_term[l], batch[i].rpc, active)

\* From its first entry on, l leads.
StillLeads(l) ==
    /\ status[l] # "DEAD"
    /\ status[l] # "LEADER" => Size(l) = 0

\* The queue of l holds the requests of the entries l has not applied.
QueueFits(l) ==
    /\ Len(entries_queue[l]) = Size(l) - (last_log_applied[l] + 1)
    /\ \A i \in 1 .. Len(entries_queue[l]) :
          entries_queue[l][i].command = server_log[l][last_log_applied[l] + 1 + i].command

QueueInv(l) ==
    /\ OrderInv(l)
    /\ SilenceInv
    /\ TermsUnder(l)
    /\ StillLeads(l)
    /\ QueueFits(l)

\* The others send no terms, and no order to crash l.
OutsideMild(l) ==
    \A p \in Ranks, d \in Servers : \A i \in 1 .. Len(channel'[p][d]) :
        \/ \E j \in 1 .. Len(channel[p][d]) : channel'[p][d][i] = channel[p][d][j]
        \/ UnderTerm(l, -1, channel'[p][d][i], d)

MildTurn(l) == (OutsideTurn /\ OutsideMild(l)) \/ \E s \in Servers : ServerStep(s)

----------------------------------------------------------------------------
(* Nobody's term is above l's. *)

LEMMA NeverDown ==
    ASSUME NEW l \in Servers, StateTypeOK, TermsUnder(l)
    PROVE  ~HandleCrash(l) /\ ~StepDown(l)
<1>1. ASSUME active = l, done < Len(batch)
      PROVE  UnderTerm(l, current_term[l], batch[done + 1].rpc, l)
  <2>1. done + 1 \in 1 .. Len(batch)
    BY <1>1, QueryFacts DEF StateTypeOK
  <2> QED BY <1>1, <2>1 DEF TermsUnder
<1>2. ASSUME HandleCrash(l) PROVE FALSE
  <2>1. Ordered(l, {"PROCESS_CRASH"})
    BY <1>2 DEF HandleCrash
  <2>2. active = l /\ done < Len(batch) /\ IsCrash(batch[done + 1].rpc)
    BY <2>1 DEF Ordered, Handling, IsCrash
  <2> QED BY <1>1, <2>2 DEF UnderTerm
<1>3. ASSUME StepDown(l) PROVE FALSE
  <2>1. active = l /\ done < Len(batch) /\ batch[done + 1].rpc.term > current_term[l]
    BY <1>3 DEF StepDown, MustStepDown
  <2>2. batch[done + 1].rpc.term \in Int /\ current_term[l] \in Int
    BY <2>1, QueryFacts, RpcFields DEF StateTypeOK, ElectionTypeOK
  <2> QED BY <1>1, <2>1, <2>2 DEF UnderTerm
<1> QED BY <1>2, <1>3

\* A server that is not l takes its term from a message, or loses it in a crash.
LEMMA OtherTerms ==
    ASSUME NEW l \in Servers, Electable = {l}, LogsInv(l), TermsUnder(l),
           NEW s \in Servers, s # l, ServerStep(s)
    PROVE  current_term'[s] <= current_term[l]
<1> USE DEF serverState, stateVars, dataVars, electionVars
<1>1. current_term \in [Servers -> Nat] /\ current_term[l] \in Nat /\ current_term[s] \in Nat
      /\ current_term[s] <= current_term[l]
  BY DEF LogsInv, StateTypeOK, ElectionTypeOK, TermsUnder
<1>2. CASE UNCHANGED current_term
  BY <1>1, <1>2
<1>3. CASE StepDown(s)
  <2>1. /\ current_term' = [current_term EXCEPT ![s] = batch[done + 1].rpc.term]
        /\ done < Len(batch) /\ active = s
    BY <1>3 DEF StepDown
  <2>2. done + 1 \in 1 .. Len(batch)
    BY <2>1, QueryFacts DEF LogsInv, StateTypeOK
  <2>3. batch[done + 1].rpc.term <= current_term[l]
    BY <2>1, <2>2 DEF TermsUnder, UnderTerm
  <2> QED BY <1>1, <2>1, <2>3
<1>4. CASE HandleCrash(s)
  <2>1. UNCHANGED current_term \/ current_term' = [current_term EXCEPT ![s] = 0]
    BY <1>4 DEF HandleCrash
  <2> QED BY <1>1, <2>1
<1>5. CASE HandleServerTimeout(s)
  <2>1. /\ active = s /\ done < Len(batch)
        /\ batch[done + 1].rpc.type = "MESSAGE" /\ batch[done + 1].rpc.kind = "SERVER_TIMEOUT"
    BY <1>5 DEF HandleServerTimeout, Ordered, Handling
  <2>2. done + 1 \in 1 .. Len(batch)
    BY <2>1, QueryFacts DEF LogsInv, StateTypeOK
  <2>3. GoodFor(l, batch[done + 1].rpc, s)
    BY <2>1, <2>2 DEF LogsInv, BatchGood
  <2> QED BY <2>1, <2>3 DEF GoodFor
<1>6. CASE FollowerTimesOut(s) \/ CandidateTimesOut(s)
  BY <1>6 DEF FollowerTimesOut, CandidateTimesOut, ElectionTimeout
<1>7. CASE StartUpdate(s) \/ ReceiveAll(s) \/ ApplyEntry(s) \/ BeginHandling(s)
  BY <1>2, <1>7 DEF StartUpdate, ReceiveAll, ApplyEntry, BeginHandling
<1>8. CASE HandleQuery(s) /\ ~StepDown(s)
  BY <1>2, <1>8 DEF HandleQuery, HandleHeartbeat, HandleVoteRequest, HandleVoteRequestThrows,
     HandleAppendEntriesDenied, HandleAppendEntries, AnswerSearchLeader, DenyNewLogEntry,
     PassOver, QueryDone
<1>9. CASE HandleDisplayOrSpeed(s) \/ HandleStop(s) \/ HandleRecover(s)
  BY <1>2, <1>9 DEF HandleDisplayOrSpeed, HandleStop, HandleRecover, QueryDone
<1>10. CASE Routine(s) /\ ~FollowerTimesOut(s) /\ ~CandidateTimesOut(s)
  BY <1>2, <1>10 DEF Routine, NoRoutine, CandidateDefers, CandidateWins, CandidateWaits,
     LeaderBeats, LeaderSkipsBeat, LeaderAppends, LeaderCountsSuccess, LeaderBacksUp,
     LeaderPassesOver, LeaderCommits, QueryDone
<1> QED BY <1>3, <1>4, <1>5, <1>6, <1>7, <1>8, <1>9, <1>10 DEF ServerStep, HandleMessage

LEMMA TermsStayUnder ==
    ASSUME NEW l \in Servers, Electable = {l}, LogsInv(l), StateTypeOK', TermsUnder(l),
           NEW s \in Servers, ServerStep(s)
    PROVE  /\ current_term[l] <= current_term'[l]
           /\ \A d \in Servers : current_term'[d] <= current_term'[l]
<1>1. StateTypeOK
  BY DEF LogsInv
<1>2. \A d \in Servers : /\ current_term[d] \in Nat /\ current_term'[d] \in Nat
                         /\ current_term[d] <= current_term[l]
  BY <1>1 DEF StateTypeOK, ElectionTypeOK, TermsUnder
<1>3. \A d \in Servers : d # s => current_term'[d] = current_term[d]
  BY <1>1, OthersStay DEF OwnState
<1>4. CASE s = l
  <2>1. current_term[l] <= current_term'[l]
    BY <1>1, <1>4, NeverDown, TermsRise
  <2> QED BY <1>2, <1>3, <1>4, <2>1
<1>5. CASE s # l
  <2>1. current_term'[s] <= current_term[l]
    BY <1>5, OtherTerms
  <2> QED BY <1>2, <1>3, <1>5, <2>1
<1> QED BY <1>4, <1>5

\* What is sent.
LEMMA SentUnder ==
    ASSUME NEW l \in Servers, Electable = {l}, LogsInv(l), StateTypeOK', TermsUnder(l),
           NEW s \in Servers, ServerStep(s),
           NEW p \in Ranks, NEW d \in Servers, NEW i \in 1 .. Len(channel'[p][d])
    PROVE  \/ \E j \in 1 .. Len(channel[p][d]) : channel'[p][d][i] = channel[p][d][j]
           \/ UnderTerm(l, current_term'[l], channel'[p][d][i], d)
<1>1. d \in Ranks /\ StateTypeOK
  BY RanksFacts DEF LogsInv
<1>2. /\ current_term'[s] <= current_term'[l]
      /\ current_term'[s] \in Nat /\ current_term'[l] \in Nat
  BY TermsStayUnder DEF StateTypeOK, ElectionTypeOK
<1>3. CASE LeaderBeats(s)
  <2>1. UNCHANGED current_term
    BY <1>3 DEF LeaderBeats, electionVars
  <2>2. BeatTo(s, d).term = current_term[s] /\ BeatTo(s, d).type # "MESSAGE"
    BY DEF BeatTo, AppendEntries, Heartbeat
  <2>3. \/ \E j \in 1 .. Len(channel[p][d]) : channel'[p][d][i] = channel[p][d][j]
        \/ channel'[p][d][i] = BeatTo(s, d)
    BY <1>1, <1>3, BeatIsSent
  <2> QED BY <1>2, <2>1, <2>2, <2>3 DEF UnderTerm, IsCrash
<1>4. CASE ~LeaderBeats(s)
  <2>1. SendsUpTo(current_term'[s], channel, channel')
    BY <1>1, <1>4, ServerSendsUpTo
  <2>2. \/ \E j \in 1 .. Len(channel[p][d]) : channel'[p][d][i] = channel[p][d][j]
        \/ channel'[p][d][i].type # "MESSAGE" /\ channel'[p][d][i].term <= current_term'[s]
    BY <1>1, <2>1 DEF SendsUpTo
  <2>3. channel'[p][d][i].term \in Int
    <3>1. channel'[p][d] \in Seq(RPC)
      BY <1>1 DEF StateTypeOK, ChannelTypeOK
    <3>2. channel'[p][d][i] \in RPC
      BY <3>1, ElementOfSeq
    <3> QED BY <3>2, RpcFields
  <2> QED BY <1>2, <2>2, <2>3 DEF UnderTerm, IsCrash
<1> QED BY <1>3, <1>4

LEMMA TermsUnderStep ==
    ASSUME NEW l \in Servers, Electable = {l}, LogsInv(l), SilenceInv, StateTypeOK',
           TermsUnder(l), MildTurn(l)
    PROVE  TermsUnder(l)'
<1>1. StateTypeOK /\ AnyTurn
  BY DEF LogsInv, MildTurn, AnyTurn
<1>2. /\ current_term[l] <= current_term'[l]
      /\ \A d \in Servers : current_term'[d] <= current_term'[l]
  <2>1. CASE OutsideTurn
    <3>1. UNCHANGED current_term /\ current_term[l] \in Nat
      BY <1>1, <2>1 DEF OutsideTurn, serverState, electionVars, StateTypeOK, ElectionTypeOK
    <3> QED BY <3>1 DEF TermsUnder
  <2> QED BY <2>1, TermsStayUnder DEF MildTurn
<1>3. PICK t \in Nat : t = current_term'[l]
  BY DEF StateTypeOK, ElectionTypeOK
<1>4. current_term[l] \in Nat /\ current_term[l] <= t
  BY <1>1, <1>2, <1>3 DEF StateTypeOK, ElectionTypeOK
<1> DEFINE G == [d \in Servers |-> {m \in RPC : UnderTerm(l, t, m, d)}]
<1>5. \A d \in Servers : \A m : m \in G[d] <=> m \in RPC /\ UnderTerm(l, t, m, d)
  OBVIOUS
<1> HIDE DEF G
<1>6. \A m \in RPC : \A d : UnderTerm(l, current_term[l], m, d) => UnderTerm(l, t, m, d)
  BY <1>4, RpcFields DEF UnderTerm
<1>7. /\ \A p \in Ranks, d \in Servers : channel[p][d] \in Seq(RPC) /\ channel'[p][d] \in Seq(RPC)
      /\ batch \in Seq(Query)
  BY <1>1, RanksFacts DEF StateTypeOK, ChannelTypeOK, UpdateTypeOK
<1>8. \A p \in Ranks, d \in Servers :
         /\ \A i \in 1 .. Len(channel[p][d]) : channel[p][d][i] \in RPC
         /\ \A i \in 1 .. Len(channel'[p][d]) : channel'[p][d][i] \in RPC
  BY <1>7, ElementOfSeq
<1>9. \A i \in 1 .. Len(batch) : batch[i].rpc \in RPC
  <2>1. \A i \in 1 .. Len(batch) : batch[i] \in Query
    BY <1>7, ElementOfSeq
  <2> QED BY <2>1 DEF Query
<1>10. \A p \in Ranks, d \in Servers : \A i \in 1 .. Len(channel[p][d]) :
          channel[p][d][i] \in G[d]
  BY <1>5, <1>6, <1>8 DEF TermsUnder
<1>11. active \in Servers => \A i \in 1 .. Len(batch) : batch[i].rpc \in G[active]
  BY <1>5, <1>6, <1>9 DEF TermsUnder
<1>12. ASSUME NEW p \in Ranks, NEW d \in Servers, NEW i \in 1 .. Len(channel'[p][d])
       PROVE  \/ \E j \in 1 .. Len(channel[p][d]) : channel'[p][d][i] = channel[p][d][j]
              \/ channel'[p][d][i] \in G[d]
  <2>1. channel'[p][d][i] \in RPC
    BY <1>8
  <2>2. CASE OutsideTurn /\ OutsideMild(l)
    <3>1. \/ \E j \in 1 .. Len(channel[p][d]) : channel'[p][d][i] = channel[p][d][j]
          \/ UnderTerm(l, -1, channel'[p][d][i], d)
      BY <2>2 DEF OutsideMild
    <3>2. UnderTerm(l, -1, channel'[p][d][i], d) => UnderTerm(l, t, channel'[p][d][i], d)
      BY <2>1, RpcFields DEF UnderTerm
    <3> QED BY <1>5, <2>1, <3>1, <3>2
  <2>3. CASE \E s \in Servers : ServerStep(s)
    <3>1. \/ \E j \in 1 .. Len(channel[p][d]) : channel'[p][d][i] = channel[p][d][j]
          \/ UnderTerm(l, t, channel'[p][d][i], d)
      BY <1>3, <2>3, SentUnder
    <3> QED BY <1>5, <2>1, <3>1
  <2> QED BY <2>2, <2>3 DEF MildTurn
<1>13. /\ \A p \in Ranks, d \in Servers : \A i \in 1 .. Len(channel'[p][d]) :
             channel'[p][d][i] \in G[d]
       /\ active' \in Servers => \A i \in 1 .. Len(batch') : batch'[i].rpc \in G[active']
  BY <1>1, <1>10, <1>11, <1>12, UnderWayStays
<1>14. \A p \in Ranks, d \in Servers : \A i \in 1 .. Len(channel'[p][d]) :
          UnderTerm(l, current_term'[l], channel'[p][d][i], d)
  BY <1>3, <1>5, <1>13
<1>15. active' \in Servers =>
          \A i \in 1 .. Len(batch') : UnderTerm(l, current_term'[l], batch'[i].rpc, active')
  BY <1>3, <1>5, <1>13
<1> QED BY <1>2, <1>14, <1>15 DEF TermsUnder, UnderTerm, IsCrash

----------------------------------------------------------------------------
(* The queue. *)

\* The steps that change neither log, nor queue, nor what is applied.
LEMMA QueueFrame ==
    ASSUME NEW s \in Servers, ServerStep(s), ~ApplyEntry(s), ~HandleAppendEntries(s),
           ~LeaderAppends(s), ~HandleCrash(s)
    PROVE  UNCHANGED <<server_log, last_log_applied, entries_queue>>
<1> USE DEF serverState, stateVars, dataVars, logVars, applyVars, leaderVars
<1>1. CASE StartUpdate(s) \/ ReceiveAll(s) \/ BeginHandling(s)
  BY <1>1 DEF StartUpdate, ReceiveAll, BeginHandling
<1>2. CASE HandleQuery(s)
  BY <1>2 DEF HandleQuery, StepDown, HandleHeartbeat, HandleVoteRequest, HandleVoteRequestThrows,
     HandleAppendEntriesDenied, AnswerSearchLeader, DenyNewLogEntry, PassOver, QueryDone
<1>3. CASE HandleMessage(s)
  BY <1>3 DEF HandleMessage, HandleDisplayOrSpeed, HandleStop, HandleRecover, HandleServerTimeout,
     QueryDone
<1>4. CASE Routine(s)
  BY <1>4 DEF Routine, NoRoutine, FollowerTimesOut, CandidateDefers, CandidateWins,
     CandidateWaits, CandidateTimesOut, CandidateCounts, LeaderBeats, LeaderSkipsBeat,
     LeaderCountsSuccess, LeaderBacksUp, LeaderPassesOver, LeaderCommits, QueryDone
<1> QED BY <1>1, <1>2, <1>3, <1>4 DEF ServerStep

\* Another server's step leaves l's queue, log and applied index alone.
LEMMA OthersLeaveQueue ==
    ASSUME StateTypeOK, NEW l \in Servers, NEW s \in Servers, s # l, ServerStep(s)
    PROVE  UNCHANGED <<server_log[l], last_log_applied[l], entries_queue[l], status[l]>>
<1>1. UNCHANGED <<server_log[l], status[l]>>
  BY OthersStay DEF OwnState
<1>2. CASE ApplyEntry(s)
  BY <1>1, <1>2 DEF ApplyEntry, StateTypeOK, ApplyTypeOK, LeaderTypeOK
<1>3. CASE HandleAppendEntries(s)
  BY <1>1, <1>3 DEF HandleAppendEntries, applyVars, leaderVars
<1>4. CASE LeaderAppends(s)
  BY <1>1, <1>4 DEF LeaderAppends, applyVars, StateTypeOK, LeaderTypeOK
<1>5. CASE HandleCrash(s)
  <2>1. \/ UNCHANGED entries_queue
        \/ entries_queue' = [entries_queue EXCEPT ![s] = << >>]
    BY <1>5 DEF HandleCrash, leaderVars
  <2> QED BY <1>1, <1>5, <2>1 DEF HandleCrash, applyVars, StateTypeOK, LeaderTypeOK
<1>6. CASE ~ApplyEntry(s) /\ ~HandleAppendEntries(s) /\ ~LeaderAppends(s) /\ ~HandleCrash(s)
  BY <1>1, <1>6, QueueFrame
<1> QED BY <1>2, <1>3, <1>4, <1>5, <1>6

\* l never leads no longer, and appends only while it leads.
LEMMA LeaderRemains ==
    ASSUME NEW l \in Servers, StateTypeOK, StillLeads(l), ServerStep(l),
           ~HandleCrash(l), ~StepDown(l)
    PROVE  /\ status'[l] # "DEAD"
           /\ status[l] = "LEADER" => status'[l] = "LEADER"
<1> USE DEF stateVars, serverState, electionVars
<1>1. status \in [Servers -> Statuses] /\ status[l] # "DEAD"
  BY DEF StateTypeOK, ElectionTypeOK, StillLeads
<1>2. CASE UNCHANGED status
  BY <1>1, <1>2
<1>3. CASE StartUpdate(l) \/ ReceiveAll(l) \/ ApplyEntry(l) \/ BeginHandling(l)
  BY <1>2, <1>3 DEF StartUpdate, ReceiveAll, ApplyEntry, BeginHandling
<1>4. CASE HandleQuery(l)
  BY <1>2, <1>4 DEF HandleQuery, HandleHeartbeat, HandleVoteRequest, HandleVoteRequestThrows,
     HandleAppendEntriesDenied, HandleAppendEntries, AnswerSearchLeader, DenyNewLogEntry,
     PassOver, QueryDone
<1>5. CASE HandleDisplayOrSpeed(l) \/ HandleStop(l)
  BY <1>2, <1>5 DEF HandleDisplayOrSpeed, HandleStop, QueryDone
<1>6. CASE HandleRecover(l)
  BY <1>1, <1>2, <1>6 DEF HandleRecover
<1>7. CASE HandleServerTimeout(l)
  <2>1. CASE status[l] = "FOLLOWER"
    BY <1>1, <1>7, <2>1 DEF HandleServerTimeout, SetAsCandidate
  <2>2. CASE status[l] # "FOLLOWER"
    BY <1>2, <1>7, <2>2 DEF HandleServerTimeout
  <2> QED BY <2>1, <2>2
<1>8. CASE FollowerTimesOut(l)
  BY <1>1, <1>8 DEF FollowerTimesOut, SetAsCandidate
<1>9. CASE CandidateDefers(l) \/ CandidateTimesOut(l)
  BY <1>1, <1>9 DEF CandidateDefers, CandidateTimesOut, CandidateCounts, SetAsCandidate, SetAsFollower
<1>10. CASE CandidateWins(l)
  BY <1>1, <1>10 DEF CandidateWins
<1>11. CASE Routine(l) /\ ~FollowerTimesOut(l) /\ ~CandidateDefers(l) /\ ~CandidateTimesOut(l)
            /\ ~CandidateWins(l)
  BY <1>2, <1>11 DEF Routine, NoRoutine, CandidateWaits, LeaderBeats, LeaderSkipsBeat,
     LeaderAppends, LeaderCountsSuccess, LeaderBacksUp, LeaderPassesOver, LeaderCommits, QueryDone
<1> QED BY <1>3, <1>4, <1>5, <1>6, <1>7, <1>8, <1>9, <1>10, <1>11 DEF ServerStep, HandleMessage

\* Nobody sends l entries.
LEMMA LeaderMergesNothing ==
    ASSUME NEW l \in Servers, LogsInv(l)
    PROVE  ~HandleAppendEntries(l)
<1> SUFFICES ASSUME HandleAppendEntries(l) PROVE FALSE
  OBVIOUS
<1>1. active = l /\ done < Len(batch) /\ batch[done + 1].rpc.type = "APPEND_ENTRIES"
  BY DEF HandleAppendEntries, Handling
<1>2. done + 1 \in 1 .. Len(batch)
  BY <1>1, QueryFacts DEF LogsInv, StateTypeOK
<1>3. GoodFor(l, batch[done + 1].rpc, l)
  BY <1>1, <1>2 DEF LogsInv, BatchGood
<1> QED BY <1>1, <1>3 DEF GoodFor

LEMMA LeadsStep ==
    ASSUME NEW l \in Servers, LogsInv(l), LeadersLead, TermsUnder(l), StillLeads(l), MildTurn(l)
    PROVE  StillLeads(l)'
<1>1. StateTypeOK
  BY DEF LogsInv
<1>2. CASE OutsideTurn
  BY <1>2 DEF OutsideTurn, serverState, electionVars, logVars, StillLeads, Size
<1>3. ASSUME NEW s \in Servers, s # l, ServerStep(s) PROVE StillLeads(l)'
  <2>1. UNCHANGED <<server_log[l], status[l]>>
    BY <1>1, <1>3, OthersLeaveQueue
  <2> QED BY <2>1 DEF StillLeads, Size
<1>4. CASE ServerStep(l)
  <2>1. ~HandleCrash(l) /\ ~StepDown(l) /\ ~HandleAppendEntries(l)
    BY <1>1, NeverDown, LeaderMergesNothing
  <2>2. /\ status'[l] # "DEAD"
        /\ status[l] = "LEADER" => status'[l] = "LEADER"
    BY <1>1, <1>4, <2>1, LeaderRemains
  <2>3. CASE status[l] = "LEADER"
    BY <2>2, <2>3 DEF StillLeads
  <2>4. CASE status[l] # "LEADER"
    <3>1. ~LeaderAppends(l)
      BY <2>4 DEF LeaderAppends, Leading, LeadersLead
    <3>2. UNCHANGED server_log
      <4>1. CASE ApplyEntry(l)
        BY <4>1 DEF ApplyEntry, logVars
      <4> QED BY <1>4, <2>1, <3>1, <4>1, QueueFrame
    <3>3. Size(l)' = 0
      BY <2>4, <3>2 DEF StillLeads, Size
    <3> QED BY <2>2, <3>3 DEF StillLeads
  <2> QED BY <2>3, <2>4
<1> QED BY <1>2, <1>3, <1>4 DEF MildTurn

LEMMA QueueStep ==
    ASSUME NEW l \in Servers, LogsInv(l), CommitWithinLog, TermsUnder(l), StillLeads(l),
           QueueFits(l), MildTurn(l), StateTypeOK'
    PROVE  QueueFits(l)'
<1>1. StateTypeOK
  BY DEF LogsInv
<1>2. CASE UNCHANGED <<server_log[l], last_log_applied[l], entries_queue[l]>>
  BY <1>2 DEF QueueFits, Size
<1>3. CASE OutsideTurn
  BY <1>2, <1>3 DEF OutsideTurn, serverState, logVars, applyVars, leaderVars
<1>4. ASSUME NEW s \in Servers, s # l, ServerStep(s) PROVE QueueFits(l)'
  BY <1>1, <1>2, <1>4, OthersLeaveQueue
<1> DEFINE Waiting == [source : Ranks, command : Commands]
           queue == entries_queue[l]
           log == server_log[l]
           applied == last_log_applied[l]
<1>5. /\ queue \in Seq(Waiting) /\ log \in Seq(LogEntry) /\ applied \in Int /\ applied >= -1
      /\ Len(queue) \in Nat /\ Len(log) \in Nat
      /\ commit_index[l] \in Int
      /\ last_log_applied \in [Servers -> Nat \cup {-1}]
  <2>1. queue \in Seq(Waiting) /\ log \in Seq(LogEntry) /\ applied \in Nat \cup {-1}
    BY <1>1 DEF StateTypeOK, LeaderTypeOK, LogTypeOK, ApplyTypeOK
  <2> QED BY <1>1, <2>1, LenProperties DEF StateTypeOK, LogTypeOK, ApplyTypeOK
<1>6. /\ Len(queue) = Len(log) - (applied + 1)
      /\ \A i \in 1 .. Len(queue) : queue[i].command = log[applied + 1 + i].command
  BY DEF QueueFits, Size
<1>7. CASE ApplyEntry(l)
  <2>1. /\ applied < commit_index[l] /\ commit_index[l] < Len(log)
    BY <1>7 DEF ApplyEntry, CommitWithinLog, Size
  <2>2. status[l] = "LEADER"
    BY <1>5, <2>1 DEF StillLeads, Size
  <2>3. applied + 1 < Len(log) /\ 1 <= Len(queue)
    BY <1>5, <1>6, <2>1
  <2>4. queue # << >>
    BY <2>3, EmptySeq
  <2>5. /\ entries_queue' = [entries_queue EXCEPT ![l] = Tail(queue)]
        /\ last_log_applied' = [last_log_applied EXCEPT ![l] = applied + 1]
        /\ server_log' = server_log
    <3>1. /\ last_log_applied' = [last_log_applied EXCEPT ![l] = applied + 1]
          /\ server_log' = server_log
      BY <1>7 DEF ApplyEntry, logVars
    <3>2. ~(applied + 1 >= Size(l))
      BY <1>5, <2>3 DEF Size
    <3>3. entries_queue' = [entries_queue EXCEPT ![l] = Tail(queue)]
      BY <1>7, <2>2, <2>4, <3>2 DEF ApplyEntry
    <3> QED BY <3>1, <3>3
  <2>6. entries_queue'[l] = Tail(queue) /\ last_log_applied'[l] = applied + 1
    BY <1>1, <2>5 DEF StateTypeOK, LeaderTypeOK, ApplyTypeOK
  <2>7. /\ Len(Tail(queue)) = Len(queue) - 1
        /\ \A i \in 1 .. Len(Tail(queue)) : Tail(queue)[i] = queue[i + 1]
    BY <1>5, <2>4, HeadTailProperties
  <2>8. Len(Tail(queue)) = Len(log) - (applied + 1 + 1)
    BY <1>5, <1>6, <2>7
  <2>9. ASSUME NEW i \in 1 .. Len(Tail(queue))
        PROVE  Tail(queue)[i].command = log[applied + 1 + 1 + i].command
    <3>1. i + 1 \in 1 .. Len(queue) /\ applied + 1 + (i + 1) = applied + 1 + 1 + i
      BY <1>5, <2>7
    <3>2. queue[i + 1].command = log[applied + 1 + (i + 1)].command
      BY <1>6, <3>1
    <3> QED BY <2>7, <3>1, <3>2
  <2> HIDE DEF queue, log, applied
  <2>10. server_log'[l] = log
    BY <2>5 DEF log
  <2> QED BY <2>6, <2>8, <2>9, <2>10 DEF QueueFits, Size
<1>8. CASE LeaderAppends(l)
  <2> DEFINE q == batch[done + 1]
             request == [source |-> q.source, command |-> q.rpc.command]
             entry == [term |-> current_term[l], command |-> q.rpc.command]
  <2>1. done < Len(batch) /\ active = l
    BY <1>8 DEF LeaderAppends, Leading
  <2>2. q.source \in Ranks /\ q.rpc.command \in Commands /\ current_term[l] \in Nat
    <3>1. q.source \in Ranks /\ q.rpc \in RPC /\ q.rpc.type = "NEW_LOG_ENTRY"
      BY <1>1, <1>8, <2>1, QueryFacts DEF StateTypeOK, LeaderAppends
    <3> QED BY <1>1, <3>1, RpcFields DEF StateTypeOK, ElectionTypeOK
  <2>3. request \in Waiting /\ entry \in LogEntry
    BY <2>2 DEF LogEntry
  <2>4. /\ entries_queue' = [entries_queue EXCEPT ![l] = Append(queue, request)]
        /\ server_log' = [server_log EXCEPT ![l] = Append(log, entry)]
        /\ last_log_applied' = last_log_applied
    BY <1>8 DEF LeaderAppends, Enqueued, applyVars
  <2>5. /\ entries_queue'[l] = Append(queue, request) /\ server_log'[l] = Append(log, entry)
        /\ last_log_applied'[l] = applied
    BY <1>1, <2>4 DEF StateTypeOK, LeaderTypeOK, LogTypeOK
  <2>6. request.command = entry.command
    OBVIOUS
  <2> HIDE DEF request, entry
  <2>7. /\ Len(Append(queue, request)) = Len(queue) + 1
        /\ Append(queue, request)[Len(queue) + 1] = request
        /\ \A i \in 1 .. Len(queue) : Append(queue, request)[i] = queue[i]
    BY <1>5, <2>3, AppendProperties
  <2>8. /\ Len(Append(log, entry)) = Len(log) + 1
        /\ Append(log, entry)[Len(log) + 1] = entry
        /\ \A i \in 1 .. Len(log) : Append(log, entry)[i] = log[i]
    BY <1>5, <2>3, AppendProperties
  <2>9. Len(Append(queue, request)) = Len(Append(log, entry)) - (applied + 1)
    BY <1>5, <1>6, <2>7, <2>8
  <2>10. ASSUME NEW i \in 1 .. Len(Append(queue, request))
         PROVE  Append(queue, request)[i].command = Append(log, entry)[applied + 1 + i].command
    <3>1. CASE i = Len(queue) + 1
      <4>1. applied + 1 + i = Len(log) + 1
        BY <1>5, <1>6, <3>1
      <4> QED BY <2>6, <2>7, <2>8, <3>1, <4>1
    <3>2. CASE i # Len(queue) + 1
      <4>1. i \in 1 .. Len(queue) /\ applied + 1 + i \in 1 .. Len(log)
        BY <1>5, <1>6, <2>7, <3>2
      <4>2. queue[i].command = log[applied + 1 + i].command
        BY <1>6, <4>1
      <4> QED BY <2>7, <2>8, <4>1, <4>2
    <3> QED BY <3>1, <3>2
  <2> HIDE DEF queue, log, applied
  <2> QED BY <2>5, <2>9, <2>10 DEF QueueFits, Size
<1>9. CASE ServerStep(l) /\ ~ApplyEntry(l) /\ ~LeaderAppends(l)
  <2>1. ~HandleCrash(l) /\ ~HandleAppendEntries(l)
    BY <1>1, NeverDown, LeaderMergesNothing
  <2>2. UNCHANGED <<server_log, last_log_applied, entries_queue>>
    BY <1>9, <2>1, QueueFrame
  <2> QED BY <1>2, <2>2
<1> QED BY <1>3, <1>4, <1>7, <1>8, <1>9 DEF MildTurn

----------------------------------------------------------------------------
(* The invariant holds, and what follows from it. *)

LEMMA QueueInvInit ==
    ASSUME NEW l \in Servers, Electable = {l}, ServerInit
    PROVE  QueueInv(l)
<1>1. OrderInv(l) /\ SilenceInv
  BY OrderInvInit, SilenceInit
<1>2. /\ \A p \in Ranks, d \in Servers : Len(channel[p][d]) = 0
      /\ active \notin Servers
  BY EmptySeq, RanksFacts DEF ServerInit, ProcessInit
<1>3. TermsUnder(l)
  BY <1>2 DEF ServerInit, TermsUnder
<1>4. Size(l) = 0 /\ status[l] = "FOLLOWER" /\ Len(entries_queue[l]) = 0
      /\ last_log_applied[l] = -1
  BY EmptySeq DEF ServerInit, Size
<1>5. StillLeads(l) /\ QueueFits(l)
  BY <1>4 DEF StillLeads, QueueFits
<1> QED BY <1>1, <1>3, <1>5 DEF QueueInv

LEMMA QueueInvStep ==
    ASSUME NEW l \in Servers, Electable = {l}, QueueInv(l), StateTypeOK',
           AnyStep(l), TakesStep, MildTurn(l)
    PROVE  QueueInv(l)'
<1>1. OrderInv(l)'
  BY OrderInvStep DEF QueueInv
<1>2. LogsInv(l) /\ StateTypeOK /\ CommitWithinLog /\ SilenceInv /\ LeadersLead
  BY DEF QueueInv, OrderInv, LeaderInv, LogsInv, SilenceInv
<1>3. SilenceInv'
  BY <1>2, SilenceStep DEF MildTurn, AnyTurn
<1>4. TermsUnder(l)'
  BY <1>2, TermsUnderStep DEF QueueInv
<1>5. StillLeads(l)'
  BY <1>2, LeadsStep DEF QueueInv
<1>6. QueueFits(l)'
  BY <1>2, QueueStep DEF QueueInv
<1> QED BY <1>1, <1>3, <1>4, <1>5, <1>6 DEF QueueInv

LEMMA QueueInvImplies ==
    ASSUME NEW l \in Servers, QueueInv(l)
    PROVE  AckMatchesEntry
<1>1. OnlyLeader(l) /\ last_log_applied[l] \in Int /\ QueueFits(l) /\ Len(entries_queue[l]) \in Nat
  <2>1. last_log_applied[l] \in Nat \cup {-1}
        /\ entries_queue[l] \in Seq([source : Ranks, command : Commands])
    BY DEF QueueInv, OrderInv, LeaderInv, LogsInv, StateTypeOK, ApplyTypeOK, LeaderTypeOK
  <2> QED BY <2>1, LenProperties DEF QueueInv, OrderInv, LeaderInv, LogsInv
<1>2. ASSUME NEW i \in 1 .. Len(entries_queue[l])
      PROVE  entries_queue[l][i].command = Entry(l, last_log_applied[l] + i).command
  <2>1. last_log_applied[l] + i + 1 = last_log_applied[l] + 1 + i
    BY <1>1
  <2> QED BY <1>1, <2>1 DEF QueueFits, Entry
<1>3. \A s \in Servers : status[s] = "LEADER" => s = l
  BY <1>1 DEF OnlyLeader
<1> QED BY <1>1, <1>2, <1>3 DEF AckMatchesEntry, QueueFits
=============================================================================
