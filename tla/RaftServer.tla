----------------------------- MODULE RaftServer -----------------------------
(***************************************************************************)
(* The servers (server/server.cpp): the state of every server, and one     *)
(* action per step of Server::update().  What the servers promise is in     *)
(* ServerProperties; what reaches them from outside in RaftCluster, and in *)
(* Algorep for the program with its clients and its controller.            *)
(*                                                                         *)
(* Some operators come after a wrong version of themselves, said to be     *)
(* one: a mistake a programmer could make there.  No other definition      *)
(* uses it; the properties are tested against it.                          *)
(*                                                                         *)
(* Log indices are the program's: the first entry has index 0, and -1      *)
(* stands for "none"; Entry(s, i) is the entry at index i.                 *)
(*                                                                         *)
(* A DEAD server receives and applies like a live one, but handles only    *)
(* the orders of the controller.                                           *)
(***************************************************************************)
EXTENDS Process, FiniteSets

CONSTANTS Electable,     \* servers whose election clock may run out
          FailingFiles,  \* servers whose log file may fail to open
          MaxTerm,       \* bound: no election clock runs out at this term
          MaxInFlight    \* bound: RPCs a leader may have under way with a
                         \* server when its heartbeat clock runs out

ASSUME ServerAssumption ==
    /\ Electable \subseteq Servers
    /\ FailingFiles \subseteq Servers
    /\ MaxTerm \in Nat
    /\ MaxInFlight \in Nat \ {0}

VARIABLES
    status,            \* "FOLLOWER", "CANDIDATE", "LEADER" or "DEAD"
    current_term,
    voted_for,         \* rank of the server voted for, 0 for none
    vote_count,
    server_log,
    commit_index,
    last_log_applied,
    next_log_index,    \* [s][p]: index of the next entry s sends to p
    log_index_match,   \* [s][p]: index s believes replicated on p
    entries_queue,     \* the client requests waiting for an acknowledgement
    log_file           \* the commands written to server_logs/logs_server_<rank>.txt

electionVars == <<status, current_term, voted_for, vote_count>>
logVars      == <<server_log, commit_index>>
applyVars    == <<last_log_applied, log_file>>
leaderVars   == <<next_log_index, log_index_match, entries_queue>>
dataVars     == <<logVars, applyVars, leaderVars, endVars>>
serverState  == <<electionVars, logVars, applyVars, leaderVars>>
stateVars    == <<electionVars, dataVars>>
serverVars   == <<stateVars, channel, updateVars>>

Statuses == {"FOLLOWER", "CANDIDATE", "LEADER", "DEAD"}

----------------------------------------------------------------------------
(* Helpers. *)

Peers(s)    == Servers \ {s}
Size(s)     == Len(server_log[s])
Entry(s, i) == server_log[s][i + 1]
Least(a, b) == IF a <= b THEN a ELSE b

\* The term of the entry at index i of s, -1 outside the log.
TermAt(s, i) == IF 0 <= i /\ i < Size(s) THEN Entry(s, i).term ELSE -1

----------------------------------------------------------------------------
(* The constructor. *)

ServerInit ==
    /\ status           = [s \in Servers |-> "FOLLOWER"]
    /\ current_term     = [s \in Servers |-> 0]
    /\ voted_for        = [s \in Servers |-> 0]
    /\ vote_count       = [s \in Servers |-> 0]
    /\ server_log       = [s \in Servers |-> << >>]
    /\ commit_index     = [s \in Servers |-> -1]
    /\ last_log_applied = [s \in Servers |-> -1]
    /\ next_log_index   = [s \in Servers |-> [p \in Servers |-> 0]]
    /\ log_index_match  = [s \in Servers |-> [p \in Servers |-> -1]]
    /\ entries_queue    = [s \in Servers |-> << >>]
    /\ log_file         = [s \in Servers |-> << >>]
    /\ ProcessInit

----------------------------------------------------------------------------
(* run_server: one turn of its loop. *)

StartUpdate(s) == Begin(s) /\ UNCHANGED serverState

ReceiveAll(s) ==
    /\ \E p \in Ranks \ {s} : Receive(s, p) \/ ReceiveGarbled(s, p)
    /\ UNCHANGED serverState

----------------------------------------------------------------------------
(* handle_queries: first the committed entries are applied. *)

\* One turn of the loop.  It runs whatever the status, a DEAD server too.  If
\* the file does not open (no directory, no descriptor left) nothing is
\* written and the log is not read, but the entry counts as applied and the
\* leader acknowledges it all the same.  Otherwise an index outside the log
\* throws.  A leader with no waiting request reads the front of an empty
\* queue, which is undefined and taken to end the process after the write.
ApplyEntry(s) ==
    LET i == last_log_applied[s] + 1
        leads == status[s] = "LEADER"
    IN  /\ active = s
        /\ phase \in {"receive", "apply"}
        /\ commit_index[s] > last_log_applied[s]
        /\ last_log_applied' = [last_log_applied EXCEPT ![s] = i]
        /\ \E opens \in BOOLEAN :
              LET throws == opens /\ i >= Size(s) IN
              /\ opens \/ s \in FailingFiles
              /\ IF opens /\ ~throws
                 THEN log_file' = [log_file EXCEPT ![s] = Append(log_file[s], Entry(s, i).command)]
                 ELSE UNCHANGED log_file
              /\ IF leads /\ ~throws /\ entries_queue[s] # << >>
                 THEN /\ Reply(s, Head(entries_queue[s]).source, NewLogEntryResponse(TRUE))
                      /\ entries_queue' = [entries_queue EXCEPT ![s] = Tail(entries_queue[s])]
                 ELSE UNCHANGED <<channel, entries_queue>>
              /\ IF throws \/ (leads /\ entries_queue[s] = << >>)
                 THEN Abort(s)
                 ELSE /\ phase' = "apply"
                      /\ UNCHANGED <<endVars, active, source, batch, done, clocks_reset>>
        /\ UNCHANGED <<electionVars, logVars, next_log_index, log_index_match>>

\* Everything committed is applied: on to the queries.
BeginHandling(s) ==
    /\ active = s
    /\ phase \in {"receive", "apply"}
    /\ commit_index[s] <= last_log_applied[s]
    /\ phase' = "handle"
    /\ UNCHANGED <<stateVars, channel, active, source, batch, done, clocks_reset>>

----------------------------------------------------------------------------
(* handle_queries: the queries of the batch, in order. *)

\* set_as_follower
SetAsFollower(s) ==
    /\ status' = [status EXCEPT ![s] = "FOLLOWER"]
    /\ voted_for' = [voted_for EXCEPT ![s] = 0]
    /\ vote_count' = [vote_count EXCEPT ![s] = 0]

\* set_as_candidate, but for the vote requests it sends: a new term, a vote
\* for itself.
SetAsCandidate(s) ==
    /\ status' = [status EXCEPT ![s] = "CANDIDATE"]
    /\ current_term' = [current_term EXCEPT ![s] = current_term[s] + 1]
    /\ voted_for' = [voted_for EXCEPT ![s] = s]
    /\ vote_count' = [vote_count EXCEPT ![s] = 1]

\* The channels once s has asked every other server for its vote in its
\* next term.
RequestVotes(s) ==
    LET last == Size(s) - 1
        request == VoteRequest(current_term[s] + 1, s, last, TermAt(s, last))
    IN  SendToAll(channel, s, Peers(s), [p \in Peers(s) |-> request], Ended)

\* A DEAD server handles the controller's messages and nothing else.
\* Wrong: it handles everything.
LiveOrDead(s) == TRUE
Live(s) == status[s] # "DEAD"

\* A live server adopts the term of a query before it handles the query.
\* Wrong: it never does.
NeverStepsDown(s) == FALSE
MustStepDown(s) ==
    Live(s) /\ batch[done + 1].rpc.term > current_term[s]

\* s is about to handle q, a query of type t.
Handling(s, t, q) ==
    /\ active = s
    /\ phase = "handle"
    /\ done < Len(batch)
    /\ q = batch[done + 1]
    /\ q.rpc.type = t
    /\ ~MustStepDown(s)

\* The query changed nothing of the server.
QueryDone == NextQuery /\ UNCHANGED <<stateVars, clocks_reset>>

ResetClock == Resets({"clock"})

StepDown(s) ==
    /\ active = s
    /\ phase = "handle"
    /\ done < Len(batch)
    /\ MustStepDown(s)
    /\ current_term' = [current_term EXCEPT ![s] = batch[done + 1].rpc.term]
    /\ SetAsFollower(s)
    /\ ResetClock
    /\ UNCHANGED <<dataVars, channel, active, phase, source, batch, done>>

\* The commit index a server takes from its leader, its log having size
\* entries.  Wrong: it is not bounded by the log; it lags by one.
FollowerCommitUnbounded(s, leader_commit, size) ==
    IF leader_commit > commit_index[s] THEN leader_commit ELSE commit_index[s]
FollowerCommitLate(s, leader_commit, size) ==
    IF leader_commit > commit_index[s] + 1 THEN Least(leader_commit, size - 1)
    ELSE commit_index[s]
FollowerCommit(s, leader_commit, size) ==
    IF leader_commit > commit_index[s] THEN Least(leader_commit, size - 1)
    ELSE commit_index[s]

\* Heartbeats are obeyed whatever their term; they clear the vote.
HandleHeartbeat(s) ==
    LET q == batch[done + 1] IN
        /\ Handling(s, "HEARTBEAT", q)
        /\ Live(s)
        /\ voted_for' = [voted_for EXCEPT ![s] = 0]
        /\ commit_index' = [commit_index EXCEPT ![s] =
              FollowerCommit(s, q.rpc.leader_commit, Size(s))]
        /\ ResetClock
        /\ NextQuery
        /\ UNCHANGED <<status, current_term, vote_count, server_log, applyVars,
                       leaderVars, endVars, channel>>

\* handle_vote_request.  The candidate's last term is compared with the term
\* the voter has at the same index, which throws if the voter has no such
\* entry (an empty candidate log gives the index -1, out of range too).  The
\* term of the request is no higher than the voter's here, so every answer
\* carries the voter's term.
GrantsVote(s, request) ==
    /\ request.term >= current_term[s]
    /\ voted_for[s] \in {0, request.candidate_rank}
    /\ \/ request.last_log_index = -1 /\ Size(s) = 0
       \/ /\ request.last_log_index \in 0 .. Size(s) - 1
          /\ Entry(s, request.last_log_index).term < request.last_log_term

VoteThrows(s, request) ==
    /\ request.term >= current_term[s]
    /\ voted_for[s] \in {0, request.candidate_rank}
    /\ request.last_log_index \notin 0 .. Size(s) - 1
    /\ ~(request.last_log_index = -1 /\ Size(s) = 0)

HandleVoteRequest(s) ==
    LET q == batch[done + 1] IN
        /\ Handling(s, "VOTE_REQUEST", q)
        /\ Live(s)
        /\ ~VoteThrows(s, q.rpc)
        /\ voted_for' = IF GrantsVote(s, q.rpc)
                        THEN [voted_for EXCEPT ![s] = q.rpc.candidate_rank]
                        ELSE voted_for
        /\ Reply(s, q.rpc.candidate_rank,
                 VoteResponse(current_term[s], GrantsVote(s, q.rpc)))
        /\ ResetClock
        /\ NextQuery
        /\ UNCHANGED <<status, current_term, vote_count, dataVars>>

HandleVoteRequestThrows(s) ==
    LET q == batch[done + 1] IN
        /\ Handling(s, "VOTE_REQUEST", q)
        /\ Live(s)
        /\ VoteThrows(s, q.rpc)
        /\ Abort(s)
        /\ UNCHANGED <<electionVars, logVars, applyVars, leaderVars, channel>>

\* handle_new_entries: deny a query of an older term, or one whose previous
\* entry the log does not have.
DeniesEntries(s, ae) ==
    \/ ae.term < current_term[s]
    \/ /\ ae.prev_log_index # -1
       /\ \/ ae.prev_log_index >= Size(s)
          \/ TermAt(s, ae.prev_log_index) # ae.prev_log_term

\* Wrong ways to build new_logs: to append whatever comes, to stop the loop
\* one entry early.
MergedLogAppends(old, prev, new) == old \o new
MergedLogStopsEarly(old, prev, new) ==
    [i \in 1 .. prev + Len(new) |-> IF i <= Len(old) THEN old[i] ELSE new[i - prev - 1]]

\* The loop that builds new_logs: old up to index prev, then the new
\* entries, an old entry staying where its term is that of the new one.  At
\* the first conflict the old log ends and the new entry of that place is
\* not copied; the later ones are.  (Places are counted from 1.)
Conflicts(old, prev, new) ==
    {i \in (prev + 2) .. Least(prev + 1 + Len(new), Len(old)) :
        old[i].term # new[i - prev - 1].term}
MergedLog(old, prev, new) ==
    LET conflicts == Conflicts(old, prev, new)
        size      == prev + 1 + Len(new)
    IN  IF conflicts = {}
        THEN [i \in 1 .. size |-> IF i <= Len(old) THEN old[i] ELSE new[i - prev - 1]]
        ELSE [i \in 1 .. size - 1 |-> IF \A c \in conflicts : i < c
                                      THEN old[i] ELSE new[i - prev]]

HandleAppendEntriesDenied(s) ==
    LET q == batch[done + 1] IN
        /\ Handling(s, "APPEND_ENTRIES", q)
        /\ Live(s)
        /\ DeniesEntries(s, q.rpc)
        /\ Reply(s, q.rpc.leader_rank, AppendEntriesResponse(current_term[s], FALSE))
        /\ QueryDone

HandleAppendEntries(s) ==
    LET q == batch[done + 1] IN
        /\ Handling(s, "APPEND_ENTRIES", q)
        /\ Live(s)
        /\ ~DeniesEntries(s, q.rpc)
        /\ server_log' = [server_log EXCEPT ![s] =
              MergedLog(server_log[s], q.rpc.prev_log_index, q.rpc.entries)]
        /\ commit_index' = [commit_index EXCEPT ![s] =
              FollowerCommit(s, q.rpc.leader_commit, Len(server_log'[s]))]
        /\ Reply(s, q.rpc.leader_rank, AppendEntriesResponse(q.rpc.term, TRUE))
        /\ ResetClock
        /\ NextQuery
        /\ UNCHANGED <<electionVars, applyVars, leaderVars, endVars>>

\* SEARCH_LEADER and NEW_LOG_ENTRY: a leader makes itself known, anyone else
\* turns the request down.  (A leader takes the entry in leader_routine.)
AnswerSearchLeader(s) ==
    LET q == batch[done + 1] IN
        /\ Handling(s, "SEARCH_LEADER", q)
        /\ status[s] = "LEADER"
        /\ Reply(s, q.source, SearchLeaderResponse(s))
        /\ QueryDone

DenyNewLogEntry(s) ==
    LET q == batch[done + 1] IN
        /\ Handling(s, "NEW_LOG_ENTRY", q)
        /\ Live(s) /\ status[s] # "LEADER"
        /\ Reply(s, q.source, NewLogEntryResponse(FALSE))
        /\ QueryDone

\* Queries on which this loop does nothing: the responses and the leader's
\* NEW_LOG_ENTRY are left to the routines, and a DEAD server handles nothing
\* but the controller's messages.
HandledLater(s, t) ==
    \/ t \in {"VOTE_RESPONSE", "APPEND_ENTRIES_RESPONSE"}
    \/ t = "NEW_LOG_ENTRY" /\ status[s] = "LEADER"
    \/ t = "SEARCH_LEADER" /\ status[s] # "LEADER"
    \/ t # "MESSAGE" /\ ~Live(s)

PassOver(s) ==
    /\ Handling(s, batch[done + 1].rpc.type, batch[done + 1])
    /\ HandledLater(s, batch[done + 1].rpc.type)
    /\ QueryDone
    /\ UNCHANGED channel

----------------------------------------------------------------------------
(* handle_message: the controller's orders.  Every order is answered. *)

Ordered(s, kinds) ==
    /\ Handling(s, "MESSAGE", batch[done + 1])
    /\ batch[done + 1].rpc.kind \in kinds

Answer(s, success) == Reply(s, batch[done + 1].source, MessageResponse(success))

\* Neither order changes what the server does: the speed is the time it
\* sleeps between two updates.
HandleDisplayOrSpeed(s) ==
    /\ Ordered(s, {"PROCESS_DISPLAY", "PROCESS_SET_SPEED"})
    /\ Answer(s, TRUE)
    /\ QueryDone

\* The update goes on to its end; there is no other after it.
HandleStop(s) ==
    /\ Ordered(s, {"PROCESS_STOP"})
    /\ stopped' = stopped \cup {s}
    /\ Answer(s, TRUE)
    /\ KeepClock
    /\ NextQuery
    /\ UNCHANGED <<electionVars, logVars, applyVars, leaderVars, aborted>>

\* The log, the commit index and the applied index survive.
HandleCrash(s) ==
    /\ Ordered(s, {"PROCESS_CRASH"})
    /\ IF status[s] # "DEAD"
       THEN /\ status' = [status EXCEPT ![s] = "DEAD"]
            /\ vote_count' = [vote_count EXCEPT ![s] = 0]
            /\ entries_queue' = [entries_queue EXCEPT ![s] = << >>]
            /\ current_term' = [current_term EXCEPT ![s] = 0]
            /\ voted_for' = [voted_for EXCEPT ![s] = 0]
            /\ next_log_index' = [next_log_index EXCEPT ![s] = [p \in Servers |-> 0]]
            /\ log_index_match' = [log_index_match EXCEPT ![s] = [p \in Servers |-> -1]]
       ELSE UNCHANGED <<electionVars, leaderVars>>
    /\ Answer(s, status[s] # "DEAD")
    /\ KeepClock
    /\ NextQuery
    /\ UNCHANGED <<logVars, applyVars, endVars>>

HandleRecover(s) ==
    /\ Ordered(s, {"PROCESS_RECOVER"})
    /\ IF status[s] = "DEAD"
       THEN SetAsFollower(s) /\ ResetClock
       ELSE UNCHANGED <<status, voted_for, vote_count>> /\ KeepClock
    /\ Answer(s, status[s] = "DEAD")
    /\ NextQuery
    /\ UNCHANGED <<current_term, dataVars>>

HandleServerTimeout(s) ==
    /\ Ordered(s, {"SERVER_TIMEOUT"})
    /\ IF status[s] = "FOLLOWER"
       THEN /\ SetAsCandidate(s)
            /\ ResetClock
            /\ channel' = SendMessage(RequestVotes(s), s, batch[done + 1].source,
                                      MessageResponse(TRUE), Ended)
       ELSE UNCHANGED electionVars /\ KeepClock /\ Answer(s, FALSE)
    /\ NextQuery
    /\ UNCHANGED dataVars

----------------------------------------------------------------------------
(* update: the routine of the server's status, once all queries are       *)
(* handled.  Whether a clock has run out is the environment's choice, but *)
(* a clock reset during this update has not.                              *)

ElectionTimeout(s) ==
    /\ MayRunOut("clock")
    /\ s \in Electable
    /\ current_term[s] < MaxTerm

\* A DEAD server, or a follower whose election clock is running.
NoRoutine(s) ==
    /\ AllHandled(s)
    /\ status[s] \in {"FOLLOWER", "DEAD"}
    /\ EndUpdate
    /\ UNCHANGED <<stateVars, channel>>

FollowerTimesOut(s) ==
    /\ AllHandled(s)
    /\ status[s] = "FOLLOWER"
    /\ ElectionTimeout(s)
    /\ SetAsCandidate(s)
    /\ channel' = RequestVotes(s)
    /\ EndUpdate
    /\ UNCHANGED dataVars

\* candidate_routine reads the whole batch again.  It returns at the first
\* heartbeat or entries of a term no older than its own; otherwise it adds
\* up the votes of the batch, whatever term they answer.
DefersToLeader(s) ==
    \E i \in 1 .. Len(batch) :
        /\ batch[i].rpc.type \in {"APPEND_ENTRIES", "HEARTBEAT"}
        /\ batch[i].rpc.term >= current_term[s]

VotesIn(queries) ==
    Cardinality({i \in 1 .. Len(queries) :
                    queries[i].rpc.type = "VOTE_RESPONSE" /\ queries[i].rpc.vote})

\* Wrong: half of the servers will do.
HasHalf(count)     == count >= NServers \div 2
HasMajority(count) == count > NServers \div 2

\* A candidate about to leave its routine with votes counted, not deferring.
CandidateCounts(s, votes) ==
    /\ AllHandled(s)
    /\ status[s] = "CANDIDATE"
    /\ ~DefersToLeader(s)
    /\ votes = vote_count[s] + VotesIn(batch)
    /\ EndUpdate
    /\ UNCHANGED <<logVars, applyVars, entries_queue, endVars>>

CandidateDefers(s) ==
    /\ AllHandled(s)
    /\ status[s] = "CANDIDATE"
    /\ DefersToLeader(s)
    /\ SetAsFollower(s)
    /\ EndUpdate
    /\ UNCHANGED <<current_term, dataVars, channel>>

\* set_as_leader, its first heartbeat included
CandidateWins(s) ==
    LET votes == vote_count[s] + VotesIn(batch)
        heartbeat == Heartbeat(current_term[s], commit_index[s])
    IN  /\ CandidateCounts(s, votes)
        /\ HasMajority(votes)
        /\ vote_count' = [vote_count EXCEPT ![s] = votes]
        /\ status' = [status EXCEPT ![s] = "LEADER"]
        /\ next_log_index' = [next_log_index EXCEPT ![s] = [p \in Servers |-> Size(s)]]
        /\ log_index_match' = [log_index_match EXCEPT ![s] = [p \in Servers |-> -1]]
        /\ channel' = SendToAll(channel, s, Peers(s), [p \in Peers(s) |-> heartbeat], Ended)
        /\ UNCHANGED <<current_term, voted_for>>

CandidateWaits(s) ==
    LET votes == vote_count[s] + VotesIn(batch) IN
    /\ CandidateCounts(s, votes)
    /\ ~HasMajority(votes)
    /\ vote_count' = [vote_count EXCEPT ![s] = votes]
    /\ UNCHANGED <<status, current_term, voted_for, next_log_index, log_index_match, channel>>

CandidateTimesOut(s) ==
    LET votes == vote_count[s] + VotesIn(batch) IN
    /\ CandidateCounts(s, votes)
    /\ ~HasMajority(votes)
    /\ ElectionTimeout(s)
    /\ SetAsCandidate(s)
    /\ channel' = RequestVotes(s)
    /\ UNCHANGED <<next_log_index, log_index_match>>

----------------------------------------------------------------------------
(* leader_routine: beat, read the batch again, advance the commit index. *)

\* RPCs between s and p that are sent but not yet handled.
InFlight(s, p) ==
    Len(channel[s][p]) + Len(channel[p][s])
       + Cardinality({i \in 1 .. Len(batch) : batch[i].source = p})

HeartbeatTimeout(s) ==
    /\ MayRunOut("clock")
    /\ \A p \in Peers(s) \ Ended : InFlight(s, p) < MaxInFlight

\* The entries p lacks as far as s knows, or a heartbeat.
BeatTo(s, p) ==
    LET next == next_log_index[s][p] IN
    IF Size(s) - 1 >= next
    THEN AppendEntries(current_term[s], s, next - 1, TermAt(s, next - 1),
                       SubSeq(server_log[s], next + 1, Size(s)), commit_index[s])
    ELSE Heartbeat(current_term[s], commit_index[s])

\* The beat goes to the servers in rank order.  A negative next index makes
\* it copy entries from before the start of the log: undefined, and taken
\* to end the process.
LeaderBeats(s) ==
    LET unsafe  == {p \in Peers(s) : next_log_index[s][p] < 0}
        reached == {p \in Peers(s) : \A u \in unsafe : p < u}
    IN  /\ AllHandled(s)
        /\ status[s] = "LEADER"
        /\ HeartbeatTimeout(s)
        /\ channel' = SendToAll(channel, s, reached, [p \in reached |-> BeatTo(s, p)], Ended)
        /\ IF unsafe = {}
           THEN /\ phase' = "lead"
                /\ done' = 0
                /\ ResetClock
                /\ UNCHANGED <<endVars, active, source, batch>>
           ELSE Abort(s)
        /\ UNCHANGED <<electionVars, logVars, applyVars, leaderVars>>

LeaderSkipsBeat(s) ==
    /\ AllHandled(s)
    /\ status[s] = "LEADER"
    /\ phase' = "lead"
    /\ done' = 0
    /\ UNCHANGED <<stateVars, channel, active, source, batch, clocks_reset>>

\* The loop over the batch has reached q.
Leading(s, q) ==
    /\ active = s
    /\ phase = "lead"
    /\ done < Len(batch)
    /\ q = batch[done + 1]

\* The request waits for the acknowledgement, behind the earlier ones.
\* Wrong: in front of them.
EnqueuedFirst(queue, q) == <<[source |-> q.source, command |-> q.rpc.command]>> \o queue
Enqueued(queue, q)      == Append(queue, [source |-> q.source, command |-> q.rpc.command])

LeaderAppends(s) ==
    LET q == batch[done + 1] IN
    /\ Leading(s, q)
    /\ q.rpc.type = "NEW_LOG_ENTRY"
    /\ server_log' = [server_log EXCEPT ![s] =
          Append(server_log[s], [term |-> current_term[s], command |-> q.rpc.command])]
    /\ entries_queue' = [entries_queue EXCEPT ![s] = Enqueued(entries_queue[s], q)]
    /\ KeepClock
    /\ NextQuery
    /\ UNCHANGED <<electionVars, commit_index, applyVars, next_log_index,
                   log_index_match, endVars, channel>>

\* A success moves the match index by one, and the next index with it.
LeaderCountsSuccess(s) ==
    LET q == batch[done + 1]
        p == q.source
        match == log_index_match[s][p] + 1
    IN  /\ Leading(s, q)
        /\ q.rpc.type = "APPEND_ENTRIES_RESPONSE"
        /\ q.rpc.success
        /\ log_index_match' = [log_index_match EXCEPT ![s][p] = match]
        /\ next_log_index' = IF match >= next_log_index[s][p]
                             THEN [next_log_index EXCEPT ![s][p] = next_log_index[s][p] + 1]
                             ELSE next_log_index
        /\ KeepClock
        /\ NextQuery
        /\ UNCHANGED <<electionVars, logVars, applyVars, entries_queue, endVars,
                       channel>>

LeaderBacksUp(s) ==
    LET q == batch[done + 1]
        p == q.source
    IN  /\ Leading(s, q)
        /\ q.rpc.type = "APPEND_ENTRIES_RESPONSE"
        /\ ~q.rpc.success
        /\ next_log_index' = [next_log_index EXCEPT ![s][p] = next_log_index[s][p] - 1]
        /\ KeepClock
        /\ NextQuery
        /\ UNCHANGED <<electionVars, logVars, applyVars, log_index_match,
                       entries_queue, endVars, channel>>

LeaderPassesOver(s) ==
    LET q == batch[done + 1] IN
    /\ Leading(s, q)
    /\ q.rpc.type \notin {"NEW_LOG_ENTRY", "APPEND_ENTRIES_RESPONSE"}
    /\ QueryDone
    /\ UNCHANGED channel

\* A majority, the leader included, is believed to have the entry at index i.
\* Wrong: the entry before it.
ReplicatedBefore(s, i) ==
    HasMajority(1 + Cardinality({p \in Peers(s) : log_index_match[s][p] >= i - 1}))
Replicated(s, i) ==
    HasMajority(1 + Cardinality({p \in Peers(s) : log_index_match[s][p] >= i}))

\* The next index is committed when it is replicated and its entry is of this
\* term.  A match index that has run past the leader's own log makes the read
\* of that entry throw.
LeaderCommits(s) ==
    LET i == commit_index[s] + 1 IN
    /\ active = s
    /\ phase = "lead"
    /\ done = Len(batch)
    /\ commit_index' =
          IF Replicated(s, i) /\ i < Size(s) /\ Entry(s, i).term = current_term[s]
          THEN [commit_index EXCEPT ![s] = i]
          ELSE commit_index
    /\ IF Replicated(s, i) /\ i >= Size(s)
       THEN Abort(s)
       ELSE EndUpdate /\ UNCHANGED endVars
    /\ UNCHANGED <<electionVars, server_log, applyVars, leaderVars, channel>>

----------------------------------------------------------------------------
(* update() in full. *)

HandleQuery(s) ==
    \/ StepDown(s)
    \/ HandleHeartbeat(s)
    \/ HandleVoteRequest(s)
    \/ HandleVoteRequestThrows(s)
    \/ HandleAppendEntriesDenied(s)
    \/ HandleAppendEntries(s)
    \/ AnswerSearchLeader(s)
    \/ DenyNewLogEntry(s)
    \/ PassOver(s)

HandleMessage(s) ==
    \/ HandleDisplayOrSpeed(s)
    \/ HandleStop(s)
    \/ HandleCrash(s)
    \/ HandleRecover(s)
    \/ HandleServerTimeout(s)

Routine(s) ==
    \/ NoRoutine(s)
    \/ FollowerTimesOut(s)
    \/ CandidateDefers(s)
    \/ CandidateWins(s)
    \/ CandidateWaits(s)
    \/ CandidateTimesOut(s)
    \/ LeaderBeats(s)
    \/ LeaderSkipsBeat(s)
    \/ LeaderAppends(s)
    \/ LeaderCountsSuccess(s)
    \/ LeaderBacksUp(s)
    \/ LeaderPassesOver(s)
    \/ LeaderCommits(s)

ServerStep(s) ==
    \/ StartUpdate(s)
    \/ ReceiveAll(s)
    \/ ApplyEntry(s)
    \/ BeginHandling(s)
    \/ HandleQuery(s)
    \/ HandleMessage(s)
    \/ Routine(s)
=============================================================================
