-------------------------- MODULE ServerProperties --------------------------
(***************************************************************************)
(* What the servers promise, as properties of any specification whose      *)
(* servers take the steps of RaftServer: of RaftCluster and of Algorep.    *)
(***************************************************************************)
EXTENDS RaftServer

ElectionTypeOK ==
    /\ status \in [Servers -> Statuses]
    /\ current_term \in [Servers -> Nat]
    /\ voted_for \in [Servers -> Servers \cup {0}]
    /\ vote_count \in [Servers -> Nat]

LogTypeOK ==
    /\ server_log \in [Servers -> Seq(LogEntry)]
    /\ commit_index \in [Servers -> Int]

ApplyTypeOK ==
    /\ last_log_applied \in [Servers -> Nat \cup {-1}]
    /\ log_file \in [Servers -> Seq(Commands)]

LeaderTypeOK ==
    /\ next_log_index \in [Servers -> [Servers -> Int]]
    /\ log_index_match \in [Servers -> [Servers -> Int]]
    /\ entries_queue \in [Servers -> Seq([source : Ranks, command : Commands])]

StateTypeOK ==
    /\ ElectionTypeOK
    /\ LogTypeOK
    /\ ApplyTypeOK
    /\ LeaderTypeOK
    /\ EndTypeOK
    /\ ChannelTypeOK
    /\ UpdateTypeOK

----------------------------------------------------------------------------
(* One server may be elected: while its heartbeats (every 25 ms) keep the  *)
(* election clocks of the others (200 to 400 ms) from running out, it is   *)
(* the only one that ever leads.  Electable = {l} is this regime.          *)

IsPrefixOf(shorter, longer) ==
    /\ Len(shorter) <= Len(longer)
    /\ \A i \in 1 .. Len(shorter) : shorter[i] = longer[i]

\* Whatever was resent, garbled, answered late or lost in a crash, every
\* server's log is a beginning of the leader's (leader_routine,
\* handle_new_entries).
PrefixOfLeader ==
    \A l \in Electable, s \in Servers : IsPrefixOf(server_log[s], server_log[l])

\* The file of a server holds commands it applied from the leader's log, in
\* their order and none twice; if its file never fails to open, it holds them
\* all (handle_queries, the apply loop).
FilesFollowLeader ==
    \A l \in Electable, s \in Servers :
        LET applied == last_log_applied[s] + 1
            Holds(place, i) == log_file[s][place] = server_log[l][i].command
        IN  /\ \E origin \in [1 .. Len(log_file[s]) -> 1 .. applied] :
                  \A j \in 1 .. Len(log_file[s]) :
                     Holds(j, origin[j]) /\ \A k \in 1 .. j - 1 : origin[k] < origin[j]
            /\ s \notin FailingFiles =>
                  Len(log_file[s]) = applied /\ \A j \in 1 .. applied : Holds(j, j)

\* What is committed and what is applied stays in the log, so that the apply
\* loop never reads outside it (handle_new_entries cuts the log, the
\* heartbeat handler and handle_new_entries move the commit index).
CommitWithinLog ==
    \A s \in Servers : last_log_applied[s] <= commit_index[s] /\ commit_index[s] < Size(s)

\* A log only ever grows: no entry a server holds is cut off or replaced by
\* entries of an older APPEND_ENTRIES (handle_new_entries).
LogsOnlyGrow == [][\A s \in Servers : IsPrefixOf(server_log[s], server_log'[s])]_serverVars

\* The servers implement one replicated log, the leader's.
TheLeader == CHOOSE l \in Electable : TRUE

CommandsOf(entries) == [i \in 1 .. Len(entries) |-> entries[i].command]

AppliedCount == [s \in Servers |-> last_log_applied[s] + 1]

Promise == INSTANCE ReplicatedLog WITH log <- CommandsOf(server_log[TheLeader]),
                                       applied <- AppliedCount,
                                       files <- log_file

ImplementsReplicatedLog == Promise!Spec

\* The front of the leader's queue is the request whose entry is applied
\* next, so that an acknowledgement goes to the client that asked for that
\* very entry (leader_routine fills the queue, the apply loop empties it).
AckMatchesEntry ==
    \A s \in Servers : status[s] = "LEADER" =>
        /\ Len(entries_queue[s]) = Size(s) - (last_log_applied[s] + 1)
        /\ \A i \in 1 .. Len(entries_queue[s]) :
              entries_queue[s][i].command = Entry(s, last_log_applied[s] + i).command

(* The leader's bookkeeping. *)

\* A follower has every entry the leader believes replicated on it
\* (server.hpp:105; leader_routine counts the successes).
MatchIsReplicated ==
    \A s \in Servers : status[s] = "LEADER" =>
        \A p \in Peers(s) : \A i \in 0 .. log_index_match[s][p] :
            i < Size(s) /\ i < Size(p) /\ Entry(p, i) = Entry(s, i)

\* A committed entry is on a majority of the servers (server.cpp:231).
CommittedOnMajority ==
    \A s \in Servers : commit_index[s] >= 0 =>
        2 * Cardinality({p \in Servers :
                /\ commit_index[s] < Size(p)
                /\ Entry(p, commit_index[s]) = Entry(s, commit_index[s])}) > NServers

\* No process ends by an exception or undefined behaviour (an index out of
\* range in server.cpp; the front of an empty queue, client.cpp:115).
NoAbort == aborted = {}

(* Any server may be elected. *)

\* Along every log the terms never fall, and none is above the server's own
\* term (set_as_candidate, leader_routine, handle_new_entries; a crash
\* resets the term).
LogTermsOrdered ==
    \A s \in Servers :
        /\ \A i \in 1 .. Len(server_log[s]) : server_log[s][i].term <= current_term[s]
        /\ \A i, j \in 1 .. Len(server_log[s]) :
              i <= j => server_log[s][i].term <= server_log[s][j].term

\* What a server has committed is committed for good: its commit index never
\* falls, and no entry up to it is replaced, whoever leads (server.hpp:99;
\* handle_new_entries, the heartbeat handler, leader_routine).
CommittedStays ==
    [][\A s \in Servers :
          /\ commit_index[s] <= commit_index'[s]
          /\ \A i \in 0 .. commit_index[s] : TermAt(s, i)' = TermAt(s, i)]_serverVars

\* Two servers never apply different entries at the same index
\* (server/README.md:3; handle_vote_request, handle_new_entries, the apply
\* loop).
AppliedAgree ==
    \A s, p \in Servers : \A i \in 0 .. Least(last_log_applied[s], last_log_applied[p]) :
        i < Size(s) /\ i < Size(p) => Entry(s, i) = Entry(p, i)

\* No term has two leaders (server.cpp:55).
OneLeaderPerTerm ==
    \A s, p \in Servers :
        status[s] = "LEADER" /\ status[p] = "LEADER" /\ current_term[s] = current_term[p]
            => s = p

\* A server that has not voted gives its vote to a candidate whose last entry
\* is of the same term as its own and whose log is at least as long
\* (server.cpp:253 and 264; handle_vote_request).
AsUpdated(request, s) ==
    /\ request.last_log_term = TermAt(s, Size(s) - 1)
    /\ request.last_log_index >= Size(s) - 1

UpdatedGetsVote ==
    [][\A s \in Servers :
          LET request == batch[done + 1].rpc IN
          HandleVoteRequest(s) /\ voted_for[s] = 0
             /\ request.term = current_term[s] /\ AsUpdated(request, s)
             => voted_for'[s] = request.candidate_rank]_serverVars

(* Crash and recovery. *)

\* A DEAD server takes part in nothing until the controller recovers it: its
\* log, term and vote stay, and it sends to nobody but the controller
\* (README.md:63; handle_queries, update).
DeadIsSilent ==
    [][\A s \in Servers : status[s] = "DEAD" =>
          \/ Ordered(s, {"PROCESS_RECOVER"})
          \/ /\ UNCHANGED <<status[s], server_log[s], commit_index[s],
                            current_term[s], voted_for[s]>>
             /\ \A d \in Ranks \ {Controller} : Len(channel'[s][d]) <= Len(channel[s][d])]_serverVars

\* If in the end no server is DEAD and none aborted, then in the end every
\* server has the leader's log, has applied it to its end, and has written it
\* all unless its file may fail: servers that were down catch up, and every
\* request of the leader is acknowledged (README.md:64; server/README.md:3).
AllRunning == \A s \in Servers : status[s] # "DEAD" /\ s \notin Ended
AllApplied ==
    \A l \in Electable, s \in Servers :
        /\ server_log[s] = server_log[l]
        /\ last_log_applied[s] = Size(s) - 1
        /\ s \notin FailingFiles => log_file[s] = CommandsOf(server_log[s])
EveryEntryApplied == <>[]AllRunning => <>[]AllApplied
=============================================================================
