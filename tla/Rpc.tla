-------------------------------- MODULE Rpc --------------------------------
(***************************************************************************)
(* The ranks of the program (main.cpp) and the RPCs its processes exchange *)
(* (rpc/, message/).  The processes are the MPI ranks themselves, because  *)
(* a process drains its sources in rank order:                             *)
(*                                                                         *)
(*    rank 0                            the REPL controller                *)
(*    ranks 1 .. NClients               the clients                        *)
(*    ranks NClients+1 .. N             the servers, N = NClients+NServers *)
(*                                                                         *)
(* An RPC is a record with the type and term every RPC carries and the     *)
(* content some receiver reads.  Fields that no code reads (the previous   *)
(* index and term of a heartbeat, the leader rank inside SEARCH_LEADER)    *)
(* are left out.  RPCs to and from clients and the controller carry the    *)
(* term -1.                                                                *)
(***************************************************************************)
EXTENDS Integers, Sequences

CONSTANTS NClients,   \* --clients of the command line
          NServers,   \* --servers of the command line
          Commands    \* the commands clients want in the replicated log

ASSUME RanksAssumption == NClients \in Nat /\ NServers \in Nat

Controller == 0
Clients    == 1 .. NClients
Servers    == (NClients + 1) .. (NClients + NServers)
Ranks      == 0 .. (NClients + NServers)

\* A log entry: the term of the leader that appended it, and its command.
LogEntry == [term : Int, command : Commands]

----------------------------------------------------------------------------
(* Constructors, with the parameters the C++ constructors are given. *)

Heartbeat(term, leader_commit) ==
    [type |-> "HEARTBEAT", term |-> term, leader_commit |-> leader_commit]

VoteRequest(term, candidate_rank, last_log_index, last_log_term) ==
    [type |-> "VOTE_REQUEST", term |-> term, candidate_rank |-> candidate_rank,
     last_log_index |-> last_log_index, last_log_term |-> last_log_term]

VoteResponse(term, vote) ==
    [type |-> "VOTE_RESPONSE", term |-> term, vote |-> vote]

AppendEntries(term, leader_rank, prev_log_index, prev_log_term, entries, leader_commit) ==
    [type |-> "APPEND_ENTRIES", term |-> term, leader_rank |-> leader_rank,
     prev_log_index |-> prev_log_index, prev_log_term |-> prev_log_term,
     entries |-> entries, leader_commit |-> leader_commit]

AppendEntriesResponse(term, success) ==
    [type |-> "APPEND_ENTRIES_RESPONSE", term |-> term, success |-> success]

NewLogEntry(command) ==
    [type |-> "NEW_LOG_ENTRY", term |-> -1, command |-> command]

NewLogEntryResponse(success) ==
    [type |-> "NEW_LOG_ENTRY_RESPONSE", term |-> -1, success |-> success]

SearchLeader == [type |-> "SEARCH_LEADER", term |-> -1]

SearchLeaderResponse(leader_rank) ==
    [type |-> "SEARCH_LEADER_RESPONSE", term |-> -1, leader_rank |-> leader_rank]

\* The controller's order to a process: kind is the C++ MESSAGE_TYPE, and
\* content the commands the order brings a client.
Message(kind, content) ==
    [type |-> "MESSAGE", term |-> -1, kind |-> kind, content |-> content]

MessageResponse(success) ==
    [type |-> "MESSAGE_RESPONSE", term |-> -1, success |-> success]

\* The orders any process can be given, those of a server, those of a client.
ProcessOrders == {"PROCESS_DISPLAY", "PROCESS_SET_SPEED", "PROCESS_STOP",
                  "PROCESS_CRASH", "PROCESS_RECOVER"}
ServerOrders  == ProcessOrders \cup {"SERVER_TIMEOUT"}
ClientOrders  == ProcessOrders \cup {"PROCESS_START", "CLIENT_CREATE_NEW_ENTRY",
                                     "CLIENT_NEW_FILE_ENTRY"}

----------------------------------------------------------------------------
(* The RPCs by type.  An APPEND_ENTRIES always starts at an index >= 0 of  *)
(* its sender's log.                                                       *)

HeartbeatRpc    == [type : {"HEARTBEAT"}, term : Int, leader_commit : Int]
VoteRequestRpc  == [type : {"VOTE_REQUEST"}, term : Int, candidate_rank : Servers,
                    last_log_index : Int, last_log_term : Int]
VoteResponseRpc == [type : {"VOTE_RESPONSE"}, term : Int, vote : BOOLEAN]
AppendEntriesRpc ==
    [type : {"APPEND_ENTRIES"}, term : Int, leader_rank : Servers,
     prev_log_index : Nat \cup {-1}, prev_log_term : Int,
     entries : Seq(LogEntry), leader_commit : Int]
AppendEntriesResponseRpc ==
    [type : {"APPEND_ENTRIES_RESPONSE"}, term : Int, success : BOOLEAN]
ClientRpc ==
    [type : {"NEW_LOG_ENTRY"}, term : {-1}, command : Commands]
       \cup [type : {"NEW_LOG_ENTRY_RESPONSE"}, term : {-1}, success : BOOLEAN]
       \cup [type : {"SEARCH_LEADER"}, term : {-1}]
       \cup [type : {"SEARCH_LEADER_RESPONSE"}, term : {-1}, leader_rank : Servers]
ControllerRpc ==
    [type : {"MESSAGE"}, term : {-1}, kind : ServerOrders \cup ClientOrders,
     content : Seq(Commands)]
       \cup [type : {"MESSAGE_RESPONSE"}, term : {-1}, success : BOOLEAN]

RPC == HeartbeatRpc \cup VoteRequestRpc \cup VoteResponseRpc \cup AppendEntriesRpc
          \cup AppendEntriesResponseRpc \cup ClientRpc \cup ControllerRpc

\* A received RPC together with the rank it came from.
Query == [source : Ranks, rpc : RPC]

----------------------------------------------------------------------------
(* channel[src][dst] is what src sent to dst and dst has not received:     *)
(* MPI keeps the order of the messages between two ranks.  The operators   *)
(* return the channels after a send.                                       *)

\* send_message(m, dst, 0) by src.  A process that has ended receives
\* nothing any more, so what is sent to it is not kept.
SendMessage(chan, src, dst, m, ended) ==
    IF dst \in ended THEN chan
    ELSE [chan EXCEPT ![src][dst] = Append(chan[src][dst], m)]

\* One message m[dst] to every dst of the set dests.  The first version is a
\* wrong one, which lets a message overtake those sent before it.
SendToAllOvertaking(chan, src, dests, m, ended) ==
    [chan EXCEPT ![src] =
        [dst \in Ranks |-> IF dst \in dests \ ended
                           THEN <<m[dst]>> \o chan[src][dst]
                           ELSE chan[src][dst]]]
SendToAll(chan, src, dests, m, ended) ==
    [chan EXCEPT ![src] =
        [dst \in Ranks |-> IF dst \in dests \ ended
                           THEN Append(chan[src][dst], m[dst])
                           ELSE chan[src][dst]]]
=============================================================================
