----------------------------- MODULE RaftClient -----------------------------
(***************************************************************************)
(* The clients (client/client.cpp): a client looks for the leader, sends   *)
(* it the first command of its queue, and takes the command off the queue  *)
(* when the leader acknowledges it.  One action per step of                *)
(* Client::update().                                                       *)
(*                                                                         *)
(* A client that is not answered in time looks for the leader again and    *)
(* sends the same command again.  A DEAD client handles what it receives   *)
(* like a live one, but starts nothing.                                    *)
(***************************************************************************)
EXTENDS Process

CONSTANTS CommandsFile,    \* [c]: client_commands/commands_client_<rank>.txt
          MaxOutstanding   \* bound: RPCs a client may have under way with a
                           \* server when one of its clocks runs out

ASSUME ClientAssumption ==
    /\ CommandsFile \in [Clients -> Seq(Commands)]
    /\ MaxOutstanding \in Nat

VARIABLES
    client_status,     \* "RUNNING" or "DEAD"
    has_started,
    leader_rank,       \* the server it takes for the leader, 0 for none
    entries_to_send,   \* the queue of commands
    entry_sent,        \* no request waits for its answer
    popped             \* history: the commands it took off the queue

clientState == <<client_status, has_started, leader_rank, entries_to_send,
                 entry_sent, popped>>

\* The constructor.
ClientInit ==
    /\ client_status   = [c \in Clients |-> "DEAD"]
    /\ has_started     = [c \in Clients |-> FALSE]
    /\ leader_rank     = [c \in Clients |-> 0]
    /\ entries_to_send = CommandsFile
    /\ entry_sent      = [c \in Clients |-> TRUE]
    /\ popped          = [c \in Clients |-> << >>]

Running(c) == client_status[c] = "RUNNING"

----------------------------------------------------------------------------
(* run_client and the start of update(). *)

StartClient(c) == Begin(c) /\ UNCHANGED clientState

ClientReceives(c) ==
    /\ \E p \in Ranks \ {c} : Receive(c, p)
    /\ UNCHANGED clientState

ClientHandles(c) ==
    /\ active = c
    /\ phase = "receive"
    /\ phase' = "handle"
    /\ UNCHANGED <<endVars, channel, active, source, batch, done, clocks_reset, clientState>>

----------------------------------------------------------------------------
(* handle_queries. *)

\* c is about to handle q, a query of type t.
ClientHandling(c, t, q) ==
    /\ active = c
    /\ phase = "handle"
    /\ done < Len(batch)
    /\ q = batch[done + 1]
    /\ q.rpc.type = t

\* c forgets the leader it knows.
ForgetLeader(c) == leader_rank' = [leader_rank EXCEPT ![c] = 0]

\* The first server to answer the search is the leader.
LearnLeader(c) ==
    LET q == batch[done + 1] IN
    /\ ClientHandling(c, "SEARCH_LEADER_RESPONSE", q)
    /\ IF leader_rank[c] = 0
       THEN /\ leader_rank' = [leader_rank EXCEPT ![c] = q.rpc.leader_rank]
            /\ Resets({"leader_clock", "entry_clock"})
       ELSE UNCHANGED leader_rank /\ KeepClock
    /\ NextQuery
    /\ UNCHANGED <<endVars, channel, client_status, has_started, entries_to_send,
                   entry_sent, popped>>

\* The server took the entry.  Wrong: any answer will do.
Answered(response) == TRUE
Accepted(response) == response.success

\* An acknowledgement, whatever request it answers, takes the first command
\* off the queue.  Popping an empty queue is undefined, and taken to end the
\* process.
TakeSuccess(c) ==
    LET q == batch[done + 1] IN
    /\ ClientHandling(c, "NEW_LOG_ENTRY_RESPONSE", q)
    /\ Accepted(q.rpc)
    /\ IF entries_to_send[c] # << >>
       THEN /\ entries_to_send' = [entries_to_send EXCEPT ![c] = Tail(entries_to_send[c])]
            /\ popped' = [popped EXCEPT ![c] = Append(popped[c], Head(entries_to_send[c]))]
            /\ entry_sent' = [entry_sent EXCEPT ![c] = TRUE]
            /\ Resets({"entry_clock"})
            /\ NextQuery
            /\ UNCHANGED endVars
       ELSE Abort(c) /\ UNCHANGED <<entries_to_send, popped, entry_sent>>
    /\ UNCHANGED <<channel, client_status, has_started, leader_rank>>

\* A server that does not lead turned the request down.
TakeFailure(c) ==
    LET q == batch[done + 1] IN
    /\ ClientHandling(c, "NEW_LOG_ENTRY_RESPONSE", q)
    /\ ~Accepted(q.rpc)
    /\ ForgetLeader(c)
    /\ Resets(IF leader_rank[c] # 0 THEN {"leader_clock", "entry_clock"} ELSE {"entry_clock"})
    /\ entry_sent' = [entry_sent EXCEPT ![c] = TRUE]
    /\ NextQuery
    /\ UNCHANGED <<endVars, channel, client_status, has_started, entries_to_send, popped>>

----------------------------------------------------------------------------
(* handle_message: the controller's orders.  Every order is answered. *)

OrderOf(c, kinds) ==
    /\ ClientHandling(c, "MESSAGE", batch[done + 1])
    /\ batch[done + 1].rpc.kind \in kinds

\* The order is answered, and nothing of the client changes but what the
\* handler says.
AnswerOrder(c, success) ==
    /\ Reply(c, batch[done + 1].source, MessageResponse(success))
    /\ NextQuery
    /\ UNCHANGED <<aborted, popped>>

\* A command, or those of a file.
NewEntries(c) ==
    /\ OrderOf(c, {"CLIENT_CREATE_NEW_ENTRY", "CLIENT_NEW_FILE_ENTRY"})
    /\ entries_to_send' = [entries_to_send EXCEPT
           ![c] = entries_to_send[c] \o batch[done + 1].rpc.content]
    /\ AnswerOrder(c, TRUE)
    /\ KeepClock
    /\ UNCHANGED <<stopped, client_status, has_started, leader_rank, entry_sent>>

\* The speed is the time the client sleeps between two updates.
DisplayOrSpeed(c) ==
    /\ OrderOf(c, {"PROCESS_DISPLAY", "PROCESS_SET_SPEED"})
    /\ AnswerOrder(c, TRUE)
    /\ KeepClock
    /\ UNCHANGED <<stopped, client_status, has_started, leader_rank, entries_to_send, entry_sent>>

\* A client that never started is DEAD too, and may be recovered.
Recover(c) ==
    /\ OrderOf(c, {"PROCESS_RECOVER"})
    /\ AnswerOrder(c, ~Running(c))
    /\ client_status' = [client_status EXCEPT ![c] = "RUNNING"]
    /\ IF ~Running(c) /\ leader_rank[c] # 0
       THEN ForgetLeader(c) /\ Resets({"leader_clock"})
       ELSE UNCHANGED leader_rank /\ KeepClock
    /\ UNCHANGED <<stopped, has_started, entries_to_send, entry_sent>>

Start(c) ==
    /\ OrderOf(c, {"PROCESS_START"})
    /\ AnswerOrder(c, ~has_started[c])
    /\ IF ~has_started[c]
       THEN /\ has_started' = [has_started EXCEPT ![c] = TRUE]
            /\ client_status' = [client_status EXCEPT ![c] = "RUNNING"]
            /\ ForgetLeader(c)
            /\ Resets({"leader_clock", "entry_clock"})
       ELSE UNCHANGED <<has_started, client_status, leader_rank>> /\ KeepClock
    /\ UNCHANGED <<stopped, entries_to_send, entry_sent>>

\* Whether a request waits for its answer is not forgotten.
Crash(c) ==
    /\ OrderOf(c, {"PROCESS_CRASH"})
    /\ AnswerOrder(c, Running(c))
    /\ client_status' = [client_status EXCEPT ![c] = "DEAD"]
    /\ IF Running(c)
       THEN ForgetLeader(c) /\ Resets({"leader_clock", "entry_clock"})
       ELSE UNCHANGED leader_rank /\ KeepClock
    /\ UNCHANGED <<stopped, has_started, entries_to_send, entry_sent>>

Stop(c) ==
    /\ OrderOf(c, {"PROCESS_STOP"})
    /\ AnswerOrder(c, TRUE)
    /\ stopped' = stopped \cup {c}
    /\ client_status' = [client_status EXCEPT ![c] = "DEAD"]
    /\ KeepClock
    /\ UNCHANGED <<has_started, leader_rank, entries_to_send, entry_sent>>

----------------------------------------------------------------------------
(* The rest of update(): search for the leader, send a command or neither, *)
(* then look whether the answer is overdue.                                *)

\* A DEAD client does nothing more.
StaysDead(c) ==
    /\ AllHandled(c)
    /\ ~Running(c)
    /\ EndUpdate
    /\ UNCHANGED <<endVars, channel, clientState>>

\* On to the entry clock.
ThenCheck(c) ==
    /\ phase' = "check"
    /\ UNCHANGED <<endVars, active, source, batch, done>>

\* A clock of c that has not been reset may run out while c has fewer than
\* MaxOutstanding RPCs under way with each server: on the channels, or among
\* the requests waiting there, of which there are waiting[s].  With 1, c is
\* answered in time unless its request is turned down or passed over.
TimesOut(c, clock, waiting) ==
    /\ MayRunOut(clock)
    /\ \A s \in Servers \ Ended :
          Len(channel[c][s]) + Len(channel[s][c]) + waiting[s] < MaxOutstanding

Search(c, waiting) ==
    /\ AllHandled(c)
    /\ Running(c)
    /\ leader_rank[c] = 0
    /\ TimesOut(c, "leader_clock", waiting)
    /\ channel' = SendToAll(channel, c, Servers, [s \in Servers |-> SearchLeader], Ended)
    /\ Resets({"leader_clock"})
    /\ ThenCheck(c)
    /\ UNCHANGED clientState

\* Wrong: also while the answer to the last request is still awaited.
HasAnyEntry(c) == leader_rank[c] # 0 /\ entries_to_send[c] # << >>
\* Wrong: the last command of the queue stays there.
HasTwoEntries(c) ==
    leader_rank[c] # 0 /\ entry_sent[c] /\ Len(entries_to_send[c]) > 1
HasEntryToSend(c) ==
    leader_rank[c] # 0 /\ entry_sent[c] /\ entries_to_send[c] # << >>

\* Wrong: the newest command (back instead of front).
BackEntry(c)  == entries_to_send[c][Len(entries_to_send[c])]
FrontEntry(c) == Head(entries_to_send[c])

SendEntry(c) ==
    /\ AllHandled(c)
    /\ Running(c)
    /\ HasEntryToSend(c)
    /\ Reply(c, leader_rank[c], NewLogEntry(FrontEntry(c)))
    /\ entry_sent' = [entry_sent EXCEPT ![c] = FALSE]
    /\ Resets({"entry_clock"})
    /\ ThenCheck(c)
    /\ UNCHANGED <<client_status, has_started, leader_rank, entries_to_send, popped>>

\* No search yet, and no entry to send.
SendNothing(c) ==
    /\ AllHandled(c)
    /\ Running(c)
    /\ ~HasEntryToSend(c)
    /\ KeepClock
    /\ ThenCheck(c)
    /\ UNCHANGED <<channel, clientState>>

\* The entry will be sent again, once the leader has been found again.
AnswerOverdue(c, waiting) ==
    /\ active = c
    /\ phase = "check"
    /\ ~entry_sent[c]
    /\ entries_to_send[c] # << >>
    /\ TimesOut(c, "entry_clock", waiting)
    /\ entry_sent' = [entry_sent EXCEPT ![c] = TRUE]
    /\ ForgetLeader(c)
    /\ EndUpdate
    /\ UNCHANGED <<endVars, channel, client_status, has_started, entries_to_send, popped>>

AnswerNotOverdue(c) ==
    /\ active = c
    /\ phase = "check"
    /\ EndUpdate
    /\ UNCHANGED <<endVars, channel, clientState>>

----------------------------------------------------------------------------
(* update() in full. *)

ClientHandlesQuery(c) ==
    \/ LearnLeader(c)
    \/ TakeSuccess(c)
    \/ TakeFailure(c)
    \/ NewEntries(c)
    \/ DisplayOrSpeed(c)
    \/ Recover(c)
    \/ Start(c)
    \/ Crash(c)
    \/ Stop(c)

ClientRoutine(c, waiting) ==
    \/ StaysDead(c)
    \/ Search(c, waiting)
    \/ SendEntry(c)
    \/ SendNothing(c)
    \/ AnswerOverdue(c, waiting)
    \/ AnswerNotOverdue(c)

ClientStep(c, waiting) ==
    \/ StartClient(c)
    \/ ClientReceives(c)
    \/ ClientHandles(c)
    \/ ClientHandlesQuery(c)
    \/ ClientRoutine(c, waiting)

----------------------------------------------------------------------------
ClientTypeOK ==
    /\ client_status \in [Clients -> {"RUNNING", "DEAD"}]
    /\ has_started \in [Clients -> BOOLEAN]
    /\ leader_rank \in [Clients -> Servers \cup {0}]
    /\ entries_to_send \in [Clients -> Seq(Commands)]
    /\ entry_sent \in [Clients -> BOOLEAN]
    /\ popped \in [Clients -> Seq(Commands)]
=============================================================================
