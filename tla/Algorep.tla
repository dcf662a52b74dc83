------------------------------ MODULE Algorep ------------------------------
(***************************************************************************)
(* The whole program (main.cpp): the controller, the clients and the       *)
(* servers, with nothing between them but the channels.                    *)
(***************************************************************************)
EXTENDS ServerProperties, RaftClient, ReplController, Functions

\* Servers are forced to time out only if they may be elected.
ASSUME AlgorepAssumption ==
    \A lines \in Inputs : \A i \in 1 .. Len(lines) :
        lines[i].kind = "SERVER_TIMEOUT" => lines[i].to \in Electable

vars == <<serverVars, clientState, controllerState>>

Init == ServerInit /\ ClientInit /\ ControllerInit

\* The requests of c that wait at each server for their acknowledgement.
WaitingFor(c) ==
    [s \in Servers |-> Cardinality({i \in 1 .. Len(entries_queue[s]) :
                                       entries_queue[s][i].source = c})]

ServerTurn(step)   == step /\ UNCHANGED <<clientState, controllerState>>
ClientTurn(step)   == step /\ UNCHANGED <<serverState, controllerState>>

Next ==
    \/ \E s \in Servers : ServerTurn(ServerStep(s))
    \/ \E c \in Clients : ClientTurn(ClientStep(c, WaitingFor(c)))
    \/ ControllerStep /\ UNCHANGED <<serverState, clientState>>

Spec == Init /\ [][Next]_vars

----------------------------------------------------------------------------
(* Fairness.  The processes run for ever, each on its own, and MPI delivers *)
(* what it was given: again and again an update receives all that was sent *)
(* to its process.  A clock keeps running, so if it can run out in         *)
(* infinitely many updates, in some it has.  The controller's wait ends.   *)

HasEnded(p) == p \in Ended /\ active # p

ReceivedAll(p, handles) == handles /\ \A src \in Ranks : channel[src][p] = << >>

Fairness ==
    /\ \A s \in Servers :
          \/ []<>HasEnded(s)
          \/ []<><<ReceivedAll(s, ServerTurn(BeginHandling(s)))>>_vars
    /\ \A s \in Electable :
          /\ SF_vars(ServerTurn(FollowerTimesOut(s)))
          /\ SF_vars(ServerTurn(CandidateTimesOut(s)))
          /\ SF_vars(ServerTurn(LeaderBeats(s)))
    /\ \A c \in Clients :
          /\ \/ []<>HasEnded(c)
             \/ []<><<ReceivedAll(c, ClientTurn(ClientHandles(c)))>>_vars
          /\ SF_vars(ClientTurn(Search(c, WaitingFor(c))))
          /\ SF_vars(ClientTurn(AnswerOverdue(c, WaitingFor(c))))
    /\ SF_vars((TakeAnswer \/ GiveUp \/ StopNext \/ StopsReturn)
                  /\ UNCHANGED <<serverState, clientState>>)

FairSpec == Spec /\ Fairness

----------------------------------------------------------------------------
\* Every variable of the program has its type.
TypeOK == StateTypeOK /\ ClientTypeOK /\ ControllerTypeOK

(* What a client is promised (client.cpp, and server.cpp behind it). *)

\* The commands client c may want in the log.
CommandsOfClient(c) ==
    Range(CommandsFile[c])
       \cup UNION {Range(line.content) : line \in
                      {o \in UNION {Range(lines) : lines \in Inputs} : o.to = c}}

\* The places of c's commands in the log of l, and the commands as c wants them.
PlacesOf(c, l) ==
    {i \in 1 .. Len(server_log[l]) : server_log[l][i].command \in CommandsOfClient(c)}

Wanted(c) == popped[c] \o entries_to_send[c]

\* The commands of a client are in the log exactly once and in the order of
\* its queue: those it was acknowledged, and at most the one it waits for.
\* For clients that are answered in time and want different commands; they
\* may crash and recover between a request and its answer (handle_queries and
\* update of the client, leader_routine and the apply loop of the leader).
ExactlyOnce ==
    \A c \in Clients, l \in Electable :
        LET places == PlacesOf(c, l) IN
        /\ Cardinality(places) \in {Len(popped[c]), Len(popped[c]) + 1}
        /\ Cardinality(places) <= Len(Wanted(c))
        /\ \A i \in places : server_log[l][i].command =
                              Wanted(c)[Cardinality({j \in places : j <= i})]

\* A command is taken for acknowledged only as often as the leader has
\* applied it (client.cpp:112).
TimesIn(v, commands) == Cardinality({i \in 1 .. Len(commands) : commands[i] = v})

TimesApplied(v, l) ==
    Cardinality({i \in 1 .. last_log_applied[l] + 1 : server_log[l][i].command = v})

AcksAreEarned ==
    \A l \in Electable, c \in Clients, v \in Commands :
        TimesIn(v, popped[c]) <= TimesApplied(v, l)

\* No acknowledgement is given away: those that took a command off a queue,
\* those sent to a client and those in its batch are no more than the entries
\* the leader has applied (the apply loop; handle_queries of the client).
IsAck(m) == m.type = "NEW_LOG_ENTRY_RESPONSE" /\ m.success

At(stage, src, c, i) == [stage |-> stage, source |-> src, client |-> c, place |-> i]

PoppedAcks(c) == {At("popped", c, c, i) : i \in 1 .. Len(popped[c])}

SentAcks(p, c) ==
    {At("sent", p, c, i) : i \in {j \in 1 .. Len(channel[p][c]) : IsAck(channel[p][c][j])}}

TakenAcks(c) ==
    {At("taken", c, c, i) :
        i \in {j \in done + 1 .. Len(batch) : active = c /\ IsAck(batch[j].rpc)}}

AcksOf(c) == PoppedAcks(c) \cup TakenAcks(c) \cup UNION {SentAcks(p, c) : p \in Ranks}

Acks == UNION {AcksOf(c) : c \in Clients}

AcksAreCounted == \A l \in Electable : Cardinality(Acks) <= last_log_applied[l] + 1

\* If in the end no process is DEAD or has ended, then in the end every
\* command of every client is acknowledged and in every server's file
\* (README.md:64, server/README.md:3).
Works    == AllRunning /\ \A c \in Clients : Running(c) /\ c \notin Ended
AllDone  == AllApplied /\ \A c \in Clients : entries_to_send[c] = << >>
EveryCommandServed == <>[]Works => <>[]AllDone

(* What the user of the controller is promised. *)

\* The commands that some messages bring, given what each of them brings.
Brought(contents) ==
    LET first[n \in 0 .. Len(contents)] ==
            IF n = 0 THEN << >> ELSE first[n - 1] \o contents[n]
    IN  first[Len(contents)]

\* What the first n lines bring client c, and what is under way to it.
Given(lines, n, c) ==
    Brought([i \in 1 .. n |-> IF lines[i].to = c THEN lines[i].content ELSE << >>])

ContentOf(m) == IF m.type = "MESSAGE" THEN m.content ELSE << >>

UnderWay(c) ==
    LET sent == channel[Controller][c]
        taken == IF active = c THEN Len(batch) - done ELSE 0
    IN  Brought([i \in 1 .. taken |-> ContentOf(batch[done + i].rpc)])
           \o Brought([i \in 1 .. Len(sent) |-> ContentOf(sent[i])])

\* No order is lost or carried out twice, though the controller may have given
\* up waiting for its answer, or taken an older answer for it: a client is
\* given the commands of its file and of the lines read so far, in the order
\* in which the user typed them (send_and_wait; handle_message of the client).
EveryOrderCounts ==
    \A c \in Clients \ Ended : \E lines \in Inputs :
        LET n == Len(lines) - Len(input) IN
        /\ n \in Nat
        /\ input = SubSeq(lines, n + 1, Len(lines))
        /\ Wanted(c) \o UnderWay(c) = CommandsFile[c] \o Given(lines, n, c)

\* stop_all ends every process, also if some were stopped before, and then
\* the controller (README.md:51; stop_all_processes, handle_message of both).
StopAllEnds ==
    stopping # 0 ~> returned /\ Clients \cup Servers \subseteq Ended
=============================================================================
