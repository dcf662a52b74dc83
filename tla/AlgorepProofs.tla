---------------------------- MODULE AlgorepProofs ----------------------------
(***************************************************************************)
(* The theorems about the whole program, for any number of clients and     *)
(* servers, any command files and any input: its types, and that the       *)
(* clients and the controller leave the servers their replicated log, that *)
(* clients get no more acknowledgements than commands are written, and     *)
(* that a client answered in time has its commands in the log exactly once *)
(* and in the order of its queue.                                          *)
(* The steps of the servers are those of the modules extended; here those  *)
(* of the clients and of the controller are added.                         *)
(***************************************************************************)
EXTENDS Algorep, ExchangeProofs

----------------------------------------------------------------------------
(* What clients and the controller send. *)

\* What a client may send: a request or the answer to an order.
IsAsking(m) ==
    m.type \in {"NEW_LOG_ENTRY", "SEARCH_LEADER", "MESSAGE_RESPONSE"} /\ m.term = -1

LEMMA AskingIsFromOutside ==
    ASSUME NEW m, IsAsking(m), NEW p
    PROVE  Quiet(m, p) /\ \A C, d : FromOutside(C, m, d)
BY NeutralGood DEF IsAsking, Quiet, FromOutside, IsCrash

LEMMA ClientReplies ==
    ASSUME ChannelTypeOK, NEW c \in Clients, NEW d, NEW m \in RPC, IsAsking(m), Reply(c, d, m)
    PROVE  ChannelTypeOK' /\ OutsideChannels /\ OnlyFromOutside({})
BY ClientFacts, AskingIsFromOutside, SentFromOutside DEF Reply

LEMMA ClientSendsAll ==
    ASSUME ChannelTypeOK, NEW c \in Ranks, c \notin Servers, NEW dests \in SUBSET Ranks, NEW m,
           \A d \in dests : m[d] \in RPC,
           \A d \in dests : IsAsking(m[d]),
           channel' = SendToAll(channel, c, dests, m, Ended)
    PROVE  ChannelTypeOK' /\ OutsideChannels /\ OnlyFromOutside({})
<1>1. channel \in Channels
  BY DEF ChannelTypeOK, Channels
<1>2. channel' \in Channels
  BY <1>1, SendToAllFacts
<1>3. \A p, q \in Ranks : \A i \in 1 .. Len(channel'[p][q]) :
         \/ i \in 1 .. Len(channel[p][q]) /\ channel'[p][q][i] = channel[p][q][i]
         \/ p = c /\ q \in dests /\ channel'[p][q][i] = m[q]
  BY <1>1, SendToAllFacts
<1>4. OnlyFromOutside({})
  <2>1. ASSUME NEW p \in Ranks, NEW d \in Servers, NEW i \in 1 .. Len(channel'[p][d])
        PROVE  \/ \E j \in 1 .. Len(channel[p][d]) : channel'[p][d][i] = channel[p][d][j]
               \/ FromOutside({}, channel'[p][d][i], d)
    <3>1. d \in Ranks
      BY RanksFacts
    <3>2. \/ i \in 1 .. Len(channel[p][d]) /\ channel'[p][d][i] = channel[p][d][i]
          \/ d \in dests /\ channel'[p][d][i] = m[d]
      BY <1>3, <3>1
    <3>3. d \in dests => FromOutside({}, m[d], d)
      BY AskingIsFromOutside
    <3> QED BY <3>2, <3>3
  <2> QED BY <2>1 DEF OnlyFromOutside
<1>5. OutsideChannels
  <2>1. \A d \in dests : m[d] \in RPC /\ Quiet(m[d], c)
    BY AskingIsFromOutside
  <2> QED BY <1>1, <2>1, SendToAllAdds, OutsideChannelsFacts
<1> QED BY <1>2, <1>4, <1>5 DEF ChannelTypeOK, Channels

LEMMA ClientSearches ==
    ASSUME ChannelTypeOK, NEW c \in Clients,
           channel' = SendToAll(channel, c, Servers, [s \in Servers |-> SearchLeader], Ended)
    PROVE  ChannelTypeOK' /\ OutsideChannels /\ OnlyFromOutside({})
<1> DEFINE m == [s \in Servers |-> SearchLeader]
<1>1. c \in Ranks /\ c \notin Servers /\ Servers \in SUBSET Ranks
  BY ClientFacts, RanksFacts
<1>2. \A d \in Servers : m[d] \in RPC
  BY RpcFacts
<1>3. \A d \in Servers : IsAsking(m[d])
  BY DEF IsAsking, SearchLeader
<1>4. channel' = SendToAll(channel, c, Servers, m, Ended)
  OBVIOUS
<1> HIDE DEF m
<1> QED BY <1>1, <1>2, <1>3, <1>4, ClientSendsAll

\* The answer to an order, a request.
LEMMA ClientMessages ==
    /\ \A b \in BOOLEAN : MessageResponse(b) \in RPC /\ IsAsking(MessageResponse(b))
    /\ \A v \in Commands : NewLogEntry(v) \in RPC /\ IsAsking(NewLogEntry(v))
BY RpcFacts DEF IsAsking, MessageResponse, NewLogEntry

----------------------------------------------------------------------------
(* The steps of a client. *)

\* What a step of a client keeps besides its own state.
ClientKeeps ==
    EndTypeOK' /\ ChannelTypeOK' /\ UpdateTypeOK' /\ OutsideChannels /\ OnlyFromOutside({})

LEMMA ClientFrame == ClientTypeOK /\ UNCHANGED clientState => ClientTypeOK'
BY DEF ClientTypeOK, clientState

LEMMA ClientReceiveTypes ==
    ASSUME StateTypeOK, ClientTypeOK, NEW c \in Clients,
           StartClient(c) \/ ClientReceives(c) \/ ClientHandles(c)
    PROVE  ClientKeeps /\ ClientTypeOK'
<1> USE DEF StateTypeOK
<1>1. CASE StartClient(c)
  <2>1. UpdateTypeOK'
    BY <1>1, ClientFacts DEF StartClient, Begin, UpdateTypeOK
  <2> QED BY <1>1, <2>1, TypeFrames, NothingSent, ClientFrame
          DEF StartClient, Begin, ClientKeeps
<1>2. CASE ClientReceives(c)
  <2> c \in Ranks
    BY ClientFacts
  <2>1. PICK p \in Ranks : Receive(c, p)
    BY <1>2 DEF ClientReceives
  <2>2. PICK n \in 1 .. Len(channel[p][c]) : \E k \in 0 .. n : Drain(c, p, k, n)
    BY <2>1, ReceiveIsDrain
  <2>3. PICK k \in 0 .. n : Drain(c, p, k, n)
    BY <2>2
  <2>4. /\ channel' \in Channels /\ batch' \in Seq(Query) /\ Len(batch') = Len(batch) + k
        /\ \A q, d \in Ranks : \A i \in 1 .. Len(channel'[q][d]) :
              \E j \in 1 .. Len(channel[q][d]) : channel'[q][d][i] = channel[q][d][j]
    BY <2>3, DrainFacts
  <2>5. done \in 0 .. Len(batch') /\ p + 1 \in Nat
    <3>1. Len(batch) \in Nat /\ done \in 0 .. Len(batch)
      BY LenProperties DEF UpdateTypeOK
    <3> QED BY <3>1, <2>4, RanksAssumption DEF Ranks
  <2>6. UpdateTypeOK'
    BY <2>3, <2>4, <2>5 DEF UpdateTypeOK, Drain
  <2>7. \A q \in Ranks, d \in Servers : \A i \in 1 .. Len(channel'[q][d]) :
           \E j \in 1 .. Len(channel[q][d]) : channel'[q][d][i] = channel[q][d][j]
    BY <2>4, RanksFacts
  <2>8. ChannelTypeOK'
    BY <2>4 DEF ChannelTypeOK, Channels
  <2>9. OnlyFromOutside({})
    BY <2>7 DEF OnlyFromOutside
  <2>10. OutsideChannels
    <3>1. \A q \in Ranks, d \in Servers : d # c /\ d \in Ranks
      BY RanksFacts, ClientFacts
    <3>2. \A q, d \in Ranks : (q = p /\ d = c) \/ channel'[q][d] = channel[q][d]
      BY <2>3, DrainMoves
    <3>3. \A q, d \in Ranks : channel[q][d] \in Seq(RPC)
      BY DEF ChannelTypeOK
    <3>4. \A q \in Ranks, d \in Servers :
             channel'[q][d] = channel[q][d] /\ channel[q][d] \in Seq(RPC)
      BY <3>1, <3>2, <3>3
    <3>5. ASSUME NEW s \in Servers, NEW d \in Ranks PROVE Len(channel'[s][d]) <= Len(channel[s][d])
      <4>1. s \in Ranks /\ Len(channel[s][d]) \in Nat /\ Len(channel'[s][d]) \in Nat
        <5>1. s \in Ranks /\ channel[s][d] \in Seq(RPC) /\ channel'[s][d] \in Seq(RPC)
          <6>1. s \in Ranks
            BY RanksFacts
          <6>2. channel' \in [Ranks -> [Ranks -> Seq(RPC)]]
            BY <2>8 DEF ChannelTypeOK
          <6> QED BY <3>3, <6>1, <6>2
        <5>2. \A chan \in Seq(RPC) : Len(chan) \in Nat
          BY LenProperties
        <5> QED BY <5>1, <5>2
      <4>2. CASE s = p /\ d = c
        <5>1. \A i \in 1 .. Len(channel'[p][c]) : n + i \in 1 .. Len(channel[p][c])
          BY <2>3, DrainMoves
        <5> QED BY <4>1, <4>2, <5>1
      <4>3. CASE ~(s = p /\ d = c)
        BY <3>2, <4>1, <4>3
      <4> QED BY <4>2, <4>3
    <3> QED BY <3>4, <3>5, OnlyAddsFacts DEF OutsideChannels
  <2> QED BY <2>3, <2>6, <2>8, <2>9, <2>10, <1>2, TypeFrames, ClientFrame
          DEF ClientReceives, Drain, ClientKeeps
<1>3. CASE ClientHandles(c)
  <2>1. UpdateTypeOK'
    BY <1>3 DEF ClientHandles, UpdateTypeOK
  <2> QED BY <1>3, <2>1, TypeFrames, NothingSent, ClientFrame DEF ClientHandles, ClientKeeps
<1> QED BY <1>1, <1>2, <1>3

LEMMA ClientAnswerTypes ==
    ASSUME StateTypeOK, ClientTypeOK, NEW c \in Clients,
           LearnLeader(c) \/ TakeSuccess(c) \/ TakeFailure(c)
    PROVE  ClientKeeps /\ ClientTypeOK'
<1> USE DEF StateTypeOK
<1>1. done < Len(batch)
  BY DEF LearnLeader, TakeSuccess, TakeFailure, ClientHandling
<1>2. batch[done + 1].rpc \in RPC
  BY <1>1, QueryFacts
<1>3. UNCHANGED channel
  BY DEF LearnLeader, TakeSuccess, TakeFailure
<1>4. ASSUME NextQuery, clocks_reset' \subseteq Clocks, UNCHANGED endVars PROVE ClientKeeps
  BY <1>1, <1>3, <1>4, UpdateTypes, TypeFrames, NothingSent DEF ClientKeeps
<1>5. CASE LearnLeader(c)
  <2>1. ClientKeeps
    BY <1>4, <1>5 DEF LearnLeader, Resets, KeepClock, Clocks, UpdateTypeOK
  <2>2. batch[done + 1].rpc.leader_rank \in Servers
    BY <1>2, <1>5, RpcFields DEF LearnLeader, ClientHandling
  <2>3. leader_rank' \in [Clients -> Servers \cup {0}]
    BY <1>5, <2>2 DEF LearnLeader, ClientTypeOK
  <2> QED BY <1>5, <2>1, <2>3 DEF LearnLeader, ClientTypeOK
<1>6. CASE TakeSuccess(c)
  <2>1. CASE entries_to_send[c] # << >>
    <3>1. ClientKeeps
      BY <1>4, <1>6, <2>1 DEF TakeSuccess, Resets, Clocks, UpdateTypeOK
    <3>2. entries_to_send[c] \in Seq(Commands) /\ popped[c] \in Seq(Commands)
      BY DEF ClientTypeOK
    <3>3. /\ Tail(entries_to_send[c]) \in Seq(Commands)
          /\ Append(popped[c], Head(entries_to_send[c])) \in Seq(Commands)
      BY <2>1, <3>2, HeadTailProperties, AppendProperties
    <3> QED BY <1>6, <2>1, <3>1, <3>3 DEF TakeSuccess, ClientTypeOK
  <2>2. CASE entries_to_send[c] = << >>
    <3>1. Abort(c) /\ UNCHANGED clientState
      BY <1>6, <2>2 DEF TakeSuccess, clientState
    <3>2. EndTypeOK' /\ UpdateTypeOK'
      BY <3>1, ClientFacts, UpdateTypes DEF Abort, EndTypeOK
    <3> QED BY <1>3, <3>1, <3>2, TypeFrames, NothingSent, ClientFrame DEF ClientKeeps
  <2> QED BY <2>1, <2>2
<1>7. CASE TakeFailure(c)
  <2>1. ClientKeeps
    <3>1. clocks_reset' \subseteq Clocks
      BY <1>7 DEF TakeFailure, Resets, Clocks, UpdateTypeOK
    <3> QED BY <1>4, <1>7, <3>1 DEF TakeFailure
  <2> QED BY <1>7, <2>1 DEF TakeFailure, ForgetLeader, ClientTypeOK
<1> QED BY <1>5, <1>6, <1>7

LEMMA ClientOrderTypes ==
    ASSUME StateTypeOK, ClientTypeOK, NEW c \in Clients,
           \/ NewEntries(c) \/ DisplayOrSpeed(c) \/ Recover(c)
           \/ Start(c) \/ Crash(c) \/ Stop(c)
    PROVE  ClientKeeps /\ ClientTypeOK'
<1> USE DEF StateTypeOK
<1>1. done < Len(batch) /\ batch[done + 1].rpc.type = "MESSAGE"
  BY DEF NewEntries, DisplayOrSpeed, Recover, Start, Crash, Stop, OrderOf, ClientHandling
<1>2. batch[done + 1].rpc \in RPC
  BY <1>1, QueryFacts
<1>3. PICK b \in BOOLEAN : AnswerOrder(c, b)
  <2>1. c \in Clients /\ Running(c) \in BOOLEAN /\ has_started[c] \in BOOLEAN
    BY DEF Running, ClientTypeOK
  <2>2. CASE NewEntries(c) \/ DisplayOrSpeed(c) \/ Stop(c)
    BY <2>2 DEF NewEntries, DisplayOrSpeed, Stop
  <2>3. CASE Recover(c) \/ Start(c) \/ Crash(c)
    <3>1. AnswerOrder(c, ~Running(c)) \/ AnswerOrder(c, ~has_started[c]) \/ AnswerOrder(c, Running(c))
      BY <2>3 DEF Recover, Start, Crash
    <3>2. (~Running(c)) \in BOOLEAN /\ (~has_started[c]) \in BOOLEAN
      BY <2>1
    <3> QED BY <2>1, <3>1, <3>2
  <2> QED BY <2>2, <2>3
<1>4. ChannelTypeOK' /\ OutsideChannels /\ OnlyFromOutside({})
  <2>1. MessageResponse(b) \in RPC /\ IsAsking(MessageResponse(b))
    BY ClientMessages
  <2> QED BY <1>3, <2>1, ClientReplies DEF AnswerOrder
<1>5. clocks_reset' \subseteq Clocks
  BY DEF NewEntries, DisplayOrSpeed, Recover, Start, Crash, Stop, Resets, KeepClock, Clocks,
         UpdateTypeOK
<1>6. UpdateTypeOK'
  BY <1>1, <1>3, <1>5, UpdateTypes DEF AnswerOrder
<1>7. EndTypeOK'
  BY <1>3, ClientFacts DEF NewEntries, DisplayOrSpeed, Recover, Start, Crash, Stop, AnswerOrder,
     EndTypeOK
<1>8. ClientTypeOK'
  <2>1. CASE NewEntries(c)
    <3>1. batch[done + 1].rpc.content \in Seq(Commands)
      BY <1>1, <1>2, RpcFields
    <3>2. entries_to_send[c] \o batch[done + 1].rpc.content \in Seq(Commands)
      BY <3>1, ConcatProperties DEF ClientTypeOK
    <3> QED BY <1>3, <2>1, <3>2 DEF NewEntries, AnswerOrder, ClientTypeOK
  <2>2. CASE ~NewEntries(c)
    BY <1>3, <2>2 DEF DisplayOrSpeed, Recover, Start, Crash, Stop, AnswerOrder, ForgetLeader,
       ClientTypeOK
  <2> QED BY <2>1, <2>2
<1> QED BY <1>4, <1>6, <1>7, <1>8 DEF ClientKeeps

LEMMA ClientRoutineTypes ==
    ASSUME StateTypeOK, ClientTypeOK, NEW c \in Clients, NEW w, ClientRoutine(c, w)
    PROVE  ClientKeeps /\ ClientTypeOK'
<1> USE DEF StateTypeOK
<1>1. UNCHANGED endVars
  BY DEF ClientRoutine, StaysDead, Search, SendEntry, SendNothing, AnswerOverdue,
         AnswerNotOverdue, ThenCheck
<1>2. UpdateTypeOK'
  <2>1. CASE EndUpdate
    BY <2>1, UpdateTypes
  <2>2. CASE Search(c, w) \/ SendEntry(c) \/ SendNothing(c)
    <3>1. ThenCheck(c) /\ clocks_reset' \subseteq Clocks
      BY <2>2 DEF Search, SendEntry, SendNothing, Resets, KeepClock, Clocks, UpdateTypeOK
    <3> QED BY <3>1 DEF ThenCheck, UpdateTypeOK
  <2> QED BY <2>1, <2>2 DEF ClientRoutine, StaysDead, AnswerOverdue, AnswerNotOverdue
<1>3. ChannelTypeOK' /\ OutsideChannels /\ OnlyFromOutside({})
  <2>1. CASE Search(c, w)
    BY <2>1, ClientSearches DEF Search
  <2>2. CASE SendEntry(c)
    <3>1. Head(entries_to_send[c]) \in Commands
      BY <2>2, HeadTailProperties DEF SendEntry, HasEntryToSend, ClientTypeOK
    <3>2. PICK m \in RPC : IsAsking(m) /\ Reply(c, leader_rank[c], m)
      BY <2>2, <3>1, ClientMessages DEF SendEntry, FrontEntry
    <3> QED BY <3>2, ClientReplies
  <2>3. CASE UNCHANGED channel
    BY <2>3, TypeFrames, NothingSent
  <2> QED BY <2>1, <2>2, <2>3 DEF ClientRoutine, StaysDead, SendNothing, AnswerOverdue,
      AnswerNotOverdue
<1>4. ClientTypeOK'
  BY DEF ClientRoutine, StaysDead, Search, SendEntry, SendNothing, AnswerOverdue,
         AnswerNotOverdue, ForgetLeader, clientState, ClientTypeOK
<1> QED BY <1>1, <1>2, <1>3, <1>4, TypeFrames DEF ClientKeeps

LEMMA ClientStepTypes ==
    ASSUME StateTypeOK, ClientTypeOK, NEW c \in Clients, NEW w, ClientStep(c, w)
    PROVE  ClientKeeps /\ ClientTypeOK'
BY ClientReceiveTypes, ClientAnswerTypes, ClientOrderTypes, ClientRoutineTypes
   DEF ClientStep, ClientHandlesQuery

\* A step of a client is in its own update or ends it, and aborts at most a
\* client.
LEMMA ClientControl ==
    ASSUME NEW c \in Clients, NEW w, ClientStep(c, w)
    PROVE  /\ EndUpdate \/ (active' = c /\ phase' # "lead")
           /\ \/ UNCHANGED aborted /\ (active' \in {active, Nobody} \/ active' \notin aborted)
              \/ Abort(c)
<1>1. CASE StartClient(c)
  BY <1>1 DEF StartClient, Begin, endVars, Ended
<1>2. CASE ClientReceives(c) \/ ClientHandles(c)
  BY <1>2 DEF ClientReceives, Receive, Drain, ClientHandles, endVars
<1>3. CASE ClientHandlesQuery(c)
  <2>1. CASE LearnLeader(c) \/ TakeFailure(c)
    BY <2>1 DEF LearnLeader, TakeFailure, ClientHandling, NextQuery, endVars
  <2>2. CASE TakeSuccess(c)
    BY <2>2 DEF TakeSuccess, ClientHandling, NextQuery, endVars, Abort
  <2>3. CASE \/ NewEntries(c) \/ DisplayOrSpeed(c) \/ Recover(c)
             \/ Start(c) \/ Crash(c) \/ Stop(c)
    BY <2>3 DEF NewEntries, DisplayOrSpeed, Recover, Start, Crash, Stop, AnswerOrder, OrderOf,
       ClientHandling, NextQuery
  <2> QED BY <1>3, <2>1, <2>2, <2>3 DEF ClientHandlesQuery
<1>4. CASE ClientRoutine(c, w)
  <2>1. CASE StaysDead(c) \/ AnswerOverdue(c, w) \/ AnswerNotOverdue(c)
    BY <2>1 DEF StaysDead, AnswerOverdue, AnswerNotOverdue, EndUpdate, endVars
  <2>2. CASE Search(c, w) \/ SendEntry(c) \/ SendNothing(c)
    BY <2>2 DEF Search, SendEntry, SendNothing, AllHandled, ThenCheck, endVars
  <2> QED BY <1>4, <2>1, <2>2 DEF ClientRoutine
<1> QED BY <1>1, <1>2, <1>3, <1>4 DEF ClientStep

----------------------------------------------------------------------------
(* The steps of the controller. *)

\* The servers some input crashes.
Crashable ==
    {s \in Servers : \E lines \in Inputs : \E i \in 1 .. Len(lines) :
        lines[i].kind = "PROCESS_CRASH" /\ lines[i].to = s}

\* No input crashes server s.
NotCrashed(s) ==
    \A lines \in Inputs : \A i \in 1 .. Len(lines) :
        ~(lines[i].kind = "PROCESS_CRASH" /\ lines[i].to = s)

\* The lines still to be read time out no server but one that may be elected,
\* and crash none but those.
InputGood ==
    \A i \in 1 .. Len(input) :
        /\ input[i].kind = "SERVER_TIMEOUT" => input[i].to \in Electable
        /\ input[i].kind = "PROCESS_CRASH" => input[i].to \in Clients \cup Crashable

\* The controller reads its input line by line.
LEMMA InputStays ==
    ASSUME ControllerTypeOK, InputGood, input # << >>, input' = Tail(input)
    PROVE  input' \in Seq(Orders \cup {StopAllLine}) /\ InputGood'
<1>1. input \in Seq(Orders \cup {StopAllLine})
  BY DEF ControllerTypeOK
<1>2. /\ Tail(input) \in Seq(Orders \cup {StopAllLine})
      /\ Len(Tail(input)) = Len(input) - 1
      /\ \A i \in 1 .. Len(Tail(input)) : Tail(input)[i] = input[i + 1]
  BY <1>1, HeadTailProperties
<1>3. \A i \in 1 .. Len(input') : i + 1 \in 1 .. Len(input) /\ input'[i] = input[i + 1]
  BY <1>1, <1>2, LenProperties
<1> QED BY <1>2, <1>3 DEF InputGood

\* Every step of the controller leaves the state of the other processes alone,
\* and sends at most an order they may be given.
ControllerKeeps ==
    /\ ControllerTypeOK' /\ InputGood' /\ ChannelTypeOK'
    /\ UNCHANGED <<endVars, updateVars>>
    /\ OutsideChannels /\ OnlyFromOutside(Crashable)

\* Sending an order.
LEMMA OrderSent ==
    ASSUME ChannelTypeOK, NEW dst \in Ranks, NEW m \in RPC, m.type = "MESSAGE", SendOrder(dst, m),
           dst \in Servers => FromOutside(Crashable, m, dst)
    PROVE  ChannelTypeOK' /\ OutsideChannels /\ OnlyFromOutside(Crashable)
<1>1. Controller \in Ranks /\ Controller \notin Servers
  BY RanksFacts DEF Controller, Nobody
<1>2. channel' = SendMessage(channel, Controller, dst, m, Ended) /\ Quiet(m, Controller)
  BY DEF SendOrder, Quiet
<1> QED BY <1>1, <1>2, SentFromOutside

LEMMA ControllerKeepsAll ==
    ASSUME ControllerTypeOK, InputGood, ChannelTypeOK, ControllerStep
    PROVE  ControllerKeeps
<1>1. UNCHANGED <<endVars, updateVars>>
  BY DEF ControllerStep, GiveOrder, TakeAnswer, GiveUp, StopAll, StopNext, StopsReturn,
         EndOfInput, AtTheLoop, ControllerTurn
<1>2. ASSUME UNCHANGED channel, ControllerTypeOK', InputGood' PROVE ControllerKeeps
  BY <1>1, <1>2, NothingSent DEF ControllerKeeps
<1>3. CASE GiveOrder
  <2> DEFINE line == Head(input)
  <2>1. line = input[1] /\ line \in Orders /\ 1 \in 1 .. Len(input)
    <3>1. input \in Seq(Orders \cup {StopAllLine}) /\ input # << >>
      BY <1>3 DEF GiveOrder, ControllerTypeOK
    <3> QED BY <1>3, <3>1, HeadTailProperties, LenProperties, EmptySeq DEF GiveOrder
  <2>2. /\ line.to \in Clients \cup Servers
        /\ line.kind \in ServerOrders \cup ClientOrders
        /\ line.content \in Seq(Commands)
    BY <2>1 DEF Orders
  <2>3. line.to \in Ranks
    BY <2>2, RanksFacts
  <2>4. /\ Message(line.kind, line.content) \in RPC
        /\ Message(line.kind, line.content).type = "MESSAGE"
    BY <2>2, RpcFacts DEF Message
  <2>5. ASSUME line.to \in Servers
        PROVE  FromOutside(Crashable, Message(line.kind, line.content), line.to)
    <3>1. /\ line.kind = "SERVER_TIMEOUT" => line.to \in Electable
          /\ line.kind = "PROCESS_CRASH" => line.to \in Crashable
      BY <2>1, <2>5, ClientFacts DEF InputGood
    <3> HIDE DEF line
    <3> QED BY <3>1 DEF FromOutside, IsCrash, GoodFor, Message
  <2>6. SendOrder(line.to, Message(line.kind, line.content))
    BY <1>3 DEF GiveOrder
  <2>7. ControllerTypeOK' /\ InputGood'
    BY <1>3, <2>3, <2>6, InputStays DEF GiveOrder, SendOrder, ControllerTypeOK
  <2> HIDE DEF line
  <2>8. ChannelTypeOK' /\ OutsideChannels /\ OnlyFromOutside(Crashable)
    BY <2>3, <2>4, <2>5, <2>6, OrderSent
  <2> QED BY <1>1, <2>7, <2>8 DEF ControllerKeeps
<1>4. CASE TakeAnswer
  <2>1. channel[awaiting][Controller] \in Seq(RPC) /\ channel[awaiting][Controller] # << >>
    BY <1>4, RanksFacts DEF TakeAnswer, ControllerTypeOK, ChannelTypeOK
  <2>2. Tail(channel[awaiting][Controller]) \in Seq(RPC)
    BY <2>1, HeadTailProperties
  <2>3. ChannelTypeOK'
    BY <1>4, <2>2, RanksFacts DEF TakeAnswer, ControllerTypeOK, ChannelTypeOK
  <2>4. \A p \in Ranks, d \in Servers : channel'[p][d] = channel[p][d]
    <3>1. Controller \notin Servers
      BY RanksFacts DEF Controller, Nobody
    <3> QED BY <1>4, <3>1, RanksFacts DEF TakeAnswer, ControllerTypeOK, ChannelTypeOK
  <2>5. OnlyFromOutside(Crashable)
    BY <2>4 DEF OnlyFromOutside
  <2>6. ControllerTypeOK' /\ InputGood'
    BY <1>4, RanksFacts DEF TakeAnswer, ControllerTypeOK, InputGood, Nobody
  <2>7. OutsideChannels
    <3>1. \A p, d \in Ranks : channel[p][d] \in Seq(RPC)
      BY DEF ChannelTypeOK
    <3>2. ASSUME NEW s \in Servers, NEW d \in Ranks PROVE Len(channel'[s][d]) <= Len(channel[s][d])
      <4>1. s \in Ranks /\ Len(channel[s][d]) \in Nat
        BY <3>1, RanksFacts, LenProperties
      <4>2. Len(Tail(channel[awaiting][Controller])) <= Len(channel[awaiting][Controller])
        <5>1. /\ Len(channel[awaiting][Controller]) \in Nat
              /\ Len(Tail(channel[awaiting][Controller])) = Len(channel[awaiting][Controller]) - 1
          BY <2>1, LenProperties, HeadTailProperties
        <5> QED BY <5>1
      <4>3. CASE s = awaiting /\ d = Controller
        <5>1. channel'[s][d] = Tail(channel[awaiting][Controller])
          BY <1>4, <4>1, <4>3, RanksFacts DEF TakeAnswer, ControllerTypeOK, ChannelTypeOK
        <5> QED BY <4>2, <4>3, <5>1
      <4>4. CASE ~(s = awaiting /\ d = Controller)
        <5>1. channel'[s][d] = channel[s][d]
          BY <1>4, <4>1, <4>4, RanksFacts DEF TakeAnswer, ControllerTypeOK, ChannelTypeOK
        <5> QED BY <4>1, <5>1
      <4> QED BY <4>3, <4>4
    <3> QED BY <2>4, <3>1, <3>2, RanksFacts, OnlyAddsFacts DEF OutsideChannels
  <2> QED BY <1>1, <2>3, <2>5, <2>6, <2>7 DEF ControllerKeeps
<1>5. CASE GiveUp \/ StopAll \/ StopsReturn \/ EndOfInput
  <2>1. UNCHANGED <<channel, input>>
    BY <1>5 DEF GiveUp, StopAll, StopsReturn, EndOfInput
  <2>2. awaiting' \in Ranks
    BY <1>5, RanksFacts DEF GiveUp, StopAll, StopsReturn, EndOfInput, ControllerTypeOK, Nobody
  <2>3. stopping' \in 0 .. NClients + NServers + 1
    BY <1>5, RanksAssumption DEF GiveUp, StopAll, StopsReturn, EndOfInput, ControllerTypeOK
  <2>4. returned' \in BOOLEAN
    BY <1>5 DEF GiveUp, StopAll, StopsReturn, EndOfInput, ControllerTypeOK
  <2> QED BY <1>2, <2>1, <2>2, <2>3, <2>4 DEF InputGood, ControllerTypeOK
<1>6. CASE StopNext
  <2>1. stopping \in Ranks /\ stopping + 1 \in 0 .. NClients + NServers + 1
    BY <1>6, RanksAssumption DEF StopNext, AllAreStopped, ControllerTypeOK, Ranks
  <2>2. /\ Message("PROCESS_STOP", << >>) \in RPC
        /\ Message("PROCESS_STOP", << >>).type = "MESSAGE"
    BY EmptySeq, RpcFacts DEF ServerOrders, ProcessOrders, Message
  <2>3. FromOutside(Crashable, Message("PROCESS_STOP", << >>), stopping)
    BY DEF FromOutside, IsCrash, GoodFor, Message
  <2>4. SendOrder(stopping, Message("PROCESS_STOP", << >>))
    BY <1>6 DEF StopNext
  <2>5. ControllerTypeOK' /\ InputGood'
    BY <1>6, <2>1, <2>4 DEF StopNext, SendOrder, ControllerTypeOK, InputGood
  <2>6. ChannelTypeOK' /\ OutsideChannels /\ OnlyFromOutside(Crashable)
    BY <2>1, <2>2, <2>3, <2>4, OrderSent
  <2> QED BY <1>1, <2>5, <2>6 DEF ControllerKeeps
<1> QED BY <1>3, <1>4, <1>5, <1>6 DEF ControllerStep

----------------------------------------------------------------------------
(* The whole program. *)

\* The types, with what the input may hold.
ProgramTypeInv == TypeOK /\ InputGood

LEMMA ProgramTypeInit == Init => ProgramTypeInv
<1> SUFFICES ASSUME Init PROVE ProgramTypeInv
  OBVIOUS
<1>1. StateTypeOK
  BY TypeInit DEF Init
<1>2. ClientTypeOK
  BY ClientAssumption, EmptySeq DEF Init, ClientInit, ClientTypeOK
<1>3. ControllerTypeOK /\ InputGood
  <2>1. input \in Inputs /\ awaiting = 0 /\ stopping = 0 /\ returned = FALSE
    BY DEF Init, ControllerInit
  <2>2. awaiting \in Ranks /\ stopping \in 0 .. NClients + NServers + 1
    BY <2>1, RanksFacts, RanksAssumption DEF Nobody
  <2>3. ControllerTypeOK
    BY <2>1, <2>2, ControllerAssumption DEF ControllerTypeOK
  <2>4. \A i \in 1 .. Len(input) : input[i] \in Orders \cup {StopAllLine}
    BY <2>3, ElementOfSeq DEF ControllerTypeOK
  <2>5. \A i \in 1 .. Len(input) :
           input[i].kind = "PROCESS_CRASH" => input[i].to \in Clients \cup Servers
    BY <2>4 DEF Orders, StopAllLine
  <2>6. InputGood
    BY <2>1, <2>5, AlgorepAssumption DEF InputGood, Crashable
  <2> QED BY <2>3, <2>6
<1> QED BY <1>1, <1>2, <1>3 DEF ProgramTypeInv, TypeOK

LEMMA ProgramTypeStep == ProgramTypeInv /\ [Next]_vars => ProgramTypeInv'
<1> SUFFICES ASSUME ProgramTypeInv, [Next]_vars PROVE ProgramTypeInv'
  OBVIOUS
<1> USE DEF ProgramTypeInv, TypeOK
<1>1. UNCHANGED controllerState => ControllerTypeOK' /\ InputGood'
  BY DEF controllerState, ControllerTypeOK, InputGood
<1>2. CASE \E s \in Servers : ServerTurn(ServerStep(s))
  BY <1>1, <1>2, ServerStepTypes, ClientFrame DEF ServerTurn
<1>3. ASSUME NEW c \in Clients, ClientTurn(ClientStep(c, WaitingFor(c))) PROVE ProgramTypeInv'
  <2>1. ClientKeeps /\ ClientTypeOK' /\ UNCHANGED <<serverState, controllerState>>
    BY <1>3, ClientStepTypes DEF ClientTurn
  <2>2. StateTypeOK'
    BY <2>1, TypeFrames DEF ClientKeeps, StateTypeOK, serverState
  <2> QED BY <1>1, <2>1, <2>2
<1>4. CASE ControllerStep /\ UNCHANGED <<serverState, clientState>>
  <2>1. ControllerKeeps
    BY <1>4, ControllerKeepsAll DEF StateTypeOK
  <2>2. StateTypeOK'
    BY <1>4, <2>1, TypeFrames DEF ControllerKeeps, StateTypeOK, serverState
  <2> QED BY <1>4, <2>1, <2>2, ClientFrame DEF ControllerKeeps
<1>5. CASE UNCHANGED vars
  BY <1>1, <1>5, TypeFrames, ClientFrame
     DEF vars, serverVars, stateVars, dataVars, StateTypeOK
<1> QED BY <1>2, <1>3, <1>4, <1>5 DEF Next

\* Type correctness of the program: every variable of server.cpp, client.cpp
\* and repl_contoller.cpp keeps its type, whatever is typed and whenever, for
\* any number of clients and servers.
THEOREM ProgramTypeCorrect == Spec => []TypeOK
<1>1. ProgramTypeInv => TypeOK
  BY DEF ProgramTypeInv
<1> QED BY <1>1, ProgramTypeInit, ProgramTypeStep, PTL DEF Spec

\* To the servers, a step of the program is one of theirs, or a client or the
\* controller sends them something.
LEMMA ProgramIsTurn ==
    ASSUME ProgramTypeInv, [Next]_vars
    PROVE  OutsideMove(Crashable) \/ ServerMove
<1>1. CASE \E s \in Servers : ServerTurn(ServerStep(s))
  BY <1>1 DEF ServerTurn, ServerMove
<1>2. ASSUME NEW c \in Clients, ClientTurn(ClientStep(c, WaitingFor(c)))
      PROVE  OutsideMove(Crashable)
  <2>1. StateTypeOK /\ ClientTypeOK
    BY DEF ProgramTypeInv, TypeOK
  <2>2. UNCHANGED serverState /\ OutsideChannels /\ OnlyFromOutside({})
    BY <1>2, <2>1, ClientStepTypes DEF ClientTurn, ClientKeeps
  <2>3. OnlyFromOutside(Crashable)
    BY <2>2 DEF OnlyFromOutside, FromOutside
  <2> QED BY <1>2, <2>2, <2>3, ClientControl DEF ClientTurn, OutsideMove
<1>3. CASE ControllerStep /\ UNCHANGED <<serverState, clientState>>
  <2>1. ControllerKeeps
    BY <1>3, ControllerKeepsAll DEF ProgramTypeInv, TypeOK, StateTypeOK
  <2> QED BY <1>3, <2>1 DEF ControllerKeeps, OutsideMove, endVars, updateVars
<1>4. CASE UNCHANGED vars
  <2>1. UNCHANGED <<serverState, channel, active, phase, batch, done, aborted>>
    BY <1>4 DEF vars, serverVars, stateVars, dataVars, serverState, updateVars, endVars
  <2>2. OutsideChannels /\ OnlyFromOutside(Crashable)
    BY <2>1, NothingSent DEF ProgramTypeInv, TypeOK, StateTypeOK
  <2> QED BY <2>1, <2>2 DEF OutsideMove
<1> QED BY <1>1, <1>2, <1>3, <1>4 DEF Next

LEMMA ProgramIsAnyStep ==
    ASSUME NEW l \in Servers, Electable = {l}, ProgramTypeInv, [Next]_vars
    PROVE  AnyStep(l) /\ TakesStep
BY ProgramIsTurn, OutsideIsTurn

LEMMA ProgramInv ==
    ASSUME NEW l \in Servers, Electable = {l}
    PROVE  /\ Init => LeaderInv(l)
           /\ LeaderInv(l) /\ ProgramTypeInv /\ ProgramTypeInv' /\ [Next]_vars => LeaderInv(l)'
<1>1. Init => LeaderInv(l)
  BY LeaderInvInductive DEF Init
<1>2. ASSUME LeaderInv(l), ProgramTypeInv, ProgramTypeInv', [Next]_vars PROVE LeaderInv(l)'
  BY <1>2, ProgramIsAnyStep, LeaderInvInductive DEF ProgramTypeInv, TypeOK
<1> QED BY <1>1, <1>2

\* While one server only may be elected, no resend of a client, no order of
\* the user and no loss in a crash makes a server's log anything but a
\* beginning of the leader's (Client::update, leader_routine,
\* handle_new_entries).
THEOREM ProgramLogsFollow ==
    ASSUME NEW l \in Servers, Electable = {l}
    PROVE  Spec => []PrefixOfLeader
BY ProgramInv, ProgramTypeInit, ProgramTypeStep, LeaderInvImplies, PTL DEF Spec

----------------------------------------------------------------------------
(* One server may be elected: the order of the entries under way. *)

LEMMA ProgramOrder ==
    ASSUME NEW l \in Servers, Electable = {l}
    PROVE  /\ Init => OrderInv(l)
           /\ OrderInv(l) /\ ProgramTypeInv /\ ProgramTypeInv' /\ [Next]_vars =>
                 /\ OrderInv(l)'
                 /\ [\A s \in Servers : IsPrefixOf(server_log[s], server_log'[s])]_serverVars
                 /\ [\A s \in Servers :
                        /\ commit_index[s] <= commit_index'[s]
                        /\ \A i \in 0 .. commit_index[s] : TermAt(s, i)' = TermAt(s, i)]_serverVars
<1>1. Init => OrderInv(l)
  BY OrderInvInit DEF Init
<1>2. ASSUME OrderInv(l), ProgramTypeInv, ProgramTypeInv', [Next]_vars
      PROVE  /\ OrderInv(l)'
             /\ \A s \in Servers : IsPrefixOf(server_log[s], server_log'[s])
             /\ \A s \in Servers :
                   /\ commit_index[s] <= commit_index'[s]
                   /\ \A i \in 0 .. commit_index[s] : TermAt(s, i)' = TermAt(s, i)
  <2>1. StateTypeOK' /\ AnyStep(l) /\ TakesStep
    BY <1>2, ProgramIsAnyStep DEF ProgramTypeInv, TypeOK
  <2>2. /\ OrderInv(l)'
        /\ \A s \in Servers : IsPrefixOf(server_log[s], server_log'[s])
    BY <1>2, <2>1, OrderInvStep
  <2> QED BY <1>2, <2>1, <2>2, CommittedFacts
<1> QED BY <1>1, <1>2

\* In the whole program too no server's log ever shrinks or changes but at its
\* end, however often the clients ask again and the user crashes and recovers
\* servers (handle_new_entries, leader_routine, Client::update).
THEOREM ProgramLogsGrow ==
    ASSUME NEW l \in Servers, Electable = {l}
    PROVE  Spec => LogsOnlyGrow
BY ProgramOrder, ProgramTypeInit, ProgramTypeStep, PTL DEF Spec, LogsOnlyGrow

\* In the whole program too the commit index points into the log, so that the
\* apply loop reads no entry that is not there (handle_queries, the heartbeat
\* handler, handle_new_entries).
THEOREM ProgramCommitInside ==
    ASSUME NEW l \in Servers, Electable = {l}
    PROVE  Spec => []CommitWithinLog
<1>1. OrderInv(l) => CommitWithinLog
  BY DEF OrderInv
<1> QED BY <1>1, ProgramOrder, ProgramTypeInit, ProgramTypeStep, PTL DEF Spec

\* In the whole program too what is committed is committed for good: the commit
\* index never falls and the entries up to it are never replaced
\* (handle_new_entries, the heartbeat handler, leader_routine).
THEOREM ProgramCommittedStays ==
    ASSUME NEW l \in Servers, Electable = {l}
    PROVE  Spec => CommittedStays
BY ProgramOrder, ProgramTypeInit, ProgramTypeStep, PTL DEF Spec, CommittedStays

\* In the whole program too, of what the leader's log holds the file of a server
\* holds the commands it has applied, in their order, none twice; a command is
\* left out only where the open of the log file may fail (handle_queries, the
\* apply loop, server.cpp:488-502).
THEOREM ProgramFilesFollow ==
    ASSUME NEW l \in Servers, Electable = {l}
    PROVE  Spec => []FilesFollowLeader
<1>1. Init => FilesInv(l)
  BY FilesInit DEF Init
<1>2. FilesInv(l) /\ OrderInv(l) /\ ProgramTypeInv /\ ProgramTypeInv' /\ [Next]_vars
         => FilesInv(l)'
  BY ProgramIsAnyStep, FilesStep DEF ProgramTypeInv, TypeOK
<1>3. FilesInv(l) => FilesFollowLeader
  BY FilesInvImplies
<1> QED BY <1>1, <1>2, <1>3, ProgramOrder, ProgramTypeInit, ProgramTypeStep, PTL DEF Spec

\* The whole program implements the replicated log: whatever its clients and
\* its user do, the servers apply the commands of one log, none left out, none
\* twice, none out of order, and write them unless the open of a file fails.
THEOREM ProgramRefinement ==
    ASSUME NEW l \in Servers, Electable = {l}
    PROVE  Spec => ImplementsReplicatedLog
<1>1. Init => Promise!Init
  BY RefinementStep DEF Init
<1>2. OrderInv(l) /\ ProgramTypeInv /\ [Next]_vars
         => [Promise!Next]_<<CommandsOf(server_log[TheLeader]), AppliedCount, log_file>>
  BY ProgramIsAnyStep, RefinementStep DEF ProgramTypeInv, TypeOK
<1> QED BY <1>1, <1>2, ProgramOrder, ProgramTypeInit, ProgramTypeStep, PTL
        DEF Spec, ImplementsReplicatedLog, Promise!Spec

----------------------------------------------------------------------------
(* Any number of servers may be elected. *)

\* In the whole program too, however many servers may be elected: a DEAD server
\* keeps its log, term and vote and answers no server and no client until the
\* user recovers it (README.md:63; handle_queries, update).
THEOREM ProgramDeadTakeNoPart == Spec => DeadIsSilent
<1>1. Init => SilenceInv
  BY SilenceInit DEF Init
<1>2. SilenceInv /\ ProgramTypeInv /\ ProgramTypeInv' /\ [Next]_vars =>
         /\ SilenceInv'
         /\ [\A s \in Servers : status[s] = "DEAD" =>
                \/ Ordered(s, {"PROCESS_RECOVER"})
                \/ /\ UNCHANGED <<status[s], server_log[s], commit_index[s],
                                  current_term[s], voted_for[s]>>
                   /\ \A d \in Ranks \ {Controller} :
                         Len(channel'[s][d]) <= Len(channel[s][d])]_serverVars
  BY ProgramIsTurn, OutsideIsTurn, SilenceKept DEF ProgramTypeInv, TypeOK
<1> QED BY <1>1, <1>2, ProgramTypeInit, ProgramTypeStep, PTL DEF Spec, DeadIsSilent

\* In the whole program too, however many servers may be elected: as long as the
\* user crashes no server, the terms along a log never fall
\* (handle_new_entries, leader_routine).
THEOREM ProgramLogTerms ==
    ASSUME \A s \in Servers : NotCrashed(s)
    PROVE  Spec => []LogTermsOrdered
<1>1. Init => TermInv
  BY TermInit DEF Init
<1>2. Crashable = {}
  BY DEF Crashable, NotCrashed
<1>3. TermInv /\ ProgramTypeInv /\ ProgramTypeInv' /\ [Next]_vars => TermInv'
  BY <1>2, ProgramIsTurn, OutsideIsTurn, TermStep DEF ProgramTypeInv, TypeOK
<1>4. TermInv => LogTermsOrdered
  BY DEF TermInv
<1> QED BY <1>1, <1>3, <1>4, ProgramTypeInit, ProgramTypeStep, PTL DEF Spec

----------------------------------------------------------------------------
(* One server may be elected, and the user does not crash it. *)

\* In the whole program too every acknowledgement of the leader is for the
\* client that asked for the entry just applied, however often clients send
\* a command again (leader_routine, the apply loop of handle_queries).
THEOREM ProgramAcksMatch ==
    ASSUME NEW l \in Servers, Electable = {l}, NotCrashed(l)
    PROVE  Spec => []AckMatchesEntry
<1>1. Init => QueueInv(l)
  BY QueueInvInit DEF Init
<1>2. l \notin Crashable
  BY DEF Crashable, NotCrashed
<1>3. ASSUME QueueInv(l), ProgramTypeInv, ProgramTypeInv', [Next]_vars PROVE QueueInv(l)'
  <2>1. StateTypeOK' /\ AnyStep(l) /\ TakesStep /\ MildTurn(l)
    BY <1>2, <1>3, ProgramIsTurn, OutsideIsTurn DEF ProgramTypeInv, TypeOK
  <2> QED BY <1>3, <2>1, QueueInvStep
<1>4. QueueInv(l) => AckMatchesEntry
  BY QueueInvImplies
<1> QED BY <1>1, <1>3, <1>4, ProgramTypeInit, ProgramTypeStep, PTL DEF Spec

LEMMA ProgramCount ==
    ASSUME NEW l \in Servers, Electable = {l}, MaxInFlight = 1, NotCrashed(l)
    PROVE  /\ Init => CountInv(l)
           /\ CountInv(l) /\ ProgramTypeInv /\ ProgramTypeInv' /\ [Next]_vars => CountInv(l)'
<1>1. Init => CountInv(l)
  BY CountInvInit DEF Init
<1>2. l \notin Crashable
  BY DEF Crashable, NotCrashed
<1>3. ASSUME CountInv(l), ProgramTypeInv, ProgramTypeInv', [Next]_vars PROVE CountInv(l)'
  BY <1>2, <1>3, ProgramIsTurn, CountInvTurn DEF ProgramTypeInv, TypeOK
<1> QED BY <1>1, <1>3

\* In the whole program too, as long as the leader is answered before it sends
\* the next entries, a follower has every entry the leader believes replicated
\* on it (server.hpp:105; leader_routine).
THEOREM ProgramMatches ==
    ASSUME NEW l \in Servers, Electable = {l}, MaxInFlight = 1, NotCrashed(l)
    PROVE  Spec => []MatchIsReplicated
<1>1. CountInv(l) => MatchIsReplicated
  BY CountInvImplies
<1> QED BY <1>1, ProgramCount, ProgramTypeInit, ProgramTypeStep, PTL DEF Spec

\* In the same regime what a server of the program takes for committed is on a
\* majority of the servers (server.cpp:231; leader_routine, the heartbeat
\* handler, handle_new_entries).
THEOREM ProgramCommittedHeld ==
    ASSUME NEW l \in Servers, Electable = {l}, MaxInFlight = 1, NotCrashed(l)
    PROVE  Spec => []CommittedOnMajority
<1>1. CountInv(l) => CommittedOnMajority
  BY CountInvImplies
<1> QED BY <1>1, ProgramCount, ProgramTypeInit, ProgramTypeStep, PTL DEF Spec

\* In the same regime no server ends by an exception or undefined behaviour,
\* if there are two or more; a client may (client.cpp:115).
THEOREM ProgramServersGoOn ==
    ASSUME NEW l \in Servers, Electable = {l}, MaxInFlight = 1, NotCrashed(l), NServers >= 2
    PROVE  Spec => [](aborted \cap Servers = {})
<1>1. Init => aborted \cap Servers = {}
  BY DEF Init, ServerInit, ProcessInit
<1>2. ASSUME CountInv(l), ProgramTypeInv, aborted \cap Servers = {}, [Next]_vars
      PROVE  (aborted \cap Servers = {})'
  <2>1. CASE OutsideMove(Crashable)
    BY <1>2, <2>1, ClientFacts DEF OutsideMove, Abort
  <2>2. CASE ServerMove
    BY <1>2, <2>2, NoServerAborts DEF ServerMove
  <2> QED BY <1>2, <2>1, <2>2, ProgramIsTurn
<1> QED BY <1>1, <1>2, ProgramCount, ProgramTypeInit, ProgramTypeStep, PTL DEF Spec

----------------------------------------------------------------------------
(* One server may be elected: how many acknowledgements there are.         *)

IsAckOf(a, c) ==
    \/ \E i \in 1 .. Len(popped[c]) : a = At("popped", c, c, i)
    \/ \E p \in Ranks : \E i \in 1 .. Len(channel[p][c]) :
          IsAck(channel[p][c][i]) /\ a = At("sent", p, c, i)
    \/ \E i \in done + 1 .. Len(batch) :
          active = c /\ IsAck(batch[i].rpc) /\ a = At("taken", c, c, i)

LEMMA AcksAre ==
    /\ \A a : a \in Acks <=> \E c \in Clients : IsAckOf(a, c)
    /\ \A a : a \in Acks' <=> \E c \in Clients : IsAckOf(a, c)'
<1>1. ASSUME NEW a, NEW c PROVE a \in AcksOf(c) <=> IsAckOf(a, c)
  <2>1. a \in PoppedAcks(c) <=> \E i \in 1 .. Len(popped[c]) : a = At("popped", c, c, i)
    BY DEF PoppedAcks
  <2>2. ASSUME NEW p
        PROVE  a \in SentAcks(p, c) <=> \E i \in 1 .. Len(channel[p][c]) :
                   IsAck(channel[p][c][i]) /\ a = At("sent", p, c, i)
    BY DEF SentAcks
  <2>3. a \in TakenAcks(c) <=> \E i \in done + 1 .. Len(batch) :
                   active = c /\ IsAck(batch[i].rpc) /\ a = At("taken", c, c, i)
    BY DEF TakenAcks
  <2>4. a \in AcksOf(c) <=> \/ a \in PoppedAcks(c)
                            \/ \E p \in Ranks : a \in SentAcks(p, c)
                            \/ a \in TakenAcks(c)
    BY DEF AcksOf
  <2>5. (\E p \in Ranks : a \in SentAcks(p, c)) <=>
           \E p \in Ranks : \E i \in 1 .. Len(channel[p][c]) :
              IsAck(channel[p][c][i]) /\ a = At("sent", p, c, i)
    BY <2>2
  <2> QED BY <2>1, <2>3, <2>4, <2>5 DEF IsAckOf
<1>2. ASSUME NEW a, NEW c PROVE a \in AcksOf(c)' <=> IsAckOf(a, c)'
  <2>1. a \in PoppedAcks(c)' <=> \E i \in 1 .. Len(popped'[c]) : a = At("popped", c, c, i)
    BY DEF PoppedAcks
  <2>2. ASSUME NEW p
        PROVE  a \in SentAcks(p, c)' <=> \E i \in 1 .. Len(channel'[p][c]) :
                   IsAck(channel'[p][c][i]) /\ a = At("sent", p, c, i)
    BY DEF SentAcks
  <2>3. a \in TakenAcks(c)' <=> \E i \in done' + 1 .. Len(batch') :
                   active' = c /\ IsAck(batch'[i].rpc) /\ a = At("taken", c, c, i)
    BY DEF TakenAcks
  <2>4. a \in AcksOf(c)' <=> \/ a \in PoppedAcks(c)'
                             \/ \E p \in Ranks : a \in SentAcks(p, c)'
                             \/ a \in TakenAcks(c)'
    BY DEF AcksOf
  <2>5. (\E p \in Ranks : a \in SentAcks(p, c)') <=>
           \E p \in Ranks : \E i \in 1 .. Len(channel'[p][c]) :
              IsAck(channel'[p][c][i]) /\ a = At("sent", p, c, i)
    BY <2>2
  <2> QED BY <2>1, <2>3, <2>4, <2>5 DEF IsAckOf
<1> QED BY <1>1, <1>2 DEF Acks

\* On the channels to the clients a step adds no acknowledgement but those at
\* the places of X.
SentWithin(X) ==
    \A c \in Clients, p \in Ranks : \A i \in 1 .. Len(channel'[p][c]) :
        IsAck(channel'[p][c][i]) =>
            \/ i \in 1 .. Len(channel[p][c]) /\ IsAck(channel[p][c][i])
            \/ At("sent", p, c, i) \in X

PoppedWithin(X) ==
    \A c \in Clients : \A i \in 1 .. Len(popped'[c]) :
        i \in 1 .. Len(popped[c]) \/ At("popped", c, c, i) \in X

TakenWithin ==
    active' \in Clients => \A i \in done' + 1 .. Len(batch') : IsAck(batch'[i].rpc) =>
        active = active' /\ i \in done + 1 .. Len(batch) /\ IsAck(batch[i].rpc)

LEMMA AcksWithin ==
    ASSUME NEW X, SentWithin(X), PoppedWithin(X), TakenWithin
    PROVE  Acks' \subseteq Acks \cup X
<1> SUFFICES ASSUME NEW a \in Acks', a \notin X PROVE a \in Acks
  OBVIOUS
<1>1. PICK c \in Clients : IsAckOf(a, c)'
  BY AcksAre
<1>2. IsAckOf(a, c)
  <2>1. CASE \E i \in 1 .. Len(popped'[c]) : a = At("popped", c, c, i)
    BY <2>1 DEF PoppedWithin, IsAckOf
  <2>2. CASE \E p \in Ranks : \E i \in 1 .. Len(channel'[p][c]) :
                IsAck(channel'[p][c][i]) /\ a = At("sent", p, c, i)
    BY <2>2 DEF SentWithin, IsAckOf
  <2>3. CASE \E i \in done' + 1 .. Len(batch') :
                active' = c /\ IsAck(batch'[i].rpc) /\ a = At("taken", c, c, i)
    BY <2>3 DEF TakenWithin, IsAckOf
  <2> QED BY <1>1, <2>1, <2>2, <2>3 DEF IsAckOf
<1> QED BY <1>2, AcksAre

\* The acknowledgements given are no more than the entries l has applied.
AcksInv(l) == IsFiniteSet(Acks) /\ Cardinality(Acks) <= last_log_applied[l] + 1

\* What a step does to the acknowledgements: none comes, or one and an entry
\* with it.
AcksKept(l) ==
    \/ /\ SentWithin({}) /\ PoppedWithin({}) /\ TakenWithin
       /\ last_log_applied'[l] >= last_log_applied[l]
    \/ \E x : /\ SentWithin({x}) /\ PoppedWithin({}) /\ TakenWithin
              /\ last_log_applied'[l] = last_log_applied[l] + 1

LEMMA AcksStay ==
    ASSUME NEW l \in Servers, StateTypeOK, StateTypeOK', AcksInv(l), AcksKept(l)
    PROVE  AcksInv(l)'
<1>1. last_log_applied[l] \in Int /\ last_log_applied'[l] \in Int
  BY DEF StateTypeOK, ApplyTypeOK
<1>2. /\ Cardinality(Acks) \in Nat /\ IsFiniteSet(Acks)
      /\ Cardinality(Acks) <= last_log_applied[l] + 1
  BY FS_CardinalityType DEF AcksInv
<1>3. IsFiniteSet(Acks') /\ Cardinality(Acks') <= last_log_applied'[l] + 1
  <2>1. CASE /\ SentWithin({}) /\ PoppedWithin({}) /\ TakenWithin
             /\ last_log_applied'[l] >= last_log_applied[l]
    <3>1. Acks' \in SUBSET Acks
      BY <2>1, AcksWithin
    <3>2. /\ IsFiniteSet(Acks') /\ Cardinality(Acks') <= Cardinality(Acks)
          /\ Cardinality(Acks') \in Nat
      BY <1>2, <3>1, FS_Subset, FS_CardinalityType
    <3> QED BY <1>1, <1>2, <2>1, <3>2
  <2>2. ASSUME NEW x, SentWithin({x}), PoppedWithin({}), TakenWithin,
               last_log_applied'[l] = last_log_applied[l] + 1
        PROVE  IsFiniteSet(Acks') /\ Cardinality(Acks') <= last_log_applied'[l] + 1
    <3>1. PoppedWithin({x})
      BY <2>2 DEF PoppedWithin
    <3>2. Acks' \in SUBSET (Acks \cup {x})
      BY <2>2, <3>1, AcksWithin
    <3>3. /\ IsFiniteSet(Acks \cup {x})
          /\ Cardinality(Acks \cup {x}) \in Nat
          /\ Cardinality(Acks \cup {x}) <= Cardinality(Acks) + 1
      <4>1. /\ IsFiniteSet(Acks \cup {x})
            /\ Cardinality(Acks \cup {x}) =
                  IF x \in Acks THEN Cardinality(Acks) ELSE Cardinality(Acks) + 1
        BY <1>2, FS_AddElement
      <4> QED BY <1>2, <4>1
    <3>4. /\ IsFiniteSet(Acks') /\ Cardinality(Acks') <= Cardinality(Acks \cup {x})
          /\ Cardinality(Acks') \in Nat
      BY <3>2, <3>3, FS_Subset, FS_CardinalityType
    <3> QED BY <1>1, <1>2, <2>2, <3>3, <3>4
  <2> QED BY <2>1, <2>2 DEF AcksKept
<1> QED BY <1>3 DEF AcksInv

LEMMA NoAckSent ==
    ASSUME ChannelTypeOK, NEW p \in Ranks, NEW dst, NEW m \in RPC, ~IsAck(m), Reply(p, dst, m)
    PROVE  SentWithin({})
<1>1. channel \in Channels /\ channel' = SendMessage(channel, p, dst, m, Ended)
  BY DEF ChannelTypeOK, Channels, Reply
<1>2. \A q, d \in Ranks : \A i \in 1 .. Len(channel'[q][d]) :
         \/ i \in 1 .. Len(channel[q][d]) /\ channel'[q][d][i] = channel[q][d][i]
         \/ channel'[q][d][i] = m
  BY <1>1, SendMessageFacts
<1> QED BY <1>2, ClientFacts DEF SentWithin

\* Of a server only the apply loop acknowledges anything.
LEMMA ServersSent ==
    ASSUME NEW l \in Servers, LogsInv(l), NEW s \in Servers, ServerStep(s), ~ApplyEntry(s)
    PROVE  SentWithin({}) /\ TakenWithin /\ UNCHANGED last_log_applied
<1> USE DEF stateVars, dataVars, serverState, applyVars, electionVars, logVars, leaderVars
<1>1. /\ StateTypeOK /\ OnlyLeader(l) /\ channel \in Channels /\ s \in Ranks
      /\ \A c \in Clients : c \in Ranks /\ c \notin Servers /\ c # Nobody
  BY RanksFacts, ClientFacts DEF LogsInv, StateTypeOK, ChannelTypeOK, Channels
<1>2. TakenWithin
  <2>1. active' \notin Clients
    <3>1. CASE StartUpdate(s)
      BY <1>1, <3>1 DEF StartUpdate, Begin
    <3>2. CASE ReceiveAll(s)
      BY <1>1, <3>2 DEF ReceiveAll, Receive, ReceiveGarbled, Drain
    <3>3. CASE ~StartUpdate(s) /\ ~ReceiveAll(s)
      BY <1>1, <3>3, ControlStep
    <3> QED BY <3>1, <3>2, <3>3
  <2> QED BY <2>1 DEF TakenWithin
<1>3. UNCHANGED last_log_applied
  <2>1. CASE StartUpdate(s) \/ ReceiveAll(s) \/ BeginHandling(s)
    BY <2>1 DEF StartUpdate, ReceiveAll, BeginHandling
  <2>2. CASE HandleQuery(s)
    BY <2>2 DEF HandleQuery, StepDown, HandleHeartbeat, HandleVoteRequest,
       HandleVoteRequestThrows, HandleAppendEntriesDenied, HandleAppendEntries,
       AnswerSearchLeader, DenyNewLogEntry, PassOver, QueryDone
  <2>3. CASE HandleMessage(s)
    BY <2>3 DEF HandleMessage, HandleDisplayOrSpeed, HandleStop, HandleCrash, HandleRecover,
       HandleServerTimeout, QueryDone
  <2>4. CASE Routine(s)
    BY <2>4 DEF Routine, NoRoutine, FollowerTimesOut, CandidateDefers, CandidateWins,
       CandidateWaits, CandidateTimesOut, CandidateCounts, LeaderBeats, LeaderSkipsBeat,
       LeaderAppends, LeaderCountsSuccess, LeaderBacksUp, LeaderPassesOver, LeaderCommits,
       QueryDone
  <2> QED BY <2>1, <2>2, <2>3, <2>4 DEF ServerStep
<1>4. SentWithin({})
  <2> SUFFICES ASSUME NEW c \in Clients, NEW p \in Ranks, NEW i \in 1 .. Len(channel'[p][c]),
                      IsAck(channel'[p][c][i])
               PROVE  i \in 1 .. Len(channel[p][c]) /\ IsAck(channel[p][c][i])
    BY DEF SentWithin
  <2>1. c \in Ranks /\ c \notin Servers
    BY <1>1
  <2>2. CASE ReceiveAll(s)
    <3>1. PICK q \in Ranks : Receive(s, q) \/ ReceiveGarbled(s, q)
      BY <2>2 DEF ReceiveAll
    <3>2. PICK n \in 1 .. Len(channel[q][s]) : \E k \in 0 .. n : Drain(s, q, k, n)
      BY <1>1, <3>1, ReceiveIsDrain DEF StateTypeOK
    <3>3. PICK k \in 0 .. n : Drain(s, q, k, n)
      BY <3>2
    <3>4. \A r, d \in Ranks : (r = q /\ d = s) \/ channel'[r][d] = channel[r][d]
      BY <1>1, <3>3, DrainMoves DEF StateTypeOK
    <3> QED BY <2>1, <3>4
  <2>3. CASE LeaderBeats(s)
    <3> DEFINE unsafe == {r \in Peers(s) : next_log_index[s][r] < 0}
               reached == {r \in Peers(s) : \A u \in unsafe : r < u}
               m == [r \in reached |-> BeatTo(s, r)]
    <3>1. channel' = SendToAll(channel, s, reached, m, Ended)
      BY <2>3 DEF LeaderBeats
    <3>2. c \notin reached
      BY <2>1 DEF Peers
    <3> HIDE DEF reached, m
    <3>3. channel'[p][c] = channel[p][c]
      BY <1>1, <2>1, <3>1, <3>2, SendToAllIs
    <3> QED BY <3>3
  <2>4. CASE DenyNewLogEntry(s)
    <3>1. NewLogEntryResponse(FALSE) \in RPC /\ ~IsAck(NewLogEntryResponse(FALSE))
      BY RpcFacts DEF IsAck, NewLogEntryResponse
    <3>2. SentWithin({})
      BY <1>1, <2>4, <3>1, NoAckSent DEF DenyNewLogEntry, StateTypeOK
    <3> QED BY <3>2 DEF SentWithin
  <2>5. CASE ~ReceiveAll(s) /\ ~LeaderBeats(s) /\ ~DenyNewLogEntry(s)
    <3>1. PICK T : T = {"VOTE_RESPONSE", "SEARCH_LEADER_RESPONSE", "MESSAGE_RESPONSE",
                        "APPEND_ENTRIES_RESPONSE", "HEARTBEAT", "VOTE_REQUEST"}
      OBVIOUS
    <3>2. Adds(T, s, channel, channel')
      BY <1>1, <2>5, <3>1, StepSends
    <3>3. /\ \A j \in 1 .. Len(channel[p][c]) : channel'[p][c][j] = channel[p][c][j]
          /\ Len(channel[p][c]) < i => channel'[p][c][i].type \in T
      BY <2>1, <3>2 DEF Adds
    <3>4. ~(Len(channel[p][c]) < i)
      BY <3>1, <3>3 DEF IsAck
    <3>5. Len(channel[p][c]) \in Nat
      BY <1>1, <2>1, LenProperties DEF Channels
    <3>6. i \in 1 .. Len(channel[p][c])
      BY <3>4, <3>5
    <3> QED BY <3>3, <3>6
  <2> QED BY <2>2, <2>3, <2>4, <2>5
<1> QED BY <1>2, <1>3, <1>4

\* The leader acknowledges one request with every entry it applies.
LEMMA ApplySent ==
    ASSUME NEW l \in Servers, LogsInv(l), StateTypeOK', NEW s \in Servers, ApplyEntry(s),
           UNCHANGED popped
    PROVE  AcksKept(l)
<1>1. /\ StateTypeOK /\ OnlyLeader(l) /\ channel \in Channels /\ s \in Ranks
      /\ \A c \in Clients : c \in Ranks /\ c \notin Servers /\ c # Nobody
  BY RanksFacts, ClientFacts DEF LogsInv, StateTypeOK, ChannelTypeOK, Channels
<1>2. TakenWithin /\ PoppedWithin({})
  <2>1. active' \notin Clients
    BY <1>1 DEF ApplyEntry, Abort, EndUpdate
  <2> QED BY <2>1 DEF TakenWithin, PoppedWithin
<1>3. last_log_applied' = [last_log_applied EXCEPT ![s] = last_log_applied[s] + 1]
  BY DEF ApplyEntry
<1>4. last_log_applied \in [Servers -> Nat \cup {-1}]
  BY <1>1 DEF StateTypeOK, ApplyTypeOK
<1>5. last_log_applied'[l] = last_log_applied[l] \/ last_log_applied'[l] = last_log_applied[l] + 1
  <2>1. CASE s = l
    BY <1>3, <1>4, <2>1
  <2>2. CASE s # l
    BY <1>3, <1>4, <2>2
  <2> QED BY <2>1, <2>2
<1>6. CASE UNCHANGED channel
  <2>1. last_log_applied'[l] >= last_log_applied[l]
    BY <1>4, <1>5
  <2>2. SentWithin({})
    BY <1>6 DEF SentWithin
  <2> QED BY <1>2, <2>1, <2>2 DEF AcksKept
<1>7. CASE ~UNCHANGED channel
  <2> DEFINE dst == Head(entries_queue[s]).source
             old == channel[s][dst]
             x == At("sent", s, dst, Len(old) + 1)
  <2>1. /\ channel' = SendMessage(channel, s, dst, NewLogEntryResponse(TRUE), Ended)
        /\ status[s] = "LEADER" /\ entries_queue[s] # << >>
    BY <1>7 DEF ApplyEntry, Reply
  <2>2. s = l
    BY <1>1, <2>1 DEF OnlyLeader
  <2>3. last_log_applied'[l] = last_log_applied[l] + 1
    BY <1>1, <1>3, <2>2 DEF StateTypeOK, ApplyTypeOK
  <2>4. dst \in Ranks /\ channel' = [channel EXCEPT ![s][dst] = Append(old, NewLogEntryResponse(TRUE))]
    <3>1. entries_queue[s] \in Seq([source : Ranks, command : Commands]) /\ entries_queue[s] # << >>
      BY <1>1, <2>1 DEF StateTypeOK, LeaderTypeOK
    <3>2. Head(entries_queue[s]) \in [source : Ranks, command : Commands]
      BY <3>1, HeadTailProperties
    <3>3. dst \in Ranks
      BY <3>2
    <3> HIDE DEF dst
    <3>4. dst \notin Ended
      BY <1>7, <2>1 DEF SendMessage
    <3> QED BY <2>1, <3>3, <3>4 DEF SendMessage
  <2>5. SentWithin({x})
    <3> SUFFICES ASSUME NEW c \in Clients, NEW p \in Ranks, NEW i \in 1 .. Len(channel'[p][c]),
                        IsAck(channel'[p][c][i])
                 PROVE  \/ i \in 1 .. Len(channel[p][c]) /\ IsAck(channel[p][c][i])
                        \/ At("sent", p, c, i) = x
      BY DEF SentWithin
    <3>1. c \in Ranks /\ old \in Seq(RPC) /\ NewLogEntryResponse(TRUE) \in RPC /\ Len(old) \in Nat
      <4>1. old \in Seq(RPC)
        BY <1>1, <2>4 DEF Channels
      <4> HIDE DEF old
      <4> QED BY <1>1, <4>1, RpcFacts, LenProperties
    <3> HIDE DEF old, dst
    <3>2. CASE p = s /\ c = dst
      <4>1. channel'[p][c] = Append(old, NewLogEntryResponse(TRUE))
        BY <1>1, <2>4, <3>2 DEF Channels
      <4>2. /\ Len(channel'[p][c]) = Len(old) + 1
            /\ \A j \in 1 .. Len(old) : channel'[p][c][j] = old[j]
        BY <3>1, <4>1, AppendProperties
      <4>3. CASE i \in 1 .. Len(old)
        BY <3>2, <4>2, <4>3 DEF old
      <4>4. CASE i = Len(old) + 1
        BY <3>2, <4>4
      <4> QED BY <3>1, <4>2, <4>3, <4>4
    <3>3. CASE ~(p = s /\ c = dst)
      <4>1. channel'[p][c] = channel[p][c]
        BY <1>1, <2>4, <3>1, <3>3 DEF Channels
      <4> QED BY <4>1
    <3> QED BY <3>2, <3>3
  <2> QED BY <1>2, <2>3, <2>5 DEF AcksKept
<1> QED BY <1>6, <1>7

\* A step of a client that neither receives nor takes an acknowledgement.
LEMMA ClientSent ==
    ASSUME NEW l \in Servers, LogsInv(l), ClientTypeOK, NEW c \in Clients, NEW w, ClientStep(c, w),
           ~ClientReceives(c), ~TakeSuccess(c)
    PROVE  SentWithin({}) /\ PoppedWithin({}) /\ TakenWithin
<1> USE DEF clientState
<1>1. StateTypeOK /\ BatchGood(l) /\ c \in Ranks /\ c \notin Servers
  BY ClientFacts DEF LogsInv
<1>2. done \in Int /\ Nobody \notin Clients
  BY <1>1, ClientFacts DEF StateTypeOK, UpdateTypeOK
<1>3. UNCHANGED channel => SentWithin({})
  BY DEF SentWithin
<1>4. UNCHANGED popped => PoppedWithin({})
  BY DEF PoppedWithin
<1>5. /\ EndUpdate => TakenWithin
      /\ UNCHANGED <<active, batch, done>> => TakenWithin
      /\ NextQuery => TakenWithin
  BY <1>2 DEF EndUpdate, NextQuery, TakenWithin
<1>6. CASE StartClient(c)
  <2>1. batch' = << >>
    BY <1>1, <1>6 DEF StartClient, Begin, BatchGood
  <2>2. \A i \in done' + 1 .. Len(batch') : FALSE
    <3>1. done' \in 0 .. Len(batch') /\ Len(batch') = 0
      BY <1>1, <1>6, <2>1, EmptySeq DEF StartClient, Begin, StateTypeOK, UpdateTypeOK
    <3> QED BY <3>1
  <2> QED BY <1>3, <1>4, <1>6, <2>2 DEF StartClient, Begin, TakenWithin
<1>7. CASE ClientHandles(c)
  BY <1>3, <1>4, <1>5, <1>7 DEF ClientHandles
<1>8. CASE LearnLeader(c) \/ TakeFailure(c)
  BY <1>3, <1>4, <1>5, <1>8 DEF LearnLeader, TakeFailure
<1>9. CASE \/ NewEntries(c) \/ DisplayOrSpeed(c) \/ Recover(c)
           \/ Start(c) \/ Crash(c) \/ Stop(c)
  <2>1. PICK b : AnswerOrder(c, b) /\ b \in BOOLEAN
    <3>1. /\ Running(c) \in BOOLEAN /\ (~Running(c)) \in BOOLEAN
          /\ (~has_started[c]) \in BOOLEAN
      BY DEF Running, ClientTypeOK
    <3> QED BY <1>9, <3>1 DEF NewEntries, DisplayOrSpeed, Recover, Start, Crash, Stop
  <2>2. MessageResponse(b) \in RPC /\ ~IsAck(MessageResponse(b))
    BY <2>1, ClientMessages, AnswerTypes DEF IsAck
  <2>3. SentWithin({})
    BY <1>1, <2>1, <2>2, NoAckSent DEF AnswerOrder, StateTypeOK
  <2> QED BY <1>4, <1>5, <2>1, <2>3 DEF AnswerOrder
<1>10. CASE ClientRoutine(c, w)
  <2>1. UNCHANGED popped
    BY <1>10 DEF ClientRoutine, StaysDead, Search, SendEntry, SendNothing, AnswerOverdue,
       AnswerNotOverdue
  <2>2. EndUpdate \/ UNCHANGED <<active, batch, done>>
    BY <1>10 DEF ClientRoutine, StaysDead, Search, SendEntry, SendNothing, AnswerOverdue,
       AnswerNotOverdue, ThenCheck
  <2>3. SentWithin({})
    <3>1. CASE Search(c, w)
      <4> DEFINE m == [s \in Servers |-> SearchLeader]
      <4>1. channel' = SendToAll(channel, c, Servers, m, Ended) /\ channel \in Channels
        BY <1>1, <3>1 DEF Search, StateTypeOK, ChannelTypeOK, Channels
      <4> HIDE DEF m
      <4>2. \A p \in Ranks, d \in Clients : channel'[p][d] = channel[p][d]
        BY <1>1, <4>1, SendToAllIs, ClientFacts
      <4> QED BY <4>2 DEF SentWithin
    <3>2. CASE SendEntry(c)
      <4>1. Head(entries_to_send[c]) \in Commands
        BY <3>2, HeadTailProperties DEF SendEntry, HasEntryToSend, ClientTypeOK
      <4>2. /\ NewLogEntry(Head(entries_to_send[c])) \in RPC
            /\ ~IsAck(NewLogEntry(Head(entries_to_send[c])))
        BY <4>1, RpcFacts DEF IsAck, NewLogEntry
      <4> QED BY <1>1, <3>2, <4>2, NoAckSent DEF SendEntry, FrontEntry, StateTypeOK
    <3> QED BY <1>3, <1>10, <3>1, <3>2 DEF ClientRoutine, StaysDead, SendNothing, AnswerOverdue,
        AnswerNotOverdue
  <2> QED BY <1>4, <1>5, <2>1, <2>2, <2>3
<1> QED BY <1>6, <1>7, <1>8, <1>9, <1>10 DEF ClientStep, ClientHandlesQuery

LEMMA AtFacts ==
    ASSUME NEW a1, NEW b1, NEW c1, NEW i1, NEW a2, NEW b2, NEW c2, NEW i2
    PROVE  /\ At(a1, b1, c1, i1) = At(a2, b2, c2, i2) => a1 = a2 /\ b1 = b2 /\ c1 = c2 /\ i1 = i2
           /\ At(a1, b1, c1, i1).stage = a1 /\ At(a1, b1, c1, i1).source = b1
           /\ At(a1, b1, c1, i1).client = c1 /\ At(a1, b1, c1, i1).place = i1
BY DEF At

\* Receiving moves the acknowledgements on from the channel to the batch.
LEMMA ReceivedAcks ==
    ASSUME StateTypeOK, NEW c \in Clients, NEW r \in Ranks,
           NEW n \in 1 .. Len(channel[r][c]), NEW k \in 0 .. n, Drain(c, r, k, n),
           UNCHANGED popped, IsFiniteSet(Acks)
    PROVE  IsFiniteSet(Acks') /\ Cardinality(Acks') <= Cardinality(Acks)
<1> DEFINE f == [a \in Acks' |->
                    IF a.stage = "sent" /\ a.source = r /\ a.client = c
                    THEN At("sent", r, c, a.place + n)
                    ELSE IF a.stage = "taken" /\ a.place > Len(batch)
                    THEN At("sent", r, c, a.place - Len(batch))
                    ELSE a]
<1>1. c \in Ranks /\ \A d \in Clients : d \in Ranks
  BY ClientFacts
<1>2. /\ \A q, d \in Ranks : (q = r /\ d = c) \/ channel'[q][d] = channel[q][d]
      /\ \A i \in 1 .. Len(channel'[r][c]) :
            n + i \in 1 .. Len(channel[r][c]) /\ channel'[r][c][i] = channel[r][c][n + i]
      /\ Len(batch') = Len(batch) + k
      /\ \A i \in 1 .. Len(batch) : batch'[i] = batch[i]
      /\ \A i \in 1 .. Len(batch') : Len(batch) < i =>
            /\ i - Len(batch) \in 1 .. k
            /\ batch'[i] = [source |-> r, rpc |-> channel[r][c][i - Len(batch)]]
  BY <1>1, DrainMoves DEF StateTypeOK
<1>3. Len(batch) \in Nat /\ done \in 0 .. Len(batch) /\ n \in Nat /\ k \in Nat /\ k <= n
  BY LenProperties DEF StateTypeOK, UpdateTypeOK
<1>4. active = c /\ active' = c /\ done' = done
  BY DEF Drain
<1> DEFINE K(x) == /\ x \in Acks /\ f[x] = x
                   /\ ~(x.stage = "sent" /\ x.source = r /\ x.client = c)
           M(x) == \E i \in Nat : /\ i > 0 /\ x = At("sent", r, c, i)
                                  /\ f[x] = At("sent", r, c, i + n) /\ f[x] \in Acks
           T(x) == \E j \in 1 .. k : /\ x = At("taken", c, c, Len(batch) + j)
                                     /\ f[x] = At("sent", r, c, j) /\ f[x] \in Acks
<1>5. ASSUME NEW x \in Acks' PROVE K(x) \/ M(x) \/ T(x)
  <2>1. PICK d \in Clients : IsAckOf(x, d)'
    BY AcksAre
  <2>2. CASE \E i \in 1 .. Len(popped'[d]) : x = At("popped", d, d, i)
    <3>1. IsAckOf(x, d)
      BY <2>2 DEF IsAckOf
    <3>2. x.stage = "popped"
      BY <2>2, AtFacts
    <3> QED BY <3>1, <3>2, AcksAre
  <2>3. CASE \E p \in Ranks : \E i \in 1 .. Len(channel'[p][d]) :
                IsAck(channel'[p][d][i]) /\ x = At("sent", p, d, i)
    <3>0. PICK p \in Ranks : \E i \in 1 .. Len(channel'[p][d]) :
                IsAck(channel'[p][d][i]) /\ x = At("sent", p, d, i)
      BY <2>3
    <3>1. PICK i \in 1 .. Len(channel'[p][d]) :
                IsAck(channel'[p][d][i]) /\ x = At("sent", p, d, i)
      BY <3>0
    <3>2. x.stage = "sent" /\ x.source = p /\ x.client = d /\ x.place = i
      BY <3>1, AtFacts
    <3>3. CASE p = r /\ d = c
      <4>1. n + i \in 1 .. Len(channel[r][c]) /\ IsAck(channel[r][c][n + i]) /\ i \in Nat /\ i > 0
        BY <1>2, <3>1, <3>3
      <4>2. n + i = i + n
        BY <1>3, <4>1
      <4>3. f[x] = At("sent", r, c, i + n)
        BY <3>2, <3>3
      <4>4. IsAckOf(f[x], c)
        <5> HIDE DEF f
        <5> QED BY <4>1, <4>2, <4>3 DEF IsAckOf
      <4>5. f[x] \in Acks
        <5> HIDE DEF f
        <5> QED BY <4>4, AcksAre
      <4> HIDE DEF f
      <4> QED BY <3>1, <3>3, <4>1, <4>3, <4>5
    <3>4. CASE ~(p = r /\ d = c)
      <4>1. channel'[p][d] = channel[p][d]
        BY <1>1, <1>2, <3>4
      <4>2. IsAckOf(x, d)
        BY <3>1, <4>1 DEF IsAckOf
      <4>3. f[x] = x
        BY <3>2, <3>4
      <4> HIDE DEF f
      <4> QED BY <3>2, <3>4, <4>2, <4>3, AcksAre
    <3> QED BY <3>3, <3>4
  <2>4. CASE \E i \in done' + 1 .. Len(batch') :
                active' = d /\ IsAck(batch'[i].rpc) /\ x = At("taken", d, d, i)
    <3>1. PICK i \in done' + 1 .. Len(batch') :
                active' = d /\ IsAck(batch'[i].rpc) /\ x = At("taken", d, d, i)
      BY <2>4
    <3>2. d = c /\ i \in done + 1 .. Len(batch') /\ i \in 1 .. Len(batch')
      BY <1>2, <1>3, <1>4, <3>1
    <3>3. x.stage = "taken" /\ x.place = i
      BY <3>1, AtFacts
    <3>4. CASE Len(batch) < i
      <4>1. /\ i - Len(batch) \in 1 .. k
            /\ batch'[i] = [source |-> r, rpc |-> channel[r][c][i - Len(batch)]]
        BY <1>2, <3>2, <3>4
      <4>2. PICK j \in 1 .. k : j = i - Len(batch)
        BY <4>1
      <4>3. i = Len(batch) + j /\ j \in 1 .. Len(channel[r][c])
        <5>1. n <= Len(channel[r][c]) /\ Len(channel[r][c]) \in Int
          BY <1>1, LenProperties DEF StateTypeOK, ChannelTypeOK
        <5> QED BY <1>3, <3>2, <4>2, <5>1
      <4>4. IsAck(channel[r][c][j])
        BY <3>1, <4>1, <4>2
      <4>5. f[x] = At("sent", r, c, j)
        BY <3>3, <3>4, <4>2
      <4>6. f[x] \in Acks
        <5> HIDE DEF f
        <5>1. IsAckOf(f[x], c)
          BY <4>3, <4>4, <4>5 DEF IsAckOf
        <5> QED BY <5>1, AcksAre
      <4> HIDE DEF f
      <4> QED BY <3>1, <3>2, <4>3, <4>5, <4>6
    <3>5. CASE ~(Len(batch) < i)
      <4>1. i \in done + 1 .. Len(batch) /\ i \in 1 .. Len(batch)
        BY <1>3, <3>2, <3>5
      <4>2. IsAckOf(x, d)
        BY <1>2, <1>4, <3>1, <4>1 DEF IsAckOf
      <4>3. f[x] = x
        BY <3>3, <3>5
      <4> HIDE DEF f
      <4> QED BY <3>3, <4>2, <4>3, AcksAre
    <3> QED BY <3>4, <3>5
  <2> QED BY <2>1, <2>2, <2>3, <2>4 DEF IsAckOf
<1>6. \A x \in Acks' : f[x] \in Acks
  <2> HIDE DEF f
  <2> QED BY <1>5
<1>7. \A x, y \in Acks' : f[x] = f[y] => x = y
  <2> HIDE DEF f
  <2> SUFFICES ASSUME NEW x \in Acks', NEW y \in Acks', f[x] = f[y] PROVE x = y
    OBVIOUS
  <2>1. ASSUME NEW z, K(z), NEW i PROVE z # At("sent", r, c, i)
    BY <2>1, AtFacts
  <2>2. CASE K(x) /\ K(y)
    BY <2>2
  <2>3. CASE (K(x) /\ (M(y) \/ T(y))) \/ (K(y) /\ (M(x) \/ T(x)))
    BY <2>1, <2>3
  <2>4. CASE M(x) /\ M(y)
    <3>1. PICK i \in Nat : x = At("sent", r, c, i) /\ f[x] = At("sent", r, c, i + n)
      BY <2>4
    <3>2. PICK j \in Nat : y = At("sent", r, c, j) /\ f[y] = At("sent", r, c, j + n)
      BY <2>4
    <3>3. i + n = j + n
      BY <3>1, <3>2, AtFacts
    <3>4. i = j
      BY <1>3, <3>3
    <3> QED BY <3>1, <3>2, <3>4
  <2>5. CASE T(x) /\ T(y)
    <3>1. PICK i \in 1 .. k : x = At("taken", c, c, Len(batch) + i) /\ f[x] = At("sent", r, c, i)
      BY <2>5
    <3>2. PICK j \in 1 .. k : y = At("taken", c, c, Len(batch) + j) /\ f[y] = At("sent", r, c, j)
      BY <2>5
    <3>3. i = j
      BY <3>1, <3>2, AtFacts
    <3> QED BY <3>1, <3>2, <3>3
  <2>6. ASSUME NEW u, NEW v, M(u), T(v), f[u] = f[v] PROVE FALSE
    <3>1. PICK i \in Nat : i > 0 /\ f[u] = At("sent", r, c, i + n)
      BY <2>6
    <3>2. PICK j \in 1 .. k : f[v] = At("sent", r, c, j)
      BY <2>6
    <3>3. i + n = j
      BY <2>6, <3>1, <3>2, AtFacts
    <3> QED BY <1>3, <3>1, <3>2, <3>3
  <2> HIDE DEF K, M, T
  <2> QED BY <1>5, <2>2, <2>3, <2>4, <2>5, <2>6
<1>8. f \in [Acks' -> Acks]
  BY <1>6
<1> HIDE DEF f
<1>9. f \in Injection(Acks', Acks)
  BY <1>7, <1>8 DEF Injection, IsInjective
<1> QED BY <1>9, FS_Injection

\* An acknowledgement taken is one no longer in the batch and one command more
\* off the queue.
LEMMA TakenAck ==
    ASSUME StateTypeOK, ClientTypeOK, NEW c \in Clients, TakeSuccess(c), IsFiniteSet(Acks)
    PROVE  IsFiniteSet(Acks') /\ Cardinality(Acks') <= Cardinality(Acks)
<1>1. UNCHANGED channel /\ active = c /\ done < Len(batch) /\ IsAck(batch[done + 1].rpc)
  BY DEF TakeSuccess, ClientHandling, Accepted, IsAck
<1>2. SentWithin({}) /\ done \in Nat /\ Len(batch) \in Nat
  BY <1>1, LenProperties DEF SentWithin, StateTypeOK, UpdateTypeOK
<1>3. Cardinality(Acks) \in Nat
  BY FS_CardinalityType
<1>4. CASE entries_to_send[c] = << >>
  <2>1. PoppedWithin({}) /\ TakenWithin
    <3>1. active' = Nobody /\ UNCHANGED popped
      BY <1>4 DEF TakeSuccess, Abort, EndUpdate
    <3> QED BY <3>1, ClientFacts DEF PoppedWithin, TakenWithin
  <2>2. Acks' \in SUBSET Acks
    BY <1>2, <2>1, AcksWithin
  <2> QED BY <2>2, FS_Subset
<1>5. CASE entries_to_send[c] # << >>
  <2> DEFINE t == At("taken", c, c, done + 1)
             x == At("popped", c, c, Len(popped[c]) + 1)
  <2>1. /\ popped' = [popped EXCEPT ![c] = Append(popped[c], Head(entries_to_send[c]))]
        /\ active' = c /\ done' = done + 1 /\ batch' = batch
    BY <1>1, <1>5 DEF TakeSuccess, NextQuery
  <2>2. TakenWithin
    BY <1>1, <1>2, <2>1 DEF TakenWithin
  <2>3. PoppedWithin({x})
    <3>1. popped[c] \in Seq(Commands) /\ Head(entries_to_send[c]) \in Commands
      BY <1>5, HeadTailProperties DEF ClientTypeOK
    <3>2. Len(popped[c]) \in Nat /\ popped'[c] = Append(popped[c], Head(entries_to_send[c]))
      BY <2>1, <3>1, LenProperties DEF ClientTypeOK
    <3>3. Len(popped'[c]) = Len(popped[c]) + 1
      BY <3>1, <3>2, AppendProperties
    <3>4. ASSUME NEW i \in 1 .. Len(popped'[c])
          PROVE  i \in 1 .. Len(popped[c]) \/ i = Len(popped[c]) + 1
      BY <3>2, <3>3
    <3>5. \A d \in Clients : d = c \/ popped'[d] = popped[d]
      BY <2>1 DEF ClientTypeOK
    <3> QED BY <3>4, <3>5 DEF PoppedWithin
  <2>4. Acks' \subseteq Acks \cup {x}
    <3>1. SentWithin({x})
      BY <1>1 DEF SentWithin
    <3> HIDE DEF x
    <3> QED BY <2>2, <2>3, <3>1, AcksWithin
  <2>5. t \in Acks
    <3>1. done + 1 \in done + 1 .. Len(batch)
      BY <1>1, <1>2
    <3>2. IsAckOf(t, c)
      BY <1>1, <3>1 DEF IsAckOf
    <3> QED BY <3>2, AcksAre
  <2>6. t \notin Acks'
    <3> SUFFICES ASSUME NEW a \in Acks', a = t PROVE FALSE
      OBVIOUS
    <3>1. PICK d \in Clients : IsAckOf(a, d)'
      BY AcksAre
    <3>2. a.stage = "taken" /\ a.place = done + 1
      BY AtFacts
    <3>3. PICK i \in done' + 1 .. Len(batch') : a = At("taken", d, d, i)
      <4> HIDE DEF t
      <4> QED BY <3>1, <3>2, AtFacts DEF IsAckOf
    <3>4. i = done + 1
      BY <3>2, <3>3, AtFacts
    <3> QED BY <1>2, <2>1, <3>3, <3>4
  <2> HIDE DEF t, x
  <2>7. Acks' \in SUBSET ((Acks \ {t}) \cup {x})
    BY <2>4, <2>6
  <2>8. IsFiniteSet(Acks \ {t}) /\ Cardinality(Acks \ {t}) = Cardinality(Acks) - 1
    BY <2>5, FS_RemoveElement
  <2>9. /\ IsFiniteSet((Acks \ {t}) \cup {x})
        /\ Cardinality((Acks \ {t}) \cup {x}) =
              IF x \in Acks \ {t} THEN Cardinality(Acks \ {t}) ELSE Cardinality(Acks \ {t}) + 1
    BY <2>8, FS_AddElement
  <2>10. /\ IsFiniteSet(Acks')
         /\ Cardinality(Acks') <= Cardinality((Acks \ {t}) \cup {x})
    BY <2>7, <2>9, FS_Subset
  <2>11. Cardinality((Acks \ {t}) \cup {x}) <= Cardinality(Acks)
    BY <1>3, <2>8, <2>9
  <2>12. Cardinality(Acks') \in Nat /\ Cardinality((Acks \ {t}) \cup {x}) \in Nat
    BY <2>9, <2>10, FS_CardinalityType
  <2> QED BY <1>3, <2>10, <2>11, <2>12
<1> QED BY <1>4, <1>5

\* The controller sends orders only, and takes what was sent to itself.
LEMMA OrdersSent ==
    ASSUME StateTypeOK, ControllerTypeOK, ControllerStep, UNCHANGED clientState
    PROVE  SentWithin({}) /\ PoppedWithin({}) /\ TakenWithin
<1>1. UNCHANGED <<active, batch, done, popped>>
  BY DEF ControllerStep, GiveOrder, TakeAnswer, GiveUp, StopAll, StopNext, StopsReturn,
         EndOfInput, AtTheLoop, ControllerTurn, updateVars, clientState
<1>2. PoppedWithin({}) /\ TakenWithin
  BY <1>1 DEF PoppedWithin, TakenWithin
<1>3. SentWithin({})
  <2>1. ASSUME NEW dst, NEW m \in RPC, m.type = "MESSAGE", SendOrder(dst, m) PROVE SentWithin({})
    <3>1. Controller \in Ranks /\ ~IsAck(m) /\ Reply(Controller, dst, m)
      BY <2>1, RanksFacts DEF IsAck, SendOrder, Reply
    <3> QED BY <3>1, NoAckSent DEF StateTypeOK
  <2>2. CASE GiveOrder
    <3>1. input \in Seq(Orders \cup {StopAllLine}) /\ input # << >>
      BY <2>2 DEF GiveOrder, ControllerTypeOK
    <3>2. Head(input) \in Orders
      BY <2>2, <3>1, HeadTailProperties DEF GiveOrder
    <3>3. /\ Head(input).kind \in ServerOrders \cup ClientOrders
          /\ Head(input).content \in Seq(Commands)
      BY <3>2 DEF Orders
    <3>4. /\ Message(Head(input).kind, Head(input).content) \in RPC
          /\ Message(Head(input).kind, Head(input).content).type = "MESSAGE"
      BY <3>3, RpcFacts DEF Message
    <3> QED BY <2>1, <2>2, <3>4 DEF GiveOrder
  <2>3. CASE StopNext
    <3>1. /\ Message("PROCESS_STOP", << >>) \in RPC
          /\ Message("PROCESS_STOP", << >>).type = "MESSAGE"
      BY EmptySeq, RpcFacts DEF ServerOrders, ProcessOrders, Message
    <3> QED BY <2>1, <2>3, <3>1 DEF StopNext
  <2>4. CASE TakeAnswer
    <3>1. \A p \in Ranks, c \in Clients : channel'[p][c] = channel[p][c]
      <4>1. Controller \notin Clients /\ Clients \subseteq Ranks
        BY ClientFacts DEF Controller, Nobody
      <4> QED BY <2>4, <4>1, RanksFacts DEF TakeAnswer, StateTypeOK, ControllerTypeOK, ChannelTypeOK
    <3> QED BY <3>1 DEF SentWithin
  <2>5. CASE UNCHANGED channel
    BY <2>5 DEF SentWithin
  <2> QED BY <2>2, <2>3, <2>4, <2>5 DEF ControllerStep, GiveUp, StopAll, StopsReturn, EndOfInput
<1> QED BY <1>2, <1>3

LEMMA AcksInit ==
    ASSUME NEW l \in Servers
    PROVE  Init => AcksInv(l)
<1> SUFFICES ASSUME Init PROVE AcksInv(l)
  OBVIOUS
<1>1. \A c \in Clients : popped[c] = << >> /\ \A p \in Ranks : channel[p][c] = << >>
  BY ClientFacts DEF Init, ServerInit, ProcessInit, ClientInit
<1>2. batch = << >> /\ done = 0 /\ last_log_applied[l] = -1
  BY DEF Init, ServerInit, ProcessInit
<1>3. Len(<< >>) = 0
  BY EmptySeq
<1>4. \A a : ~(\E c \in Clients : IsAckOf(a, c))
  BY <1>1, <1>2, <1>3 DEF IsAckOf
<1>5. Acks = {}
  BY <1>4, AcksAre
<1> QED BY <1>2, <1>3, <1>5, FS_EmptySet DEF AcksInv

LEMMA AcksStep ==
    ASSUME NEW l \in Servers, LeaderInv(l), ProgramTypeInv, ProgramTypeInv', AcksInv(l), [Next]_vars
    PROVE  AcksInv(l)'
<1>1. StateTypeOK /\ StateTypeOK' /\ ClientTypeOK /\ ControllerTypeOK /\ LogsInv(l)
  BY DEF ProgramTypeInv, TypeOK, LeaderInv
<1>2. last_log_applied[l] \in Int /\ Cardinality(Acks) \in Nat /\ IsFiniteSet(Acks)
  BY <1>1, FS_CardinalityType DEF AcksInv, StateTypeOK, ApplyTypeOK
<1>3. ASSUME SentWithin({}), PoppedWithin({}), TakenWithin, UNCHANGED last_log_applied
      PROVE  AcksInv(l)'
  <2>1. AcksKept(l)
    BY <1>2, <1>3 DEF AcksKept
  <2> QED BY <1>1, <2>1, AcksStay
<1>4. ASSUME NEW s \in Servers, ServerTurn(ServerStep(s)) PROVE AcksInv(l)'
  <2>1. ServerStep(s) /\ UNCHANGED popped /\ PoppedWithin({})
    BY <1>4 DEF ServerTurn, clientState, PoppedWithin
  <2>2. CASE ApplyEntry(s)
    BY <1>1, <2>1, <2>2, ApplySent, AcksStay
  <2>3. CASE ~ApplyEntry(s)
    BY <1>1, <1>3, <2>1, <2>3, ServersSent
  <2> QED BY <2>2, <2>3
<1>5. ASSUME NEW c \in Clients, ClientTurn(ClientStep(c, WaitingFor(c))) PROVE AcksInv(l)'
  <2>1. ClientStep(c, WaitingFor(c)) /\ UNCHANGED last_log_applied
    BY <1>5 DEF ClientTurn, serverState, applyVars
  <2>2. ASSUME IsFiniteSet(Acks') /\ Cardinality(Acks') <= Cardinality(Acks)
        PROVE  AcksInv(l)'
    <3>1. Cardinality(Acks') \in Nat /\ Cardinality(Acks) <= last_log_applied[l] + 1
      BY <2>2, FS_CardinalityType DEF AcksInv
    <3>2. Cardinality(Acks') <= last_log_applied[l] + 1
      BY <1>2, <2>2, <3>1
    <3> QED BY <2>1, <2>2, <3>2 DEF AcksInv
  <2>3. CASE ClientReceives(c)
    <3> c \in Ranks
      BY ClientFacts
    <3>1. PICK p \in Ranks : Receive(c, p) /\ UNCHANGED popped
      BY <2>3 DEF ClientReceives, clientState
    <3>2. PICK n \in 1 .. Len(channel[p][c]) : \E k \in 0 .. n : Drain(c, p, k, n)
      BY <1>1, <3>1, ReceiveIsDrain DEF StateTypeOK
    <3>3. PICK k \in 0 .. n : Drain(c, p, k, n)
      BY <3>2
    <3> QED BY <1>1, <1>2, <2>2, <3>1, <3>3, ReceivedAcks
  <2>4. CASE TakeSuccess(c)
    BY <1>1, <1>2, <2>2, <2>4, TakenAck
  <2>5. CASE ~ClientReceives(c) /\ ~TakeSuccess(c)
    BY <1>1, <1>3, <2>1, <2>5, ClientSent
  <2> QED BY <2>3, <2>4, <2>5
<1>6. CASE ControllerStep /\ UNCHANGED <<serverState, clientState>>
  BY <1>1, <1>3, <1>6, OrdersSent DEF serverState, applyVars
<1>7. CASE UNCHANGED vars
  <2>1. UNCHANGED <<popped, channel, active, batch, done, last_log_applied>>
    BY <1>7 DEF vars, serverVars, stateVars, dataVars, applyVars, updateVars, clientState
  <2>2. SentWithin({}) /\ PoppedWithin({}) /\ TakenWithin
    BY <2>1 DEF SentWithin, PoppedWithin, TakenWithin
  <2> QED BY <1>3, <2>1, <2>2
<1> QED BY <1>4, <1>5, <1>6, <1>7 DEF Next

\* No acknowledgement is given away: those that took a command off the queue of
\* a client, those on their way to one and those in its batch are never more
\* than the entries the leader has applied, whatever the clients ask again,
\* whoever the user crashes, the leader included, and whether or not the log
\* file opens (the apply loop of handle_queries; handle_queries of the client,
\* client.cpp:112).
THEOREM ProgramAcksCounted ==
    ASSUME NEW l \in Servers, Electable = {l}
    PROVE  Spec => []AcksAreCounted
<1>1. Init => AcksInv(l)
  BY AcksInit
<1>2. /\ LeaderInv(l) /\ ProgramTypeInv /\ ProgramTypeInv' /\ AcksInv(l) /\ [Next]_vars
         => AcksInv(l)'
  BY AcksStep
<1>3. AcksInv(l) => AcksAreCounted
  BY DEF AcksInv, AcksAreCounted
<1> QED BY <1>1, <1>2, <1>3, ProgramInv, ProgramTypeInit, ProgramTypeStep, PTL DEF Spec

----------------------------------------------------------------------------
(* One server may be elected and every request is answered in time: each   *)
(* command of a client is in the log once, in its turn.                    *)

Receivers == Clients \cup Servers

\* What a message m from p to d may be: requests go to the leader l, which
\* alone answers them and says yes, and a client is given its own commands.
OnceGood(l, p, d, m) ==
    /\ m.type = "NEW_LOG_ENTRY" => p \in Clients /\ d = l /\ status[l] = "LEADER"
    /\ m.type = "NEW_LOG_ENTRY_RESPONSE" => p = l /\ m.success
    /\ m.type = "SEARCH_LEADER_RESPONSE" => m.leader_rank = l /\ status[l] = "LEADER"
    /\ m.type = "MESSAGE" /\ d \in Clients => Range(m.content) \subseteq CommandsOfClient(d)

OnceUnderWay(l) ==
    /\ \A p \in Ranks, d \in Receivers : \A i \in 1 .. Len(channel[p][d]) :
          OnceGood(l, p, d, channel[p][d][i])
    /\ active \in Receivers => \A i \in 1 .. Len(batch) :
          OnceGood(l, batch[i].source, active, batch[i].rpc)

\* The rest of what is known of each process.
InputLines == UNION {Range(lines) : lines \in Inputs}

OnceHeld(l) ==
    /\ \A i \in 1 .. Len(entries_queue[l]) : entries_queue[l][i].source \in Clients
    /\ phase = "check" => done = Len(batch)
    /\ \A c \in Clients : leader_rank[c] # 0 => leader_rank[c] = l /\ status[l] = "LEADER"
    /\ \A c \in Clients : \A i \in 1 .. Len(entries_to_send[c]) :
          entries_to_send[c][i] \in CommandsOfClient(c)
    /\ \A i \in 1 .. Len(input) : input[i] \in InputLines

\* What a step may send.
OnceNew(l, p, d, m) ==
    /\ OnceGood(l, p, d, m)
    /\ m.type = "NEW_LOG_ENTRY" => SendEntry(p)
    /\ m.type = "NEW_LOG_ENTRY_RESPONSE" => ApplyEntry(l) /\ d = Head(entries_queue[l]).source

OnceSent(l) ==
    \A p \in Ranks, d \in Receivers :
        /\ Len(channel[p][d]) <= Len(channel'[p][d])
        /\ \A i \in 1 .. Len(channel[p][d]) : channel'[p][d][i] = channel[p][d][i]
        /\ \A i \in 1 .. Len(channel'[p][d]) :
              Len(channel[p][d]) < i => OnceNew(l, p, d, channel'[p][d][i])

OnceTypes == {"NEW_LOG_ENTRY", "NEW_LOG_ENTRY_RESPONSE", "SEARCH_LEADER_RESPONSE", "MESSAGE"}

LEMMA ReceiversFacts ==
    /\ Receivers \subseteq Ranks
    /\ Nobody \notin Receivers /\ Controller \notin Receivers
  BY RanksFacts, ClientFacts DEF Receivers, Nobody, Controller

\* Messages of the other types change nothing here.
LEMMA OtherTypesSent ==
    ASSUME NEW l, NEW s, NEW T, T \cap OnceTypes = {}, Adds(T, s, channel, channel')
    PROVE  OnceSent(l)
<1> SUFFICES ASSUME NEW p \in Ranks, NEW d \in Receivers
             PROVE  /\ Len(channel[p][d]) <= Len(channel'[p][d])
                    /\ \A i \in 1 .. Len(channel[p][d]) : channel'[p][d][i] = channel[p][d][i]
                    /\ \A i \in 1 .. Len(channel'[p][d]) :
                          Len(channel[p][d]) < i => OnceNew(l, p, d, channel'[p][d][i])
  BY DEF OnceSent
<1>1. d \in Ranks
  BY ReceiversFacts
<1>2. ASSUME NEW i \in 1 .. Len(channel'[p][d]), Len(channel[p][d]) < i
      PROVE  OnceNew(l, p, d, channel'[p][d][i])
  <2>1. channel'[p][d][i].type \in T
    BY <1>1, <1>2 DEF Adds
  <2> QED BY <2>1 DEF OnceNew, OnceGood, OnceTypes
<1> QED BY <1>1, <1>2 DEF Adds

\* A process sends one message.
LEMMA OneIsSent ==
    ASSUME NEW l, ChannelTypeOK, NEW s \in Ranks, NEW dst, NEW m \in RPC,
           channel' = SendMessage(channel, s, dst, m, Ended),
           dst \in Receivers => OnceNew(l, s, dst, m)
    PROVE  OnceSent(l)
<1>1. channel \in Channels
  BY DEF ChannelTypeOK, Channels
<1>2. PICK T : T = {m.type}
  OBVIOUS
<1>3. Adds(T, s, channel, channel')
  BY <1>1, <1>2, SendIsAdding
<1>4. \A p, d \in Ranks : \A i \in 1 .. Len(channel'[p][d]) :
         \/ i \in 1 .. Len(channel[p][d])
         \/ p = s /\ d = dst /\ channel'[p][d][i] = m
  BY <1>1, SendMessageFacts
<1> SUFFICES ASSUME NEW p \in Ranks, NEW d \in Receivers
             PROVE  /\ Len(channel[p][d]) <= Len(channel'[p][d])
                    /\ \A i \in 1 .. Len(channel[p][d]) : channel'[p][d][i] = channel[p][d][i]
                    /\ \A i \in 1 .. Len(channel'[p][d]) :
                          Len(channel[p][d]) < i => OnceNew(l, p, d, channel'[p][d][i])
  BY DEF OnceSent
<1>5. d \in Ranks
  BY ReceiversFacts
<1>6. ASSUME NEW i \in 1 .. Len(channel'[p][d]), Len(channel[p][d]) < i
      PROVE  OnceNew(l, p, d, channel'[p][d][i])
  <2>1. i \notin 1 .. Len(channel[p][d])
    BY <1>6
  <2>2. p = s /\ d = dst /\ channel'[p][d][i] = m
    BY <1>4, <1>5, <2>1
  <2> QED BY <2>2
<1> QED BY <1>3, <1>5, <1>6 DEF Adds

LEMMA NothingIsSent ==
    ASSUME NEW l, ChannelTypeOK, UNCHANGED channel
    PROVE  OnceSent(l)
<1>1. channel \in Channels /\ channel' = channel
  BY DEF ChannelTypeOK, Channels
<1>2. Adds({}, Nobody, channel, channel')
  BY <1>1, AddsFacts
<1> QED BY <1>2, OtherTypesSent

\* What a server sends.
LEMMA OnceServerSent ==
    ASSUME NEW l \in Servers, Electable = {l}, LogsInv(l), OnceUnderWay(l), OnceHeld(l),
           NEW s \in Servers, ServerStep(s), ~ReceiveAll(s)
    PROVE  OnceSent(l)
<1>1. StateTypeOK /\ ChannelTypeOK /\ s \in Ranks /\ channel \in Channels /\ OnlyLeader(l)
  BY RanksFacts DEF LogsInv, StateTypeOK, ChannelTypeOK, Channels
<1>2. CASE LeaderBeats(s)
  <2> DEFINE unsafe == {r \in Peers(s) : next_log_index[s][r] < 0}
             reached == {r \in Peers(s) : \A u \in unsafe : r < u}
             m == [r \in reached |-> BeatTo(s, r)]
  <2>1. channel' = SendToAll(channel, s, reached, m, Ended)
    BY <1>2 DEF LeaderBeats
  <2>2. reached \in SUBSET Ranks
    BY RanksFacts DEF Peers
  <2>3. ASSUME NEW r \in reached
        PROVE  BeatTo(s, r) \in RPC /\ BeatTo(s, r).type \in {"HEARTBEAT", "APPEND_ENTRIES"}
    <3>1. r \in Servers /\ r \in Nat /\ next_log_index[s][r] \in Int
      BY <1>1, RanksFacts DEF Peers, StateTypeOK, LeaderTypeOK
    <3>2. next_log_index[s][r] >= 0
      BY <3>1
    <3>3. BeatTo(s, r) \in RPC
      BY <1>1, <3>1, <3>2, BeatToTypes DEF StateTypeOK
    <3> QED BY <3>3 DEF BeatTo, AppendEntries, Heartbeat
  <2>4. \A r \in reached : m[r] \in RPC /\ m[r].type \in {"HEARTBEAT", "APPEND_ENTRIES"}
    <3> HIDE DEF reached
    <3> QED BY <2>3
  <2> HIDE DEF reached, m
  <2>5. PICK T : T = {"HEARTBEAT", "APPEND_ENTRIES"}
    OBVIOUS
  <2>6. Adds(T, s, channel, channel')
    BY <1>1, <2>1, <2>2, <2>4, <2>5, BroadcastIsAdding
  <2> QED BY <2>5, <2>6, OtherTypesSent DEF OnceTypes
<1>3. CASE AnswerSearchLeader(s)
  <2>1. s = l /\ status[l] = "LEADER"
    BY <1>1, <1>3 DEF AnswerSearchLeader, OnlyLeader
  <2>2. SearchLeaderResponse(s) \in RPC
    BY RpcFacts
  <2>3. \A d : OnceNew(l, s, d, SearchLeaderResponse(s))
    BY <2>1 DEF OnceNew, OnceGood, SearchLeaderResponse
  <2>4. PICK m : m = SearchLeaderResponse(s)
    OBVIOUS
  <2> QED BY <1>1, <1>3, <2>2, <2>3, <2>4, OneIsSent DEF AnswerSearchLeader, Reply
<1>4. CASE ApplyEntry(s)
  <2>1. \/ UNCHANGED channel
        \/ /\ status[s] = "LEADER"
           /\ Reply(s, Head(entries_queue[s]).source, NewLogEntryResponse(TRUE))
    BY <1>4 DEF ApplyEntry
  <2>2. CASE status[s] = "LEADER"
             /\ Reply(s, Head(entries_queue[s]).source, NewLogEntryResponse(TRUE))
    <3>1. s = l
      BY <1>1, <2>2 DEF OnlyLeader
    <3>2. PICK m : m = NewLogEntryResponse(TRUE)
      OBVIOUS
    <3>3. PICK dst : dst = Head(entries_queue[s]).source
      OBVIOUS
    <3>4. m \in RPC /\ OnceNew(l, s, dst, m)
      BY <1>4, <3>1, <3>2, <3>3, RpcFacts DEF OnceNew, OnceGood, NewLogEntryResponse
    <3> QED BY <1>1, <2>2, <3>2, <3>3, <3>4, OneIsSent DEF Reply
  <2> QED BY <1>1, <2>1, <2>2, NothingIsSent
<1>5. ~DenyNewLogEntry(s)
  <2> SUFFICES ASSUME DenyNewLogEntry(s) PROVE FALSE
    OBVIOUS
  <2>1. /\ active = s /\ done < Len(batch) /\ batch[done + 1].rpc.type = "NEW_LOG_ENTRY"
        /\ status[s] # "LEADER"
    BY DEF DenyNewLogEntry, Handling
  <2>2. done + 1 \in 1 .. Len(batch) /\ active \in Receivers
    BY <1>1, <2>1, QueryFacts DEF StateTypeOK, Receivers
  <2> QED BY <2>1, <2>2 DEF OnceUnderWay, OnceGood
<1>6. CASE ~LeaderBeats(s) /\ ~AnswerSearchLeader(s) /\ ~ApplyEntry(s)
  <2>1. PICK T : T = {"VOTE_RESPONSE", "MESSAGE_RESPONSE", "APPEND_ENTRIES_RESPONSE",
                      "HEARTBEAT", "VOTE_REQUEST"}
    OBVIOUS
  <2>2. Adds(T, s, channel, channel')
    BY <1>1, <1>5, <1>6, <2>1, StepSends
  <2> QED BY <2>1, <2>2, OtherTypesSent DEF OnceTypes
<1> QED BY <1>2, <1>3, <1>4, <1>6

\* What a client sends.
LEMMA OnceClientSent ==
    ASSUME NEW l \in Servers, LogsInv(l), ClientTypeOK, OnceHeld(l),
           NEW c \in Clients, NEW w, ClientStep(c, w), ~ClientReceives(c)
    PROVE  OnceSent(l)
<1> USE DEF clientState
<1>1. StateTypeOK /\ ChannelTypeOK /\ channel \in Channels /\ c \in Ranks /\ c \notin Servers
  BY ClientFacts DEF LogsInv, StateTypeOK, ChannelTypeOK, Channels
<1>2. UNCHANGED channel => OnceSent(l)
  BY <1>1, NothingIsSent
<1>3. CASE StartClient(c) \/ ClientHandles(c)
  BY <1>2, <1>3 DEF StartClient, Begin, ClientHandles
<1>4. CASE LearnLeader(c) \/ TakeSuccess(c) \/ TakeFailure(c)
  BY <1>2, <1>4 DEF LearnLeader, TakeSuccess, TakeFailure
<1>5. CASE \/ NewEntries(c) \/ DisplayOrSpeed(c) \/ Recover(c)
           \/ Start(c) \/ Crash(c) \/ Stop(c)
  <2>1. PICK b : AnswerOrder(c, b) /\ b \in BOOLEAN
    <3>1. /\ Running(c) \in BOOLEAN /\ (~Running(c)) \in BOOLEAN
          /\ (~has_started[c]) \in BOOLEAN
      BY DEF Running, ClientTypeOK
    <3> QED BY <1>5, <3>1 DEF NewEntries, DisplayOrSpeed, Recover, Start, Crash, Stop
  <2>2. PICK m : m = MessageResponse(b)
    OBVIOUS
  <2>3. PICK dst : dst = batch[done + 1].source
    OBVIOUS
  <2>4. m \in RPC /\ OnceNew(l, c, dst, m)
    BY <2>1, <2>2, RpcFacts, AnswerTypes DEF OnceNew, OnceGood
  <2> QED BY <1>1, <2>1, <2>2, <2>3, <2>4, OneIsSent DEF AnswerOrder, Reply
<1>6. CASE Search(c, w)
  <2> DEFINE m == [s \in Servers |-> SearchLeader]
  <2>1. channel' = SendToAll(channel, c, Servers, m, Ended) /\ Servers \in SUBSET Ranks
    BY <1>6, RanksFacts DEF Search
  <2>2. PICK T : T = {"SEARCH_LEADER"}
    OBVIOUS
  <2>3. \A s \in Servers : m[s] \in RPC /\ m[s].type \in T
    BY <2>2, RpcFacts DEF SearchLeader
  <2> HIDE DEF m
  <2>4. Adds(T, c, channel, channel')
    BY <1>1, <2>1, <2>3, BroadcastIsAdding
  <2> QED BY <2>2, <2>4, OtherTypesSent DEF OnceTypes
<1>7. CASE SendEntry(c)
  <2>1. leader_rank[c] # 0 /\ entries_to_send[c] # << >>
    BY <1>7 DEF SendEntry, HasEntryToSend
  <2>2. leader_rank[c] = l /\ status[l] = "LEADER"
    BY <2>1 DEF OnceHeld
  <2>3. PICK m : m = NewLogEntry(Head(entries_to_send[c]))
    OBVIOUS
  <2>4. m \in RPC
    <3>1. Head(entries_to_send[c]) \in Commands
      BY <2>1, HeadTailProperties DEF ClientTypeOK
    <3> QED BY <2>3, <3>1, RpcFacts
  <2>5. OnceNew(l, c, l, m)
    BY <1>7, <2>2, <2>3 DEF OnceNew, OnceGood, NewLogEntry
  <2> QED BY <1>1, <1>7, <2>2, <2>3, <2>4, <2>5, OneIsSent DEF SendEntry, FrontEntry, Reply
<1>8. CASE StaysDead(c) \/ SendNothing(c) \/ AnswerOverdue(c, w) \/ AnswerNotOverdue(c)
  BY <1>2, <1>8 DEF StaysDead, SendNothing, AnswerOverdue, AnswerNotOverdue
<1> QED BY <1>3, <1>4, <1>5, <1>6, <1>7, <1>8 DEF ClientStep, ClientHandlesQuery, ClientRoutine

\* What the controller sends, reads and keeps.
LEMMA OnceControllerSent ==
    ASSUME NEW l, ChannelTypeOK, ControllerTypeOK, OnceHeld(l), ControllerStep
    PROVE  OnceSent(l) /\ \A i \in 1 .. Len(input') : input'[i] \in InputLines
<1>1. UNCHANGED channel => OnceSent(l)
  BY NothingIsSent
<1>2. input' = input \/ (input # << >> /\ input' = Tail(input))
  BY DEF ControllerStep, GiveOrder, TakeAnswer, GiveUp, StopAll, StopNext, StopsReturn, EndOfInput
<1>3. \A i \in 1 .. Len(input') : input'[i] \in InputLines
  <2>1. input \in Seq(Orders \cup {StopAllLine})
    BY DEF ControllerTypeOK
  <2>2. CASE input = << >>
    BY <1>2, <2>2, EmptySeq
  <2>3. CASE input # << >>
    <3>1. \A i \in 1 .. Len(Tail(input)) :
             i + 1 \in 1 .. Len(input) /\ Tail(input)[i] = input[i + 1]
      BY <2>1, <2>3, HeadTailProperties, LenProperties
    <3> QED BY <1>2, <3>1 DEF OnceHeld
  <2> QED BY <2>2, <2>3
<1>4. CASE GiveOrder
  <2> DEFINE line == Head(input)
  <2>1. line = input[1] /\ line \in Orders /\ 1 \in 1 .. Len(input)
    <3>1. input \in Seq(Orders \cup {StopAllLine}) /\ input # << >>
      BY <1>4 DEF GiveOrder, ControllerTypeOK
    <3> QED BY <1>4, <3>1, HeadTailProperties, LenProperties, EmptySeq DEF GiveOrder
  <2>2. /\ line.kind \in ServerOrders \cup ClientOrders
        /\ line.content \in Seq(Commands)
        /\ line \in InputLines
    BY <2>1 DEF Orders, OnceHeld
  <2>3. PICK m : m = Message(line.kind, line.content)
    OBVIOUS
  <2>4. m \in RPC /\ m.type = "MESSAGE" /\ m.content = line.content
    BY <2>2, <2>3, RpcFacts DEF Message
  <2>5. PICK dst : dst = line.to
    OBVIOUS
  <2>6. OnceNew(l, Controller, dst, m)
    <3>1. line.to = dst => Range(line.content) \subseteq CommandsOfClient(dst)
      BY <2>2 DEF CommandsOfClient, InputLines
    <3> QED BY <2>4, <2>5, <3>1 DEF OnceNew, OnceGood
  <2>7. channel' = SendMessage(channel, Controller, dst, m, Ended)
    BY <1>4, <2>3, <2>5 DEF GiveOrder, SendOrder
  <2> QED BY <1>3, <2>4, <2>6, <2>7, OneIsSent, RanksFacts
<1>5. CASE TakeAnswer
  <2>1. \A p \in Ranks, d \in Receivers : channel'[p][d] = channel[p][d]
    <3>1. channel \in Channels /\ awaiting \in Ranks
      BY DEF ChannelTypeOK, Channels, ControllerTypeOK
    <3> QED BY <1>5, <3>1, ReceiversFacts DEF TakeAnswer, Channels
  <2>2. \A p \in Ranks, d \in Receivers : Len(channel[p][d]) \in Nat
    <3>1. \A p \in Ranks, d \in Receivers : channel[p][d] \in Seq(RPC)
      BY ReceiversFacts DEF ChannelTypeOK
    <3> QED BY <3>1, LenProperties
  <2>3. OnceSent(l)
    BY <2>1, <2>2 DEF OnceSent
  <2> QED BY <1>3, <2>3
<1>6. CASE StopNext
  <2>1. PICK m : m = Message("PROCESS_STOP", << >>)
    OBVIOUS
  <2>2. << >> \in Seq(Commands) /\ "PROCESS_STOP" \in ServerOrders \cup ClientOrders
    BY DEF ServerOrders, ProcessOrders
  <2>3. m \in RPC
    BY <2>1, <2>2, RpcFacts
  <2>4. m.type = "MESSAGE" /\ m.content = << >>
    BY <2>1 DEF Message
  <2>5. Range(m.content) = {}
    BY <2>4 DEF Range
  <2>6. OnceNew(l, Controller, stopping, m)
    BY <2>4, <2>5 DEF OnceNew, OnceGood
  <2>7. channel' = SendMessage(channel, Controller, stopping, m, Ended)
    BY <1>6, <2>1 DEF StopNext, SendOrder
  <2> QED BY <1>3, <2>3, <2>6, <2>7, OneIsSent, RanksFacts
<1>7. CASE GiveUp \/ StopAll \/ StopsReturn \/ EndOfInput
  BY <1>1, <1>3, <1>7 DEF GiveUp, StopAll, StopsReturn, EndOfInput
<1> QED BY <1>4, <1>5, <1>6, <1>7 DEF ControllerStep

----------------------------------------------------------------------------
(* The batch and the place in it. *)

\* Nobody goes back in a batch with queries.
Forward(l) ==
    /\ UNCHANGED <<active, batch>> \/ active' = Nobody \/ Len(batch') = 0
    /\ done <= done' \/ active' \notin Clients \/ Len(batch') = 0
    /\ FirstAck <= FirstAck' \/ active' # l \/ Len(batch') = 0

LEMMA ForwardIfSame ==
    ASSUME NEW l, UpdateTypeOK, UNCHANGED <<active, phase, batch, done>>
    PROVE  Forward(l)
<1>1. done <= done
  BY DEF UpdateTypeOK
<1>2. FirstAck \in Int /\ FirstAck' = FirstAck
  BY DEF UpdateTypeOK, FirstAck
<1> QED BY <1>1, <1>2 DEF Forward

LEMMA ForwardAtStart ==
    ASSUME NEW l \in Servers, LogsInv(l), NEW p, Begin(p)
    PROVE  Forward(l)
<1>1. batch' = << >>
  BY DEF LogsInv, BatchGood, Begin
<1> QED BY <1>1, EmptySeq DEF Forward

LEMMA OnceServerForward ==
    ASSUME NEW l \in Servers, LogsInv(l), StateTypeOK', LeadInv(l),
           NEW s \in Servers, ServerStep(s), ~ReceiveAll(s)
    PROVE  Forward(l)
<1>1. /\ StateTypeOK /\ done \in Nat /\ done' \in Nat /\ Nobody \notin Servers
      /\ Nobody \notin Clients /\ s \notin Clients
  BY RanksFacts, ClientFacts DEF LogsInv, StateTypeOK, UpdateTypeOK
<1>2. CASE StartUpdate(s)
  BY <1>2, ForwardAtStart DEF StartUpdate
<1>3. CASE ~StartUpdate(s)
  <2>1. /\ active = s
        /\ \/ EndUpdate
           \/ UNCHANGED <<active, batch>> /\ (phase = "lead" => phase' = "lead" /\ done <= done')
    BY <1>1, <1>3, LoopsForward
  <2>2. active' \notin Clients
    BY <1>1, <2>1 DEF EndUpdate
  <2>3. UNCHANGED <<active, batch>> \/ active' = Nobody
    BY <2>1 DEF EndUpdate
  <2>4. FirstAck <= FirstAck' \/ active' # l
    <3>1. CASE EndUpdate
      BY <1>1, <3>1 DEF EndUpdate
    <3>2. ASSUME phase = "lead" => phase' = "lead" /\ done <= done'
          PROVE  FirstAck <= FirstAck'
      <4>1. PICK n \in Nat : n = done
        BY <1>1
      <4>2. PICK o \in Nat : o = done'
        BY <1>1
      <4>3. n <= o => n + 1 <= o + 1
        OBVIOUS
      <4>4. 1 <= n + 1 /\ 1 <= o + 1 /\ 1 <= 1
        OBVIOUS
      <4> QED BY <3>2, <4>1, <4>2, <4>3, <4>4 DEF FirstAck
    <3> QED BY <2>1, <3>1, <3>2
  <2> QED BY <2>2, <2>3, <2>4 DEF Forward
<1> QED BY <1>2, <1>3

LEMMA OnceClientForward ==
    ASSUME NEW l \in Servers, LogsInv(l), NEW c \in Clients, NEW w, ClientStep(c, w),
           ~ClientReceives(c)
    PROVE  Forward(l)
<1>1. done \in Nat /\ Nobody # l /\ c # l /\ Nobody \notin Clients
  BY RanksFacts, ClientFacts DEF LogsInv, StateTypeOK, UpdateTypeOK
<1>2. EndUpdate => Forward(l)
  BY <1>1 DEF EndUpdate, Forward
<1>3. ASSUME UNCHANGED <<active, batch>>, active = c, done' \in {done, done + 1}
      PROVE  Forward(l)
  BY <1>1, <1>3 DEF Forward
<1>4. CASE StartClient(c)
  BY <1>4, ForwardAtStart DEF StartClient
<1>5. CASE ClientHandles(c)
  BY <1>3, <1>5 DEF ClientHandles
<1>6. CASE LearnLeader(c) \/ TakeFailure(c)
  BY <1>3, <1>6 DEF LearnLeader, TakeFailure, ClientHandling, NextQuery
<1>7. CASE TakeSuccess(c)
  BY <1>2, <1>3, <1>7 DEF TakeSuccess, ClientHandling, NextQuery, Abort
<1>8. CASE \/ NewEntries(c) \/ DisplayOrSpeed(c) \/ Recover(c)
           \/ Start(c) \/ Crash(c) \/ Stop(c)
  BY <1>3, <1>8 DEF NewEntries, DisplayOrSpeed, Recover, Start, Crash, Stop, AnswerOrder, OrderOf,
     ClientHandling, NextQuery
<1>9. CASE StaysDead(c) \/ AnswerOverdue(c, w) \/ AnswerNotOverdue(c)
  BY <1>2, <1>9 DEF StaysDead, AnswerOverdue, AnswerNotOverdue
<1>10. CASE Search(c, w) \/ SendEntry(c) \/ SendNothing(c)
  BY <1>3, <1>10 DEF Search, SendEntry, SendNothing, AllHandled, ThenCheck
<1> QED BY <1>4, <1>5, <1>6, <1>7, <1>8, <1>9, <1>10
    DEF ClientStep, ClientHandlesQuery, ClientRoutine

----------------------------------------------------------------------------
(* What is under way stays good. *)

LEMMA OnceStaysGood ==
    ASSUME NEW l, status[l] = "LEADER" => status'[l] = "LEADER",
           NEW p, NEW d, NEW m, OnceGood(l, p, d, m)
    PROVE  /\ m.type = "NEW_LOG_ENTRY" => p \in Clients /\ d = l /\ status'[l] = "LEADER"
           /\ m.type = "NEW_LOG_ENTRY_RESPONSE" => p = l /\ m.success
           /\ m.type = "SEARCH_LEADER_RESPONSE" => m.leader_rank = l /\ status'[l] = "LEADER"
           /\ m.type = "MESSAGE" /\ d \in Clients => Range(m.content) \subseteq CommandsOfClient(d)
  BY DEF OnceGood

LEMMA LengthsAreNat ==
    ASSUME StateTypeOK
    PROVE  /\ \A p, d \in Ranks : Len(channel[p][d]) \in Nat
           /\ Len(batch) \in Nat
           /\ done \in 0 .. Len(batch)
<1>1. \A p, d \in Ranks : channel[p][d] \in Seq(RPC)
  BY DEF StateTypeOK, ChannelTypeOK
<1>2. batch \in Seq(Query) /\ done \in 0 .. Len(batch)
  BY DEF StateTypeOK, UpdateTypeOK
<1> QED BY <1>1, <1>2, LenProperties

LEMMA OnceUnderWayForward ==
    ASSUME NEW l \in Servers, StateTypeOK, OnceUnderWay(l), OnceSent(l), Forward(l),
           status[l] = "LEADER" => status'[l] = "LEADER"
    PROVE  OnceUnderWay(l)'
<1>1. ASSUME NEW p \in Ranks, NEW d \in Receivers, NEW i \in 1 .. Len(channel'[p][d])
      PROVE  OnceGood(l, p, d, channel'[p][d][i])
  <2>1. Len(channel[p][d]) \in Nat
    BY LengthsAreNat, ReceiversFacts
  <2>2. CASE Len(channel[p][d]) < i
    BY <2>2 DEF OnceSent, OnceNew
  <2>3. CASE ~(Len(channel[p][d]) < i)
    <3>1. i \in 1 .. Len(channel[p][d])
      BY <2>1, <2>3
    <3> QED BY <3>1 DEF OnceSent, OnceUnderWay
  <2> QED BY <2>2, <2>3
<1>2. ASSUME active' \in Receivers, NEW i \in 1 .. Len(batch')
      PROVE  OnceGood(l, batch'[i].source, active', batch'[i].rpc)
  <2>1. UNCHANGED <<active, batch>>
    BY <1>2, ReceiversFacts DEF Forward
  <2> QED BY <1>2, <2>1 DEF OnceUnderWay
<1>3. ASSUME NEW p \in Ranks, NEW d \in Receivers, NEW i \in 1 .. Len(channel'[p][d])
      PROVE  OnceGood(l, p, d, channel[p][d][i])'
  BY <1>1, <1>3, OnceStaysGood DEF OnceGood
<1>4. ASSUME active' \in Receivers, NEW i \in 1 .. Len(batch')
      PROVE  OnceGood(l, batch[i].source, active, batch[i].rpc)'
  BY <1>2, <1>4, OnceStaysGood DEF OnceGood
<1> QED BY <1>3, <1>4 DEF OnceUnderWay

LEMMA OnceUnderWayDrain ==
    ASSUME NEW l \in Servers, StateTypeOK, OnceUnderWay(l), UNCHANGED status,
           NEW s \in Receivers, NEW r \in Ranks, NEW n \in 1 .. Len(channel[r][s]),
           NEW k \in 0 .. n, Drain(s, r, k, n)
    PROVE  OnceUnderWay(l)'
<1>1. s \in Ranks /\ Receivers \subseteq Ranks
  BY ReceiversFacts
<1>2. /\ \A q, d \in Ranks : \A i \in 1 .. Len(channel'[q][d]) :
            \E j \in 1 .. Len(channel[q][d]) : channel'[q][d][i] = channel[q][d][j]
      /\ \A i \in 1 .. Len(batch') :
            \/ i \in 1 .. Len(batch) /\ batch'[i] = batch[i]
            \/ /\ batch'[i].source = r
               /\ \E j \in 1 .. Len(channel[r][s]) : batch'[i].rpc = channel[r][s][j]
  BY <1>1, DrainFacts DEF StateTypeOK
<1>3. active = s /\ active' = s
  BY DEF Drain
<1>4. ASSUME NEW p \in Ranks, NEW d \in Receivers, NEW i \in 1 .. Len(channel'[p][d])
      PROVE  OnceGood(l, p, d, channel'[p][d][i])
  BY <1>1, <1>2 DEF OnceUnderWay
<1>5. ASSUME NEW i \in 1 .. Len(batch')
      PROVE  OnceGood(l, batch'[i].source, active', batch'[i].rpc)
  BY <1>2, <1>3 DEF OnceUnderWay
<1>6. status[l] = "LEADER" => status'[l] = "LEADER"
  OBVIOUS
<1>7. ASSUME NEW p \in Ranks, NEW d \in Receivers, NEW i \in 1 .. Len(channel'[p][d])
      PROVE  OnceGood(l, p, d, channel[p][d][i])'
  BY <1>4, <1>6, <1>7, OnceStaysGood DEF OnceGood
<1>8. ASSUME NEW i \in 1 .. Len(batch')
      PROVE  OnceGood(l, batch[i].source, active, batch[i].rpc)'
  BY <1>5, <1>6, <1>8, OnceStaysGood DEF OnceGood
<1> QED BY <1>7, <1>8 DEF OnceUnderWay

----------------------------------------------------------------------------
(* A request of c goes from c to the leader, waits there, and comes back    *)
(* as its answer.                                                           *)

Requests(l, c) == LinkOf(channel, active, batch, c, l, "NEW_LOG_ENTRY", FirstAck)
Waits(l, c)    == {i \in 1 .. Len(entries_queue[l]) : entries_queue[l][i].source = c}
Answers(l, c)  == LinkOf(channel, active, batch, l, c, "NEW_LOG_ENTRY_RESPONSE", done + 1)

Answering(l, c) ==
    ApplyEntry(l) /\ Head(entries_queue[l]).source = c /\ channel' # channel

LEMMA OnceLinks ==
    ASSUME NEW l \in Servers, NEW c \in Clients, StateTypeOK, StateTypeOK', OnceSent(l), Forward(l)
    PROVE  /\ ~SendEntry(c) => /\ Requests(l, c)' \subseteq Requests(l, c)
                               /\ Keeps(Requests(l, c), Requests(l, c)')
           /\ ~Answering(l, c) => /\ Answers(l, c)' \subseteq Answers(l, c)
                                  /\ Keeps(Answers(l, c), Answers(l, c)')
<1>1. /\ l \in Ranks /\ c \in Ranks /\ l \in Receivers /\ c \in Receivers
      /\ Nobody # l /\ Nobody # c
  BY RanksFacts, ClientFacts DEF Receivers
<1>2. Len(batch') \in Nat /\ done \in Nat /\ done' \in Nat
  BY LengthsAreNat DEF StateTypeOK, UpdateTypeOK
<1>3. PICK n \in Nat : n = done
  BY <1>2
<1>4. PICK o \in Nat : o = done'
  BY <1>2
<1>5. PICK f \in Nat \ {0} : f = FirstAck
  <2>1. n + 1 \in Nat \ {0} /\ 1 \in Nat \ {0}
    OBVIOUS
  <2> QED BY <1>3, <2>1 DEF FirstAck
<1>6. PICK g \in Nat \ {0} : g = FirstAck'
  <2>1. o + 1 \in Nat \ {0} /\ 1 \in Nat \ {0}
    OBVIOUS
  <2> QED BY <1>4, <2>1 DEF FirstAck
<1>7. ASSUME NEW p \in Ranks, NEW d \in Receivers, NEW t,
             \A i \in 1 .. Len(channel'[p][d]) :
                Len(channel[p][d]) < i => channel'[p][d][i].type # t
      PROVE  NoNew(t, p, d)
  <2> SUFFICES ASSUME NEW i \in 1 .. Len(channel'[p][d]), channel'[p][d][i].type = t
               PROVE  i \in 1 .. Len(channel[p][d]) /\ channel'[p][d][i] = channel[p][d][i]
    BY DEF NoNew
  <2>1. ~(Len(channel[p][d]) < i) /\ Len(channel[p][d]) \in Nat
    BY <1>7, LengthsAreNat, ReceiversFacts
  <2>2. i \in 1 .. Len(channel[p][d])
    BY <2>1
  <2> QED BY <2>2 DEF OnceSent
<1>8. ASSUME ~SendEntry(c)
      PROVE  /\ Requests(l, c)' \subseteq Requests(l, c)
             /\ Keeps(Requests(l, c), Requests(l, c)')
  <2>1. NoNew("NEW_LOG_ENTRY", c, l)
    <3>1. \A i \in 1 .. Len(channel'[c][l]) :
             Len(channel[c][l]) < i => channel'[c][l][i].type # "NEW_LOG_ENTRY"
      BY <1>1, <1>8 DEF OnceSent, OnceNew
    <3> QED BY <1>1, <1>7, <3>1
  <2>2. \/ active' = active /\ batch' = batch /\ f <= g
        \/ active' # l
        \/ Len(batch') = 0
    BY <1>1, <1>5, <1>6 DEF Forward
  <2>3. /\ LinkOf(channel', active', batch', c, l, "NEW_LOG_ENTRY", g)
              \subseteq LinkOf(channel, active, batch, c, l, "NEW_LOG_ENTRY", f)
        /\ Keeps(LinkOf(channel, active, batch, c, l, "NEW_LOG_ENTRY", f),
                 LinkOf(channel', active', batch', c, l, "NEW_LOG_ENTRY", g))
    <3>1. f \in Int /\ g \in Int /\ g > 0
      OBVIOUS
    <3> QED BY <1>2, <2>1, <2>2, <3>1, LinkShrinks DEF NoNew
  <2> QED BY <1>5, <1>6, <2>3 DEF Requests
<1>9. ASSUME ~Answering(l, c)
      PROVE  /\ Answers(l, c)' \subseteq Answers(l, c)
             /\ Keeps(Answers(l, c), Answers(l, c)')
  <2>1. NoNew("NEW_LOG_ENTRY_RESPONSE", l, c)
    <3>1. CASE channel' = channel
      BY <3>1 DEF NoNew
    <3>2. CASE channel' # channel
      BY <1>1, <1>7, <1>9, <3>2 DEF OnceSent, OnceNew, Answering
    <3> QED BY <3>1, <3>2
  <2>2. PICK h \in Int : h = n + 1
    OBVIOUS
  <2>3. PICK k \in Int : k = o + 1
    OBVIOUS
  <2>4. k > 0 /\ (n <= o => h <= k)
    BY <2>2, <2>3
  <2>5. \/ active' = active /\ batch' = batch /\ h <= k
        \/ active' # c
        \/ Len(batch') = 0
    BY <1>1, <1>3, <1>4, <2>4 DEF Forward
  <2>6. /\ LinkOf(channel', active', batch', l, c, "NEW_LOG_ENTRY_RESPONSE", k)
              \subseteq LinkOf(channel, active, batch, l, c, "NEW_LOG_ENTRY_RESPONSE", h)
        /\ Keeps(LinkOf(channel, active, batch, l, c, "NEW_LOG_ENTRY_RESPONSE", h),
                 LinkOf(channel', active', batch', l, c, "NEW_LOG_ENTRY_RESPONSE", k))
    BY <1>2, <2>1, <2>4, <2>5, LinkShrinks DEF NoNew
  <2> QED BY <1>3, <1>4, <2>2, <2>3, <2>6 DEF Answers
<1> QED BY <1>8, <1>9

\* What a receiver leaves in a channel.
LEMMA LeftBehind ==
    ASSUME NEW q \in Seq(RPC), NEW n \in 1 .. Len(q), NEW i \in Int, n < i, i <= Len(q)
    PROVE  /\ i - n \in 1 .. Len(SubSeq(q, n + 1, Len(q)))
           /\ SubSeq(q, n + 1, Len(q))[i - n] = q[i]
<1>1. PICK m \in Nat : m = Len(q)
  BY LenProperties
<1>2. PICK a \in Int : a = n + 1
  BY <1>1
<1>3. \A e \in a .. m : q[e] \in RPC
  BY <1>1, <1>2, ElementOfSeq
<1>4. PICK t : t = SubSeq(q, a, m)
  OBVIOUS
<1>5. /\ Len(t) = IF a <= m THEN m - a + 1 ELSE 0
      /\ \A e \in 1 .. m - a + 1 : t[e] = q[a + e - 1]
  BY <1>1, <1>2, <1>3, <1>4, SubSeqProperties
<1>6. PICK j \in Int : j = i - n
  BY <1>1
<1>7. a <= m /\ j \in 1 .. m - a + 1 /\ a + j - 1 = i
  BY <1>1, <1>2, <1>6
<1>8. j \in 1 .. Len(t) /\ t[j] = q[i]
  BY <1>5, <1>7
<1> QED BY <1>1, <1>2, <1>4, <1>6, <1>8

\* What it takes.
LEMMA DrainTakes ==
    ASSUME StateTypeOK, NEW s \in Receivers, NEW r \in Ranks,
           NEW n \in 1 .. Len(channel[r][s]), NEW k \in 0 .. n, Drain(s, r, k, n)
    PROVE  /\ \A q, d \in Ranks : (q = r /\ d = s) \/ channel'[q][d] = channel[q][d]
           /\ Len(batch') = Len(batch) + k
           /\ \A i \in 1 .. Len(batch) : batch'[i] = batch[i]
           /\ \A i \in 1 .. Len(batch') : Len(batch) < i =>
                 /\ i - Len(batch) \in 1 .. k
                 /\ batch'[i] = [source |-> r, rpc |-> channel[r][s][i - Len(batch)]]
<1>1. ChannelTypeOK /\ UpdateTypeOK /\ s \in Ranks
  BY ReceiversFacts DEF StateTypeOK
<1> QED BY <1>1, DrainMoves

\* The same when s receives.
LEMMA OnceDrains ==
    ASSUME NEW l \in Servers, NEW c \in Clients, StateTypeOK,
           NEW s \in Receivers, NEW r \in Ranks, NEW n \in 1 .. Len(channel[r][s]),
           NEW k \in 0 .. n, Drain(s, r, k, n), s = c => k = n
    PROVE  /\ Keeps(Requests(l, c), Requests(l, c)')
           /\ Keeps(Answers(l, c), Answers(l, c)')
           /\ Answers(l, c) # {} => Answers(l, c)' # {}
<1>0. /\ \A q, d \in Ranks : (q = r /\ d = s) \/ channel'[q][d] = channel[q][d]
      /\ Len(batch') = Len(batch) + k
      /\ \A i \in 1 .. Len(batch) : batch'[i] = batch[i]
      /\ \A i \in 1 .. Len(batch') : Len(batch) < i =>
            /\ i - Len(batch) \in 1 .. k
            /\ batch'[i] = [source |-> r, rpc |-> channel[r][s][i - Len(batch)]]
  BY DrainTakes
<1>1. l \in Ranks /\ c \in Ranks /\ s \in Ranks /\ active = s /\ active' = s /\ done' = done
      /\ phase' = phase
  BY RanksFacts, ReceiversFacts DEF Drain
<1>2. PICK f \in Nat \ {0} : f = FirstAck
  <2>1. PICK o \in Nat : o = done
    BY DEF StateTypeOK, UpdateTypeOK
  <2>2. o + 1 \in Nat \ {0} /\ 1 \in Nat \ {0}
    OBVIOUS
  <2> QED BY <2>1, <2>2 DEF FirstAck
<1>3. PICK h \in Nat \ {0} : h = done + 1
  <2>1. PICK o \in Nat : o = done
    BY DEF StateTypeOK, UpdateTypeOK
  <2>2. o + 1 \in Nat \ {0}
    OBVIOUS
  <2> QED BY <2>1, <2>2
<1>4. FirstAck' = f /\ (done + 1)' = h
  BY <1>1, <1>2, <1>3 DEF FirstAck
<1>5. /\ Keeps(LinkOf(channel, active, batch, c, l, "NEW_LOG_ENTRY", f),
               LinkOf(channel', active', batch', c, l, "NEW_LOG_ENTRY", f))
      /\ Keeps(LinkOf(channel, active, batch, l, c, "NEW_LOG_ENTRY_RESPONSE", h),
               LinkOf(channel', active', batch', l, c, "NEW_LOG_ENTRY_RESPONSE", h))
  BY <1>1, LinkDrains DEF StateTypeOK
<1>6. /\ Requests(l, c) = LinkOf(channel, active, batch, c, l, "NEW_LOG_ENTRY", f)
      /\ Requests(l, c)' = LinkOf(channel', active', batch', c, l, "NEW_LOG_ENTRY", f)
      /\ Answers(l, c) = LinkOf(channel, active, batch, l, c, "NEW_LOG_ENTRY_RESPONSE", h)
      /\ Answers(l, c)' = LinkOf(channel', active', batch', l, c, "NEW_LOG_ENTRY_RESPONSE", h)
  BY <1>2, <1>3, <1>4 DEF Requests, Answers
<1>7. ASSUME NEW x \in Answers(l, c) PROVE Answers(l, c)' # {}
  <2>2. Len(batch) \in Nat /\ h <= Len(batch) + 1
    BY <1>3, LengthsAreNat
  <2>3. /\ \A i \in 1 .. Len(channel'[l][c]) :
              channel'[l][c][i].type = "NEW_LOG_ENTRY_RESPONSE" => Answers(l, c)' # {}
        /\ \A i \in h .. Len(batch') :
              active' = c /\ batch'[i].source = l /\ batch'[i].rpc.type = "NEW_LOG_ENTRY_RESPONSE"
                 => Answers(l, c)' # {}
    <3>1. PICK B : B = LinkOf(channel', active', batch', l, c, "NEW_LOG_ENTRY_RESPONSE", h)
      OBVIOUS
    <3>2. /\ \A i \in 1 .. Len(channel'[l][c]) :
                channel'[l][c][i].type = "NEW_LOG_ENTRY_RESPONSE" =>
                   [stage |-> "sent", place |-> i, rpc |-> channel'[l][c][i]] \in B
          /\ \A i \in h .. Len(batch') :
                active' = c /\ batch'[i].source = l /\ batch'[i].rpc.type = "NEW_LOG_ENTRY_RESPONSE"
                   => [stage |-> "taken", place |-> i, rpc |-> batch'[i].rpc] \in B
      BY <3>1, LinkFacts
    <3> QED BY <1>6, <3>1, <3>2
  <2>4. CASE \E i \in h .. Len(batch) :
                /\ active = c
                /\ batch[i].source = l
                /\ batch[i].rpc.type = "NEW_LOG_ENTRY_RESPONSE"
    <3>1. PICK i \in h .. Len(batch) : /\ active = c
                                       /\ batch[i].source = l
                                       /\ batch[i].rpc.type = "NEW_LOG_ENTRY_RESPONSE"
      BY <2>4
    <3>2. i \in h .. Len(batch') /\ i \in 1 .. Len(batch)
      BY <1>0, <2>2
    <3> QED BY <1>1, <1>0, <2>3, <3>1, <3>2
  <2>5. CASE \E i \in 1 .. Len(channel[l][c]) :
                channel[l][c][i].type = "NEW_LOG_ENTRY_RESPONSE"
    <3>1. PICK i \in 1 .. Len(channel[l][c]) : channel[l][c][i].type = "NEW_LOG_ENTRY_RESPONSE"
      BY <2>5
    <3>2. CASE ~(l = r /\ c = s)
      BY <1>1, <1>0, <2>3, <3>1, <3>2
    <3>3. CASE l = r /\ c = s /\ i <= k
      <4>1. PICK b \in Nat : b = Len(batch) /\ h <= b + 1
        BY <2>2
      <4>2. PICK j \in Int : j = b + i
        OBVIOUS
      <4>3. h <= j /\ j <= b + k /\ b < j /\ j - b = i
        BY <3>3, <4>1, <4>2
      <4>4. j \in h .. Len(batch') /\ j \in 1 .. Len(batch')
        BY <1>0, <4>1, <4>2, <4>3
      <4>5. batch'[j] = [source |-> r, rpc |-> channel[r][s][i]]
        BY <1>0, <4>1, <4>3, <4>4
      <4>6. active' = c /\ batch'[j].source = l
            /\ batch'[j].rpc.type = "NEW_LOG_ENTRY_RESPONSE"
        BY <1>1, <3>1, <3>3, <4>5
      <4> QED BY <2>3, <4>4, <4>6
    <3>4. CASE l = r /\ c = s /\ ~(i <= k)
      <4>1. channel' = [channel EXCEPT ![r][s] = SubSeq(channel[r][s], n + 1, Len(channel[r][s]))]
            /\ k = n
        BY <3>4 DEF Drain
      <4>2. channel[r][s] \in Seq(RPC) /\ channel \in Channels
        BY <1>1 DEF StateTypeOK, ChannelTypeOK, Channels
      <4>3. channel'[r][s] = SubSeq(channel[r][s], n + 1, Len(channel[r][s]))
        BY <1>1, <4>1, <4>2 DEF Channels
      <4>4. PICK q \in Seq(RPC) : q = channel[r][s]
        BY <4>2
      <4>5. i \in Int /\ n \in 1 .. Len(q) /\ n < i /\ i <= Len(q)
        BY <3>4, <4>1, <4>4
      <4>6. /\ i - n \in 1 .. Len(SubSeq(q, n + 1, Len(q)))
            /\ SubSeq(q, n + 1, Len(q))[i - n] = q[i]
        BY <4>5, LeftBehind
      <4>7. PICK j : j = i - n
        OBVIOUS
      <4>8. j \in 1 .. Len(channel'[r][s]) /\ channel'[r][s][j] = channel[r][s][i]
        BY <4>3, <4>4, <4>6, <4>7
      <4>9. j \in 1 .. Len(channel'[l][c]) /\ channel'[l][c][j].type = "NEW_LOG_ENTRY_RESPONSE"
        BY <3>1, <3>4, <4>8
      <4> QED BY <2>3, <4>9
    <3> QED BY <3>2, <3>3, <3>4
  <2> QED BY <1>6, <2>4, <2>5, LinkFacts
<1> QED BY <1>5, <1>6, <1>7

\* An answer is only lost to a client that takes it.
LEMMA AnswersRemain ==
    ASSUME NEW l \in Servers, NEW c \in Clients, StateTypeOK, StateTypeOK', OnceSent(l),
           \/ active # c
           \/ done = Len(batch)
           \/ /\ UNCHANGED <<active, batch>>
              /\ \/ done' = done
                 \/ done' = done + 1 /\ batch[done + 1].rpc.type # "NEW_LOG_ENTRY_RESPONSE",
           Answers(l, c) # {}
    PROVE  Answers(l, c)' # {}
<1>1. l \in Ranks /\ c \in Ranks /\ c \in Receivers
  BY RanksFacts DEF Receivers
<1>2. PICK h \in Nat \ {0} : h = done + 1
  <2>1. PICK o \in Nat : o = done
    BY DEF StateTypeOK, UpdateTypeOK
  <2>2. o + 1 \in Nat \ {0}
    OBVIOUS
  <2> QED BY <2>1, <2>2
<1>3. PICK g \in Nat \ {0} : g = done' + 1
  <2>1. PICK o \in Nat : o = done'
    BY DEF StateTypeOK, UpdateTypeOK
  <2>2. o + 1 \in Nat \ {0}
    OBVIOUS
  <2> QED BY <2>1, <2>2
<1>4. /\ Answers(l, c) = LinkOf(channel, active, batch, l, c, "NEW_LOG_ENTRY_RESPONSE", h)
      /\ Answers(l, c)' = LinkOf(channel', active', batch', l, c, "NEW_LOG_ENTRY_RESPONSE", g)
  BY <1>2, <1>3 DEF Answers
<1>5. /\ \A i \in 1 .. Len(channel'[l][c]) :
            channel'[l][c][i].type = "NEW_LOG_ENTRY_RESPONSE" => Answers(l, c)' # {}
      /\ \A i \in g .. Len(batch') :
            active' = c /\ batch'[i].source = l /\ batch'[i].rpc.type = "NEW_LOG_ENTRY_RESPONSE"
               => Answers(l, c)' # {}
  <2>1. PICK B : B = LinkOf(channel', active', batch', l, c, "NEW_LOG_ENTRY_RESPONSE", g)
    OBVIOUS
  <2>2. /\ \A i \in 1 .. Len(channel'[l][c]) :
              channel'[l][c][i].type = "NEW_LOG_ENTRY_RESPONSE" =>
                 [stage |-> "sent", place |-> i, rpc |-> channel'[l][c][i]] \in B
        /\ \A i \in g .. Len(batch') :
              active' = c /\ batch'[i].source = l /\ batch'[i].rpc.type = "NEW_LOG_ENTRY_RESPONSE"
                 => [stage |-> "taken", place |-> i, rpc |-> batch'[i].rpc] \in B
    BY <2>1, LinkFacts
  <2> QED BY <1>4, <2>1, <2>2
<1>6. /\ Len(channel[l][c]) \in Nat /\ Len(channel'[l][c]) \in Nat
      /\ Len(batch) \in Nat /\ done \in Nat
  <2>1. Len(channel[l][c]) \in Nat /\ Len(batch) \in Nat /\ done \in Nat
    BY <1>1, LengthsAreNat DEF StateTypeOK, UpdateTypeOK
  <2>2. channel'[l][c] \in Seq(RPC)
    BY <1>1 DEF StateTypeOK, ChannelTypeOK
  <2> QED BY <2>1, <2>2, LenProperties
<1>7. CASE \E i \in 1 .. Len(channel[l][c]) : channel[l][c][i].type = "NEW_LOG_ENTRY_RESPONSE"
  <2>1. PICK i \in 1 .. Len(channel[l][c]) : channel[l][c][i].type = "NEW_LOG_ENTRY_RESPONSE"
    BY <1>7
  <2>2. Len(channel[l][c]) <= Len(channel'[l][c]) /\ channel'[l][c][i] = channel[l][c][i]
    BY <1>1 DEF OnceSent
  <2>3. i \in 1 .. Len(channel'[l][c])
    BY <1>6, <2>2
  <2> QED BY <1>5, <2>1, <2>2, <2>3
<1>8. CASE \E i \in h .. Len(batch) : /\ active = c
                                      /\ batch[i].source = l
                                      /\ batch[i].rpc.type = "NEW_LOG_ENTRY_RESPONSE"
  <2>1. PICK i \in h .. Len(batch) : /\ active = c
                                     /\ batch[i].source = l
                                     /\ batch[i].rpc.type = "NEW_LOG_ENTRY_RESPONSE"
    BY <1>8
  <2>2. done # Len(batch)
    BY <1>2, <1>6, <2>1
  <2>3. UNCHANGED <<active, batch>>
    BY <2>1, <2>2
  <2>4. i \in g .. Len(batch)
    <3>1. CASE done' = done
      BY <1>2, <1>3, <3>1
    <3>2. CASE done' = done + 1 /\ batch[done + 1].rpc.type # "NEW_LOG_ENTRY_RESPONSE"
      <4>1. i # h
        BY <1>2, <2>1, <3>2
      <4>2. g = h + 1
        BY <1>2, <1>3, <1>6, <3>2
      <4> QED BY <1>6, <4>1, <4>2
    <3> QED BY <2>1, <2>2, <3>1, <3>2
  <2> QED BY <1>5, <2>1, <2>3, <2>4
<1> QED BY <1>4, <1>7, <1>8, LinkFacts

----------------------------------------------------------------------------
(* What is known of each process stays so. *)

LEMMA NoServerChecks ==
    ASSUME NEW s \in Servers, ServerStep(s)
    PROVE  phase' # "check"
<1>1. CASE StartUpdate(s) \/ ReceiveAll(s) \/ ApplyEntry(s) \/ BeginHandling(s)
  BY <1>1 DEF StartUpdate, Begin, ReceiveAll, Receive, ReceiveGarbled, Drain, ApplyEntry, Abort,
     EndUpdate, BeginHandling
<1>2. CASE HandleQuery(s)
  BY <1>2 DEF HandleQuery, StepDown, HandleHeartbeat, HandleVoteRequest,
     HandleVoteRequestThrows, HandleAppendEntriesDenied, HandleAppendEntries,
     AnswerSearchLeader, DenyNewLogEntry, PassOver, Handling, Abort, EndUpdate, QueryDone, NextQuery
<1>3. CASE HandleMessage(s)
  BY <1>3 DEF HandleMessage, HandleDisplayOrSpeed, HandleStop, HandleCrash,
     HandleRecover, HandleServerTimeout, Ordered, Handling, QueryDone, NextQuery
<1>4. CASE Routine(s)
  BY <1>4 DEF Routine, NoRoutine, FollowerTimesOut, CandidateDefers, CandidateWins,
     CandidateWaits, CandidateTimesOut, CandidateCounts, LeaderBeats, LeaderSkipsBeat,
     LeaderAppends, LeaderCountsSuccess, LeaderBacksUp, LeaderPassesOver, LeaderCommits,
     Leading, Abort, EndUpdate, QueryDone, NextQuery
<1> QED BY <1>1, <1>2, <1>3, <1>4 DEF ServerStep

\* The queue of the leader changes with its own steps alone, and with two of
\* them.
LEMMA LeaderQueueMoves ==
    ASSUME NEW l \in Servers, LogsInv(l), TermsUnder(l), NEW s \in Servers, ServerStep(s),
           ~LeaderAppends(l), ~ApplyEntry(l)
    PROVE  UNCHANGED <<server_log[l], entries_queue[l]>>
<1>1. StateTypeOK
  BY DEF LogsInv
<1>2. CASE s # l
  BY <1>1, <1>2, OthersLeaveQueue
<1>3. CASE s = l
  <2>1. ~HandleCrash(l) /\ ~HandleAppendEntries(l)
    BY <1>1, NeverDown, LeaderMergesNothing
  <2> QED BY <1>3, <2>1, QueueFrame
<1> QED BY <1>2, <1>3

\* The request the leader appends is one of a client under way to it.
LEMMA AppendsRequest ==
    ASSUME NEW l \in Servers, StateTypeOK, OnceUnderWay(l), LeaderAppends(l)
    PROVE  LET q == batch[done + 1] IN
           /\ active = l /\ phase = "lead" /\ done < Len(batch) /\ done + 1 \in 1 .. Len(batch)
           /\ q.rpc.type = "NEW_LOG_ENTRY" /\ q.rpc.command \in Commands
           /\ q.source \in Clients
           /\ entries_queue'[l] = Append(entries_queue[l],
                                         [source |-> q.source, command |-> q.rpc.command])
           /\ server_log'[l] = Append(server_log[l],
                                      [term |-> current_term[l], command |-> q.rpc.command])
           /\ UNCHANGED <<channel, active, phase, batch>> /\ done' = done + 1
<1>1. /\ active = l /\ phase = "lead" /\ done < Len(batch)
      /\ batch[done + 1].rpc.type = "NEW_LOG_ENTRY"
      /\ entries_queue' = [entries_queue EXCEPT ![l] = Enqueued(entries_queue[l], batch[done + 1])]
      /\ server_log' = [server_log EXCEPT ![l] = Append(server_log[l],
             [term |-> current_term[l], command |-> batch[done + 1].rpc.command])]
      /\ UNCHANGED <<channel, active, phase, batch>> /\ done' = done + 1
  BY DEF LeaderAppends, Leading, NextQuery
<1>2. done + 1 \in 1 .. Len(batch) /\ batch[done + 1].rpc.command \in Commands
  BY <1>1, QueryFacts, RpcFields DEF StateTypeOK
<1>3. batch[done + 1].source \in Clients
  BY <1>1, <1>2 DEF OnceUnderWay, OnceGood, Receivers
<1>4. /\ entries_queue'[l] = Enqueued(entries_queue[l], batch[done + 1])
      /\ server_log'[l] = Append(server_log[l],
             [term |-> current_term[l], command |-> batch[done + 1].rpc.command])
  BY <1>1 DEF StateTypeOK, LeaderTypeOK, LogTypeOK
<1> QED BY <1>1, <1>2, <1>3, <1>4 DEF Enqueued

\* A leader that applies answers the first request waiting.
LEMMA AppliesFirst ==
    ASSUME NEW l \in Servers, StateTypeOK, ApplyEntry(l)
    PROVE  /\ active = l /\ UNCHANGED server_log
           /\ \/ UNCHANGED <<channel, entries_queue>>
              \/ /\ entries_queue[l] # << >>
                 /\ entries_queue'[l] = Tail(entries_queue[l])
                 /\ Reply(l, Head(entries_queue[l]).source, NewLogEntryResponse(TRUE))
                 /\ UNCHANGED <<active, batch, done>>
<1>1. active = l /\ UNCHANGED server_log
  BY DEF ApplyEntry, logVars
<1>2. PICK throws :
         /\ IF status[l] = "LEADER" /\ ~throws /\ entries_queue[l] # << >>
            THEN /\ Reply(l, Head(entries_queue[l]).source, NewLogEntryResponse(TRUE))
                 /\ entries_queue' = [entries_queue EXCEPT ![l] = Tail(entries_queue[l])]
            ELSE UNCHANGED <<channel, entries_queue>>
         /\ IF throws \/ (status[l] = "LEADER" /\ entries_queue[l] = << >>)
            THEN Abort(l)
            ELSE UNCHANGED <<active, batch, done>>
  BY DEF ApplyEntry
<1>3. CASE status[l] = "LEADER" /\ ~throws /\ entries_queue[l] # << >>
  <2>1. entries_queue'[l] = Tail(entries_queue[l])
    BY <1>2, <1>3 DEF StateTypeOK, LeaderTypeOK
  <2> QED BY <1>1, <1>2, <1>3, <2>1
<1>4. CASE ~(status[l] = "LEADER" /\ ~throws /\ entries_queue[l] # << >>)
  BY <1>1, <1>2, <1>4
<1> QED BY <1>3, <1>4

LEMMA QueueOfClients ==
    ASSUME NEW l \in Servers, LogsInv(l), TermsUnder(l), OnceUnderWay(l), OnceHeld(l),
           NEW s \in Servers, ServerStep(s)
    PROVE  \A i \in 1 .. Len(entries_queue'[l]) : entries_queue'[l][i].source \in Clients
<1>1. /\ StateTypeOK
      /\ \A i \in 1 .. Len(entries_queue[l]) : entries_queue[l][i].source \in Clients
  BY DEF LogsInv, OnceHeld
<1>2. PICK S : entries_queue[l] \in Seq(S)
  BY <1>1 DEF StateTypeOK, LeaderTypeOK
<1>3. Len(entries_queue[l]) \in Nat
  BY <1>2, LenProperties
<1>4. CASE LeaderAppends(l)
  <2>1. PICK x : /\ x.source \in Clients
                 /\ entries_queue'[l] = Append(entries_queue[l], x)
    BY <1>1, <1>4, AppendsRequest
  <2>2. PICK q \in Seq(S \cup {x}) : q = entries_queue[l]
    BY <1>2
  <2>3. /\ Len(Append(q, x)) = Len(q) + 1
        /\ \A i \in 1 .. Len(q) : Append(q, x)[i] = q[i]
        /\ Append(q, x)[Len(q) + 1] = x
    BY AppendProperties
  <2>4. \A i \in 1 .. Len(q) + 1 : i \in 1 .. Len(q) \/ i = Len(q) + 1
    BY <1>3, <2>2
  <2> QED BY <1>1, <2>1, <2>2, <2>3, <2>4
<1>5. CASE ApplyEntry(l)
  <2>1. CASE UNCHANGED entries_queue
    BY <1>1, <2>1
  <2>2. CASE entries_queue[l] # << >> /\ entries_queue'[l] = Tail(entries_queue[l])
    <3>1. \A i \in 1 .. Len(Tail(entries_queue[l])) :
             i + 1 \in 1 .. Len(entries_queue[l])
                /\ Tail(entries_queue[l])[i] = entries_queue[l][i + 1]
      BY <1>2, <1>3, <2>2, HeadTailProperties
    <3> QED BY <1>1, <2>2, <3>1
  <2> QED BY <1>1, <1>5, <2>1, <2>2, AppliesFirst
<1>6. CASE ~LeaderAppends(l) /\ ~ApplyEntry(l)
  BY <1>1, <1>6, LeaderQueueMoves
<1> QED BY <1>4, <1>5, <1>6

\* The leader goes on leading, whoever acts.
LEMMA LeadsOn ==
    ASSUME NEW l \in Servers, LogsInv(l), TermsUnder(l), StillLeads(l),
           UNCHANGED status \/ \E s \in Servers : ServerStep(s)
    PROVE  status[l] = "LEADER" => status'[l] = "LEADER"
<1>1. StateTypeOK
  BY DEF LogsInv
<1>2. ASSUME NEW s \in Servers, ServerStep(s)
      PROVE  status[l] = "LEADER" => status'[l] = "LEADER"
  <2>1. CASE s # l
    BY <1>1, <1>2, <2>1, OthersLeaveQueue
  <2>2. CASE s = l
    BY <1>1, <1>2, <2>2, NeverDown, LeaderRemains
  <2> QED BY <2>1, <2>2
<1> QED BY <1>2

\* A client changes nothing of the others.
LEMMA OwnClientOnly ==
    ASSUME ClientTypeOK, NEW c \in Clients, NEW w, ClientStep(c, w), NEW d \in Clients, d # c
    PROVE  UNCHANGED <<leader_rank[d], entries_to_send[d], entry_sent[d], popped[d]>>
<1> USE DEF clientState, ClientTypeOK
<1>1. CASE StartClient(c) \/ ClientReceives(c) \/ ClientHandles(c)
  BY <1>1 DEF StartClient, ClientReceives, ClientHandles
<1>2. CASE ClientHandlesQuery(c)
  <2>1. CASE LearnLeader(c) \/ TakeSuccess(c) \/ TakeFailure(c)
    BY <2>1 DEF LearnLeader, TakeSuccess, TakeFailure, ForgetLeader
  <2>2. CASE NewEntries(c) \/ DisplayOrSpeed(c) \/ Stop(c)
    BY <2>2 DEF NewEntries, DisplayOrSpeed, Stop, AnswerOrder
  <2>3. CASE Recover(c) \/ Start(c) \/ Crash(c)
    BY <2>3 DEF Recover, Start, Crash, AnswerOrder, ForgetLeader
  <2> QED BY <1>2, <2>1, <2>2, <2>3 DEF ClientHandlesQuery
<1>3. CASE ClientRoutine(c, w)
  <2>1. CASE StaysDead(c) \/ Search(c, w) \/ SendNothing(c) \/ AnswerNotOverdue(c)
    BY <2>1 DEF StaysDead, Search, SendNothing, AnswerNotOverdue
  <2>2. CASE SendEntry(c) \/ AnswerOverdue(c, w)
    BY <2>2 DEF SendEntry, AnswerOverdue, ForgetLeader
  <2> QED BY <1>3, <2>1, <2>2 DEF ClientRoutine
<1> QED BY <1>1, <1>2, <1>3 DEF ClientStep

\* What a client does to its queue, its flag and the commands it popped.
LEMMA ClientMoves ==
    ASSUME ClientTypeOK, NEW c \in Clients, NEW w, ClientStep(c, w)
    PROVE  \/ TakeSuccess(c) \/ TakeFailure(c) \/ SendEntry(c) \/ AnswerOverdue(c, w)
           \/ UNCHANGED <<entry_sent, popped>> /\ NewEntries(c)
           \/ UNCHANGED <<entry_sent, popped, entries_to_send>>
<1> USE DEF clientState, ClientTypeOK
<1>1. CASE StartClient(c) \/ ClientReceives(c) \/ ClientHandles(c)
  BY <1>1 DEF StartClient, ClientReceives, ClientHandles
<1>2. CASE ClientHandlesQuery(c)
  <2>1. CASE LearnLeader(c) \/ DisplayOrSpeed(c) \/ Stop(c)
    BY <2>1 DEF LearnLeader, DisplayOrSpeed, Stop, AnswerOrder
  <2>2. CASE NewEntries(c)
    BY <2>2 DEF NewEntries, AnswerOrder
  <2>3. CASE Recover(c) \/ Start(c) \/ Crash(c)
    BY <2>3 DEF Recover, Start, Crash, AnswerOrder
  <2> QED BY <1>2, <2>1, <2>2, <2>3 DEF ClientHandlesQuery
<1>3. CASE ClientRoutine(c, w)
  <2>1. CASE StaysDead(c) \/ Search(c, w) \/ SendNothing(c) \/ AnswerNotOverdue(c)
    BY <2>1 DEF StaysDead, Search, SendNothing, AnswerNotOverdue
  <2> QED BY <1>3, <2>1 DEF ClientRoutine
<1> QED BY <1>1, <1>2, <1>3 DEF ClientStep

\* The leader a client knows is the leader.
LEMMA LeaderKnown ==
    ASSUME NEW l, StateTypeOK, ClientTypeOK, OnceUnderWay(l), OnceHeld(l),
           NEW c \in Clients, NEW w, ClientStep(c, w)
    PROVE  leader_rank'[c] # 0 => leader_rank'[c] = l /\ status[l] = "LEADER"
<1> USE DEF clientState
<1>1. leader_rank[c] # 0 => leader_rank[c] = l /\ status[l] = "LEADER"
  BY DEF OnceHeld
<1>2. UNCHANGED leader_rank \/ ForgetLeader(c) \/ LearnLeader(c)
  <2>1. CASE StartClient(c) \/ ClientReceives(c) \/ ClientHandles(c)
    BY <2>1 DEF StartClient, ClientReceives, ClientHandles
  <2>2. CASE ClientHandlesQuery(c)
    <3>1. CASE TakeSuccess(c) \/ TakeFailure(c) \/ NewEntries(c) \/ DisplayOrSpeed(c) \/ Stop(c)
      BY <3>1 DEF TakeSuccess, TakeFailure, NewEntries, DisplayOrSpeed, Stop
    <3>2. CASE Recover(c) \/ Start(c) \/ Crash(c)
      BY <3>2 DEF Recover, Start, Crash
    <3> QED BY <2>2, <3>1, <3>2 DEF ClientHandlesQuery
  <2>3. CASE ClientRoutine(c, w)
    BY <2>3 DEF ClientRoutine, StaysDead, Search, SendEntry, SendNothing, AnswerOverdue,
       AnswerNotOverdue
  <2> QED BY <2>1, <2>2, <2>3 DEF ClientStep
<1>3. CASE UNCHANGED leader_rank
  BY <1>1, <1>3
<1>4. CASE ForgetLeader(c)
  BY <1>4 DEF ForgetLeader, ClientTypeOK
<1>5. CASE LearnLeader(c)
  <2>1. /\ active = c /\ done < Len(batch)
        /\ batch[done + 1].rpc.type = "SEARCH_LEADER_RESPONSE"
        /\ leader_rank' \in {leader_rank,
              [leader_rank EXCEPT ![c] = batch[done + 1].rpc.leader_rank]}
    BY <1>5 DEF LearnLeader, ClientHandling
  <2>2. done + 1 \in 1 .. Len(batch) /\ active \in Receivers
    BY <2>1, QueryFacts DEF StateTypeOK, Receivers
  <2>3. batch[done + 1].rpc.leader_rank = l /\ status[l] = "LEADER"
    BY <2>1, <2>2 DEF OnceUnderWay, OnceGood
  <2>4. leader_rank'[c] \in {leader_rank[c], l}
    BY <2>1, <2>3 DEF ClientTypeOK
  <2> QED BY <1>1, <2>3, <2>4
<1> QED BY <1>2, <1>3, <1>4, <1>5

\* The new commands are the client's, and follow those of its queue.
LEMMA QueueGrows ==
    ASSUME NEW l, StateTypeOK, ClientTypeOK, OnceUnderWay(l), NEW c \in Clients, NewEntries(c)
    PROVE  \E x \in Seq(Commands) :
              /\ entries_to_send'[c] = entries_to_send[c] \o x
              /\ \A i \in 1 .. Len(x) : x[i] \in CommandsOfClient(c)
<1>1. /\ active = c /\ done < Len(batch)
      /\ batch[done + 1].rpc.type = "MESSAGE"
      /\ entries_to_send' = [entries_to_send EXCEPT
             ![c] = entries_to_send[c] \o batch[done + 1].rpc.content]
  BY DEF NewEntries, OrderOf, ClientHandling
<1>2. done + 1 \in 1 .. Len(batch) /\ active \in Receivers /\ batch[done + 1].rpc \in RPC
  BY <1>1, QueryFacts DEF StateTypeOK, Receivers
<1>3. PICK x \in Seq(Commands) : x = batch[done + 1].rpc.content
  BY <1>1, <1>2, RpcFields
<1>4. Range(x) \subseteq CommandsOfClient(c)
  BY <1>1, <1>2, <1>3 DEF OnceUnderWay, OnceGood
<1>5. \A i \in 1 .. Len(x) : x[i] \in Range(x)
  BY LenProperties DEF Range
<1> QED BY <1>1, <1>3, <1>4, <1>5 DEF ClientTypeOK

\* An acknowledgement takes the first command, if there is one.
LEMMA SuccessTakes ==
    ASSUME ClientTypeOK, NEW c \in Clients, TakeSuccess(c)
    PROVE  /\ UNCHANGED <<channel, leader_rank>> /\ active = c
           /\ entries_to_send[c] # << >> =>
                 /\ entries_to_send'[c] = Tail(entries_to_send[c])
                 /\ popped'[c] = Append(popped[c], Head(entries_to_send[c]))
                 /\ entry_sent'[c] = TRUE
                 /\ UNCHANGED <<active, batch, endVars>> /\ done' = done + 1
           /\ entries_to_send[c] = << >> => UNCHANGED <<entries_to_send, popped, entry_sent>>
  BY DEF TakeSuccess, ClientHandling, NextQuery, ClientTypeOK

LEMMA CommandsAreOwn ==
    ASSUME NEW l, StateTypeOK, ClientTypeOK, OnceUnderWay(l), OnceHeld(l),
           NEW c \in Clients, NEW w, ClientStep(c, w)
    PROVE  \A i \in 1 .. Len(entries_to_send'[c]) : entries_to_send'[c][i] \in CommandsOfClient(c)
<1>1. PICK e \in Seq(Commands) : e = entries_to_send[c]
  BY DEF ClientTypeOK
<1>2. Len(e) \in Nat /\ \A i \in 1 .. Len(e) : e[i] \in CommandsOfClient(c)
  BY <1>1, LenProperties DEF OnceHeld
<1>3. CASE UNCHANGED entries_to_send
  BY <1>1, <1>2, <1>3
<1>4. CASE NewEntries(c)
  <2>1. PICK x \in Seq(Commands) : /\ entries_to_send'[c] = e \o x
                                   /\ \A i \in 1 .. Len(x) : x[i] \in CommandsOfClient(c)
    BY <1>1, <1>4, QueueGrows
  <2>2. /\ Len(x) \in Nat /\ Len(e \o x) = Len(e) + Len(x)
        /\ \A i \in 1 .. Len(e) + Len(x) : (e \o x)[i] = IF i <= Len(e) THEN e[i] ELSE x[i - Len(e)]
    BY ConcatProperties, LenProperties
  <2>3. ASSUME NEW i \in 1 .. Len(e) + Len(x) PROVE (e \o x)[i] \in CommandsOfClient(c)
    <3>1. CASE i <= Len(e)
      <4>1. i \in 1 .. Len(e)
        BY <1>2, <3>1
      <4> QED BY <1>2, <2>2, <3>1, <4>1
    <3>2. CASE ~(i <= Len(e))
      <4>1. i - Len(e) \in 1 .. Len(x)
        BY <1>2, <2>2, <3>2
      <4> QED BY <2>1, <2>2, <3>2, <4>1
    <3> QED BY <3>1, <3>2
  <2> QED BY <2>1, <2>2, <2>3
<1>5. CASE TakeSuccess(c) /\ e # << >>
  <2>1. entries_to_send'[c] = Tail(e)
    BY <1>1, <1>5, SuccessTakes
  <2>2. \A i \in 1 .. Len(Tail(e)) : i + 1 \in 1 .. Len(e) /\ Tail(e)[i] = e[i + 1]
    BY <1>2, <1>5, HeadTailProperties
  <2> QED BY <1>2, <2>1, <2>2
<1>6. CASE TakeSuccess(c) /\ e = << >>
  BY <1>1, <1>2, <1>6, SuccessTakes
<1>7. CASE TakeFailure(c) \/ SendEntry(c) \/ AnswerOverdue(c, w)
  BY <1>3, <1>7 DEF TakeFailure, SendEntry, AnswerOverdue
<1> QED BY <1>3, <1>4, <1>5, <1>6, <1>7, ClientMoves

\* After the check for a request there are no queries left.
LEMMA ChecksAtEnd ==
    ASSUME NEW l, OnceHeld(l), NEW c \in Clients, NEW w, ClientStep(c, w)
    PROVE  phase' = "check" => done' = Len(batch')
<1>1. CASE StartClient(c) \/ ClientReceives(c) \/ ClientHandles(c)
  BY <1>1 DEF StartClient, Begin, ClientReceives, Receive, Drain, ClientHandles
<1>2. CASE ClientHandlesQuery(c)
  <2>1. CASE LearnLeader(c) \/ TakeSuccess(c) \/ TakeFailure(c)
    BY <2>1 DEF LearnLeader, TakeSuccess, TakeFailure, ClientHandling, NextQuery, Abort, EndUpdate
  <2>2. CASE \/ NewEntries(c) \/ DisplayOrSpeed(c) \/ Recover(c)
             \/ Start(c) \/ Crash(c) \/ Stop(c)
    BY <2>2 DEF NewEntries, DisplayOrSpeed, Recover, Start, Crash, Stop, AnswerOrder, OrderOf,
       ClientHandling, NextQuery
  <2> QED BY <1>2, <2>1, <2>2 DEF ClientHandlesQuery
<1>3. CASE ClientRoutine(c, w)
  BY <1>3 DEF ClientRoutine, StaysDead, Search, SendEntry, SendNothing, AnswerOverdue,
     AnswerNotOverdue, AllHandled, ThenCheck, EndUpdate
<1> QED BY <1>1, <1>2, <1>3 DEF ClientStep

----------------------------------------------------------------------------
(* The steps of the program: a process receives, or sends and goes on.     *)

\* What the steps start from.
OnceBase(l) ==
    ProgramTypeInv /\ QueueInv(l) /\ OnceUnderWay(l) /\ OnceHeld(l)

LEMMA OnceBaseFacts ==
    ASSUME NEW l, OnceBase(l)
    PROVE  /\ StateTypeOK /\ ChannelTypeOK /\ UpdateTypeOK /\ ClientTypeOK /\ ControllerTypeOK
           /\ LogsInv(l) /\ LeadInv(l) /\ TermsUnder(l) /\ StillLeads(l)
           /\ OnceUnderWay(l) /\ OnceHeld(l)
  BY DEF OnceBase, ProgramTypeInv, TypeOK, StateTypeOK, QueueInv, OrderInv, LeaderInv

Receiving ==
    /\ \E s \in Receivers, r \in Ranks : \E n \in 1 .. Len(channel[r][s]) : \E k \in 0 .. n :
          Drain(s, r, k, n) /\ (s \in Clients => k = n)
    /\ UNCHANGED <<serverState, clientState, controllerState>>

\* So a client receives.
LEMMA ClientReceiving ==
    ASSUME NEW c \in Clients, ClientReceives(c), UNCHANGED <<serverState, controllerState>>
    PROVE  Receiving
<1>1. c \in Receivers
  BY DEF Receivers
<1>2. PICK r \in Ranks : Receive(c, r)
  BY DEF ClientReceives
<1>3. PICK k \in 1 .. Len(channel[r][c]) : Drain(c, r, k, k)
  BY <1>2 DEF Receive
<1>4. k \in 0 .. k
  BY <1>3
<1>5. UNCHANGED clientState
  BY DEF ClientReceives
<1> QED BY <1>1, <1>3, <1>4, <1>5 DEF Receiving

LEMMA OnceTurns ==
    ASSUME NEW l \in Servers, Electable = {l}, OnceBase(l), StateTypeOK', [Next]_vars
    PROVE  Receiving \/ (OnceSent(l) /\ Forward(l))
<1>1. /\ StateTypeOK /\ ChannelTypeOK /\ UpdateTypeOK /\ ClientTypeOK /\ ControllerTypeOK
      /\ LogsInv(l) /\ LeadInv(l) /\ OnceUnderWay(l) /\ OnceHeld(l)
  BY OnceBaseFacts
<1>2. ASSUME NEW s \in Servers, ServerTurn(ServerStep(s))
      PROVE  Receiving \/ (OnceSent(l) /\ Forward(l))
  <2>1. ServerStep(s) /\ UNCHANGED <<clientState, controllerState>>
    BY <1>2 DEF ServerTurn
  <2>2. CASE ReceiveAll(s)
    <3>1. s \in Receivers /\ s \in Ranks /\ s \notin Clients
      BY RanksFacts, ClientFacts DEF Receivers
    <3>2. PICK r \in Ranks : Receive(s, r) \/ ReceiveGarbled(s, r)
      BY <2>2 DEF ReceiveAll
    <3>3. PICK n \in 1 .. Len(channel[r][s]) : \E k \in 0 .. n : Drain(s, r, k, n)
      BY <1>1, <3>1, <3>2, ReceiveIsDrain
    <3> QED BY <2>1, <2>2, <3>1, <3>3 DEF Receiving, ReceiveAll
  <2>3. CASE ~ReceiveAll(s)
    BY <1>1, <2>1, <2>3, OnceServerSent, OnceServerForward
  <2> QED BY <2>2, <2>3
<1>3. ASSUME NEW c \in Clients, ClientTurn(ClientStep(c, WaitingFor(c)))
      PROVE  Receiving \/ (OnceSent(l) /\ Forward(l))
  <2>1. PICK w : ClientStep(c, w)
    BY <1>3 DEF ClientTurn
  <2>2. CASE ClientReceives(c)
    BY <1>3, <2>2, ClientReceiving DEF ClientTurn
  <2>3. CASE ~ClientReceives(c)
    BY <1>1, <2>1, <2>3, OnceClientSent, OnceClientForward
  <2> QED BY <2>2, <2>3
<1>4. CASE ControllerStep /\ UNCHANGED <<serverState, clientState>>
  <2>1. OnceSent(l)
    BY <1>1, <1>4, OnceControllerSent
  <2>2. UNCHANGED updateVars
    BY <1>4 DEF ControllerStep, GiveOrder, TakeAnswer, GiveUp, StopAll, StopNext, StopsReturn,
       EndOfInput, AtTheLoop, ControllerTurn
  <2>3. Forward(l)
    BY <1>1, <2>2, ForwardIfSame DEF updateVars
  <2> QED BY <2>1, <2>3
<1>5. CASE UNCHANGED vars
  BY <1>1, <1>5, NothingIsSent, ForwardIfSame DEF vars, serverVars, processVars, updateVars
<1> QED BY <1>2, <1>3, <1>4, <1>5 DEF Next

LEMMA OnceUnderWayStep ==
    ASSUME NEW l \in Servers, Electable = {l}, OnceBase(l), StateTypeOK', [Next]_vars
    PROVE  OnceUnderWay(l)'
<1>1. /\ StateTypeOK /\ LogsInv(l) /\ TermsUnder(l) /\ StillLeads(l) /\ OnceUnderWay(l)
  BY OnceBaseFacts
<1>2. UNCHANGED status \/ \E s \in Servers : ServerStep(s)
  BY DEF Next, ServerTurn, ClientTurn, vars, serverVars, serverState, stateVars, electionVars
<1>3. status[l] = "LEADER" => status'[l] = "LEADER"
  BY <1>1, <1>2, LeadsOn
<1>4. CASE OnceSent(l) /\ Forward(l)
  BY <1>1, <1>3, <1>4, OnceUnderWayForward
<1>5. CASE Receiving
  BY <1>1, <1>5, OnceUnderWayDrain DEF Receiving, serverState, stateVars, electionVars
<1> QED BY <1>4, <1>5, OnceTurns

LEMMA OnceHeldStep ==
    ASSUME NEW l \in Servers, Electable = {l}, OnceBase(l), StateTypeOK', [Next]_vars
    PROVE  OnceHeld(l)'
<1> USE DEF clientState, controllerState, serverState, stateVars, leaderVars, electionVars
<1>1. /\ StateTypeOK /\ ChannelTypeOK /\ LogsInv(l) /\ TermsUnder(l) /\ StillLeads(l)
      /\ OnceUnderWay(l) /\ OnceHeld(l) /\ ClientTypeOK /\ ControllerTypeOK
  BY OnceBaseFacts
<1>2. UNCHANGED status \/ \E s \in Servers : ServerStep(s)
  BY DEF Next, ServerTurn, ClientTurn, vars, serverVars
<1>3. status[l] = "LEADER" => status'[l] = "LEADER"
  BY <1>1, <1>2, LeadsOn
<1>4. ASSUME NEW s \in Servers, ServerTurn(ServerStep(s))
      PROVE  OnceHeld(l)'
  <2>1. \A i \in 1 .. Len(entries_queue'[l]) : entries_queue'[l][i].source \in Clients
    BY <1>1, <1>4, QueueOfClients DEF ServerTurn
  <2>2. phase' # "check"
    BY <1>4, NoServerChecks DEF ServerTurn
  <2>3. UNCHANGED <<leader_rank, entries_to_send, input>>
    BY <1>4 DEF ServerTurn
  <2> QED BY <1>1, <1>3, <2>1, <2>2, <2>3 DEF OnceHeld
<1>5. ASSUME NEW c \in Clients, ClientTurn(ClientStep(c, WaitingFor(c)))
      PROVE  OnceHeld(l)'
  <2>1. PICK w : ClientStep(c, w)
    BY <1>5 DEF ClientTurn
  <2>2. UNCHANGED <<entries_queue, status, input>>
    BY <1>5 DEF ClientTurn
  <2>3. phase' = "check" => done' = Len(batch')
    BY <1>1, <2>1, ChecksAtEnd
  <2>4. ASSUME NEW d \in Clients
        PROVE  /\ leader_rank'[d] # 0 => leader_rank'[d] = l /\ status[l] = "LEADER"
               /\ \A i \in 1 .. Len(entries_to_send'[d]) :
                     entries_to_send'[d][i] \in CommandsOfClient(d)
    <3>1. CASE d = c
      BY <1>1, <2>1, <3>1, LeaderKnown, CommandsAreOwn
    <3>2. CASE d # c
      <4>1. UNCHANGED <<leader_rank[d], entries_to_send[d]>>
        BY <1>1, <2>1, <3>2, OwnClientOnly
      <4> QED BY <1>1, <4>1 DEF OnceHeld
    <3> QED BY <3>1, <3>2
  <2> QED BY <1>1, <2>2, <2>3, <2>4 DEF OnceHeld
<1>6. CASE ControllerStep /\ UNCHANGED <<serverState, clientState>>
  <2>1. \A i \in 1 .. Len(input') : input'[i] \in InputLines
    BY <1>1, <1>6, OnceControllerSent
  <2>2. UNCHANGED updateVars
    BY <1>6 DEF ControllerStep, GiveOrder, TakeAnswer, GiveUp, StopAll, StopNext, StopsReturn,
       EndOfInput, AtTheLoop, ControllerTurn
  <2> QED BY <1>1, <1>6, <2>1, <2>2 DEF OnceHeld, updateVars
<1>7. CASE UNCHANGED vars
  BY <1>1, <1>7 DEF vars, serverVars, dataVars, updateVars, OnceHeld
<1> QED BY <1>4, <1>5, <1>6, <1>7 DEF Next

----------------------------------------------------------------------------
(* Who ends has ended, and who acts.                                        *)

LEMMA ServerActs ==
    ASSUME NEW s \in Servers, ServerStep(s)
    PROVE  /\ active \in {s, Nobody} /\ Ended \subseteq Ended'
           /\ active' \in {active, Nobody} \/ active' \notin Ended
<1> USE DEF endVars, dataVars, stateVars, Ended
<1>1. CASE StartUpdate(s) \/ ReceiveAll(s) \/ ApplyEntry(s) \/ BeginHandling(s)
  BY <1>1 DEF StartUpdate, Begin, ReceiveAll, Receive, ReceiveGarbled, Drain, ApplyEntry, Abort,
     EndUpdate, BeginHandling
<1>2. CASE HandleQuery(s)
  BY <1>2 DEF HandleQuery, StepDown, HandleHeartbeat, HandleVoteRequest,
     HandleVoteRequestThrows, HandleAppendEntriesDenied, HandleAppendEntries,
     AnswerSearchLeader, DenyNewLogEntry, PassOver, Handling, Abort, EndUpdate, QueryDone, NextQuery
<1>3. CASE HandleMessage(s)
  BY <1>3 DEF HandleMessage, HandleDisplayOrSpeed, HandleStop, HandleCrash,
     HandleRecover, HandleServerTimeout, Ordered, Handling, QueryDone, NextQuery
<1>4. CASE \/ NoRoutine(s) \/ FollowerTimesOut(s) \/ CandidateDefers(s) \/ CandidateWins(s)
           \/ CandidateWaits(s) \/ CandidateTimesOut(s)
  BY <1>4 DEF NoRoutine, FollowerTimesOut, CandidateDefers, CandidateWins, CandidateWaits,
     CandidateTimesOut, CandidateCounts, AllHandled, EndUpdate
<1>5. CASE \/ LeaderBeats(s) \/ LeaderSkipsBeat(s) \/ LeaderAppends(s) \/ LeaderCountsSuccess(s)
           \/ LeaderBacksUp(s) \/ LeaderPassesOver(s) \/ LeaderCommits(s)
  BY <1>5 DEF LeaderBeats, LeaderSkipsBeat, LeaderAppends, LeaderCountsSuccess, LeaderBacksUp,
     LeaderPassesOver, LeaderCommits, Leading, AllHandled, Abort, EndUpdate, QueryDone, NextQuery
<1> QED BY <1>1, <1>2, <1>3, <1>4, <1>5 DEF ServerStep, Routine

LEMMA ClientActs ==
    ASSUME NEW c \in Clients, NEW w, ClientStep(c, w)
    PROVE  /\ active \in {c, Nobody} /\ Ended \subseteq Ended'
           /\ active' \in {active, Nobody} \/ active' \notin Ended
<1> USE DEF endVars, Ended
<1>1. CASE StartClient(c) \/ ClientReceives(c) \/ ClientHandles(c)
  BY <1>1 DEF StartClient, Begin, ClientReceives, Receive, Drain, ClientHandles
<1>2. CASE ClientHandlesQuery(c)
  <2>1. CASE LearnLeader(c) \/ TakeSuccess(c) \/ TakeFailure(c)
    BY <2>1 DEF LearnLeader, TakeSuccess, TakeFailure, ClientHandling, NextQuery, Abort, EndUpdate
  <2>2. CASE \/ NewEntries(c) \/ DisplayOrSpeed(c) \/ Recover(c)
             \/ Start(c) \/ Crash(c) \/ Stop(c)
    BY <2>2 DEF NewEntries, DisplayOrSpeed, Recover, Start, Crash, Stop, AnswerOrder, OrderOf,
       ClientHandling, NextQuery
  <2> QED BY <1>2, <2>1, <2>2 DEF ClientHandlesQuery
<1>3. CASE ClientRoutine(c, w)
  BY <1>3 DEF ClientRoutine, StaysDead, Search, SendEntry, SendNothing, AnswerOverdue,
     AnswerNotOverdue, AllHandled, ThenCheck, EndUpdate
<1> QED BY <1>1, <1>2, <1>3 DEF ClientStep

LEMMA EndedForGood ==
    ASSUME [Next]_vars, NEW p \in Receivers, HasEnded(p)
    PROVE  HasEnded(p)'
<1>1. ASSUME Ended \subseteq Ended', active' \in {active, Nobody} \/ active' \notin Ended
      PROVE  HasEnded(p)'
  BY <1>1, ReceiversFacts DEF HasEnded
<1>2. ASSUME NEW s \in Servers, ServerTurn(ServerStep(s)) PROVE HasEnded(p)'
  BY <1>1, <1>2, ServerActs DEF ServerTurn
<1>3. ASSUME NEW c \in Clients, ClientTurn(ClientStep(c, WaitingFor(c))) PROVE HasEnded(p)'
  <2>1. PICK w : ClientStep(c, w)
    BY <1>3 DEF ClientTurn
  <2> QED BY <1>1, <2>1, ClientActs
<1>4. CASE ControllerStep
  <2>1. UNCHANGED <<endVars, updateVars>>
    BY <1>4 DEF ControllerStep, GiveOrder, TakeAnswer, GiveUp, StopAll, StopNext, StopsReturn,
       EndOfInput, AtTheLoop, ControllerTurn
  <2> QED BY <1>1, <2>1 DEF endVars, updateVars, Ended
<1>5. CASE UNCHANGED vars
  BY <1>1, <1>5 DEF vars, serverVars, stateVars, dataVars, endVars, updateVars, Ended
<1> QED BY <1>2, <1>3, <1>4, <1>5 DEF Next

\* A client loses an answer only by taking it.
LEMMA ClientKeepsAnswers ==
    ASSUME NEW l \in Servers, StateTypeOK, OnceUnderWay(l), OnceHeld(l),
           NEW c \in Clients, NEW w, ClientStep(c, w), ~ClientReceives(c), ~TakeSuccess(c)
    PROVE  \/ active # c
           \/ done = Len(batch)
           \/ /\ UNCHANGED <<active, batch>>
              /\ \/ done' = done
                 \/ done' = done + 1 /\ batch[done + 1].rpc.type # "NEW_LOG_ENTRY_RESPONSE"
<1>1. c # Nobody
  BY ClientFacts
<1>2. ~TakeFailure(c)
  <2> SUFFICES ASSUME TakeFailure(c) PROVE FALSE
    OBVIOUS
  <2>1. /\ active = c /\ done < Len(batch) /\ ~batch[done + 1].rpc.success
        /\ batch[done + 1].rpc.type = "NEW_LOG_ENTRY_RESPONSE"
    BY DEF TakeFailure, ClientHandling, Accepted
  <2>2. done + 1 \in 1 .. Len(batch) /\ active \in Receivers
    BY <2>1, QueryFacts DEF StateTypeOK, Receivers
  <2> QED BY <2>1, <2>2 DEF OnceUnderWay, OnceGood
<1>3. CASE StartClient(c) \/ ClientHandles(c)
  BY <1>1, <1>3 DEF StartClient, Begin, ClientHandles
<1>4. CASE LearnLeader(c)
  BY <1>4 DEF LearnLeader, ClientHandling, NextQuery
<1>5. CASE \/ NewEntries(c) \/ DisplayOrSpeed(c) \/ Recover(c)
           \/ Start(c) \/ Crash(c) \/ Stop(c)
  BY <1>5 DEF NewEntries, DisplayOrSpeed, Recover, Start, Crash, Stop, AnswerOrder, OrderOf,
     ClientHandling, NextQuery
<1>6. CASE ClientRoutine(c, w)
  BY <1>6 DEF ClientRoutine, StaysDead, Search, SendEntry, SendNothing, AnswerOverdue,
     AnswerNotOverdue, AllHandled, OnceHeld
<1> QED BY <1>2, <1>3, <1>4, <1>5, <1>6 DEF ClientStep, ClientHandlesQuery

----------------------------------------------------------------------------
(* The commands in the log, against those popped (p) and queued (e).        *)

InTurn(P, log, p, e) ==
    /\ Cardinality(P) \in {Len(p), Len(p) + 1}
    /\ Cardinality(P) <= Len(p \o e)
    /\ \A i \in P : log[i].command = (p \o e)[Cardinality({j \in P : j <= i})]

LEMMA CountUpTo ==
    ASSUME NEW n \in Nat, NEW P \in SUBSET (1 .. n)
    PROVE  /\ IsFiniteSet(P) /\ Cardinality(P) \in Nat
           /\ \A i \in P : Cardinality({j \in P : j <= i}) \in 1 .. Cardinality(P)
           /\ P = {} => Cardinality(P) = 0
<1>1. IsFiniteSet(P) /\ Cardinality(P) \in Nat
  <2>1. IsFiniteSet(1 .. n)
    BY FS_Interval
  <2> QED BY <2>1, FS_Subset, FS_CardinalityType
<1>2. ASSUME NEW i \in P
      PROVE  Cardinality({j \in P : j <= i}) \in 1 .. Cardinality(P)
  <2>1. PICK Q : Q = {j \in P : j <= i}
    OBVIOUS
  <2>2. i \in Q /\ Q \in SUBSET P
    BY <2>1
  <2>3. IsFiniteSet(Q) /\ Cardinality(Q) <= Cardinality(P)
    BY <1>1, <2>2, FS_Subset
  <2>4. Cardinality(Q) \in Nat /\ Cardinality(Q) # 0
    BY <2>2, <2>3, FS_CardinalityType, FS_EmptySet
  <2> QED BY <1>1, <2>1, <2>3, <2>4
<1> QED BY <1>1, <1>2, FS_EmptySet

\* As long as the entries at those places stay.
LEMMA InTurnStays ==
    ASSUME NEW P, NEW log, NEW log2, NEW p, NEW e, InTurn(P, log, p, e),
           \A i \in P : log2[i] = log[i]
    PROVE  InTurn(P, log2, p, e)
  BY DEF InTurn

\* The queue gets more commands.
LEMMA InTurnGrows ==
    ASSUME NEW n \in Nat, NEW P \in SUBSET (1 .. n), NEW log,
           NEW p \in Seq(Commands), NEW e \in Seq(Commands), NEW x \in Seq(Commands),
           InTurn(P, log, p, e)
    PROVE  InTurn(P, log, p, e \o x)
<1>1. PICK w \in Seq(Commands) : w = e \o x
  BY ConcatProperties
<1>2. /\ Len(p) \in Nat /\ Len(e) \in Nat /\ Len(x) \in Nat
      /\ Len(p \o e) = Len(p) + Len(e)
      /\ Len(w) = Len(e) + Len(x)
      /\ Len(p \o w) = Len(p) + Len(w)
  BY <1>1, ConcatProperties, LenProperties
<1>3. ASSUME NEW i \in 1 .. Len(p) + Len(e)
      PROVE  (p \o w)[i] = (p \o e)[i]
  <2>1. /\ (p \o e)[i] = IF i <= Len(p) THEN p[i] ELSE e[i - Len(p)]
        /\ i \in 1 .. Len(p) + Len(w)
    BY <1>2, ConcatProperties
  <2>2. (p \o w)[i] = IF i <= Len(p) THEN p[i] ELSE w[i - Len(p)]
    BY <2>1, ConcatProperties
  <2>3. ~(i <= Len(p)) => w[i - Len(p)] = e[i - Len(p)]
    <3>1. PICK j \in Int : j = i - Len(p)
      <4>1. i \in Int /\ Len(p) \in Int
        BY <1>2
      <4>2. i - Len(p) \in Int
        BY <4>1
      <4> QED BY <4>2
    <3>2. ~(i <= Len(p)) => j \in 1 .. Len(e) + Len(x) /\ j <= Len(e)
      BY <1>2, <3>1
    <3>3. \A k \in 1 .. Len(e) + Len(x) : k <= Len(e) => w[k] = e[k]
      BY <1>1, ConcatProperties
    <3> QED BY <3>1, <3>2, <3>3
  <2> QED BY <2>1, <2>2, <2>3
<1>4. Cardinality(P) <= Len(p) + Len(e) /\ Cardinality(P) <= Len(p \o w)
  <2>1. Cardinality(P) \in Nat
    BY CountUpTo
  <2> QED BY <1>2, <2>1 DEF InTurn
<1>5. ASSUME NEW i \in P
      PROVE  log[i].command = (p \o w)[Cardinality({j \in P : j <= i})]
  <2>1. PICK k : k = Cardinality({j \in P : j <= i})
    OBVIOUS
  <2>2. k \in 1 .. Cardinality(P) /\ Cardinality(P) \in Nat
    BY <2>1, CountUpTo
  <2>3. k \in 1 .. Len(p) + Len(e)
    BY <1>2, <1>4, <2>2
  <2> QED BY <1>3, <2>1, <2>3 DEF InTurn
<1> QED BY <1>1, <1>4, <1>5 DEF InTurn

\* The first command of the queue is appended.
LEMMA InTurnAppends ==
    ASSUME NEW n \in Nat, NEW P \in SUBSET (1 .. n), NEW log, NEW log2,
           NEW p \in Seq(Commands), NEW e \in Seq(Commands), e # << >>,
           InTurn(P, log, p, e), Cardinality(P) = Len(p),
           \A i \in P : log2[i] = log[i], log2[n + 1].command = Head(e)
    PROVE  /\ InTurn(P \cup {n + 1}, log2, p, e)
           /\ Cardinality(P \cup {n + 1}) = Len(p) + 1
<1>1. PICK h \in Nat : h = n + 1
  OBVIOUS
<1>2. PICK Q : Q = P \cup {h}
  OBVIOUS
<1>3. h \notin P /\ (\A i \in P : i < h /\ i \in Nat)
  BY <1>1
<1>4. Len(p) \in Nat /\ Len(e) \in Nat \ {0} /\ Len(p \o e) = Len(p) + Len(e)
  BY ConcatProperties, LenProperties, EmptySeq
<1>5. Cardinality(Q) = Len(p) + 1
  BY <1>2, <1>3, CountUpTo, FS_AddElement
<1>6. (p \o e)[Len(p) + 1] = Head(e)
  <2>1. PICK k \in Nat : k = Len(p) + 1
    BY <1>4
  <2>2. k \in 1 .. Len(p) + Len(e) /\ ~(k <= Len(p)) /\ k - Len(p) = 1
    BY <1>4, <2>1
  <2>3. (p \o e)[k] = e[1]
    BY <2>2, ConcatProperties
  <2>4. Head(e) = e[1]
    BY HeadTailProperties
  <2> QED BY <2>1, <2>3, <2>4
<1>7. ASSUME NEW i \in Q
      PROVE  log2[i].command = (p \o e)[Cardinality({j \in Q : j <= i})]
  <2>1. CASE i = h
    <3>1. \A j \in Q : j <= h
      BY <1>2, <1>3
    <3>2. {j \in Q : j <= i} = Q
      BY <2>1, <3>1
    <3> QED BY <1>1, <1>5, <1>6, <2>1, <3>2
  <2>2. CASE i # h
    <3>1. i \in P /\ {j \in Q : j <= i} = {j \in P : j <= i}
      BY <1>2, <1>3, <2>2
    <3> QED BY <3>1 DEF InTurn
  <2> QED BY <2>1, <2>2
<1>8. Cardinality(Q) <= Len(p \o e)
  BY <1>4, <1>5
<1> QED BY <1>1, <1>2, <1>5, <1>7, <1>8 DEF InTurn

\* The first command of the queue is popped.
LEMMA InTurnTakes ==
    ASSUME NEW n \in Nat, NEW P \in SUBSET (1 .. n), NEW log,
           NEW p \in Seq(Commands), NEW e \in Seq(Commands), e # << >>,
           InTurn(P, log, p, e), Cardinality(P) # Len(p),
           NEW q \in Seq(Commands), q = Append(p, Head(e)), NEW t \in Seq(Commands), t = Tail(e)
    PROVE  InTurn(P, log, q, t) /\ Cardinality(P) = Len(q)
<1>1. Head(e) \in Commands /\ Head(e) = e[1] /\ Tail(e) \in Seq(Commands)
      /\ Len(Tail(e)) = Len(e) - 1 /\ \A i \in 1 .. Len(Tail(e)) : Tail(e)[i] = e[i + 1]
  BY HeadTailProperties
<1>2. PICK h \in Commands : h = Head(e)
  BY <1>1
<1>3. t = Tail(e)
  OBVIOUS
<1>4. q = Append(p, h)
  BY <1>2
<1>5. /\ Len(p) \in Nat /\ Len(e) \in Nat \ {0} /\ Len(t) = Len(e) - 1 /\ Len(q) = Len(p) + 1
      /\ \A i \in 1 .. Len(p) : q[i] = p[i]
      /\ q[Len(p) + 1] = h
  BY <1>1, <1>3, <1>4, LenProperties, EmptySeq, AppendProperties
<1>6. Len(p \o e) = Len(p) + Len(e) /\ Len(q \o t) = Len(q) + Len(t)
  BY ConcatProperties
<1>7. ASSUME NEW i \in 1 .. Len(p) + Len(e)
      PROVE  (q \o t)[i] = (p \o e)[i]
  <2>1. i \in 1 .. Len(q) + Len(t)
    BY <1>5
  <2>2. /\ (p \o e)[i] = IF i <= Len(p) THEN p[i] ELSE e[i - Len(p)]
        /\ (q \o t)[i] = IF i <= Len(q) THEN q[i] ELSE t[i - Len(q)]
    BY <2>1, ConcatProperties
  <2>3. CASE i <= Len(p)
    <3>1. i <= Len(q) /\ i \in 1 .. Len(p)
      BY <1>5, <2>3
    <3> QED BY <1>5, <2>2, <2>3, <3>1
  <2>4. CASE i = Len(p) + 1
    <3>1. i <= Len(q) /\ ~(i <= Len(p)) /\ i - Len(p) = 1
      BY <1>5, <2>4
    <3> QED BY <1>1, <1>2, <1>5, <2>2, <2>4, <3>1
  <2>5. CASE ~(i <= Len(p) + 1)
    <3>1. PICK j \in Int : j = i - Len(q)
      BY <1>5
    <3>2. PICK k \in Int : k = i - Len(p)
      <4>1. i \in Int /\ Len(p) \in Int
        BY <1>5
      <4>2. i - Len(p) \in Int
        BY <4>1
      <4> QED BY <4>2
    <3>3. ~(i <= Len(q)) /\ ~(i <= Len(p)) /\ k = j + 1 /\ j \in 1 .. Len(t)
      BY <1>5, <2>5, <3>1, <3>2
    <3>4. t[j] = e[k]
      BY <1>1, <1>3, <3>3
    <3> QED BY <2>2, <3>1, <3>2, <3>3, <3>4
  <2> QED BY <1>5, <2>3, <2>4, <2>5
<1>8. Cardinality(P) = Len(q) /\ Cardinality(P) <= Len(q \o t) /\ Cardinality(P) <= Len(p) + Len(e)
  BY <1>5, <1>6 DEF InTurn
<1>9. ASSUME NEW i \in P
      PROVE  log[i].command = (q \o t)[Cardinality({j \in P : j <= i})]
  <2>1. PICK k : k = Cardinality({j \in P : j <= i})
    OBVIOUS
  <2>2. k \in 1 .. Cardinality(P) /\ Cardinality(P) \in Nat
    BY <2>1, CountUpTo
  <2>3. k \in 1 .. Len(p) + Len(e)
    BY <1>5, <1>8, <2>2
  <2> QED BY <1>7, <2>1, <2>3 DEF InTurn
<1> QED BY <1>2, <1>3, <1>4, <1>8, <1>9 DEF InTurn

----------------------------------------------------------------------------
(* A client has at most one request under way, waiting or answered, and it  *)
(* is for the first command of its queue.                                   *)

Placed(l, c)   == Cardinality(PlacesOf(c, l))
Unserved(l, c) == Requests(l, c) = {} /\ Waits(l, c) = {} /\ Answers(l, c) = {}

\* A client whose last command is in the log, and not acknowledged, will be:
\* its request waits at the leader, or its answer is on its way.
OneToken(l, c) ==
    /\ AtMostOne(Waits(l, c)) /\ AtMostOne(Answers(l, c))
    /\ Waits(l, c) = {} \/ Answers(l, c) = {}
    /\ Waits(l, c) # {} \/ Answers(l, c) # {} =>
          entries_to_send[c] # << >> /\ Placed(l, c) = Len(popped[c]) + 1
    /\ ~HasEnded(l) =>
          /\ AtMostOne(Requests(l, c))
          /\ Requests(l, c) # {} =>
                /\ Waits(l, c) = {} /\ Answers(l, c) = {}
                /\ entries_to_send[c] # << >> /\ Placed(l, c) = Len(popped[c])
                /\ \A u \in Requests(l, c) : u.rpc.command = Head(entries_to_send[c])
          /\ entry_sent[c] => Unserved(l, c)
          /\ ~HasEnded(c) /\ Waits(l, c) = {} /\ Answers(l, c) = {} =>
                Placed(l, c) = Len(popped[c])

InSequence(l, c) == InTurn(PlacesOf(c, l), server_log[l], popped[c], entries_to_send[c])

OnceInv(l) ==
    /\ QueueInv(l)
    /\ OnceUnderWay(l)
    /\ OnceHeld(l)
    /\ \A c \in Clients : OneToken(l, c) /\ InSequence(l, c)

\* What there is to know of a client's sequences.
LEMMA OnceSequences ==
    ASSUME StateTypeOK, ClientTypeOK, NEW l \in Servers, NEW c \in Clients
    PROVE  /\ server_log[l] \in Seq(LogEntry)
           /\ Len(server_log[l]) \in Nat
           /\ PlacesOf(c, l) \in SUBSET (1 .. Len(server_log[l]))
           /\ Placed(l, c) \in Nat
           /\ popped[c] \in Seq(Commands) /\ entries_to_send[c] \in Seq(Commands)
           /\ Len(popped[c]) \in Nat
           /\ \E S : entries_queue[l] \in Seq(S)
           /\ Len(entries_queue[l]) \in Nat
<1>1. server_log[l] \in Seq(LogEntry)
  BY DEF StateTypeOK, LogTypeOK
<1>2. Len(server_log[l]) \in Nat
  BY <1>1, LenProperties
<1>3. PlacesOf(c, l) \in SUBSET (1 .. Len(server_log[l]))
  BY DEF PlacesOf
<1>4. PICK S : entries_queue[l] \in Seq(S)
  BY DEF StateTypeOK, LeaderTypeOK
<1>5. Len(entries_queue[l]) \in Nat
  BY <1>4, LenProperties
<1>6. popped[c] \in Seq(Commands) /\ entries_to_send[c] \in Seq(Commands)
  BY DEF ClientTypeOK
<1>7. Len(popped[c]) \in Nat
  BY <1>6, LenProperties
<1>8. Placed(l, c) \in Nat
  BY <1>2, <1>3, CountUpTo DEF Placed
<1> QED BY <1>1, <1>2, <1>3, <1>4, <1>5, <1>6, <1>7, <1>8

\* A step that starts no request and takes no answer leaves a client as it is
\* served.
LEMMA OneTokenStays ==
    ASSUME NEW l, NEW c, OneToken(l, c),
           Keeps(Requests(l, c), Requests(l, c)'),
           Keeps(Answers(l, c), Answers(l, c)'), Answers(l, c) # {} => Answers(l, c)' # {},
           AtMostOne(Waits(l, c)) => AtMostOne(Waits(l, c)'),
           Waits(l, c)' = {} <=> Waits(l, c) = {},
           popped'[c] = popped[c], Placed(l, c)' = Placed(l, c),
           entries_to_send[c] # << >> => /\ entries_to_send'[c] # << >>
                                         /\ Head(entries_to_send'[c]) = Head(entries_to_send[c]),
           entry_sent'[c] => entry_sent[c] \/ HasEnded(l)' \/ Unserved(l, c),
           HasEnded(l) => HasEnded(l)', HasEnded(c) => HasEnded(c)'
    PROVE  OneToken(l, c)'
<1>1. /\ Requests(l, c)' # {} => Requests(l, c) # {}
      /\ Answers(l, c)' # {} => Answers(l, c) # {}
      /\ \A u \in Requests(l, c)' : \E v \in Requests(l, c) : u.rpc = v.rpc
      /\ AtMostOne(Requests(l, c)) => AtMostOne(Requests(l, c)')
      /\ AtMostOne(Answers(l, c)) => AtMostOne(Answers(l, c)')
  BY DEF Keeps
<1>2. /\ AtMostOne(Waits(l, c)') /\ AtMostOne(Answers(l, c)')
      /\ Waits(l, c)' = {} \/ Answers(l, c)' = {}
  BY <1>1 DEF OneToken
<1>3. Waits(l, c)' # {} \/ Answers(l, c)' # {} =>
         entries_to_send'[c] # << >> /\ Placed(l, c)' = Len(popped'[c]) + 1
  BY <1>1 DEF OneToken
<1>4. ASSUME ~HasEnded(l)'
      PROVE  /\ AtMostOne(Requests(l, c)')
             /\ Requests(l, c)' # {} =>
                   /\ Waits(l, c)' = {} /\ Answers(l, c)' = {}
                   /\ entries_to_send'[c] # << >> /\ Placed(l, c)' = Len(popped'[c])
                   /\ \A u \in Requests(l, c)' : u.rpc.command = Head(entries_to_send'[c])
             /\ entry_sent'[c] => Unserved(l, c)'
             /\ ~HasEnded(c)' /\ Waits(l, c)' = {} /\ Answers(l, c)' = {} =>
                   Placed(l, c)' = Len(popped'[c])
  <2>1. ~HasEnded(l)
    BY <1>4
  <2>2. AtMostOne(Requests(l, c)')
    BY <1>1, <2>1 DEF OneToken
  <2>3. ASSUME Requests(l, c)' # {}
        PROVE  /\ Waits(l, c)' = {} /\ Answers(l, c)' = {}
               /\ entries_to_send'[c] # << >> /\ Placed(l, c)' = Len(popped'[c])
               /\ \A u \in Requests(l, c)' : u.rpc.command = Head(entries_to_send'[c])
    BY <1>1, <2>1, <2>3 DEF OneToken
  <2>4. entry_sent'[c] => Unserved(l, c)'
    BY <1>1, <1>4, <2>1 DEF OneToken, Unserved
  <2>5. ~HasEnded(c)' /\ Waits(l, c)' = {} /\ Answers(l, c)' = {} =>
           Placed(l, c)' = Len(popped'[c])
    BY <1>1, <1>4, <2>1 DEF OneToken
  <2> QED BY <2>2, <2>3, <2>4, <2>5
<1> QED BY <1>2, <1>3, <1>4 DEF OneToken

\* The same, for the log as well.
LEMMA ServedStays ==
    ASSUME StateTypeOK, ClientTypeOK, NEW l \in Servers, NEW c \in Clients,
           OneToken(l, c), InSequence(l, c),
           Keeps(Requests(l, c), Requests(l, c)'),
           Keeps(Answers(l, c), Answers(l, c)'), Answers(l, c) # {} => Answers(l, c)' # {},
           AtMostOne(Waits(l, c)) => AtMostOne(Waits(l, c)'),
           Waits(l, c)' = {} <=> Waits(l, c) = {},
           PlacesOf(c, l)' = PlacesOf(c, l),
           \A i \in PlacesOf(c, l) : server_log'[l][i] = server_log[l][i],
           popped'[c] = popped[c],
           NEW x \in Seq(Commands), entries_to_send'[c] = entries_to_send[c] \o x,
           entry_sent'[c] => entry_sent[c] \/ HasEnded(l)' \/ Unserved(l, c),
           HasEnded(l) => HasEnded(l)', HasEnded(c) => HasEnded(c)'
    PROVE  OneToken(l, c)' /\ InSequence(l, c)'
<1>1. PICK e \in Seq(Commands) : e = entries_to_send[c]
  BY OnceSequences
<1>2. e # << >> => e \o x # << >> /\ Head(e \o x) = Head(e)
  <2> SUFFICES ASSUME e # << >> PROVE e \o x # << >> /\ Head(e \o x) = Head(e)
    OBVIOUS
  <2>1. PICK w \in Seq(Commands) : w = e \o x
    BY ConcatProperties
  <2>2. Len(e) \in Nat \ {0} /\ Len(x) \in Nat /\ Len(w) = Len(e) + Len(x)
    BY <2>1, ConcatProperties, LenProperties, EmptySeq
  <2>3. w[1] = e[1] /\ w # << >>
    <3>1. 1 \in 1 .. Len(e) + Len(x) /\ 1 <= Len(e)
      BY <2>2
    <3>2. w[1] = e[1]
      BY <2>1, <3>1, ConcatProperties
    <3>3. Len(w) # 0
      BY <2>2
    <3> QED BY <3>2, <3>3, EmptySeq
  <2> QED BY <2>1, <2>3, HeadTailProperties
<1>3. Placed(l, c)' = Placed(l, c)
  BY DEF Placed
<1>4. OneToken(l, c)'
  BY <1>1, <1>2, <1>3, OneTokenStays
<1>5. InSequence(l, c)'
  <2>1. PICK P : P = PlacesOf(c, l)
    OBVIOUS
  <2>2. PICK n \in Nat : n = Len(server_log[l]) /\ P \in SUBSET (1 .. n)
    BY <2>1, OnceSequences
  <2>3. InTurn(P, server_log'[l], popped[c], e)
    BY <1>1, <2>1, InTurnStays DEF InSequence
  <2>4. InTurn(P, server_log'[l], popped[c], e \o x)
    BY <2>2, <2>3, InTurnGrows, OnceSequences
  <2> QED BY <1>1, <2>1, <2>4 DEF InSequence
<1> QED BY <1>4, <1>5

LEMMA EmptySuffix ==
    ASSUME NEW S, NEW s \in Seq(S)
    PROVE  << >> \in Seq(S) /\ s \o << >> = s
  BY EmptySeq, ConcatEmptySeq

LEMMA OneMore ==
    ASSUME NEW S, NEW s \in Seq(S), NEW x, NEW t, t = Append(s, x)
    PROVE  /\ Len(s) \in Nat /\ Len(t) = Len(s) + 1
           /\ \A i \in 1 .. Len(s) : t[i] = s[i]
           /\ t[Len(s) + 1] = x
           /\ \A i : i \in 1 .. Len(t) <=> i \in 1 .. Len(s) \/ i = Len(s) + 1
<1>1. s \in Seq(S \cup {x}) /\ x \in S \cup {x}
  OBVIOUS
<1>2. PICK T : T = S \cup {x}
  OBVIOUS
<1>3. s \in Seq(T) /\ x \in T
  BY <1>1, <1>2
<1>4. /\ Len(s) \in Nat /\ Len(t) = Len(s) + 1
      /\ \A i \in 1 .. Len(s) : t[i] = s[i]
      /\ t[Len(s) + 1] = x
  BY <1>3, AppendProperties, LenProperties
<1>5. \A i : i \in 1 .. Len(t) <=> i \in 1 .. Len(s) \/ i = Len(s) + 1
  <2>1. PICK n \in Nat : n = Len(s)
    BY <1>4
  <2>2. \A i : i \in 1 .. n + 1 <=> i \in 1 .. n \/ i = n + 1
    OBVIOUS
  <2> QED BY <1>4, <2>1, <2>2
<1> QED BY <1>4, <1>5

\* What the leader appends is the first command of the client that asked.
LEMMA AppendsHead ==
    ASSUME NEW l \in Servers, StateTypeOK, ClientTypeOK, OnceUnderWay(l), OnceHeld(l),
           LeaderAppends(l), NEW c \in Clients, batch[done + 1].source = c, OneToken(l, c)
    PROVE  LET u == [stage |-> "taken", place |-> done + 1, rpc |-> batch[done + 1].rpc] IN
           /\ u \in Requests(l, c) /\ \A v \in Requests(l, c) : v = u
           /\ Waits(l, c) = {} /\ Answers(l, c) = {}
           /\ entries_to_send[c] # << >> /\ Placed(l, c) = Len(popped[c])
           /\ batch[done + 1].rpc.command = Head(entries_to_send[c])
           /\ batch[done + 1].rpc.command \in CommandsOfClient(c)
           /\ ~entry_sent[c]
<1>1. /\ active = l /\ phase = "lead" /\ done < Len(batch) /\ done + 1 \in 1 .. Len(batch)
      /\ batch[done + 1].rpc.type = "NEW_LOG_ENTRY"
  BY AppendsRequest
<1>2. PICK u : u = [stage |-> "taken", place |-> done + 1, rpc |-> batch[done + 1].rpc]
  OBVIOUS
<1>3. u \in Requests(l, c)
  <2>1. PICK h \in Nat \ {0} : h = done + 1
    <3>1. PICK o \in Nat : o = done
      BY DEF StateTypeOK, UpdateTypeOK
    <3>2. o + 1 \in Nat \ {0}
      OBVIOUS
    <3> QED BY <3>1, <3>2
  <2>2. FirstAck = h
    BY <1>1, <2>1 DEF FirstAck
  <2>3. h \in h .. Len(batch)
    BY <1>1, <2>1, LengthsAreNat
  <2>4. PICK B : B = LinkOf(channel, active, batch, c, l, "NEW_LOG_ENTRY", h)
    OBVIOUS
  <2>5. [stage |-> "taken", place |-> h, rpc |-> batch[h].rpc] \in B
    BY <1>1, <2>1, <2>3, <2>4, LinkFacts
  <2> QED BY <1>2, <2>1, <2>2, <2>4, <2>5 DEF Requests
<1>4. ~HasEnded(l)
  BY <1>1 DEF HasEnded
<1>5. /\ AtMostOne(Requests(l, c)) /\ Waits(l, c) = {} /\ Answers(l, c) = {}
      /\ entries_to_send[c] # << >> /\ Placed(l, c) = Len(popped[c])
      /\ u.rpc.command = Head(entries_to_send[c])
      /\ ~entry_sent[c]
  BY <1>3, <1>4 DEF OneToken, Unserved
<1>6. Head(entries_to_send[c]) \in CommandsOfClient(c)
  <2>1. PICK e \in Seq(Commands) : e = entries_to_send[c]
    BY OnceSequences
  <2>2. Len(e) \in Nat \ {0} /\ Head(e) = e[1]
    BY <1>5, <2>1, LenProperties, EmptySeq, HeadTailProperties
  <2>3. 1 \in 1 .. Len(e)
    BY <2>2
  <2> QED BY <2>1, <2>2, <2>3 DEF OnceHeld
<1> QED BY <1>2, <1>3, <1>5, <1>6 DEF AtMostOne

\* The leader appends the request of c: the command is in the log.
LEMMA OwnAppended ==
    ASSUME NEW l \in Servers, StateTypeOK, StateTypeOK', ClientTypeOK, OnceUnderWay(l), OnceHeld(l),
           LeaderAppends(l), OnceSent(l), Forward(l), UNCHANGED clientState,
           NEW c \in Clients, batch[done + 1].source = c, OneToken(l, c), InSequence(l, c)
    PROVE  OneToken(l, c)' /\ InSequence(l, c)'
<1> USE DEF clientState
<1>1. PICK q : /\ q = batch[done + 1] /\ q.source = c
               /\ active = l /\ phase = "lead"
               /\ entries_queue'[l] = Append(entries_queue[l],
                                             [source |-> c, command |-> q.rpc.command])
               /\ server_log'[l] = Append(server_log[l],
                                          [term |-> current_term[l], command |-> q.rpc.command])
               /\ UNCHANGED <<channel, active, phase, batch>> /\ done' = done + 1
  BY AppendsRequest
<1>2. PICK u : u = [stage |-> "taken", place |-> done + 1, rpc |-> q.rpc]
  OBVIOUS
<1>3. /\ u \in Requests(l, c) /\ \A v \in Requests(l, c) : v = u
      /\ Waits(l, c) = {} /\ Answers(l, c) = {}
      /\ entries_to_send[c] # << >> /\ Placed(l, c) = Len(popped[c])
      /\ q.rpc.command = Head(entries_to_send[c])
      /\ q.rpc.command \in CommandsOfClient(c)
      /\ ~entry_sent[c]
  BY <1>1, <1>2, AppendsHead
<1>4. l \notin Clients /\ l # c
  BY ClientFacts
<1>5. Requests(l, c)' = {}
  <2>1. Requests(l, c)' \subseteq Requests(l, c)
    <3>1. ~SendEntry(c)
      BY <1>1, <1>4 DEF SendEntry, AllHandled
    <3> QED BY <3>1, OnceLinks
  <2> SUFFICES ASSUME NEW x \in Requests(l, c)' PROVE FALSE
    OBVIOUS
  <2>2. x = u
    BY <1>3, <2>1
  <2>3. PICK h \in Nat : h = done + 1
    <3>1. PICK o \in Nat : o = done
      BY DEF StateTypeOK, UpdateTypeOK
    <3>2. o + 1 \in Nat
      OBVIOUS
    <3> QED BY <3>1, <3>2
  <2>4. FirstAck' = h + 1
    BY <1>1, <2>3 DEF FirstAck
  <2>5. PICK B : B = LinkOf(channel', active', batch', c, l, "NEW_LOG_ENTRY", h + 1)
    OBVIOUS
  <2>6. x \in B
    BY <2>4, <2>5 DEF Requests
  <2>7. \/ \E i \in 1 .. Len(channel'[c][l]) :
              x = [stage |-> "sent", place |-> i, rpc |-> channel'[c][l][i]]
        \/ \E i \in h + 1 .. Len(batch') :
              x = [stage |-> "taken", place |-> i, rpc |-> batch'[i].rpc]
    BY <2>5, <2>6, LinkFacts
  <2>8. u.stage = "taken" /\ u.place = h
    BY <1>2, <2>3
  <2>9. x.place \in h + 1 .. Len(batch')
    BY <2>2, <2>7, <2>8
  <2> QED BY <2>2, <2>8, <2>9
<1>6. Answers(l, c)' = {}
  <2>1. ~Answering(l, c)
    BY <1>1 DEF Answering
  <2> QED BY <1>3, <2>1, OnceLinks
<1>7. /\ Waits(l, c)' # {} /\ AtMostOne(Waits(l, c)')
  <2>1. PICK S : entries_queue[l] \in Seq(S)
    BY OnceSequences
  <2>2. PICK s \in Seq(S) : s = entries_queue[l]
    BY <2>1
  <2>3. PICK x : x = [source |-> c, command |-> q.rpc.command]
    OBVIOUS
  <2>4. PICK t : t = Append(s, x)
    OBVIOUS
  <2>5. /\ Len(s) \in Nat
        /\ \A i \in 1 .. Len(s) : t[i] = s[i]
        /\ t[Len(s) + 1] = x
        /\ \A i : i \in 1 .. Len(t) <=> i \in 1 .. Len(s) \/ i = Len(s) + 1
    BY <2>4, OneMore
  <2>6. \A i \in 1 .. Len(s) : s[i].source # c
    BY <1>3, <2>2 DEF Waits
  <2>7. entries_queue'[l] = t
    BY <1>1, <2>2, <2>3, <2>4
  <2>8. {i \in 1 .. Len(t) : t[i].source = c} = {Len(s) + 1}
    BY <2>3, <2>5, <2>6
  <2>9. Waits(l, c)' = {Len(s) + 1}
    BY <2>7, <2>8 DEF Waits
  <2> QED BY <2>9 DEF AtMostOne
<1>8. InSequence(l, c)' /\ Placed(l, c)' = Len(popped[c]) + 1
  <2>1. PICK e \in Seq(Commands), p \in Seq(Commands) : e = entries_to_send[c] /\ p = popped[c]
    BY OnceSequences
  <2>2. PICK s \in Seq(LogEntry) : s = server_log[l]
    BY OnceSequences
  <2>3. PICK x : x = [term |-> current_term[l], command |-> q.rpc.command]
    OBVIOUS
  <2>4. PICK t : t = Append(s, x)
    OBVIOUS
  <2>5. PICK P : P = PlacesOf(c, l)
    OBVIOUS
  <2>6. PICK n \in Nat : n = Len(s)
    BY LenProperties
  <2>7. /\ \A i \in 1 .. n : t[i] = s[i]
        /\ t[n + 1] = x
        /\ \A i : i \in 1 .. Len(t) <=> i \in 1 .. n \/ i = n + 1
    BY <2>4, <2>6, OneMore
  <2>8. P = {i \in 1 .. n : s[i].command \in CommandsOfClient(c)}
    BY <2>2, <2>5, <2>6 DEF PlacesOf
  <2>9. {i \in 1 .. Len(t) : t[i].command \in CommandsOfClient(c)} = P \cup {n + 1}
    BY <1>3, <2>3, <2>7, <2>8
  <2>10. server_log'[l] = t
    BY <1>1, <2>2, <2>3, <2>4
  <2>11. PlacesOf(c, l)' = P \cup {n + 1}
    <3>1. PlacesOf(c, l)' = {i \in 1 .. Len(t) : t[i].command \in CommandsOfClient(c)}
      BY <2>10 DEF PlacesOf, CommandsOfClient
    <3> QED BY <2>9, <3>1
  <2>12. /\ InTurn(P \cup {n + 1}, t, p, e)
         /\ Cardinality(P \cup {n + 1}) = Len(p) + 1
    <3>1. P \in SUBSET (1 .. n) /\ \A i \in P : t[i] = s[i]
      BY <2>7, <2>8
    <3>2. InTurn(P, s, p, e) /\ Cardinality(P) = Len(p) /\ e # << >>
      BY <1>3, <2>1, <2>2, <2>5 DEF InSequence, Placed
    <3>3. t[n + 1].command = Head(e)
      BY <1>3, <2>1, <2>3, <2>7
    <3> QED BY <3>1, <3>2, <3>3, InTurnAppends, SMTT(60)
  <2> QED BY <2>1, <2>10, <2>11, <2>12 DEF InSequence, Placed
<1>9. OneToken(l, c)'
  BY <1>3, <1>5, <1>6, <1>7, <1>8 DEF OneToken, Unserved, AtMostOne
<1> QED BY <1>8, <1>9

\* The leader appends the request of another client, which wants other
\* commands.
LEMMA OtherAppended ==
    ASSUME NEW l \in Servers, StateTypeOK, StateTypeOK', ClientTypeOK, OnceUnderWay(l), OnceHeld(l),
           LeaderAppends(l), OnceSent(l), Forward(l), UNCHANGED clientState,
           NEW c \in Clients, OneToken(l, c), InSequence(l, c),
           NEW d \in Clients, batch[done + 1].source = d, OneToken(l, d), d # c,
           CommandsOfClient(c) \cap CommandsOfClient(d) = {},
           HasEnded(l) => HasEnded(l)', HasEnded(c) => HasEnded(c)'
    PROVE  OneToken(l, c)' /\ InSequence(l, c)'
<1> USE DEF clientState
<1>1. PICK q : /\ q = batch[done + 1] /\ q.source = d
               /\ active = l
               /\ entries_queue'[l] = Append(entries_queue[l],
                                             [source |-> d, command |-> q.rpc.command])
               /\ server_log'[l] = Append(server_log[l],
                                          [term |-> current_term[l], command |-> q.rpc.command])
               /\ channel' = channel
  BY AppendsRequest
<1>2. q.rpc.command \in CommandsOfClient(d)
  BY <1>1, AppendsHead
<1>3. q.rpc.command \notin CommandsOfClient(c)
  BY <1>2
<1>4. l # c
  BY ClientFacts
<1>5. /\ Keeps(Requests(l, c), Requests(l, c)')
      /\ Keeps(Answers(l, c), Answers(l, c)')
      /\ Answers(l, c) # {} => Answers(l, c)' # {}
  <2>1. ~SendEntry(c) /\ ~Answering(l, c)
    BY <1>1, <1>4 DEF SendEntry, AllHandled, Answering
  <2>2. active # c
    BY <1>1, <1>4
  <2> QED BY <2>1, <2>2, OnceLinks, AnswersRemain
<1>6. Waits(l, c)' = Waits(l, c)
  <2>1. PICK S : entries_queue[l] \in Seq(S)
    BY OnceSequences
  <2>2. PICK s \in Seq(S) : s = entries_queue[l]
    BY <2>1
  <2>3. PICK x : x = [source |-> d, command |-> q.rpc.command]
    OBVIOUS
  <2>4. PICK t : t = Append(s, x)
    OBVIOUS
  <2>5. /\ \A i \in 1 .. Len(s) : t[i] = s[i]
        /\ t[Len(s) + 1] = x
        /\ \A i : i \in 1 .. Len(t) <=> i \in 1 .. Len(s) \/ i = Len(s) + 1
    BY <2>4, OneMore
  <2>6. {i \in 1 .. Len(t) : t[i].source = c} = {i \in 1 .. Len(s) : s[i].source = c}
    BY <2>3, <2>5
  <2>7. entries_queue'[l] = t
    BY <1>1, <2>2, <2>3, <2>4
  <2> QED BY <2>2, <2>6, <2>7 DEF Waits
<1>7. /\ PlacesOf(c, l)' = PlacesOf(c, l)
      /\ \A i \in PlacesOf(c, l) : server_log'[l][i] = server_log[l][i]
  <2>1. PICK s \in Seq(LogEntry) : s = server_log[l]
    BY OnceSequences
  <2>2. PICK x : x = [term |-> current_term[l], command |-> q.rpc.command]
    OBVIOUS
  <2>3. PICK t : t = Append(s, x)
    OBVIOUS
  <2>4. /\ \A i \in 1 .. Len(s) : t[i] = s[i]
        /\ t[Len(s) + 1] = x
        /\ \A i : i \in 1 .. Len(t) <=> i \in 1 .. Len(s) \/ i = Len(s) + 1
    BY <2>3, OneMore
  <2>5. {i \in 1 .. Len(t) : t[i].command \in CommandsOfClient(c)}
           = {i \in 1 .. Len(s) : s[i].command \in CommandsOfClient(c)}
    BY <1>3, <2>2, <2>4
  <2>6. server_log'[l] = t
    BY <1>1, <2>1, <2>2, <2>3
  <2>7. PlacesOf(c, l)' = {i \in 1 .. Len(t) : t[i].command \in CommandsOfClient(c)}
    BY <2>6 DEF PlacesOf, CommandsOfClient
  <2> QED BY <2>1, <2>4, <2>5, <2>6, <2>7 DEF PlacesOf
<1>8. PICK x \in Seq(Commands) : entries_to_send'[c] = entries_to_send[c] \o x
  BY EmptySuffix, OnceSequences
<1> QED BY <1>5, <1>6, <1>7, <1>8, ServedStays

\* The leader applies an entry, and it is not c that is answered.
LEMMA OthersAnswered ==
    ASSUME NEW l \in Servers, StateTypeOK, StateTypeOK', ClientTypeOK,
           ApplyEntry(l), OnceSent(l), Forward(l), UNCHANGED clientState,
           NEW c \in Clients, OneToken(l, c), InSequence(l, c),
           UNCHANGED <<channel, entries_queue>> \/ Head(entries_queue[l]).source # c,
           HasEnded(l) => HasEnded(l)', HasEnded(c) => HasEnded(c)'
    PROVE  OneToken(l, c)' /\ InSequence(l, c)'
<1> USE DEF clientState
<1>1. active = l /\ UNCHANGED server_log /\ l # c
  BY AppliesFirst, ClientFacts
<1>2. /\ Keeps(Requests(l, c), Requests(l, c)')
      /\ Keeps(Answers(l, c), Answers(l, c)')
      /\ Answers(l, c) # {} => Answers(l, c)' # {}
  <2>1. ~SendEntry(c) /\ ~Answering(l, c)
    BY <1>1 DEF SendEntry, AllHandled, Answering
  <2>2. active # c
    BY <1>1
  <2> QED BY <2>1, <2>2, OnceLinks, AnswersRemain
<1>3. /\ AtMostOne(Waits(l, c)) => AtMostOne(Waits(l, c)')
      /\ Waits(l, c)' = {} <=> Waits(l, c) = {}
  <2>1. CASE UNCHANGED entries_queue
    BY <2>1 DEF Waits
  <2>2. CASE /\ entries_queue[l] # << >> /\ entries_queue'[l] = Tail(entries_queue[l])
             /\ Head(entries_queue[l]).source # c
    <3>1. PICK S : entries_queue[l] \in Seq(S)
      BY OnceSequences
    <3>2. PICK s \in Seq(S) : s = entries_queue[l]
      BY <3>1
    <3>3. PICK t \in Seq(S) : t = Tail(s)
      BY <2>2, <3>2, HeadTailProperties
    <3>4. Len(s) \in Nat \ {0} /\ Len(t) = Len(s) - 1 /\ Head(s) = s[1]
          /\ \A i \in 1 .. Len(t) : t[i] = s[i + 1]
      BY <2>2, <3>2, <3>3, HeadTailProperties, LenProperties, EmptySeq
    <3>5. PICK W : W = {i \in 1 .. Len(s) : s[i].source = c}
      OBVIOUS
    <3>6. PICK V : V = {i \in 1 .. Len(t) : t[i].source = c}
      OBVIOUS
    <3>7. \A i \in V : i \in Nat /\ i + 1 \in W
      <4>1. \A i \in 1 .. Len(t) : i \in Nat /\ i + 1 \in 1 .. Len(s)
        BY <3>4
      <4> QED BY <3>4, <3>5, <3>6, <4>1
    <3>8. \A i \in W : i - 1 \in V
      <4>1. ASSUME NEW i \in W PROVE i - 1 \in V
        <5>1. i \in 1 .. Len(s) /\ i # 1 /\ s[i].source = c
          BY <2>2, <3>2, <3>4, <3>5
        <5>2. PICK j \in Int : j = i - 1
          BY <5>1
        <5>3. j \in 1 .. Len(t) /\ j + 1 = i
          BY <3>4, <5>1, <5>2
        <5>4. t[j] = s[i]
          BY <3>4, <5>3
        <5> QED BY <3>6, <5>1, <5>2, <5>3, <5>4
      <4> QED BY <4>1
    <3>9. AtMostOne(W) => AtMostOne(V)
      <4> SUFFICES ASSUME AtMostOne(W), NEW i \in V, NEW j \in V PROVE i = j
        BY DEF AtMostOne
      <4>1. i + 1 = j + 1 /\ i \in Nat /\ j \in Nat
        BY <3>7 DEF AtMostOne
      <4> QED BY <4>1
    <3>10. V = {} <=> W = {}
      BY <3>7, <3>8
    <3>11. Waits(l, c) = W /\ Waits(l, c)' = V
      BY <2>2, <3>2, <3>3, <3>5, <3>6 DEF Waits
    <3> QED BY <3>9, <3>10, <3>11
  <2> QED BY <2>1, <2>2, AppliesFirst
<1>4. /\ PlacesOf(c, l)' = PlacesOf(c, l)
      /\ \A i \in PlacesOf(c, l) : server_log'[l][i] = server_log[l][i]
  BY <1>1 DEF PlacesOf, CommandsOfClient
<1>5. PICK x \in Seq(Commands) : entries_to_send'[c] = entries_to_send[c] \o x
  BY EmptySuffix, OnceSequences
<1> QED BY <1>2, <1>3, <1>4, <1>5, ServedStays

\* The leader answers c: its request has its answer, unless c has ended.
LEMMA OwnAnswered ==
    ASSUME NEW l \in Servers, StateTypeOK, StateTypeOK', ClientTypeOK,
           ApplyEntry(l), OnceSent(l), Forward(l), UNCHANGED clientState,
           NEW c \in Clients, OneToken(l, c), InSequence(l, c),
           entries_queue[l] # << >>, entries_queue'[l] = Tail(entries_queue[l]),
           Head(entries_queue[l]).source = c,
           Reply(l, c, NewLogEntryResponse(TRUE)), UNCHANGED <<active, batch, done>>,
           HasEnded(c) => HasEnded(c)', Ended \subseteq Ended'
    PROVE  OneToken(l, c)' /\ InSequence(l, c)'
<1> USE DEF clientState
<1>1. active = l /\ UNCHANGED server_log /\ l # c /\ ~HasEnded(l) /\ l \in Ranks /\ c \in Ranks
  BY AppliesFirst, ClientFacts, RanksFacts DEF HasEnded
<1>2. PICK S : entries_queue[l] \in Seq(S)
  BY OnceSequences
<1>3. PICK s \in Seq(S) : s = entries_queue[l]
  BY <1>2
<1>4. PICK t \in Seq(S) : t = Tail(s)
  BY <1>3, HeadTailProperties
<1>5. Len(s) \in Nat \ {0} /\ Len(t) = Len(s) - 1 /\ s[1].source = c
      /\ \A i \in 1 .. Len(t) : t[i] = s[i + 1]
  BY <1>3, <1>4, HeadTailProperties, LenProperties, EmptySeq
<1>6. 1 \in Waits(l, c)
  <2>1. 1 \in 1 .. Len(s)
    BY <1>5
  <2> QED BY <1>3, <1>5, <2>1 DEF Waits
<1>7. /\ Requests(l, c) = {} /\ Answers(l, c) = {} /\ ~entry_sent[c]
      /\ entries_to_send[c] # << >> /\ Placed(l, c) = Len(popped[c]) + 1
      /\ \A i \in Waits(l, c) : i = 1
  BY <1>1, <1>6 DEF OneToken, Unserved, AtMostOne
<1>8. Waits(l, c)' = {}
  <2> SUFFICES ASSUME NEW i \in 1 .. Len(t), t[i].source = c PROVE FALSE
    BY <1>3, <1>4 DEF Waits
  <2>1. i \in Nat \ {0} /\ i + 1 \in 1 .. Len(s) /\ s[i + 1].source = c
    BY <1>5
  <2>2. i + 1 \in Waits(l, c)
    BY <1>3, <2>1 DEF Waits
  <2>3. i + 1 = 1
    BY <1>7, <2>2
  <2> QED BY <2>1, <2>3
<1>9. Requests(l, c)' = {}
  <2>1. ~SendEntry(c)
    BY <1>1 DEF SendEntry, AllHandled
  <2> QED BY <1>7, <2>1, OnceLinks
<1>10. InSequence(l, c)' /\ Placed(l, c)' = Placed(l, c)
  <2>1. PlacesOf(c, l)' = PlacesOf(c, l)
    BY <1>1 DEF PlacesOf, CommandsOfClient
  <2> QED BY <1>1, <2>1 DEF InSequence, Placed
<1>11. PICK m \in RPC : m = NewLogEntryResponse(TRUE) /\ m.type = "NEW_LOG_ENTRY_RESPONSE"
  BY RpcFacts DEF NewLogEntryResponse
<1>12. channel \in Channels
  BY DEF StateTypeOK, ChannelTypeOK, Channels
<1>13. CASE c \in Ended
  <2>1. channel' = channel
    BY <1>13 DEF Reply, SendMessage
  <2>2. Answers(l, c)' = {}
    BY <1>7, <2>1, OnceLinks DEF Answering
  <2>3. HasEnded(c)'
    BY <1>1, <1>13 DEF HasEnded
  <2> QED BY <1>7, <1>8, <1>9, <1>10, <2>2, <2>3 DEF OneToken, Unserved, AtMostOne
<1>14. CASE c \notin Ended
  <2>1. PICK q \in Seq(RPC) : q = channel[l][c]
    BY <1>1, <1>12 DEF Channels
  <2>2. PICK w : w = Append(q, m)
    OBVIOUS
  <2>3. channel'[l][c] = w
    BY <1>1, <1>11, <1>12, <1>14, <2>1, <2>2 DEF Reply, SendMessage, Channels
  <2>4. /\ w[Len(q) + 1] = m
        /\ \A i \in 1 .. Len(q) : w[i] = q[i]
        /\ \A i : i \in 1 .. Len(w) <=> i \in 1 .. Len(q) \/ i = Len(q) + 1
    BY <2>2, OneMore
  <2>5. PICK h \in Nat \ {0} : h = done + 1
    <3>1. PICK o \in Nat : o = done
      BY DEF StateTypeOK, UpdateTypeOK
    <3>2. o + 1 \in Nat \ {0}
      OBVIOUS
    <3> QED BY <3>1, <3>2
  <2>6. PICK B : B = LinkOf(channel', active', batch', l, c, "NEW_LOG_ENTRY_RESPONSE", h)
    OBVIOUS
  <2>7. PICK A : A = LinkOf(channel, active, batch, l, c, "NEW_LOG_ENTRY_RESPONSE", h)
    OBVIOUS
  <2>8. Answers(l, c)' = B /\ A = {}
    BY <1>7, <2>5, <2>6, <2>7 DEF Answers
  <2>9. \A i \in 1 .. Len(q) : q[i].type # "NEW_LOG_ENTRY_RESPONSE"
    <3>1. \A i \in 1 .. Len(channel[l][c]) :
             channel[l][c][i].type = "NEW_LOG_ENTRY_RESPONSE" =>
                [stage |-> "sent", place |-> i, rpc |-> channel[l][c][i]] \in A
      BY <2>7, LinkFacts
    <3> QED BY <2>1, <2>8, <3>1
  <2>10. [stage |-> "sent", place |-> Len(q) + 1, rpc |-> m] \in B
    <3>1. \A i \in 1 .. Len(channel'[l][c]) :
             channel'[l][c][i].type = "NEW_LOG_ENTRY_RESPONSE" =>
                [stage |-> "sent", place |-> i, rpc |-> channel'[l][c][i]] \in B
      BY <2>6, LinkFacts
    <3>2. PICK n : n = Len(q) + 1
      OBVIOUS
    <3>3. n \in 1 .. Len(w) /\ w[n] = m
      BY <2>4, <3>2
    <3> QED BY <1>11, <2>3, <3>1, <3>2, <3>3
  <2>11. \A x \in B : x = [stage |-> "sent", place |-> Len(q) + 1, rpc |-> m]
    <3> SUFFICES ASSUME NEW x \in B PROVE x = [stage |-> "sent", place |-> Len(q) + 1, rpc |-> m]
      OBVIOUS
    <3>1. active' # c
      BY <1>1
    <3>2. PICK i \in 1 .. Len(w) : /\ w[i].type = "NEW_LOG_ENTRY_RESPONSE"
                                   /\ x = [stage |-> "sent", place |-> i, rpc |-> w[i]]
      BY <2>3, <2>6, <3>1, LinkFacts
    <3>3. i = Len(q) + 1
      BY <2>4, <2>9, <3>2
    <3> QED BY <2>4, <3>2, <3>3
  <2>12. Answers(l, c)' # {} /\ AtMostOne(Answers(l, c)')
    BY <2>8, <2>10, <2>11 DEF AtMostOne
  <2> QED BY <1>7, <1>8, <1>9, <1>10, <2>12 DEF OneToken, Unserved, AtMostOne
<1> QED BY <1>13, <1>14

\* c takes the answer: its command is popped, and nothing is left of the
\* request.
LEMMA AnswerTaken ==
    ASSUME NEW l \in Servers, StateTypeOK, StateTypeOK', ClientTypeOK, OnceUnderWay(l),
           OnceSent(l), Forward(l), UNCHANGED <<server_log, entries_queue>>,
           NEW c \in Clients, TakeSuccess(c), OneToken(l, c), InSequence(l, c),
           HasEnded(l) => HasEnded(l)'
    PROVE  OneToken(l, c)' /\ InSequence(l, c)' /\ UNCHANGED endVars
<1>1. /\ active = c /\ phase = "handle" /\ done < Len(batch) /\ l # c
      /\ batch[done + 1].rpc.type = "NEW_LOG_ENTRY_RESPONSE"
      /\ UNCHANGED channel
  BY ClientFacts DEF TakeSuccess, ClientHandling
<1>2. done + 1 \in 1 .. Len(batch) /\ batch[done + 1].source = l
  <2>1. done + 1 \in 1 .. Len(batch) /\ active \in Receivers
    BY <1>1, QueryFacts DEF StateTypeOK, Receivers
  <2> QED BY <1>1, <2>1 DEF OnceUnderWay, OnceGood
<1>3. PICK h \in Nat \ {0} : h = done + 1
  <2>1. PICK o \in Nat : o = done
    BY DEF StateTypeOK, UpdateTypeOK
  <2>2. o + 1 \in Nat \ {0}
    OBVIOUS
  <2> QED BY <2>1, <2>2
<1>4. PICK u : u = [stage |-> "taken", place |-> h, rpc |-> batch[h].rpc]
  OBVIOUS
<1>5. u \in Answers(l, c)
  <2>1. PICK B : B = LinkOf(channel, active, batch, l, c, "NEW_LOG_ENTRY_RESPONSE", h)
    OBVIOUS
  <2>2. h \in h .. Len(batch)
    BY <1>2, <1>3, LengthsAreNat
  <2>3. u \in B
    BY <1>1, <1>2, <1>3, <1>4, <2>1, <2>2, LinkFacts
  <2> QED BY <1>3, <2>1, <2>3 DEF Answers
<1>6. /\ Waits(l, c) = {} /\ \A x \in Answers(l, c) : x = u
      /\ entries_to_send[c] # << >> /\ Placed(l, c) = Len(popped[c]) + 1
      /\ ~HasEnded(l) => Requests(l, c) = {}
  BY <1>5 DEF OneToken, AtMostOne
<1>7. /\ entries_to_send'[c] = Tail(entries_to_send[c])
      /\ popped'[c] = Append(popped[c], Head(entries_to_send[c]))
      /\ UNCHANGED <<active, batch, endVars>> /\ done' = done + 1
  BY <1>6, SuccessTakes
<1>8. Answers(l, c)' = {}
  <2>1. Answers(l, c)' \subseteq Answers(l, c)
    BY <1>1, OnceLinks DEF Answering
  <2> SUFFICES ASSUME NEW x \in Answers(l, c)' PROVE FALSE
    OBVIOUS
  <2>2. x = u
    BY <1>6, <2>1
  <2>3. PICK B : B = LinkOf(channel', active', batch', l, c, "NEW_LOG_ENTRY_RESPONSE", h + 1)
    OBVIOUS
  <2>4. x \in B
    BY <1>3, <1>7, <2>3 DEF Answers
  <2>5. \/ \E i \in 1 .. Len(channel'[l][c]) :
              x = [stage |-> "sent", place |-> i, rpc |-> channel'[l][c][i]]
        \/ \E i \in h + 1 .. Len(batch') :
              x = [stage |-> "taken", place |-> i, rpc |-> batch'[i].rpc]
    BY <2>3, <2>4, LinkFacts
  <2>6. u.stage = "taken" /\ u.place = h
    BY <1>4
  <2>7. x.place \in h + 1 .. Len(batch')
    BY <2>2, <2>5, <2>6
  <2> QED BY <2>2, <2>6, <2>7
<1>9. ~HasEnded(l) => Requests(l, c)' = {}
  <2>1. ~SendEntry(c)
    <3>1. done \in Nat /\ Len(batch) \in Nat
      BY LengthsAreNat DEF StateTypeOK, UpdateTypeOK
    <3> QED BY <1>1, <3>1 DEF SendEntry, AllHandled
  <2> QED BY <1>6, <2>1, OnceLinks
<1>10. Waits(l, c)' = {} /\ PlacesOf(c, l)' = PlacesOf(c, l)
  BY <1>6 DEF Waits, PlacesOf, CommandsOfClient
<1>11. InSequence(l, c)' /\ Placed(l, c)' = Len(popped'[c])
  <2>1. PICK e \in Seq(Commands), p \in Seq(Commands) : e = entries_to_send[c] /\ p = popped[c]
    BY OnceSequences
  <2>2. PICK P : P = PlacesOf(c, l)
    OBVIOUS
  <2>3. PICK n \in Nat : n = Len(server_log[l]) /\ P \in SUBSET (1 .. n)
    BY <2>2, OnceSequences
  <2>4. InTurn(P, server_log[l], p, e) /\ Cardinality(P) = Len(p) + 1 /\ e # << >>
    BY <1>6, <2>1, <2>2 DEF InSequence, Placed
  <2>5. PICK q \in Seq(Commands) : q = Append(p, Head(e))
    BY <2>4, HeadTailProperties, AppendProperties
  <2>6. PICK t \in Seq(Commands) : t = Tail(e)
    BY <2>4, HeadTailProperties
  <2>7. PICK log : log = server_log[l]
    OBVIOUS
  <2>8. InTurn(P, log, q, t) /\ Cardinality(P) = Len(q)
    <3>1. P \in SUBSET (1 .. n) /\ Len(p) \in Nat
      BY <2>3, LenProperties
    <3>2. InTurn(P, log, p, e) /\ Cardinality(P) # Len(p) /\ e # << >>
      BY <2>4, <2>7, <3>1
    <3> QED BY <2>5, <2>6, <3>1, <3>2, InTurnTakes
  <2> QED BY <1>7, <1>10, <2>1, <2>2, <2>5, <2>6, <2>7, <2>8 DEF InSequence, Placed
<1> QED BY <1>7, <1>8, <1>9, <1>10, <1>11 DEF OneToken, Unserved, AtMostOne

\* c sends the first command of its queue: nothing else of it is under way.
LEMMA RequestSent ==
    ASSUME NEW l \in Servers, StateTypeOK, StateTypeOK', ClientTypeOK, OnceHeld(l),
           OnceSent(l), Forward(l), UNCHANGED <<server_log, entries_queue>>,
           NEW c \in Clients, SendEntry(c), OneToken(l, c), InSequence(l, c)
    PROVE  OneToken(l, c)' /\ InSequence(l, c)'
<1>1. /\ active = c /\ done = Len(batch) /\ l # c /\ active' = active
      /\ leader_rank[c] = l /\ entry_sent[c] /\ entries_to_send[c] # << >>
      /\ Reply(c, l, NewLogEntry(Head(entries_to_send[c])))
      /\ ~entry_sent'[c]
      /\ UNCHANGED <<endVars, entries_to_send, popped>>
  BY ClientFacts DEF SendEntry, FrontEntry, AllHandled, HasEntryToSend, ThenCheck, OnceHeld, ClientTypeOK
<1>2. /\ Answers(l, c)' \subseteq Answers(l, c)
      /\ Keeps(Answers(l, c), Answers(l, c)')
      /\ Answers(l, c) # {} => Answers(l, c)' # {}
  <2>1. ~Answering(l, c)
    BY <1>1, AppliesFirst DEF Answering
  <2> QED BY <1>1, <2>1, OnceLinks, AnswersRemain
<1>3. /\ Waits(l, c)' = Waits(l, c) /\ PlacesOf(c, l)' = PlacesOf(c, l)
      /\ Placed(l, c)' = Placed(l, c)
  BY DEF Waits, PlacesOf, CommandsOfClient, Placed
<1>4. InSequence(l, c)'
  BY <1>1, <1>3 DEF InSequence
<1>5. /\ AtMostOne(Waits(l, c)') /\ AtMostOne(Answers(l, c)')
      /\ Waits(l, c)' = {} \/ Answers(l, c)' = {}
      /\ Waits(l, c)' # {} \/ Answers(l, c)' # {} =>
            entries_to_send'[c] # << >> /\ Placed(l, c)' = Len(popped'[c]) + 1
  BY <1>1, <1>2, <1>3 DEF OneToken, Keeps
<1>6. CASE l \in Ended
  <2>1. HasEnded(l)'
    BY <1>1, <1>6 DEF HasEnded, Ended, endVars
  <2> QED BY <1>4, <1>5, <2>1 DEF OneToken
<1>7. CASE l \notin Ended
  <2>1. ~HasEnded(l) /\ ~HasEnded(c)
    BY <1>1, <1>7 DEF HasEnded
  <2>2. Unserved(l, c) /\ Placed(l, c) = Len(popped[c])
    BY <1>1, <2>1 DEF OneToken, Unserved
  <2>3. l \in Ranks /\ c \in Ranks /\ channel \in Channels
    BY RanksFacts DEF StateTypeOK, ChannelTypeOK, Channels
  <2>4. PICK m : m = NewLogEntry(Head(entries_to_send[c]))
    OBVIOUS
  <2>5. m.type = "NEW_LOG_ENTRY" /\ m.command = Head(entries_to_send[c])
    BY <2>4 DEF NewLogEntry
  <2>6. PICK q \in Seq(RPC) : q = channel[c][l]
    BY <2>3 DEF Channels
  <2>7. PICK w : w = Append(q, m)
    OBVIOUS
  <2>8. channel'[c][l] = w
    BY <1>1, <1>7, <2>3, <2>4, <2>6, <2>7 DEF Reply, SendMessage, Channels
  <2>9. /\ w[Len(q) + 1] = m
        /\ \A i \in 1 .. Len(q) : w[i] = q[i]
        /\ \A i : i \in 1 .. Len(w) <=> i \in 1 .. Len(q) \/ i = Len(q) + 1
    BY <2>7, OneMore
  <2>10. \A i \in 1 .. Len(q) : q[i].type # "NEW_LOG_ENTRY"
    <3>1. PICK f : f = FirstAck
      OBVIOUS
    <3>2. PICK R : R = LinkOf(channel, active, batch, c, l, "NEW_LOG_ENTRY", f)
      OBVIOUS
    <3>3. R = {}
      BY <2>2, <3>1, <3>2 DEF Unserved, Requests
    <3>4. \A i \in 1 .. Len(channel[c][l]) :
             channel[c][l][i].type = "NEW_LOG_ENTRY" =>
                [stage |-> "sent", place |-> i, rpc |-> channel[c][l][i]] \in R
      BY <3>2, LinkFacts
    <3> QED BY <2>6, <3>3, <3>4
  <2>11. \A x \in Requests(l, c)' : x = [stage |-> "sent", place |-> Len(q) + 1, rpc |-> m]
    <3> SUFFICES ASSUME NEW x \in Requests(l, c)'
                 PROVE  x = [stage |-> "sent", place |-> Len(q) + 1, rpc |-> m]
      OBVIOUS
    <3>1. PICK f : f = FirstAck'
      OBVIOUS
    <3>2. PICK B : B = LinkOf(channel', active', batch', c, l, "NEW_LOG_ENTRY", f)
      OBVIOUS
    <3>3. x \in B
      BY <3>1, <3>2 DEF Requests
    <3>4. active' # l
      BY <1>1
    <3>5. PICK i \in 1 .. Len(w) : /\ w[i].type = "NEW_LOG_ENTRY"
                                   /\ x = [stage |-> "sent", place |-> i, rpc |-> w[i]]
      BY <2>8, <3>2, <3>3, <3>4, LinkFacts
    <3>6. i = Len(q) + 1
      BY <2>9, <2>10, <3>5
    <3> QED BY <2>9, <3>5, <3>6
  <2>12. /\ AtMostOne(Requests(l, c)')
         /\ \A u \in Requests(l, c)' : u.rpc.command = Head(entries_to_send'[c])
    BY <1>1, <2>5, <2>11 DEF AtMostOne
  <2>13. Waits(l, c)' = {} /\ Answers(l, c)' = {}
    BY <1>2, <1>3, <2>2 DEF Unserved
  <2> QED BY <1>1, <1>3, <1>4, <1>5, <2>2, <2>12, <2>13 DEF OneToken
<1> QED BY <1>6, <1>7

\* A step that does not concern c's request.
LEMMA ServedFrame ==
    ASSUME NEW l \in Servers, StateTypeOK, StateTypeOK', ClientTypeOK, OnceSent(l), Forward(l),
           NEW c \in Clients, OneToken(l, c), InSequence(l, c),
           ~SendEntry(c), ~Answering(l, c),
           \/ active # c
           \/ done = Len(batch)
           \/ /\ UNCHANGED <<active, batch>>
              /\ \/ done' = done
                 \/ done' = done + 1 /\ batch[done + 1].rpc.type # "NEW_LOG_ENTRY_RESPONSE",
           UNCHANGED <<server_log[l], entries_queue[l], popped[c]>>,
           NEW x \in Seq(Commands), entries_to_send'[c] = entries_to_send[c] \o x,
           entry_sent'[c] => entry_sent[c] \/ HasEnded(l)' \/ Unserved(l, c),
           HasEnded(l) => HasEnded(l)', HasEnded(c) => HasEnded(c)'
    PROVE  OneToken(l, c)' /\ InSequence(l, c)'
<1>1. /\ Keeps(Requests(l, c), Requests(l, c)')
      /\ Keeps(Answers(l, c), Answers(l, c)')
      /\ Answers(l, c) # {} => Answers(l, c)' # {}
  BY OnceLinks, AnswersRemain
<1>2. Waits(l, c)' = Waits(l, c)
  BY DEF Waits
<1>3. /\ PlacesOf(c, l)' = PlacesOf(c, l)
      /\ \A i \in PlacesOf(c, l) : server_log'[l][i] = server_log[l][i]
  BY DEF PlacesOf, CommandsOfClient
<1> QED BY <1>1, <1>2, <1>3, ServedStays

\* A client whose answer is overdue has no request under way with a server
\* that goes on: at most one RPC may be, and that would be its own.
LEMMA OverdueUnserved ==
    ASSUME NEW l \in Servers, StateTypeOK, OnceHeld(l), MaxOutstanding <= 1,
           NEW c \in Clients, AnswerOverdue(c, WaitingFor(c)), ~HasEnded(l)
    PROVE  Unserved(l, c)
<1>1. /\ active = c /\ l # c /\ phase = "check" /\ l \in Servers \ Ended
      /\ l \in Ranks /\ c \in Ranks
  BY ClientFacts, RanksFacts DEF AnswerOverdue, HasEnded
<1>2. done = Len(batch)
  BY <1>1 DEF OnceHeld
<1>3. PICK Q : Q = Waits(l, c)
  OBVIOUS
<1>4. Cardinality(Q) \in Nat /\ (Cardinality(Q) = 0 => Q = {})
  <2>1. PICK S : entries_queue[l] \in Seq(S)
    BY DEF StateTypeOK, LeaderTypeOK
  <2>2. Len(entries_queue[l]) \in Nat
    BY <2>1, LenProperties
  <2>3. Q \in SUBSET (1 .. Len(entries_queue[l]))
    BY <1>3 DEF Waits
  <2>4. IsFiniteSet(Q) /\ Cardinality(Q) \in Nat
    BY <2>2, <2>3, CountUpTo
  <2> QED BY <2>4, FS_EmptySet
<1>5. WaitingFor(c)[l] = Cardinality(Q)
  BY <1>3 DEF WaitingFor, Waits
<1>6. Len(channel[c][l]) + Len(channel[l][c]) + Cardinality(Q) < MaxOutstanding
  BY <1>1, <1>5 DEF AnswerOverdue, TimesOut
<1>7. Len(channel[c][l]) = 0 /\ Len(channel[l][c]) = 0 /\ Cardinality(Q) = 0
  <2>1. PICK a \in Nat : a = Len(channel[c][l])
    BY <1>1, LengthsAreNat
  <2>2. PICK b \in Nat : b = Len(channel[l][c])
    BY <1>1, LengthsAreNat
  <2>3. PICK k \in Nat : k = Cardinality(Q)
    BY <1>4
  <2>4. a + b + k < MaxOutstanding /\ MaxOutstanding \in Nat
    BY <1>6, <2>1, <2>2, <2>3, ClientAssumption
  <2>5. a = 0 /\ b = 0 /\ k = 0
    BY <2>4
  <2> QED BY <2>1, <2>2, <2>3, <2>5
<1>8. Requests(l, c) = {}
  <2>1. PICK f : f = FirstAck
    OBVIOUS
  <2>2. PICK R : R = LinkOf(channel, active, batch, c, l, "NEW_LOG_ENTRY", f)
    OBVIOUS
  <2>3. \A x \in R : x # x
    BY <1>1, <1>7, <2>2, LinkFacts
  <2> QED BY <2>1, <2>2, <2>3 DEF Requests
<1>9. Answers(l, c) = {}
  <2>1. PICK h \in Int : h = done + 1
    <3>1. PICK o \in Nat : o = done
      BY DEF StateTypeOK, UpdateTypeOK
    <3>2. o + 1 \in Int
      OBVIOUS
    <3> QED BY <3>1, <3>2
  <2>2. PICK A : A = LinkOf(channel, active, batch, l, c, "NEW_LOG_ENTRY_RESPONSE", h)
    OBVIOUS
  <2>3. \A i \in h .. Len(batch) : FALSE
    BY <1>2, <2>1, LengthsAreNat
  <2>4. \A x \in A : x # x
    BY <1>7, <2>2, <2>3, LinkFacts
  <2> QED BY <2>1, <2>2, <2>4 DEF Answers
<1> QED BY <1>3, <1>4, <1>7, <1>8, <1>9 DEF Unserved

\* A step of c itself.
LEMMA OwnClientStep ==
    ASSUME NEW l \in Servers, OnceBase(l), MaxOutstanding <= 1,
           StateTypeOK', OnceSent(l), Forward(l), UNCHANGED serverState,
           NEW c \in Clients, ClientStep(c, WaitingFor(c)), ~ClientReceives(c),
           OneToken(l, c), InSequence(l, c),
           HasEnded(l) => HasEnded(l)', HasEnded(c) => HasEnded(c)'
    PROVE  OneToken(l, c)' /\ InSequence(l, c)'
<1>1. /\ StateTypeOK /\ ClientTypeOK /\ OnceUnderWay(l) /\ OnceHeld(l)
  BY OnceBaseFacts
<1>2. UNCHANGED <<server_log, entries_queue>>
  BY DEF serverState, stateVars, leaderVars, logVars
<1>3. CASE TakeSuccess(c)
  BY <1>1, <1>2, <1>3, AnswerTaken
<1>4. CASE SendEntry(c)
  BY <1>1, <1>2, <1>4, RequestSent
<1>5. CASE ~TakeSuccess(c) /\ ~SendEntry(c)
  <2>1. ~Answering(l, c)
    <3>1. active \in {c, Nobody} /\ l # c /\ l # Nobody
      BY ClientActs, ClientFacts, RanksFacts
    <3> QED BY <1>1, <3>1, AppliesFirst DEF Answering
  <2>2. \/ active # c
        \/ done = Len(batch)
        \/ /\ UNCHANGED <<active, batch>>
           /\ \/ done' = done
              \/ done' = done + 1 /\ batch[done + 1].rpc.type # "NEW_LOG_ENTRY_RESPONSE"
    BY <1>1, <1>5, ClientKeepsAnswers
  <2>3. ~TakeFailure(c)
    <3> SUFFICES ASSUME TakeFailure(c) PROVE FALSE
      OBVIOUS
    <3>1. /\ active = c /\ done < Len(batch) /\ ~batch[done + 1].rpc.success
          /\ batch[done + 1].rpc.type = "NEW_LOG_ENTRY_RESPONSE"
      BY DEF TakeFailure, ClientHandling, Accepted
    <3>2. done + 1 \in 1 .. Len(batch) /\ active \in Receivers
      BY <1>1, <3>1, QueryFacts DEF StateTypeOK, Receivers
    <3> QED BY <1>1, <3>1, <3>2 DEF OnceUnderWay, OnceGood
  <2>4. /\ UNCHANGED popped[c]
        /\ \E x \in Seq(Commands) : entries_to_send'[c] = entries_to_send[c] \o x
        /\ entry_sent'[c] => entry_sent[c] \/ HasEnded(l)' \/ Unserved(l, c)
    <3>1. UNCHANGED entries_to_send =>
             \E x \in Seq(Commands) : entries_to_send'[c] = entries_to_send[c] \o x
      BY <1>1, EmptySuffix, OnceSequences
    <3>2. CASE AnswerOverdue(c, WaitingFor(c))
      <4>1. HasEnded(l) \/ Unserved(l, c)
        BY <1>1, <3>2, OverdueUnserved
      <4> QED BY <3>1, <3>2, <4>1 DEF AnswerOverdue
    <3>3. CASE UNCHANGED <<entry_sent, popped>> /\ NewEntries(c)
      BY <1>1, <3>3, QueueGrows
    <3>4. CASE UNCHANGED <<entry_sent, popped, entries_to_send>>
      BY <3>1, <3>4
    <3> QED BY <1>1, <1>5, <2>3, <3>2, <3>3, <3>4, ClientMoves
  <2> QED BY <1>1, <1>2, <1>5, <2>1, <2>2, <2>4, ServedFrame
<1> QED BY <1>3, <1>4, <1>5

\* A server's step.
LEMMA ServedByServers ==
    ASSUME NEW l \in Servers, OnceBase(l), StateTypeOK', OnceSent(l), Forward(l),
           \A c, d \in Clients : c # d => CommandsOfClient(c) \cap CommandsOfClient(d) = {},
           \A c \in Clients : OneToken(l, c) /\ InSequence(l, c),
           NEW s \in Servers, ServerStep(s), UNCHANGED clientState,
           NEW c \in Clients, HasEnded(l) => HasEnded(l)', HasEnded(c) => HasEnded(c)'
    PROVE  OneToken(l, c)' /\ InSequence(l, c)'
<1>1. /\ StateTypeOK /\ ClientTypeOK /\ LogsInv(l) /\ TermsUnder(l)
      /\ OnceUnderWay(l) /\ OnceHeld(l)
  BY OnceBaseFacts
<1>2. CASE LeaderAppends(l)
  <2>1. PICK d \in Clients : batch[done + 1].source = d
    BY <1>1, <1>2, AppendsRequest
  <2>2. CASE d = c
    BY <1>1, <1>2, <2>1, <2>2, OwnAppended
  <2>3. CASE d # c
    BY <1>1, <1>2, <2>1, <2>3, OtherAppended
  <2> QED BY <2>2, <2>3
<1>3. CASE ApplyEntry(l)
  <2>1. CASE UNCHANGED <<channel, entries_queue>> \/ Head(entries_queue[l]).source # c
    BY <1>1, <1>3, <2>1, OthersAnswered
  <2>2. CASE ~(UNCHANGED <<channel, entries_queue>>) /\ Head(entries_queue[l]).source = c
    <3>1. /\ entries_queue[l] # << >> /\ entries_queue'[l] = Tail(entries_queue[l])
          /\ Reply(l, c, NewLogEntryResponse(TRUE)) /\ UNCHANGED <<active, batch, done>>
      BY <1>1, <1>3, <2>2, AppliesFirst
    <3>2. Ended \subseteq Ended'
      BY ServerActs
    <3> QED BY <1>1, <1>3, <2>2, <3>1, <3>2, OwnAnswered
  <2> QED BY <2>1, <2>2
<1>4. CASE ~LeaderAppends(l) /\ ~ApplyEntry(l)
  <2>1. active # c
    BY ServerActs, ClientFacts
  <2>2. ~SendEntry(c) /\ ~Answering(l, c)
    BY <1>4, <2>1 DEF SendEntry, AllHandled, Answering
  <2>3. UNCHANGED <<server_log[l], entries_queue[l]>>
    BY <1>1, <1>4, LeaderQueueMoves
  <2>4. PICK x \in Seq(Commands) : entries_to_send'[c] = entries_to_send[c] \o x
    BY <1>1, EmptySuffix, OnceSequences DEF clientState
  <2> QED BY <1>1, <2>1, <2>2, <2>3, <2>4, ServedFrame DEF clientState
<1> QED BY <1>2, <1>3, <1>4

\* A client's step, of c or of another.
LEMMA ServedByClients ==
    ASSUME NEW l \in Servers, OnceBase(l), StateTypeOK', OnceSent(l), Forward(l),
           MaxOutstanding <= 1,
           NEW d \in Clients, ClientStep(d, WaitingFor(d)), ~ClientReceives(d),
           UNCHANGED serverState,
           NEW c \in Clients, OneToken(l, c), InSequence(l, c),
           HasEnded(l) => HasEnded(l)', HasEnded(c) => HasEnded(c)'
    PROVE  OneToken(l, c)' /\ InSequence(l, c)'
<1>1. StateTypeOK /\ ClientTypeOK
  BY OnceBaseFacts
<1>2. CASE d = c
  BY <1>2, OwnClientStep
<1>3. CASE d # c
  <2>1. PICK w : w = WaitingFor(d)
    OBVIOUS
  <2>2. active \in {d, Nobody} /\ l # d /\ l # Nobody /\ c # Nobody
    BY ClientActs, ClientFacts, RanksFacts
  <2>3. ~SendEntry(c) /\ ~Answering(l, c) /\ active # c
    BY <1>1, <1>3, <2>2, AppliesFirst DEF SendEntry, AllHandled, Answering
  <2>4. UNCHANGED <<entries_to_send[c], entry_sent[c], popped[c]>>
    BY <1>1, <1>3, <2>1, OwnClientOnly
  <2>5. PICK x \in Seq(Commands) : entries_to_send'[c] = entries_to_send[c] \o x
    BY <1>1, <2>4, EmptySuffix, OnceSequences
  <2>6. UNCHANGED <<server_log[l], entries_queue[l]>>
    BY DEF serverState, stateVars, leaderVars, logVars
  <2> QED BY <1>1, <2>3, <2>4, <2>5, <2>6, ServedFrame
<1> QED BY <1>2, <1>3

\* A step of the controller, or of nobody.
LEMMA ServedByNobody ==
    ASSUME NEW l \in Servers, OnceBase(l), StateTypeOK', OnceSent(l), Forward(l),
           UNCHANGED <<updateVars, serverState, clientState>>,
           NEW c \in Clients, OneToken(l, c), InSequence(l, c),
           HasEnded(l) => HasEnded(l)', HasEnded(c) => HasEnded(c)'
    PROVE  OneToken(l, c)' /\ InSequence(l, c)'
<1> USE DEF clientState, updateVars, serverState, stateVars, leaderVars, logVars
<1>1. StateTypeOK /\ ClientTypeOK
  BY OnceBaseFacts
<1>2. ~SendEntry(c)
  BY <1>1 DEF SendEntry, HasEntryToSend, ClientTypeOK
<1>3. ~Answering(l, c)
  <2> SUFFICES ASSUME ApplyEntry(l), channel' # channel PROVE FALSE
    BY DEF Answering
  <2>1. entries_queue[l] # << >> /\ entries_queue[l] = Tail(entries_queue[l])
    BY <1>1, AppliesFirst
  <2>2. PICK S : entries_queue[l] \in Seq(S)
    BY <1>1, OnceSequences
  <2>3. PICK s \in Seq(S) : s = entries_queue[l]
    BY <2>2
  <2>4. Len(s) \in Nat /\ Len(Tail(s)) = Len(s) - 1 /\ Tail(s) = s
    BY <2>1, <2>3, LenProperties, HeadTailProperties
  <2> QED BY <2>4
<1>4. PICK x \in Seq(Commands) : entries_to_send'[c] = entries_to_send[c] \o x
  BY <1>1, EmptySuffix, OnceSequences
<1> QED BY <1>1, <1>2, <1>3, <1>4, ServedFrame

\* A process receives: what it had is where it was, or in its batch.
LEMMA ServedByReceiving ==
    ASSUME NEW l \in Servers, OnceBase(l), Receiving,
           NEW c \in Clients, OneToken(l, c), InSequence(l, c),
           HasEnded(l) => HasEnded(l)', HasEnded(c) => HasEnded(c)'
    PROVE  OneToken(l, c)' /\ InSequence(l, c)'
<1> USE DEF clientState, serverState, stateVars, leaderVars, logVars
<1>1. StateTypeOK /\ ClientTypeOK
  BY OnceBaseFacts
<1>2. PICK s \in Receivers, r \in Ranks : \E n \in 1 .. Len(channel[r][s]) : \E k \in 0 .. n :
         Drain(s, r, k, n) /\ (s \in Clients => k = n)
  BY DEF Receiving
<1>3. PICK n \in 1 .. Len(channel[r][s]) : \E k \in 0 .. n :
         Drain(s, r, k, n) /\ (s \in Clients => k = n)
  BY <1>2
<1>4. PICK k \in 0 .. n : Drain(s, r, k, n) /\ (s = c => k = n)
  BY <1>3
<1>5. /\ Keeps(Requests(l, c), Requests(l, c)')
      /\ Keeps(Answers(l, c), Answers(l, c)')
      /\ Answers(l, c) # {} => Answers(l, c)' # {}
  BY <1>1, <1>4, OnceDrains
<1>6. UNCHANGED <<server_log, entries_queue, popped, entry_sent, entries_to_send>>
  BY DEF Receiving
<1>7. /\ Waits(l, c)' = Waits(l, c) /\ PlacesOf(c, l)' = PlacesOf(c, l)
      /\ \A i \in PlacesOf(c, l) : server_log'[l][i] = server_log[l][i]
  BY <1>6 DEF Waits, PlacesOf, CommandsOfClient
<1>8. PICK x \in Seq(Commands) : entries_to_send'[c] = entries_to_send[c] \o x
  BY <1>1, <1>6, EmptySuffix, OnceSequences
<1> QED BY <1>1, <1>5, <1>6, <1>7, <1>8, ServedStays

----------------------------------------------------------------------------
(* The invariant of the program whose requests are answered in time.       *)

LEMMA ServedStep ==
    ASSUME NEW l \in Servers, Electable = {l}, MaxOutstanding <= 1,
           \A c, d \in Clients : c # d => CommandsOfClient(c) \cap CommandsOfClient(d) = {},
           OnceBase(l), StateTypeOK', [Next]_vars,
           \A c \in Clients : OneToken(l, c) /\ InSequence(l, c)
    PROVE  \A c \in Clients : OneToken(l, c)' /\ InSequence(l, c)'
<1> SUFFICES ASSUME NEW c \in Clients PROVE OneToken(l, c)' /\ InSequence(l, c)'
  OBVIOUS
<1>1. (HasEnded(l) => HasEnded(l)') /\ (HasEnded(c) => HasEnded(c)')
  BY EndedForGood DEF Receivers
<1>2. CASE Receiving
  BY <1>1, <1>2, ServedByReceiving
<1>3. CASE ~Receiving
  <2>1. OnceSent(l) /\ Forward(l)
    BY <1>3, OnceTurns
  <2>2. ASSUME NEW s \in Servers, ServerTurn(ServerStep(s))
        PROVE  OneToken(l, c)' /\ InSequence(l, c)'
    BY <1>1, <2>1, <2>2, ServedByServers DEF ServerTurn
  <2>3. ASSUME NEW d \in Clients, ClientTurn(ClientStep(d, WaitingFor(d)))
        PROVE  OneToken(l, c)' /\ InSequence(l, c)'
    <3>1. ClientStep(d, WaitingFor(d)) /\ UNCHANGED serverState /\ ~ClientReceives(d)
      BY <1>3, <2>3, ClientReceiving DEF ClientTurn
    <3> QED BY <1>1, <2>1, <3>1, ServedByClients
  <2>4. CASE ControllerStep /\ UNCHANGED <<serverState, clientState>>
    <3>1. UNCHANGED updateVars
      BY <2>4 DEF ControllerStep, GiveOrder, TakeAnswer, GiveUp, StopAll, StopNext, StopsReturn,
         EndOfInput, AtTheLoop, ControllerTurn
    <3> QED BY <1>1, <2>1, <2>4, <3>1, ServedByNobody
  <2>5. CASE UNCHANGED vars
    <3>1. UNCHANGED <<updateVars, serverState, clientState>>
      BY <2>5 DEF vars, serverVars, serverState, stateVars, dataVars, updateVars
    <3> QED BY <1>1, <2>1, <3>1, ServedByNobody
  <2> QED BY <2>2, <2>3, <2>4, <2>5 DEF Next
<1> QED BY <1>2, <1>3

LEMMA OnceInit ==
    ASSUME NEW l \in Servers, Electable = {l}
    PROVE  Init => OnceInv(l)
<1> SUFFICES ASSUME Init PROVE OnceInv(l)
  OBVIOUS
<1>1. /\ channel = [src \in Ranks |-> [dst \in Ranks |-> << >>]]
      /\ active = Nobody /\ phase = "idle" /\ batch = << >> /\ done = 0
      /\ server_log[l] = << >> /\ entries_queue[l] = << >>
      /\ leader_rank = [c \in Clients |-> 0]
      /\ entries_to_send = CommandsFile
      /\ popped = [c \in Clients |-> << >>]
      /\ input \in Inputs
  BY DEF Init, ServerInit, ProcessInit, ClientInit, ControllerInit
<1>2. l \in Ranks /\ Receivers \subseteq Ranks /\ Nobody \notin Receivers /\ Len(<< >>) = 0
  BY RanksFacts, ReceiversFacts, EmptySeq
<1>3. QueueInv(l)
  BY QueueInvInit DEF Init
<1>4. OnceUnderWay(l)
  <2>1. \A p, d \in Ranks : Len(channel[p][d]) = 0
    BY <1>1, <1>2
  <2> QED BY <1>1, <1>2, <2>1 DEF OnceUnderWay
<1>5. OnceHeld(l)
  <2>1. \A c \in Clients : \A i \in 1 .. Len(CommandsFile[c]) :
           CommandsFile[c][i] \in CommandsOfClient(c)
    <3>1. ASSUME NEW c \in Clients, NEW i \in 1 .. Len(CommandsFile[c])
          PROVE  CommandsFile[c][i] \in Range(CommandsFile[c])
      <4>1. PICK e \in Seq(Commands) : e = CommandsFile[c]
        BY ClientAssumption
      <4> QED BY <3>1, <4>1, LenProperties DEF Range
    <3> QED BY <3>1 DEF CommandsOfClient
  <2>2. \A i \in 1 .. Len(input) : input[i] \in InputLines
    <3>1. PICK e \in Seq(Orders \cup {StopAllLine}) : e = input
      BY <1>1, ControllerAssumption
    <3>2. \A i \in 1 .. Len(e) : e[i] \in Range(e)
      BY LenProperties DEF Range
    <3> QED BY <1>1, <3>1, <3>2 DEF InputLines
  <2>3. \A i \in 1 .. Len(entries_queue[l]) : entries_queue[l][i].source \in Clients
    BY <1>1, <1>2
  <2> QED BY <1>1, <2>1, <2>2, <2>3 DEF OnceHeld
<1>6. ASSUME NEW c \in Clients
      PROVE  OneToken(l, c) /\ InSequence(l, c)
  <2>1. c \in Ranks
    BY ClientFacts, ReceiversFacts DEF Receivers
  <2>2. Len(channel[c][l]) = 0 /\ Len(channel[l][c]) = 0 /\ Len(batch) = 0 /\ active # l /\ active # c
    BY <1>1, <1>2, <2>1, ReceiversFacts DEF Receivers
  <2>3. Requests(l, c) = {}
    <3>1. PICK f : f = FirstAck
      OBVIOUS
    <3>2. PICK R : R = LinkOf(channel, active, batch, c, l, "NEW_LOG_ENTRY", f)
      OBVIOUS
    <3>3. \A x \in R : x # x
      BY <2>2, <3>2, LinkFacts
    <3> QED BY <3>1, <3>2, <3>3 DEF Requests
  <2>4. Answers(l, c) = {}
    <3>1. PICK h : h = done + 1
      OBVIOUS
    <3>2. PICK A : A = LinkOf(channel, active, batch, l, c, "NEW_LOG_ENTRY_RESPONSE", h)
      OBVIOUS
    <3>3. \A x \in A : x # x
      BY <2>2, <3>2, LinkFacts
    <3> QED BY <3>1, <3>2, <3>3 DEF Answers
  <2>5. Waits(l, c) = {} /\ PlacesOf(c, l) = {}
    BY <1>1, <1>2 DEF Waits, PlacesOf
  <2>6. Cardinality(PlacesOf(c, l)) = 0 /\ popped[c] = << >>
    BY <1>1, <2>5, FS_EmptySet
  <2>7. OneToken(l, c)
    BY <1>2, <2>3, <2>4, <2>5, <2>6 DEF OneToken, Unserved, Placed, AtMostOne
  <2>8. InSequence(l, c)
    <3>1. PICK e \in Seq(Commands) : e = entries_to_send[c]
      BY <1>1, ClientAssumption
    <3>2. << >> \o e \in Seq(Commands)
      BY EmptySeq, ConcatProperties
    <3>3. 0 <= Len(<< >> \o e)
      BY <3>2, LenProperties
    <3> QED BY <1>2, <2>5, <2>6, <3>1, <3>3 DEF InSequence, InTurn
  <2> QED BY <2>7, <2>8
<1> QED BY <1>3, <1>4, <1>5, <1>6 DEF OnceInv

LEMMA OnceInvStep ==
    ASSUME NEW l \in Servers, Electable = {l}, NotCrashed(l), MaxOutstanding <= 1,
           \A c, d \in Clients : c # d => CommandsOfClient(c) \cap CommandsOfClient(d) = {},
           OnceInv(l), ProgramTypeInv, ProgramTypeInv', [Next]_vars
    PROVE  OnceInv(l)'
<1>1. OnceBase(l) /\ StateTypeOK'
  BY DEF OnceInv, OnceBase, ProgramTypeInv, TypeOK
<1>2. QueueInv(l)'
  <2>1. l \notin Crashable
    BY DEF Crashable, NotCrashed
  <2>2. AnyStep(l) /\ TakesStep /\ MildTurn(l)
    BY <2>1, ProgramIsTurn, OutsideIsTurn DEF ProgramTypeInv, TypeOK
  <2> QED BY <1>1, <2>2, QueueInvStep DEF OnceInv
<1>3. OnceUnderWay(l)' /\ OnceHeld(l)'
  BY <1>1, OnceUnderWayStep, OnceHeldStep
<1>4. \A c \in Clients : OneToken(l, c)' /\ InSequence(l, c)'
  BY <1>1, ServedStep DEF OnceInv
<1> QED BY <1>2, <1>3, <1>4 DEF OnceInv

LEMMA OnceInvImplies ==
    ASSUME NEW l \in Servers, Electable = {l}, OnceInv(l)
    PROVE  ExactlyOnce
<1>1. \A c \in Clients : InSequence(l, c)
  BY DEF OnceInv
<1> QED BY <1>1 DEF InSequence, InTurn, ExactlyOnce, Wanted

\* In the whole program, as long as requests are answered in time, the clients
\* want different commands and the user does not crash the server that may be
\* elected: each command of a client is in its log once, in the order of the
\* client's queue, whoever else crashes or stops and whenever (handle_queries
\* and update of the client, leader_routine and the apply loop of the leader).
THEOREM ProgramExactlyOnce ==
    ASSUME NEW l \in Servers, Electable = {l}, NotCrashed(l), MaxOutstanding <= 1,
           \A c, d \in Clients : c # d => CommandsOfClient(c) \cap CommandsOfClient(d) = {}
    PROVE  Spec => []ExactlyOnce
<1>1. Init => OnceInv(l)
  BY OnceInit
<1>2. OnceInv(l) /\ ProgramTypeInv /\ ProgramTypeInv' /\ [Next]_vars => OnceInv(l)'
  BY OnceInvStep
<1>3. OnceInv(l) => ExactlyOnce
  BY OnceInvImplies
<1> QED BY <1>1, <1>2, <1>3, ProgramTypeInit, ProgramTypeStep, PTL DEF Spec

\* A client ends by itself only when it is acknowledged with an empty queue.
LEMMA ClientGoesOn ==
    ASSUME NEW c \in Clients, NEW w, ClientStep(c, w), ~TakeSuccess(c)
    PROVE  UNCHANGED aborted
<1> USE DEF endVars
<1>1. CASE StartClient(c) \/ ClientReceives(c) \/ ClientHandles(c)
  BY <1>1 DEF StartClient, Begin, ClientReceives, Receive, Drain, ClientHandles
<1>2. CASE ClientHandlesQuery(c)
  <2>1. CASE LearnLeader(c) \/ TakeFailure(c)
    BY <2>1 DEF LearnLeader, TakeFailure
  <2>2. CASE \/ NewEntries(c) \/ DisplayOrSpeed(c) \/ Recover(c)
             \/ Start(c) \/ Crash(c) \/ Stop(c)
    BY <2>2 DEF NewEntries, DisplayOrSpeed, Recover, Start, Crash, Stop, AnswerOrder
  <2> QED BY <1>2, <2>1, <2>2 DEF ClientHandlesQuery
<1>3. CASE ClientRoutine(c, w)
  BY <1>3 DEF ClientRoutine, StaysDead, Search, SendEntry, SendNothing, AnswerOverdue,
     AnswerNotOverdue, ThenCheck
<1> QED BY <1>1, <1>2, <1>3 DEF ClientStep

\* In the whole program, if also the leader is answered before it sends the next
\* entries and there are two servers or more, no process ends by an exception
\* or undefined behaviour: in particular no client is acknowledged more often
\* than it asked and pops an empty queue (client.cpp:115; server.cpp).
THEOREM ProgramGoesOn ==
    ASSUME NEW l \in Servers, Electable = {l}, NotCrashed(l), MaxOutstanding <= 1,
           MaxInFlight = 1, NServers >= 2,
           \A c, d \in Clients : c # d => CommandsOfClient(c) \cap CommandsOfClient(d) = {}
    PROVE  Spec => []NoAbort
<1>1. Init => OnceInv(l) /\ NoAbort
  BY OnceInit DEF Init, ServerInit, ProcessInit, NoAbort
<1>2. OnceInv(l) /\ ProgramTypeInv /\ ProgramTypeInv' /\ [Next]_vars => OnceInv(l)'
  BY OnceInvStep
<1>3. ASSUME OnceInv(l), CountInv(l), ProgramTypeInv, ProgramTypeInv', NoAbort, [Next]_vars
      PROVE  NoAbort'
  <2>1. ASSUME NEW s \in Servers, ServerTurn(ServerStep(s)) PROVE UNCHANGED aborted
    BY <1>3, <2>1, NoServerAborts DEF ServerTurn
  <2>2. ASSUME NEW c \in Clients, ClientTurn(ClientStep(c, WaitingFor(c)))
        PROVE  UNCHANGED aborted
    <3>1. ClientStep(c, WaitingFor(c)) /\ UNCHANGED serverState
      BY <2>2 DEF ClientTurn
    <3>2. CASE ~TakeSuccess(c)
      <4>1. PICK w : w = WaitingFor(c)
        OBVIOUS
      <4> QED BY <3>1, <3>2, <4>1, ClientGoesOn
    <3>3. CASE TakeSuccess(c)
      <4>1. OnceBase(l) /\ StateTypeOK' /\ OneToken(l, c) /\ InSequence(l, c)
        BY <1>3 DEF OnceInv, OnceBase, ProgramTypeInv, TypeOK
      <4>2. StateTypeOK /\ ClientTypeOK /\ OnceUnderWay(l)
        BY <4>1, OnceBaseFacts
      <4>3. OnceSent(l) /\ Forward(l)
        <5>1. LogsInv(l) /\ OnceHeld(l) /\ UNCHANGED channel
          BY <3>3, <4>1, OnceBaseFacts DEF TakeSuccess
        <5>2. ~ClientReceives(c)
          BY <3>3 DEF TakeSuccess, ClientHandling, ClientReceives, Receive, Drain
        <5>3. OnceSent(l)
          BY <4>2, <5>1, NothingIsSent DEF StateTypeOK
        <5>4. PICK w : w = WaitingFor(c)
          OBVIOUS
        <5>5. Forward(l)
          BY <3>1, <5>1, <5>2, <5>4, OnceClientForward
        <5> QED BY <5>3, <5>5
      <4>4. HasEnded(l) => HasEnded(l)'
        BY <1>3, EndedForGood DEF Receivers
      <4>5. UNCHANGED <<server_log, entries_queue>>
        BY <3>1 DEF serverState, stateVars, leaderVars, logVars
      <4> QED BY <3>3, <4>1, <4>2, <4>3, <4>4, <4>5, AnswerTaken DEF endVars
    <3> QED BY <3>2, <3>3
  <2>3. ASSUME ControllerStep PROVE UNCHANGED aborted
    BY <2>3 DEF ControllerStep, GiveOrder, TakeAnswer, GiveUp, StopAll, StopNext, StopsReturn,
       EndOfInput, AtTheLoop, ControllerTurn, endVars
  <2>4. ASSUME UNCHANGED vars PROVE UNCHANGED aborted
    BY <2>4 DEF vars, serverVars, stateVars, dataVars, endVars
  <2> QED BY <1>3, <2>1, <2>2, <2>3, <2>4 DEF Next, NoAbort
<1> QED BY <1>1, <1>2, <1>3, ProgramCount, ProgramTypeInit, ProgramTypeStep, PTL DEF Spec

----------------------------------------------------------------------------
(* What a client was acknowledged the leader has applied, as often.        *)

\* Each request that waits in the leader's queue is one of its client's own
\* commands.
OwnInv(l) ==
    \A i \in 1 .. Len(entries_queue[l]) :
        entries_queue[l][i].command \in CommandsOfClient(entries_queue[l][i].source)

\* Among places counted upwards there is one at every count.
LEMMA PlaceAtCount ==
    ASSUME NEW n \in Nat, NEW P \in SUBSET (1 .. n), NEW k \in 1 .. Cardinality(P)
    PROVE  \E i \in P : Cardinality({j \in P : j <= i}) = k
<1> DEFINE count(i) == Cardinality({j \in P : j <= i})
<1>1. PICK m \in Nat : m = Cardinality(P)
  BY CountUpTo
<1>2. PICK f : f = [i \in P |-> count(i)]
  OBVIOUS
<1>3. f \in [P -> 1 .. m] /\ \A i \in P : f[i] = count(i)
  BY <1>1, <1>2, CountUpTo
<1>4. ASSUME NEW a \in P, NEW b \in P, a < b PROVE count(a) # count(b)
  <2>1. PICK A : A = {j \in P : j <= a}
    OBVIOUS
  <2>2. PICK B : B = {j \in P : j <= b}
    OBVIOUS
  <2>3. a \in Int /\ b \in Int /\ ~(b <= a) /\ b <= b
    BY <1>4
  <2>4. b \in B /\ b \notin A /\ B \in SUBSET (1 .. n)
    BY <2>1, <2>2, <2>3
  <2>5. A \in SUBSET B
    <3> SUFFICES ASSUME NEW j \in A PROVE j \in B
      OBVIOUS
    <3>1. j \in P /\ j <= a /\ j \in Int
      BY <2>1
    <3>2. j <= b
      BY <1>4, <2>3, <3>1
    <3> QED BY <2>2, <3>1, <3>2
  <2>6. IsFiniteSet(B)
    BY <2>4, CountUpTo
  <2>7. Cardinality(A) # Cardinality(B)
    BY <2>4, <2>5, <2>6, FS_Subset
  <2> QED BY <2>1, <2>2, <2>7
<1>5. ASSUME NEW a \in P, NEW b \in P, count(a) = count(b) PROVE a = b
  <2>1. a \in Int /\ b \in Int
    OBVIOUS
  <2>2. a < b \/ b < a \/ a = b
    BY <2>1
  <2> QED BY <1>4, <1>5, <2>2
<1> HIDE DEF count
<1>6. DOMAIN f = P
  BY <1>3
<1>7. f \in Injection(P, 1 .. m)
  BY <1>3, <1>5, <1>6 DEF Injection, IsInjective
<1>8. IsFiniteSet(1 .. m) /\ Cardinality(1 .. m) = m
  BY FS_Interval
<1>9. f \in Surjection(P, 1 .. m)
  BY <1>1, <1>7, <1>8, FS_Injection
<1>10. PICK i \in P : f[i] = k
  BY <1>1, <1>9 DEF Surjection
<1>11. count(i) = k
  BY <1>3, <1>10
<1> QED BY <1>11 DEF count

\* As many counts as there are places for them.
LEMMA CountsHavePlaces ==
    ASSUME NEW n \in Nat, NEW P \in SUBSET (1 .. n), NEW D \in SUBSET (1 .. Cardinality(P)),
           NEW E, IsFiniteSet(E),
           \A i \in P : Cardinality({j \in P : j <= i}) \in D => i \in E
    PROVE  Cardinality(D) <= Cardinality(E)
<1> DEFINE count(i) == Cardinality({j \in P : j <= i})
<1>1. PICK Q : Q = {i \in P : count(i) \in D}
  OBVIOUS
<1>2. PICK f : f = [i \in Q |-> count(i)]
  OBVIOUS
<1>3. f \in [Q -> D]
  BY <1>1, <1>2
<1>4. ASSUME NEW k \in D PROVE \E i \in Q : f[i] = k
  <2>1. PICK i \in P : count(i) = k
    BY PlaceAtCount
  <2> QED BY <1>1, <1>2, <2>1
<1> HIDE DEF count
<1>5. f \in Surjection(Q, D)
  BY <1>3, <1>4 DEF Surjection
<1>6. Q \in SUBSET E
  BY <1>1 DEF count
<1>7. IsFiniteSet(Q) /\ Cardinality(Q) <= Cardinality(E)
  BY <1>6, FS_Subset
<1>8. IsFiniteSet(D) /\ Cardinality(D) <= Cardinality(Q)
  BY <1>5, <1>7, FS_Surjection
<1>9. Cardinality(D) \in Nat /\ Cardinality(Q) \in Nat /\ Cardinality(E) \in Nat
  BY <1>7, <1>8, FS_CardinalityType
<1> QED BY <1>7, <1>8, <1>9

\* What the leader appends to its queue is a command of the client that asked.
LEMMA QueueIsOwn ==
    ASSUME NEW l \in Servers, OnceBase(l), \A c \in Clients : OneToken(l, c),
           \A i \in 1 .. Len(entries_queue[l]) :
              entries_queue[l][i].command \in CommandsOfClient(entries_queue[l][i].source),
           NEW s \in Servers, ServerStep(s)
    PROVE  \A i \in 1 .. Len(entries_queue'[l]) :
              entries_queue'[l][i].command \in CommandsOfClient(entries_queue'[l][i].source)
<1>1. /\ StateTypeOK /\ ClientTypeOK /\ LogsInv(l) /\ TermsUnder(l)
      /\ OnceUnderWay(l) /\ OnceHeld(l)
  BY OnceBaseFacts
<1>2. PICK S : entries_queue[l] \in Seq(S)
  BY <1>1 DEF StateTypeOK, LeaderTypeOK
<1>3. PICK q \in Seq(S) : q = entries_queue[l]
  BY <1>2
<1>4. Len(q) \in Nat /\ \A i \in 1 .. Len(q) : q[i].command \in CommandsOfClient(q[i].source)
  BY <1>3, LenProperties
<1>5. CASE LeaderAppends(l)
  <2>1. PICK c \in Clients : c = batch[done + 1].source
    BY <1>1, <1>5, AppendsRequest
  <2>2. PICK x : /\ x = [source |-> c, command |-> batch[done + 1].rpc.command]
                 /\ entries_queue'[l] = Append(q, x)
    BY <1>1, <1>3, <1>5, <2>1, AppendsRequest
  <2>3. batch[done + 1].rpc.command \in CommandsOfClient(c)
    BY <1>1, <1>5, <2>1, AppendsHead
  <2>4. x.command \in CommandsOfClient(x.source)
    BY <2>2, <2>3
  <2>5. PICK t : t = Append(q, x)
    OBVIOUS
  <2>6. /\ \A i \in 1 .. Len(q) : t[i] = q[i]
        /\ t[Len(q) + 1] = x
        /\ \A i : i \in 1 .. Len(t) <=> i \in 1 .. Len(q) \/ i = Len(q) + 1
    BY <2>5, OneMore
  <2>7. \A i \in 1 .. Len(t) : t[i].command \in CommandsOfClient(t[i].source)
    BY <1>4, <2>4, <2>6
  <2> QED BY <2>2, <2>5, <2>7
<1>6. CASE ApplyEntry(l)
  <2>1. CASE UNCHANGED entries_queue
    BY <1>3, <1>4, <2>1
  <2>2. CASE q # << >> /\ entries_queue'[l] = Tail(q)
    <3>1. PICK t : t = Tail(q)
      OBVIOUS
    <3>2. \A i \in 1 .. Len(t) : i + 1 \in 1 .. Len(q) /\ t[i] = q[i + 1]
      BY <1>4, <2>2, <3>1, HeadTailProperties
    <3>3. \A i \in 1 .. Len(t) : t[i].command \in CommandsOfClient(t[i].source)
      BY <1>4, <3>2
    <3> QED BY <2>2, <3>1, <3>3
  <2> QED BY <1>1, <1>3, <1>6, <2>1, <2>2, AppliesFirst
<1>7. CASE ~LeaderAppends(l) /\ ~ApplyEntry(l)
  BY <1>1, <1>3, <1>4, <1>7, LeaderQueueMoves
<1> QED BY <1>5, <1>6, <1>7

LEMMA OwnStep ==
    ASSUME NEW l \in Servers, Electable = {l}, NotCrashed(l),
           OnceInv(l), ProgramTypeInv, [Next]_vars, OwnInv(l)
    PROVE  OwnInv(l)'
<1>1. OnceBase(l)
  BY DEF OnceInv, OnceBase
<1>2. \A i \in 1 .. Len(entries_queue'[l]) :
         entries_queue'[l][i].command \in CommandsOfClient(entries_queue'[l][i].source)
  <2>1. ASSUME NEW s \in Servers, ServerTurn(ServerStep(s))
        PROVE  \A i \in 1 .. Len(entries_queue'[l]) :
                  entries_queue'[l][i].command \in CommandsOfClient(entries_queue'[l][i].source)
    <3>1. ServerStep(s)
      BY <2>1 DEF ServerTurn
    <3> QED BY <1>1, <3>1, QueueIsOwn DEF OnceInv, OwnInv
  <2>2. ASSUME NEW c \in Clients, ClientTurn(ClientStep(c, WaitingFor(c)))
        PROVE  UNCHANGED entries_queue
    BY <2>2 DEF ClientTurn, serverState, stateVars, dataVars, leaderVars
  <2>3. ASSUME ControllerStep /\ UNCHANGED <<serverState, clientState>>
        PROVE  UNCHANGED entries_queue
    BY <2>3 DEF serverState, stateVars, dataVars, leaderVars
  <2>4. ASSUME UNCHANGED vars PROVE UNCHANGED entries_queue
    BY <2>4 DEF vars, serverVars, stateVars, dataVars, leaderVars
  <2> QED BY <2>1, <2>2, <2>3, <2>4 DEF OwnInv, Next
<1> QED BY <1>2 DEF OwnInv, CommandsOfClient

\* Past the entries applied there is at most the last of the places.
LEMMA LastWaits ==
    ASSUME NEW n \in Nat, NEW A \in Nat, NEW P \in SUBSET (1 .. n),
           \A a, b \in P : A < a /\ A < b => a = b,
           NEW i \in P, A < i
    PROVE  {j \in P : j <= i} = P
<1> SUFFICES ASSUME NEW j \in P PROVE j <= i
  OBVIOUS
<1>1. i \in Int /\ j \in Int
  OBVIOUS
<1>2. CASE A < j
  BY <1>1, <1>2
<1>3. CASE ~(A < j)
  BY <1>1, <1>3
<1> QED BY <1>2, <1>3

Among(v, log, A) == {i \in 1 .. A : log[i].command = v}

\* If only an unacknowledged command is past the first A entries, the
\* acknowledged ones are among them, each as often.
LEMMA AcksApplied ==
    ASSUME NEW n \in Nat, NEW A \in Nat, NEW P \in SUBSET (1 .. n),
           NEW S, NEW p \in Seq(S), NEW e \in Seq(S), NEW log,
           InTurn(P, log, p, e),
           \A a, b \in P : A < a /\ A < b => a = b,
           \A a \in P : A < a => Cardinality(P) = Len(p) + 1, NEW v
    PROVE  TimesIn(v, p) <= Cardinality(Among(v, log, A))
<1>1. PICK E : E = Among(v, log, A)
  OBVIOUS
<1> DEFINE count(i) == Cardinality({j \in P : j <= i})
<1>2. PICK D : D = {k \in 1 .. Len(p) : p[k] = v}
  OBVIOUS
<1>3. PICK m \in Nat : m = Len(p)
  BY LenProperties
<1>4. PICK z \in Nat : z = Cardinality(P)
  BY CountUpTo
<1>5. z = m \/ z = m + 1
  BY <1>3, <1>4 DEF InTurn
<1>6. D \in SUBSET (1 .. m)
  BY <1>2, <1>3
<1>7. 1 .. m \in SUBSET (1 .. z)
  BY <1>5
<1>8. D \in SUBSET (1 .. Cardinality(P))
  BY <1>4, <1>6, <1>7
<1>9. IsFiniteSet(E)
  <2>1. E \in SUBSET (1 .. A)
    BY <1>1 DEF Among
  <2> QED BY <2>1, CountUpTo
<1>10. ASSUME NEW i \in P, count(i) \in D PROVE i \in E
  <2>1. i \in 1 .. n
    OBVIOUS
  <2>2. ~(A < i)
    <3> SUFFICES ASSUME A < i PROVE FALSE
      OBVIOUS
    <3>1. count(i) = z
      BY <1>4, LastWaits
    <3>2. z = m + 1
      BY <1>3, <1>4
    <3>3. z \in 1 .. m
      BY <1>6, <1>10, <3>1
    <3> QED BY <3>2, <3>3
  <2>3. i \in 1 .. A
    BY <2>1, <2>2
  <2>4. PICK k \in 1 .. m : k = count(i) /\ p[k] = v
    BY <1>2, <1>6, <1>10
  <2>5. log[i].command = (p \o e)[k]
    BY <2>4 DEF InTurn
  <2>6. (p \o e)[k] = p[k]
    BY <1>3, ConcatProperties
  <2>7. log[i].command = v
    BY <2>4, <2>5, <2>6
  <2> QED BY <1>1, <2>3, <2>7 DEF Among
<1> HIDE DEF count
<1>11. Cardinality(D) <= Cardinality(E)
  BY <1>8, <1>9, <1>10, CountsHavePlaces DEF count
<1> QED BY <1>1, <1>2, <1>11 DEF TimesIn

\* A command of c past those applied is one that waits for c.
LEMMA OneIsNotApplied ==
    ASSUME NEW l \in Servers, OnceInv(l), StateTypeOK, ClientTypeOK, OwnInv(l),
           \A c, d \in Clients : c # d => CommandsOfClient(c) \cap CommandsOfClient(d) = {},
           NEW c \in Clients, NEW A \in Nat, A = last_log_applied[l] + 1,
           NEW i \in PlacesOf(c, l), A < i
    PROVE  i - A \in Waits(l, c)
<1>1. PICK n \in Nat : n = Size(l)
  BY LogFacts DEF StateTypeOK
<1>2. i \in 1 .. n /\ server_log[l][i].command \in CommandsOfClient(c)
  BY <1>1 DEF PlacesOf, Size
<1>3. PICK a \in Int : a = last_log_applied[l]
  BY DEF StateTypeOK, ApplyTypeOK
<1>4. A = a + 1
  BY <1>3
<1>5. PICK q : q = entries_queue[l]
  OBVIOUS
<1>6. PICK j : j = i - A
  OBVIOUS
<1>7. Len(q) = n - (a + 1) /\ \A k \in 1 .. Len(q) : q[k].command = server_log[l][a + 1 + k].command
  <2>1. QueueFits(l)
    BY DEF OnceInv, QueueInv
  <2> QED BY <1>1, <1>3, <1>5, <2>1 DEF QueueFits
<1>8. j \in 1 .. Len(q) /\ a + 1 + j = i
  <2>1. PICK m : m = Len(q)
    OBVIOUS
  <2>2. m = n - (a + 1)
    BY <1>7, <2>1
  <2>3. j \in 1 .. m /\ a + 1 + j = i
    BY <1>2, <1>4, <1>6, <2>2
  <2> QED BY <2>1, <2>3
<1>9. q[j].command \in CommandsOfClient(c)
  BY <1>2, <1>7, <1>8
<1>10. q[j].source \in Clients /\ q[j].command \in CommandsOfClient(q[j].source)
  BY <1>5, <1>8 DEF OnceInv, OnceHeld, OwnInv
<1>11. q[j].source = c
  <2>1. PICK d \in Clients : d = q[j].source
    BY <1>10
  <2>2. PICK x : x = q[j].command
    OBVIOUS
  <2>3. x \in CommandsOfClient(c) /\ x \in CommandsOfClient(d)
    BY <1>9, <1>10, <2>1, <2>2
  <2> QED BY <2>1, <2>3
<1> QED BY <1>5, <1>6, <1>8, <1>11 DEF Waits

LEMMA EarnedByClient ==
    ASSUME NEW l \in Servers, OnceInv(l), StateTypeOK, ClientTypeOK, OwnInv(l),
           \A c, d \in Clients : c # d => CommandsOfClient(c) \cap CommandsOfClient(d) = {},
           NEW c \in Clients, NEW v
    PROVE  TimesIn(v, popped[c]) <= TimesApplied(v, l)
<1>1. PICK A \in Nat : A = last_log_applied[l] + 1
  BY DEF StateTypeOK, ApplyTypeOK
<1>2. PICK n \in Nat : n = Len(server_log[l])
  BY OnceSequences
<1>3. PICK P : P = PlacesOf(c, l)
  OBVIOUS
<1>4. P \in SUBSET (1 .. n)
  BY <1>2, <1>3, OnceSequences
<1>5. OneToken(l, c) /\ InSequence(l, c)
  BY DEF OnceInv
<1>6. \A i \in P : A < i => i - A \in Waits(l, c)
  BY <1>1, <1>3, OneIsNotApplied
<1>7. \A a, b \in P : A < a /\ A < b => a = b
  <2> SUFFICES ASSUME NEW a \in P, NEW b \in P, A < a, A < b PROVE a = b
    OBVIOUS
  <2>1. a \in Int /\ b \in Int
    BY <1>4
  <2>2. PICK x : x = a - A
    OBVIOUS
  <2>3. PICK y : y = b - A
    OBVIOUS
  <2>4. x \in Waits(l, c) /\ y \in Waits(l, c)
    BY <1>6, <2>2, <2>3
  <2>5. x = y
    BY <1>5, <2>4 DEF OneToken, AtMostOne
  <2> QED BY <2>1, <2>2, <2>3, <2>5
<1>8. \A a \in P : A < a => Cardinality(P) = Len(popped[c]) + 1
  <2> SUFFICES ASSUME NEW a \in P, A < a PROVE Cardinality(P) = Len(popped[c]) + 1
    OBVIOUS
  <2>1. Waits(l, c) # {}
    BY <1>6
  <2> QED BY <1>3, <1>5, <2>1 DEF OneToken, Placed
<1>9. InTurn(P, server_log[l], popped[c], entries_to_send[c])
  BY <1>3, <1>5 DEF InSequence
<1>10. popped[c] \in Seq(Commands) /\ entries_to_send[c] \in Seq(Commands)
  BY OnceSequences
<1>11. TimesIn(v, popped[c]) <= Cardinality(Among(v, server_log[l], A))
  BY <1>4, <1>7, <1>8, <1>9, <1>10, AcksApplied
<1>12. Among(v, server_log[l], A) = Among(v, server_log[l], last_log_applied[l] + 1)
  BY <1>1
<1> QED BY <1>11, <1>12 DEF TimesApplied, Among

LEMMA OwnInit ==
    ASSUME NEW l \in Servers, Init
    PROVE  OwnInv(l)
<1>1. entries_queue[l] = << >>
  BY DEF Init, ServerInit
<1> QED BY <1>1, EmptySeq DEF OwnInv

\* In the whole program, as long as requests are answered in time, the clients
\* want different commands and the user does not crash the server that may be
\* elected: whatever a client takes for acknowledged, the leader has applied, as
\* often (client.cpp:112; the apply loop of the leader). Answers that come late
\* break it, as the run lost_entry shows.
THEOREM ProgramAcksEarned ==
    ASSUME NEW l \in Servers, Electable = {l}, NotCrashed(l), MaxOutstanding <= 1,
           \A c, d \in Clients : c # d => CommandsOfClient(c) \cap CommandsOfClient(d) = {}
    PROVE  Spec => []AcksAreEarned
<1>1. Init => OnceInv(l) /\ OwnInv(l)
  BY OnceInit, OwnInit
<1>2. OnceInv(l) /\ ProgramTypeInv /\ ProgramTypeInv' /\ [Next]_vars => OnceInv(l)'
  BY OnceInvStep
<1>3. OnceInv(l) /\ OwnInv(l) /\ ProgramTypeInv /\ [Next]_vars => OwnInv(l)'
  BY OwnStep
<1>4. OnceInv(l) /\ OwnInv(l) /\ ProgramTypeInv => AcksAreEarned
  BY EarnedByClient DEF AcksAreEarned, ProgramTypeInv, TypeOK
<1> QED BY <1>1, <1>2, <1>3, <1>4, ProgramTypeInit, ProgramTypeStep, PTL DEF Spec
=============================================================================
