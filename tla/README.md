# A TLA+ specification of the Raft log replication program

The program in `src/` replicates the commands of clients on a set of servers with the
Raft protocol. All processes are MPI ranks started by one `mpirun`: rank 0 is a REPL
controller, ranks `1..NClients` are clients, the ranks above are servers. This directory
holds TLA+ modules of the program, TLC configurations that check them on small
instances, and proofs, checked by TLAPS, of the theorems that hold for every instance.

Line numbers below are those of `src/src/server/server.cpp` unless a file is named
(`client.cpp`, `repl_contoller.cpp`, `rpc_communication.cpp` are all under `src/src/`).

## 1. Inventory

| Component | State | Operations | Hard behaviour |
|---|---|---|---|
| Server (`server/`) | status, term, vote, votes counted, log, commit and applied index, next and match index per server, queue of waiting requests, log file, clock | `update()`: receive all, apply, handle each query or order, run the routine of the status | elections and replication interleaved with every other server; late, repeated and garbled RPCs; crash, recovery, forced timeout; indexes without bounds |
| RPC and communication (`rpc/`) | MPI channels between ranks | send, send to all, receive one, receive all | order is kept per pair of ranks only; the send buffer is freed before MPI is done with it |
| Message (`message/`) | none | orders of the controller and their answers | |
| Clock (`clock/`) | time of the last reset | check, reset, wait | timeouts race answers |
| Client (`client/`) | status, leader it knows, queue of entries, "entry sent", two clocks | search the leader, send the front entry, handle answers and orders | resends after a timeout, answers that come after a resend, crash between request and answer |
| REPL controller (`repl_controller/`) | clock | parse a command, send an order, wait at most 500 ms for the answer | an answer after the timeout is taken for the next one |
| Program start (`main.cpp`) | | arguments, layout of the ranks | a single server is the default |
| JSON (`utils/json.hpp`) | | third-party serialisation | rejects garbage |

How they interact: clients search the leader among all servers (`SEARCH_LEADER`), send it
`NEW_LOG_ENTRY`, and are told of success when the entry is applied, or of failure when the
server does not lead. Servers exchange `VOTE_REQUEST`, `HEARTBEAT`, `APPEND_ENTRIES` and
their responses. The controller sends `MESSAGE` orders to both and waits for the
`MESSAGE_RESPONSE`. Nothing is shared but the channels. There is no disk state a process
reads back: a "crash" is the status `DEAD`, in which the process runs on but takes no part in
the protocol, and which resets part of the server's state (413-433).

What makes each part correct:

* server: one leader per term; the logs are copies of the leader's; committed entries are on
  a majority and stay in the log; every server applies the log in order and writes what it
  applies; acknowledgements go to the client that asked; a `DEAD` server is silent and catches up
  when it recovers; no exception ends a server;
* communication: per pair of ranks, what arrives is what was sent, in order, with gaps;
* client: every entry is sent until it is acknowledged, and leaves the queue only then;
* controller: every order is carried out, and `stop_all` ends the program.

The hazards of the code, each with the properties that would catch it going wrong, are listed
in `PROJECT.json`.

## 2. Modules

| Module | Content |
|---|---|
| `Rpc` | ranks, RPC records, channels, send operators |
| `Process` | what servers and clients share: the channels, who is inside `update()`, receiving, the loop over the batch, clocks, ends |
| `RaftServer` | the servers' variables, one action per step of `Server::update()` |
| `ServerProperties` | what the servers promise: types, safety, action and liveness properties |
| `RaftClient` | the clients' variables, one action per step of `Client::update()` |
| `ReplController` | the controller: input, orders, the wait for an answer, `stop_all` |
| `RaftCluster` | the servers with arbitrary requests and orders from outside; `Spec`, fairness |
| `Algorep` | the whole program: servers, clients, controller; `Spec`, fairness, what clients and user are promised |
| `ReplicatedLog` | abstract specification: one log, which every server applies and writes in order |
| `MCRaft`, `MCAlgorep` | what TLC needs: symmetry of the commands; command files and inputs |
| `MCSchedule` | `RaftCluster` along a schedule of updates, for cases too deep for a full search |
| `RaftTypes` | lemmas: types of every server step, facts about RPCs, channels and records |
| `LeaderProofs` | lemmas: the inductive invariant under one elected server, for any step from outside |
| `OrderProofs` | lemmas: entries arrive in the order in which the leader's log grew, so that no log shrinks; hence files and the abstract log |
| `AnyLeaderProofs` | lemmas: what holds whoever may be elected: a `DEAD` server stays silent, the terms along a log never fall while no server is crashed |
| `QueueProofs` | lemmas: the leader's queue fits its log, so that acknowledgements match entries |
| `ExchangeProofs` | lemmas: the one exchange between the leader and each follower, what it counts and commits, why nothing aborts |
| `ClusterProofs` | the theorems about `RaftCluster` |
| `AlgorepProofs` | the theorems about `Algorep`, and the acknowledgements its clients take |

`RaftCluster` and `Algorep` compose the same servers with two surroundings. `RaftCluster`
leaves open what reaches the servers, which makes its instances small; `Algorep` has the
clients and the controller that the code has. `ServerProperties` is stated once for both, and
so are the lemmas: a specification only has to show that its other steps are steps "from
outside" (`OutsideMove` of `ExchangeProofs`).

### How state and actions correspond to the code

Every variable of `RaftServer` up to `log_file` is a member of `Server` (server.hpp:61-106),
as a function of the server's rank; every variable of `RaftClient` but `popped` is one of
`Client` (client.hpp:55-88). `popped` is a history: what left the queue. `stopped` is
`_is_stopped`; `aborted` are processes that ended by an exception (`.at()` out of range, which
nothing catches) or by undefined behaviour. Nothing is claimed of such a process afterwards:
it takes no more steps. That is one outcome among those undefined behaviour permits; the
places are the front of an empty queue (501, client.cpp:115) and entries copied from a negative
index (163). An uncaught exception makes `mpirun` end the whole job; letting the others run on
adds behaviour and takes none away.

`channel[src][dst]` holds what is sent and not received. A message to a process that has
ended is not kept. In `RaftCluster` answers to clients and controller stay in their channels
as a record; in `Algorep` they are received.

`Server::update()` and `Client::update()` are sequences of actions of the process in `active`:

| Phase | Server | Code | Client | client.cpp |
|---|---|---|---|---|
| start | `StartUpdate` | 616-626 | `StartClient` | 308-318 |
| receive | `ReceiveAll` (`Receive`, `ReceiveGarbled`) | `receive_all_messages` | `ClientReceives` | 258-261 |
| apply | `ApplyEntry`, `BeginHandling` | 482-505 | `ClientHandles` | 262 |
| handle | `StepDown`, then one of `HandleHeartbeat`, `HandleVoteRequest`, `HandleVoteRequestThrows`, `HandleAppendEntriesDenied`, `HandleAppendEntries`, `AnswerSearchLeader`, `DenyNewLogEntry`, `PassOver`, `HandleDisplayOrSpeed`, `HandleStop`, `HandleCrash`, `HandleRecover`, `HandleServerTimeout` | 507-578, 244-477 | `LearnLeader`, `TakeSuccess`, `TakeFailure`, `NewEntries`, `DisplayOrSpeed`, `Recover`, `Start`, `Crash`, `Stop` | 84-252 |
| routine | `NoRoutine`, `FollowerTimesOut`, `CandidateDefers`, `CandidateWins`, `CandidateWaits`, `CandidateTimesOut` | 589-614, 108-139 | `StaysDead`, or one of `Search`, `SendEntry`, `SendNothing` | 264-287 |
| lead / check | `LeaderBeats` or `LeaderSkipsBeat`, then `LeaderAppends`, `LeaderCountsSuccess`, `LeaderBacksUp`, `LeaderPassesOver` per query, then `LeaderCommits` | 141-240 | `AnswerOverdue`, `AnswerNotOverdue` | 289-304 |

The controller (repl_contoller.cpp) reads a line and sends its order (`GiveOrder`, 73-355),
then takes the first message of that process (`TakeAnswer`) or gives up (`GiveUp`, 49-71);
`StopAll`, `StopNext`, `StopsReturn` are `stop_all_processes` (359-366); `EndOfInput` is the
end of the loop at 372.

Design decisions:

* *One process at a time is inside `update()`.* An update receives first and sends only
  afterwards. Order all updates by the moment their receiving ends: a message received in an
  update was sent by one that is earlier in this order, and what was sent but had not arrived
  is left in the channel, because `Receive` takes any non-empty prefix of a channel or skips
  it. So every interleaving of updates has the effect of some sequence of whole updates. The
  argument is the same for clients. The controller sends and receives between updates, one
  message per step.
* *Clocks.* Whether a clock has run out is left open at each check, except that a clock reset
  in the same update has not.
* *Delivery.* MPI keeps the order between two ranks and loses nothing, but `send_message`
  (rpc_communication.cpp:8-14) lets go of the buffer while `MPI_Isend` may still read it. Short
  messages are copied by the call; the only RPC whose length grows between servers is
  `APPEND_ENTRIES`. One with more than `EagerEntries` entries may arrive as garbage:
  `receive_message` drops it and the loop over this source ends. (That garbage could parse as a
  different RPC is left out, and so is the garbling of orders that bring a client whole files.)
* *The log file.* Each turn of the apply loop opens the file of its server (488-495).
  `ApplyEntry` leaves open whether that succeeds, for servers in `FailingFiles`. If it fails,
  the code writes nothing and does not read the log, so that no index throws; the entry counts
  as applied all the same, is not written later, and a leader acknowledges it (498-504). A
  write that fails on an open stream has the same outcome but for the read of the log, as the
  code never looks at the stream's state. `FailingFiles = {}` is a disk that works.
* *Data.* A command is a model value. Fields that no code reads (previous index and term of a
  heartbeat, the rank inside `SEARCH_LEADER`) are left out. The query's term is compared as in
  the code, -1 for clients and controller: the `size_t` it travels as comes back as -1. An empty
  candidate log gives the index -1, with the out-of-range read where the code has it (266).
* *Orders.* A process gets only the orders the controller lets through for its rank
  (repl_contoller.cpp:73-297), so the `default` cases (469, client.cpp:245) cannot occur. Speed
  and display change nothing that the model has. The files of `add_files_entries` (204-228)
  are sent one order each: several lines of the input. A rank that is not a number makes `std::stoi` throw
  and ends the controller alone, the same as an input that ends there. Lines that are refused
  or only print are no lines.
* *Requests of `RaftCluster`.* `NEW_LOG_ENTRY` goes to servers that may be elected, because a
  client addresses only one that has answered its search (`LearnLeader`); whether it still
  leads, or leads yet, is left open.
* *Client.* Its clocks may run out while it has fewer than `MaxOutstanding` RPCs under way with
  every server, counting the requests that wait there for their acknowledgement.

Some operators follow a wrong version of themselves, marked so. No definition uses them; each
is a plausible mistake at that place, and the property it breaks is checked to break.

## 3. Runs

Runs of `RaftCluster` use module `MCRaft`, those of `Algorep` module `MCAlgorep`; the instances
are in the `.cfg` files. Rank 1 is the client, the servers start at rank 2. Server 2 is the
electable one wherever only one is.

| Run | Instance | Checks |
|---|---|---|
| `stable` | 2 servers, one electable, 3 requests of 2 commands, up to 3 RPCs under way per follower, any file may fail | `TypeOK`, `PrefixOfLeader`, `CommitWithinLog`, `AckMatchesEntry`, `LogsOnlyGrow`, refinement `ImplementsReplicatedLog` |
| `crash` | 2 servers, one electable, 2 requests, 2 orders CRASH or RECOVER to either, 2 RPCs under way, any file may fail | `PrefixOfLeader`, `FilesFollowLeader`, `CommitWithinLog`, `DeadIsSilent` |
| `recovery` | 2 servers, one electable, 3 requests, CRASH and RECOVER of the follower, whose file may fail, 1 RPC under way, fairness | `MatchIsReplicated`, `CommittedOnMajority`, `NoAbort`, `EveryEntryApplied` |
| `elections` | 2 servers, both electable, 2 terms, 2 requests, 1 order among DISPLAY, STOP, RECOVER, SERVER_TIMEOUT | `CommittedStays` |
| `program` | whole program: 1 client, 2 servers, one electable, an impatient client, the leader's file may fail; client or leader crashes and recovers, a second command is added | `TypeOK`, `PrefixOfLeader`, `AcksAreCounted`, refinement `ImplementsReplicatedLog` |
| `served` | whole program: a client with one command answered in time, an impatient controller; a second command is added and the client crashes and recovers, or a server and then everything is stopped; fairness | `ExactlyOnce`, `NoAbort`, `AcksAreEarned`, `EveryOrderCounts`, `EveryCommandServed`, `StopAllEnds` |
| `two_leaders` | 3 servers, all electable, 1 term | violates `OneLeaderPerTerm` |
| `late_answers` | 3 servers, one electable, 2 requests, 2 RPCs under way | violates `CommittedOnMajority` |
| `missing_entry` | 2 servers, one electable, 2 requests, 2 RPCs under way, fairness | violates `EveryEntryApplied` |
| `refused_vote` | 2 servers, both electable, 2 terms, 1 request, one forced timeout | violates `UpdatedGetsVote` |
| `conflict` | 3 servers, two electable, 2 terms, 3 requests, CRASH and RECOVER of the first leader, along `ConflictSchedule` | violates `AppliedAgree` |
| `lost_entry` | whole program: an impatient client with two commands | violates `AcksAreEarned` |

`stable`, `recovery`, `two_leaders`, `late_answers` and `missing_entry` check deadlock as well: a
server can always start another update there. The others do not: their schedule or their input
ends, or their processes may stop or abort, after which nothing need happen.

### Bounds

* `Electable` - servers whose election clock may run out. One electable server is the
  regime the timing is designed for: heartbeats every 25 ms keep clocks of 200 to 400 ms from
  running out. All interleavings of replication happen in it, and most theorems are about it. The
  others can still be crashed and recovered. While the electable server itself is `DEAD` the
  regime keeps the others from timing out, and the code does not: what is said of its crash holds
  for one that is over before another server's clock runs out. `conflict` has a longer one.
* `MaxTerm` - no clock runs out at this term. With two servers two terms suffice for what such a
  pair can do: a deposed leader, a candidate that is refused, late heartbeats and answers of the
  other one. Between two servers no vote is granted once one of them has entries (266, 276), so
  that no log ever holds entries of two terms. That takes three servers: `conflict`, and the
  theorems whose statement does not depend on who may be elected.
* `Schedule` - with three servers, two leaders and entries a full search is out of reach.
  `MCSchedule` fixes whose update is next and whom it hears; what clients and controller send,
  what is garbled, which clocks run out and which branch is taken stay open. Its behaviours are
  behaviours of `RaftCluster`: a violation found there is one of `RaftCluster`.
* `MaxInFlight` - a leader's heartbeat clock runs out only while fewer RPCs are under way
  with each server (in both channels or in the batch being handled). 1 means that answers are
  prompt; 2 lets the same entries be sent twice; 3 is the least that makes a next index run
  ahead, be denied repeatedly, and fall below zero.
* `EagerEntries = 1` - messages with two entries may be garbled; `missing_entry` and
  `conflict` set 2, so that no garbling is involved.
* `FailingFiles` - the servers whose file may fail to open. Every server where files are the
  matter; the leader in `program`, whose acknowledgements depend on it; `{}` where files play no part
  and would only add states.
* `MaxRequests`, `MaxOrders` - three requests are the least that make a leader back up.
* `MaxOutstanding` - RPCs of a client under way with a server when one of its clocks runs out.
  1 is a client answered within one turn of its loop (it sleeps 250 ms at its middle speed,
  longer than its 100 ms timeouts); 2 is a client that sends again before it is answered.
* `Impatient` - whether the controller's 500 ms may run out before a process that runs has
  answered. Without it only a process that has ended leaves it without an answer.
* `CommandsFile`, `Inputs` - one or two commands and up to four lines of input: the least in
  which an entry is queued behind another, and an order follows one that was not answered.

Commands are symmetric: they are compared with each other and nothing else. Liveness runs use
no symmetry, nor do the runs whose command files tell commands apart.

### Fairness

`FairSpec` assumes, of each process that has not ended, that again and again an update receives
all that was sent to it: `run_server` and `run_client` loop for ever and MPI delivers
(receiving takes place in every update, and a sender is between two updates most of the time).
It assumes strong fairness of the timeouts of electable servers, of the leader's beat and of the
client's clocks: a clock that is not reset runs out, and each is reset only by the action it
guards or by an RPC. Of the controller it assumes that its wait ends and that `stop_all` goes
on; what the user types next is assumed of nobody. Nothing is assumed of requests and orders.
An `APPEND_ENTRIES` that is sent again and again is not garbled every time: whether MPI has
read the buffer when it is freed is a race, which no side loses for ever. Since beats and
clients are limited by `MaxInFlight` and `MaxOutstanding`, fairness of their clocks is what these
bounds permit.

## 4. What the checks show

With one electable server and whatever delay, repetition, garbling, crash or recovery, the logs
are beginnings of the leader's log, logs only grow, every server applies the log in order, and
the acknowledgements are in the order of the requests (`stable`, `crash`). A file holds what its
server applied, in order and none twice; if it never fails to open, all of it. With prompt
answers a committed entry is on a majority, match indexes are right, nothing aborts, and a
recovered follower catches up, denials and garbled entries included (`recovery`). Two servers are
an even number, of which half is no majority (131); with more followers the same is a theorem, and
`late_answers` has two. With two servers that may both lead, what was committed stays
(`elections`). In the whole program no acknowledgement is
given away, even to a client that sends again (`program`); a client answered in time has each of
its commands in the log exactly once, in its order, also across its own crash, and is given every
command the user adds once, also if the controller does not wait for the answer; every command is
acknowledged and applied by every server in the end, and `stop_all` ends every process
(`served`).

Six disagreements between the code and what it says:

1. `two_leaders`: a heartbeat clears `voted_for` (530-533), so that a server votes again in
   the same term and the term gets two leaders. Two servers time out together; the first to
   win sends its heartbeat to the third, which then grants the other's request.
2. `late_answers`: the match index counts successes (200) rather than being set from what was
   acknowledged. Entries sent twice before the first answer are answered twice, and the leader
   commits an entry no other server holds, against the comment at 231-232.
3. `missing_entry`: the next index is counted the same way (204) and passes an entry the
   follower lacks; from then on only heartbeats are sent (160), against server/README.md:3.
4. `lost_entry`: a success pops the front of the client's queue (client.cpp:115), whichever
   entry it answers. An entry sent twice is acknowledged twice, and the second acknowledgement
   drops an entry that was never sent, against client.cpp:112 and client.hpp:76.
5. `refused_vote`: a voter whose log is the same as the candidate's refuses (276), because the
   candidate's index of its last entry is compared with the size of the voter's log, and the
   remaining case (280) wants a strictly higher term, against the comments at 253 and 265.
6. `conflict`: at the first entry in conflict the old entry is dropped and the new one is not
   copied (351-357). The next new entry takes its place, and the follower answers with success,
   against 359, 376 and server/README.md:3. A leader that is crashed before anybody has its entry,
   and recovers under a new leader with two entries, ends up with the second of them where the
   others have the first, and applies it.

Also visible in the model, without a run of their own:

* When the log file of the leader does not open, the entry is applied without being written, then
  or later, and the client is acknowledged (492-504), although the comment at 498 says "the entry
  has been applied corretly".
* A voter whose log is shorter than the candidate's throws (266). Together with the fifth point
  a leader with entries that crashes can neither be replaced nor re-elected by servers holding
  the same log; the manual tests 2 and 7 (tests/README.md) report the stuck candidate.
* With one server, the default, the first `leader_routine` reads index 0 of the empty log.
* A `DEAD` client goes on handling answers (client.cpp:84), although README.md:63 has it cut off.
  `ExactlyOnce` shows that no harm comes of it: what it forgets would be sent again.
* A controller that gave up waiting shows the late answer as the answer to its next order to
  that process (repl_contoller.cpp:49-66).

## 5. Theorems

All are proved for every value of the constants that satisfies the assumptions
`RanksAssumption`, `EagerAssumption`, `ServerAssumption` and, as the module needs them,
`ClusterAssumption`, `ClientAssumption`, `ControllerAssumption`, `AlgorepAssumption`: the numbers
of processes and the bounds are naturals, the sets of servers are sets of servers, inputs are
sequences of lines. TLC evaluates these assumptions in every run.

| `ClusterProofs` | `AlgorepProofs` | Further assumption | Statement |
|---|---|---|---|
| `TypeCorrect` | `ProgramTypeCorrect` | | `Spec => []TypeOK` |
| `LogsFollowLeader` | `ProgramLogsFollow` | `Electable = {l}` | `Spec => []PrefixOfLeader` |
| `FilesFollow` | `ProgramFilesFollow` | `Electable = {l}` | `Spec => []FilesFollowLeader` |
| `Refinement` | `ProgramRefinement` | `Electable = {l}` | `Spec => ImplementsReplicatedLog` |
| `LogsNeverShrink` | `ProgramLogsGrow` | `Electable = {l}` | `Spec => LogsOnlyGrow` |
| `CommitStaysInside` | `ProgramCommitInside` | `Electable = {l}` | `Spec => []CommitWithinLog` |
| `CommittedForGood` | `ProgramCommittedStays` | `Electable = {l}` | `Spec => CommittedStays` |
| `AcksMatch` | `ProgramAcksMatch` | `Electable = {l}`, l is not crashed | `Spec => []AckMatchesEntry` |
| `MatchesAreReplicated` | `ProgramMatches` | `Electable = {l}`, l is not crashed, `MaxInFlight = 1` | `Spec => []MatchIsReplicated` |
| `CommittedHeldByMajority` | `ProgramCommittedHeld` | the same | `Spec => []CommittedOnMajority` |
| `NothingAborts` | | the same, `NServers >= 2` | `Spec => []NoAbort` |
| | `ProgramServersGoOn` | the same, `NServers >= 2` | `Spec => [](aborted \cap Servers = {})` |
| | `ProgramAcksCounted` | `Electable = {l}` | `Spec => []AcksAreCounted` |
| | `ProgramExactlyOnce` | `Electable = {l}`, l is not crashed, `MaxOutstanding <= 1`, clients want different commands | `Spec => []ExactlyOnce` |
| | `ProgramAcksEarned` | the same | `Spec => []AcksAreEarned` |
| | `ProgramGoesOn` | the same, `MaxInFlight = 1`, `NServers >= 2` | `Spec => []NoAbort` |
| `LogTermsNeverFall` | `ProgramLogTerms` | no server is crashed | `Spec => []LogTermsOrdered` |
| `DeadTakeNoPart` | `ProgramDeadTakeNoPart` | | `Spec => DeadIsSilent` |

The invariants are about one step of any specification whose servers take the steps of
`RaftServer` and whose other steps leave the servers' variables alone and put into the channels
what each lemma module allows. `ClusterProofs` and `AlgorepProofs` show that their other steps
are of this kind, and draw the temporal conclusions.

*Types.* `TypeOK` is inductive as it stands for `RaftCluster`; the whole program adds what the
batch of a client holds. One lemma per group of actions; what a send does to the channels, and
which RPCs the constructors build, are lemmas cited by all.

*Logs* (`LeaderProofs`). That every log is a beginning of l's log is not inductive: a follower
could hold a message with other entries. `LogsInv` adds

* `OnlyLeader`: only l is candidate or leader, and only l runs the leader's routine;
* `ChannelsGood` and `BatchGood`: every `APPEND_ENTRIES` in a channel or in the batch is a
  slice of l's log and is not addressed to l; a `SERVER_TIMEOUT` is addressed to l only.

l's log only grows (it is never sent entries), so slices stay slices. Merging a slice into a
beginning of l's log gives a beginning of l's log: the terms agree, so there is no conflict, and
a stale, shorter slice at worst cuts the log back to a shorter beginning. No assumption on
order, number or loss of messages is needed.

*Order* (`OrderProofs`). Logs never shrink because of the order of the channels: each beat reaches
to the end of l's log at that time, and l's log only grows, so the ends of the slices under
way to a server, first those in its batch and then those in the channel, never fall, and none
is below the end of the server's log. This is `ChannelOrder` and `BatchOrder`. Hence a merge
never cuts a log, a commit index that points into the log goes on doing so, and what is below it
is never replaced.

*Files and refinement* (`OrderProofs`). With `CommitWithinLog` an applied entry is in the log when it
is applied, so that the loop never throws, and the entry is that of l's log (`ApplyTakesNext`).
`FilesInv` says of each file that its lines are commands of applied entries of l's log at
increasing places (`Traced`), and one for each applied entry if the file never fails
(`Complete`). A failed open leaves a gap in the places and never a wrong or a second line. The
refinement maps the abstract log to the commands of l's log, and what each server applied to its
applied index: only `LeaderAppends` of l changes the log, by one command, and only `ApplyEntry`
changes what is applied, by one, and the file, by that command or, where it may fail, not at all.

*Silence* (`AnyLeaderProofs`). Orders come from the controller only, a batch is empty between
updates, and whoever is in the leader's routine is a leader. So a `DEAD` server, which has no
routine, is brought back by nothing but the controller. Any number of servers may be elected.

*Terms* (`AnyLeaderProofs`). `TermInv` says of every `APPEND_ENTRIES` under way that its entries are
ordered, start no lower than its previous entry and end no higher than the term of the RPC, and
that no order to crash is under way. A server handles entries only when its term is at least
theirs, and a term that is not reset never falls. With a crash the statement is false: the
recovered server starts again from term 0 under a log of higher terms.

*Queue* (`QueueProofs`). `QueueFits` says that l's queue is as long as its log beyond the last
applied entry and holds the same commands. It is kept by `LeaderAppends`, which adds to both, and by
`ApplyEntry`, as long as l leads from its first entry on (`StillLeads`). For that no term may
ever be above l's: `TermsUnder` says so of the servers and of everything under way. A crash of l
clears the queue and not the log, which is why it is excluded.

*Exchange* (`ExchangeProofs`). What the leader believes replicated is not inductive: an
acknowledgement names no entry, and the leader adds one to the match index whatever it is for.
It is right only because l sends nothing new to a follower before the last entries are answered
(`MaxInFlight = 1`; with 2 it is false, which is the run `late_answers`). `CountInv` adds to
`QueueInv`

* `ExchangeInv`: between l and each follower there is at most one message of entries or one
  answer to them, counted over both channels and the batches being handled; entries under way
  follow exactly what l has counted for the follower; an answer under way is a success, and the
  follower's log is longer by one than l has counted; the next index is the match index plus one
  and the follower holds what the match index says;
* `CommitsUnder`: no commit index, of a server or under way, is above l's;
* `CommitHeld`: the entry at l's commit index is in the logs of a majority. Logs do not shrink
  (`OrderInv`), so a majority once counted stays one.

With it no read of the code is out of range: the denied branch and the copy from a negative
index (163) do not happen, the queue is not empty when an entry is applied, and a voter asked
by a leader-to-be without entries is not asked for one. `NothingAborts` asks for two servers
because a single one reads index 0 of its empty log in its first `leader_routine`. In the whole
program a client that sends again may still abort (client.cpp:115), so `ProgramServersGoOn` is
about the servers.

*Acknowledgements* (`AlgorepProofs`). `AcksAreCounted` compares what clients took, what is under
way to them and what is in the batch of the one being handled with the number of entries l has
applied. Each acknowledgement is a place: in `popped`, in a channel or in the batch. To receive
moves places, one to one; to take a success exchanges a place in the batch for one in `popped`; to
send again adds a request and no acknowledgement; only the apply loop of a leader adds a place, and
it counts an entry as applied with it. Since l alone leads, `AcksInv` bounds the number of
places. Nothing is assumed of crashes, resends, garbling or files: the second acknowledgement of
`lost_entry` is for a second entry. That an acknowledged entry is also written is false
where the leader's file fails; with `FilesInv` it holds of a leader whose file never fails.

*Exactly once* (`AlgorepProofs`). A success pops the front of the queue whichever entry it
answers, and a request is appended whenever it arrives; nothing in the code relates the two. They
agree because a client answered in time (`MaxOutstanding <= 1`) never has two requests about.
`OnceInv` adds to `QueueInv`

* `OnceUnderWay` and `OnceHeld`: requests go from clients to l, which leads; only l answers them,
  always with a success; whoever a client takes for the leader is l, and what is in its queue or
  in an order for it is among its own commands;
* `InSequence`, for each client: its places in l's log hold the commands of `popped` followed by
  its queue, in this order, and are as many as it popped, or one more;
* `OneToken`, for each client: of its requests under way, its requests that wait in l's queue, and
  the answers under way there is at most one altogether. A request under way is for the head of
  the client's queue, and the log does not have it yet; once it waits, or is answered, the log
  has one place more than the client popped. While `entry_sent` says that the client may send,
  there is none of the three.

A step moves the token: `SendEntry` makes it a request, `LeaderAppends` a place in the log and in
the queue, `ApplyEntry` an answer, and `TakeSuccess` pops the command it stands for. When the
client's own clock runs out there is no token, by the bound, and it may send again. A crash of the
client takes the token neither from the channels nor from the queue, and leaves `entry_sent` as it
was. When l has ended nothing is claimed of requests, which are then lost. Clients
that want the same command could not tell their places in the log apart, hence the last
assumption; one client may want a command twice. With the token a success never finds the queue
empty, which is what `ProgramGoesOn` adds to `ProgramServersGoOn`.

`ProgramAcksEarned` follows from the same invariant and `OwnInv`: every request in the leader's
queue is for a command of the client that sent it. The places of a client's commands that are not
yet applied are then requests of that client in the queue, so by the token there is at most one,
the last, which is not acknowledged. All the others are applied, in the order in which they were
popped.

Only model-checked: `CommittedStays` with two electable servers, and `EveryOrderCounts`. Only
proved: `LogTermsOrdered`, for any number of leaders. No log has two terms before there are three
servers, two elections and entries of both, which is beyond a full search; `conflict` goes through
one such behaviour.
Liveness (`EveryEntryApplied`, `EveryCommandServed`, `StopAllEnds`) is out of the prover's reach
and stays with TLC, as would be what a recursive definition computes for all inputs. The
properties of the violation runs are false in general; `CommittedOnMajority` and `AcksAreEarned`
are proved for prompt answers only.

## 6. Not modelled, and why

* JSON (`utils/json.hpp`): third-party code, nine tenths of the lines of the implementation. It
  turns RPCs into text and back; the model keeps the record it carries.
* Parsing of arguments and the creation of directories (`main.cpp`): before any process
  takes a step.
* The speed of a process and durations: no state depends on them but through the clocks, which
  may run out at any check.
* The wording of the log file and of console messages, `process_list`, `process_help`, refused
  lines: no state changes.
* Overflow of terms and indexes: they count elections and entries.
* Failures of the disk other than those of section 2: nothing reads the log files back.
* Garbage that parses as another RPC, and garbled orders that carry whole command files.

## 7. Plan

Done: `Rpc`, `Process`, `RaftServer`, `ServerProperties`, `RaftCluster`, `ReplicatedLog` and
their runs; `RaftClient`, `ReplController`, `Algorep` and theirs; the proofs of section 5.

Left:

1. Logs of two terms that are long enough to be cut, by a schedule.
2. The commit of entries of an older term (235), which needs three servers and three terms: a
   schedule of its own, and a property of what may be said of it.
3. Votes that arrive in a later candidacy of the same server (116), by a schedule likewise.
