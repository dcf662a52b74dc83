------------------------------- MODULE Process -------------------------------
(***************************************************************************)
(* What the processes of the program share: the channels between them, and *)
(* the shape of an update(), which servers and clients repeat until they   *)
(* are stopped: receive what has arrived, handle each query, then run a    *)
(* routine.                                                                *)
(*                                                                         *)
(* A process is a single thread and shares nothing with the others but the *)
(* channels.  A send only appends to a channel and a receive takes any     *)
(* prefix of one, so an update whose steps are interleaved with those of   *)
(* other processes has the same effect as one that runs alone: its         *)
(* receives can be moved later and its sends earlier.  Hence one process   *)
(* at a time is inside update(): `active'.                                 *)
(***************************************************************************)
EXTENDS Rpc

CONSTANT EagerEntries   \* entries of an APPEND_ENTRIES that surely survive
                        \* the send (see ReceiveGarbled)

ASSUME EagerAssumption == EagerEntries \in Nat

VARIABLES
    stopped,           \* processes with _is_stopped set
    aborted,           \* processes ended by an exception or undefined behaviour
    channel,           \* [src][dst]: sent, not yet received
    active,            \* the process inside update(), 0 for none
    phase,             \* how far active is: "receive", "apply", "handle", "lead",
                       \* "check"
    source,            \* the least rank active has not drained yet
    batch,             \* received_queries of active
    done,              \* how many queries of batch the current loop has handled
    clocks_reset       \* the clocks active has reset during this update

endVars     == <<stopped, aborted>>
updateVars  == <<active, phase, source, batch, done, clocks_reset>>
processVars == <<endVars, channel, updateVars>>

Nobody == 0
Ended  == stopped \cup aborted

\* The clocks: a server has one, a client two.
Clocks == {"clock", "leader_clock", "entry_clock"}

ProcessInit ==
    /\ stopped = {}
    /\ aborted = {}
    /\ channel = [src \in Ranks |-> [dst \in Ranks |-> << >>]]
    /\ active = Nobody
    /\ phase = "idle"
    /\ source = 0
    /\ batch = << >>
    /\ done = 0
    /\ clocks_reset = {}

Reply(p, dst, m) == channel' = SendMessage(channel, p, dst, m, Ended)

----------------------------------------------------------------------------
(* run_server, run_client and receive_all_messages. *)

\* One turn of the loop of p.
Begin(p) ==
    /\ active = Nobody
    /\ p \notin Ended
    /\ active' = p
    /\ phase' = "receive"
    /\ UNCHANGED <<endVars, channel, source, batch, done, clocks_reset>>

\* p drains source r: n messages leave the channel, and the first k of them
\* enter the batch.
Drain(p, r, k, n) ==
    /\ active = p
    /\ phase = "receive"
    /\ r # p
    /\ r >= source
    /\ batch' = batch \o [i \in 1 .. k |-> [source |-> r, rpc |-> channel[r][p][i]]]
    /\ channel' = [channel EXCEPT ![r][p] = SubSeq(channel[r][p], n + 1, Len(channel[r][p]))]
    /\ source' = r + 1
    /\ UNCHANGED <<endVars, active, phase, done, clocks_reset>>

\* The inner loop of receive_all_messages: what has arrived from r is a
\* non-empty prefix of what r sent.  A source skipped had nothing arrived.
Receive(p, r) ==
    \E k \in 1 .. Len(channel[r][p]) : Drain(p, r, k, k)

\* send_message starts an MPI_Isend and lets go of the buffer at once.  A
\* message that MPI does not copy during the call may be sent as garbage:
\* it does not parse, receive_message returns nothing, and the loop over
\* this source ends.  Only an APPEND_ENTRIES with many entries is that long.
ReceiveGarbled(p, r) ==
    \E k \in 0 .. Len(channel[r][p]) - 1 :
        /\ channel[r][p][k + 1].type = "APPEND_ENTRIES"
        /\ Len(channel[r][p][k + 1].entries) > EagerEntries
        /\ Drain(p, r, k, k + 1)

----------------------------------------------------------------------------
(* The loop over the batch, and the end of an update, normally or not. *)

\* Wrong: a query is skipped.
NextQueryButOne ==
    /\ done' = done + 2
    /\ UNCHANGED <<active, phase, source, batch>>
NextQuery ==
    /\ done' = done + 1
    /\ UNCHANGED <<active, phase, source, batch>>

Resets(clocks) == clocks_reset' = clocks_reset \cup clocks
KeepClock      == UNCHANGED clocks_reset

\* A clock that has been reset during this update has not run out.
MayRunOut(clock) == clock \notin clocks_reset

AllHandled(p) ==
    /\ active = p
    /\ phase = "handle"
    /\ done = Len(batch)

EndUpdate ==
    /\ active' = Nobody
    /\ phase' = "idle"
    /\ source' = 0
    /\ batch' = << >>
    /\ done' = 0
    /\ clocks_reset' = {}

Abort(p) ==
    /\ aborted' = aborted \cup {p}
    /\ UNCHANGED stopped
    /\ EndUpdate

----------------------------------------------------------------------------
(* Types. *)

EndTypeOK ==
    /\ stopped \subseteq Ranks
    /\ aborted \subseteq Ranks

ChannelTypeOK == channel \in [Ranks -> [Ranks -> Seq(RPC)]]

UpdateTypeOK ==
    /\ active \in Ranks
    /\ phase \in {"idle", "receive", "apply", "handle", "lead", "check"}
    /\ source \in Nat
    /\ batch \in Seq(Query)
    /\ done \in 0 .. Len(batch)
    /\ clocks_reset \subseteq Clocks
=============================================================================
