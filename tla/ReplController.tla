--------------------------- MODULE ReplController ---------------------------
(***************************************************************************)
(* The controller (repl_controller/repl_contoller.cpp): it reads commands  *)
(* from its input and turns them into orders for the processes, one after  *)
(* the other.  It waits up to 500 ms for the answer to each.               *)
(*                                                                         *)
(* Like an update of another process, a send or a receive of the           *)
(* controller takes place while nobody is inside update().                 *)
(***************************************************************************)
EXTENDS Process

CONSTANTS Inputs,      \* bound: what the user may type, line by line
          Impatient    \* whether the 500 ms may run out before a running
                       \* process has answered

\* The lines that do something: an order to a process (the rank checks of the
\* send_... functions), or stop_all.
Orders == [to : Clients, kind : ClientOrders, content : Seq(Commands)]
             \cup [to : Servers, kind : ServerOrders, content : Seq(Commands)]
StopAllLine == [to |-> Controller, kind |-> "STOP_ALL", content |-> << >>]

ASSUME ControllerAssumption ==
    /\ Inputs \subseteq Seq(Orders \cup {StopAllLine})
    /\ Impatient \in BOOLEAN

VARIABLES
    input,       \* the lines not read yet
    awaiting,    \* the process whose answer the controller waits for, 0 for none
    stopping,    \* in stop_all, the rank stopped next; 0 before
    returned     \* run_repl_controller has returned

controllerState == <<input, awaiting, stopping, returned>>

ControllerInit ==
    /\ input \in Inputs
    /\ awaiting = 0
    /\ stopping = 0
    /\ returned = FALSE

\* The controller can do something, and does nothing to the processes but
\* through the channels.
ControllerTurn ==
    /\ active = Nobody
    /\ ~returned
    /\ UNCHANGED <<endVars, updateVars>>

\* The first half of send_and_wait.  Wrong: an order not received yet is
\* overwritten.
SendOrderOverwrites(dst, m) ==
    /\ channel' = [channel EXCEPT ![Controller][dst] = <<m>>]
    /\ awaiting' = dst
SendOrder(dst, m) ==
    /\ channel' = SendMessage(channel, Controller, dst, m, Ended)
    /\ awaiting' = dst

\* The loop of run_repl_controller reads the next line.
AtTheLoop ==
    /\ ControllerTurn
    /\ awaiting = 0
    /\ stopping = 0

GiveOrder ==
    /\ AtTheLoop
    /\ input # << >>
    /\ Head(input) \in Orders
    /\ SendOrder(Head(input).to, Message(Head(input).kind, Head(input).content))
    /\ input' = Tail(input)
    /\ UNCHANGED <<stopping, returned>>

\* The second half of send_and_wait: whatever the process has sent is taken
\* for the answer, or none comes in time.
TakeAnswer ==
    /\ ControllerTurn
    /\ awaiting # 0
    /\ channel[awaiting][Controller] # << >>
    /\ channel' = [channel EXCEPT ![awaiting][Controller] = Tail(channel[awaiting][Controller])]
    /\ awaiting' = 0
    /\ UNCHANGED <<input, stopping, returned>>

GiveUp ==
    /\ ControllerTurn
    /\ awaiting # 0
    /\ Impatient \/ awaiting \in Ended
    /\ awaiting' = 0
    /\ UNCHANGED <<input, channel, stopping, returned>>

\* stop_all_processes
StopAll ==
    /\ AtTheLoop
    /\ input # << >>
    /\ Head(input) = StopAllLine
    /\ stopping' = 1
    /\ UNCHANGED <<input, channel, awaiting, returned>>

\* The processes are stopped in rank order.  Wrong: the last one is left out.
LeavesOneOut(rank) == rank >= NClients + NServers
AllAreStopped(rank) == rank > NClients + NServers

StopNext ==
    /\ ControllerTurn
    /\ awaiting = 0
    /\ stopping # 0
    /\ ~AllAreStopped(stopping)
    /\ SendOrder(stopping, Message("PROCESS_STOP", << >>))
    /\ stopping' = stopping + 1
    /\ UNCHANGED <<input, returned>>

StopsReturn ==
    /\ ControllerTurn
    /\ awaiting = 0
    /\ stopping # 0
    /\ AllAreStopped(stopping)
    /\ returned' = TRUE
    /\ UNCHANGED <<input, channel, awaiting, stopping>>

\* Without a stop_all, the end of the input ends the controller alone.
EndOfInput ==
    /\ AtTheLoop
    /\ input = << >>
    /\ returned' = TRUE
    /\ UNCHANGED <<input, channel, awaiting, stopping>>

ControllerStep ==
    \/ GiveOrder
    \/ TakeAnswer
    \/ GiveUp
    \/ StopAll
    \/ StopNext
    \/ StopsReturn
    \/ EndOfInput

ControllerTypeOK ==
    /\ input \in Seq(Orders \cup {StopAllLine})
    /\ awaiting \in Ranks
    /\ stopping \in 0 .. NClients + NServers + 1
    /\ returned \in BOOLEAN
=============================================================================
