----------------------------- MODULE MCAlgorep -----------------------------
(***************************************************************************)
(* Algorep as TLC checks it: one client (rank 1) with the commands of its  *)
(* file, servers from rank 2, and the inputs a user may type.              *)
(***************************************************************************)
EXTENDS Algorep

CONSTANTS a, b

OneCommand  == [c \in Clients |-> <<a>>]
TwoCommands == [c \in Clients |-> <<a, b>>]

OrderTo(p, kind) == [to |-> p, kind |-> kind, content |-> << >>]

StartClient1   == OrderTo(1, "PROCESS_START")
CrashClient1   == OrderTo(1, "PROCESS_CRASH")
RecoverClient1 == OrderTo(1, "PROCESS_RECOVER")
DisplayClient1 == OrderTo(1, "PROCESS_DISPLAY")
AddB           == [to |-> 1, kind |-> "CLIENT_CREATE_NEW_ENTRY", content |-> <<b>>]
CrashServer2   == OrderTo(2, "PROCESS_CRASH")
RecoverServer2 == OrderTo(2, "PROCESS_RECOVER")
StopServer2    == OrderTo(2, "PROCESS_STOP")

\* The client is started, and nothing else is typed.
StartOnly == {<<StartClient1>>}

\* The client crashes, recovers and is given another command; or the server
\* that leads crashes and recovers.
Faults == {<<StartClient1, CrashClient1, RecoverClient1, AddB>>,
           <<DisplayClient1, StartClient1, CrashServer2, RecoverServer2>>}

\* The client is given another command, crashes and recovers; or stop_all
\* follows an order to stop a server that may not have been answered.
AddCrashOrStop == {<<StartClient1, AddB, CrashClient1, RecoverClient1>>,
                   <<StopServer2, StopAllLine>>}
=============================================================================
