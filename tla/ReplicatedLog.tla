--------------------------- MODULE ReplicatedLog ---------------------------
(***************************************************************************)
(* What the cluster promises: one log, to which accepted commands are      *)
(* appended, and which every server applies command by command, none left  *)
(* out, none twice, none out of order.  What is applied is written to the  *)
(* server's file, unless that is one that may fail.                        *)
(***************************************************************************)
EXTENDS Naturals, Sequences

CONSTANTS Servers, Commands, FailingFiles

VARIABLES log,      \* the commands accepted
          applied,  \* [s]: how many of them server s has applied
          files     \* [s]: the commands server s has written

Init ==
    /\ log = << >>
    /\ applied = [s \in Servers |-> 0]
    /\ files = [s \in Servers |-> << >>]

Accept == \E v \in Commands : log' = Append(log, v) /\ UNCHANGED <<applied, files>>

Apply(s) ==
    /\ applied[s] < Len(log)
    /\ applied' = [applied EXCEPT ![s] = applied[s] + 1]
    /\ \/ files' = [files EXCEPT ![s] = Append(files[s], log[applied[s] + 1])]
       \/ s \in FailingFiles /\ UNCHANGED files
    /\ UNCHANGED log

Next == Accept \/ \E s \in Servers : Apply(s)

Spec == Init /\ [][Next]_<<log, applied, files>>
=============================================================================
