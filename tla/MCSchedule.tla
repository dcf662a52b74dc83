----------------------------- MODULE MCSchedule -----------------------------
(***************************************************************************)
(* RaftCluster as TLC checks it where a case is too deep for a search of   *)
(* all behaviours: the updates follow a schedule, which says whose update  *)
(* is next and whom it hears.  Each of those has sent it something, all of *)
(* which has arrived, and nothing has from anybody else.  Clients and      *)
(* controller send to an update that hears them, just before it.  What     *)
(* they send and which clocks run out is left open.  The behaviours are    *)
(* some of those of RaftCluster, with the place in the schedule added.     *)
(***************************************************************************)
EXTENDS RaftCluster

CONSTANT Schedule    \* the updates in their order

VARIABLE turn        \* how many of them have begun

Update(s, heard) == [server |-> s, hears |-> heard]

ScheduledInit == Init /\ turn = 0

Upcoming == Schedule[turn + 1]

\* Somebody the next update hears sends to it.
Sends ==
    /\ active = Nobody /\ active' = Nobody
    /\ turn < Len(Schedule)
    /\ \E p \in Upcoming.hears : channel'[p][Upcoming.server] # channel[p][Upcoming.server]
    /\ UNCHANGED turn

\* The next update begins.
TakesTurn ==
    /\ active = Nobody /\ active' # Nobody
    /\ turn < Len(Schedule)
    /\ active' = Upcoming.server
    /\ \A p \in Upcoming.hears : channel[p][Upcoming.server] # << >>
    /\ turn' = turn + 1

\* The update under way receives all of what it hears, in rank order.
GoesOn ==
    LET heard == Schedule[turn].hears IN
    /\ active # Nobody
    /\ phase' = "receive" =>
          source' - 1 \in heard /\ channel'[source' - 1][active] = << >>
    /\ phase = "receive" /\ phase' # "receive" =>
          \A p \in heard : channel[p][active] = << >>
    /\ UNCHANGED turn

ScheduledNext == Next /\ (Sends \/ TakesTurn \/ GoesOn)

ScheduledSpec == ScheduledInit /\ [][ScheduledNext]_<<vars, turn>>

----------------------------------------------------------------------------
\* Server 2 leads, appends a request and is crashed before anybody has the
\* entry.  Server 3 is elected by server 4 and appends two.  Server 2 recovers
\* and is sent both: the first of them conflicts with its own entry.
ConflictSchedule ==
    <<Update(2, {}), Update(3, {2}), Update(2, {3}), Update(2, {1}), Update(2, {0}),
      Update(3, {}), Update(4, {2, 3}), Update(3, {4}), Update(3, {1}),
      Update(2, {3}), Update(2, {0}), Update(3, {}), Update(2, {3}), Update(3, {2}),
      Update(3, {}), Update(2, {3}), Update(2, {})>>
=============================================================================
