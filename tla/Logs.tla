--------------------------------- MODULE Logs ---------------------------------
(***************************************************************************)
(* The life of a reading: from the polling thread through the writer into  *)
(* its table (DbOut), and from there into the archive (Maintenance).  The  *)
(* two share the tables and the database, which takes a run of the         *)
(* maintenance with it when it goes down, and they lose their power        *)
(* together.                                                               *)
(***************************************************************************)
EXTENDS Integers, Sequences, FiniteSets

CONSTANTS
  MaxReadings, BacklogMax, Refused, MaxBreaks,                    \* see DbOut
  Policies, TableOf, TimeOf, PerSecond, Keep, BatchSize, MaxRows, \* see Maintenance
  MaxTime, MaxTrouble,
  MaxFaults     \* bound: breaks and troubles in all

VARIABLES
  table,                                                          \* shared by both
  made, queue, backlog, up, link, pc, tries, wait, last, logged, ended, breaks, \* DbOut
  now, file, mpc, policy, total, batch, tmp, trouble, deleted     \* Maintenance

Row == 1 .. MaxReadings

W == INSTANCE DbOut
M == INSTANCE Maintenance

ASSUME LogsAssumption == W!DbOutAssumption /\ M!MaintenanceAssumption

writerVars == <<made, queue, backlog, up, link, pc, tries, wait, last, logged, ended, breaks>>
jobVars == <<now, file, mpc, policy, total, batch, tmp, trouble, deleted>>
vars == <<table, writerVars, jobVars>>

TypeOK == W!TypeOK /\ M!TypeOK

Init == W!Init /\ M!Init
------------------------------------------------------------------------------
(* A reading is put when the controller has sent it. *)
Poll ==
  /\ made < MaxReadings /\ TimeOf[made + 1] <= now
  /\ W!Poll
  /\ UNCHANGED jobVars

Process ==
  /\ W!Start \/ W!Shutdown \/ W!Writer \/ (pc = "done" /\ W!Exit) \/ W!DatabaseUp
  /\ UNCHANGED jobVars

(* The process dies, or is killed because it did not stop in time. *)
Die ==
  /\ trouble < MaxTrouble
  /\ trouble' = trouble + 1
  /\ W!Exit
  /\ UNCHANGED <<now, file, mpc, policy, total, batch, tmp, deleted>>

(* The server drops all transactions; the maintenance can only give up. *)
DatabaseDown ==
  /\ W!DatabaseDown
  /\ M!Idle
  /\ UNCHANGED <<now, file, trouble, deleted>>

Job ==
  /\ (up /\ M!Begin) \/ M!Step \/ M!Fail \/ M!Kill
  /\ UNCHANGED writerVars

PowerCut ==
  /\ M!PowerCut
  /\ W!MemoryLost
  /\ UNCHANGED <<made, up, logged, breaks>>

Tick == M!Tick /\ UNCHANGED writerVars

Next ==
  /\ Poll \/ Process \/ Die \/ DatabaseDown \/ Job \/ PowerCut \/ Tick
  /\ breaks' + trouble' <= MaxFaults

Spec == Init /\ [][Next]_vars

(***************************************************************************)
(* Both threads of control go on, a database which went away comes back, a *)
(* stopped process ends, and the timer starts the maintenance every day.   *)
(***************************************************************************)
FairSpec ==
  /\ Spec
  /\ WF_vars(Process /\ W!Writer) /\ WF_vars(Process /\ W!DatabaseUp)
  /\ WF_vars(Process /\ W!Exit /\ pc = "done")
  /\ WF_vars(Job /\ (M!Begin \/ M!Step))
------------------------------------------------------------------------------
(***************************************************************************)
(* A reading which was put is on its way, or stored, or it was given up    *)
(* for a reason the code names: its process ended, the backlog was full    *)
(* of later ones, or its statement is in the log as dropped, which happens *)
(* to a good one only when the connection broke twice (DB.py:303).         *)
(***************************************************************************)
GivenUp(r) ==
  \/ r <= ended
  \/ r + BacklogMax <= made
  \/ r \in logged /\ (r \in Refused \/ breaks >= 2)

NothingLost ==
  \A r \in 1 .. made : r \in W!InMemory \cup table \cup deleted \/ GivenUp(r)

(***************************************************************************)
(* A row reaches its table after all readings which were put before it and *)
(* not given up: the flow alarms and the graphs never see a gap filled     *)
(* later by the same process ("Write the backlog in order", DB.py:289).    *)
(***************************************************************************)
InOrder ==
  [][\A r \in table' \ table : \A q \in 1 .. r - 1 :
        q \in table' \cup deleted' \/ GivenUp(q)']_vars

(* What was deleted can be found in the archive, whatever happened since.  *)
DeletedAreArchived == M!DeletedAreArchived

(***************************************************************************)
(* The writer catches up again and again: readings which waited through an *)
(* outage are written, and one which never can be does not hold up the rest*)
(* (DB.py:288, "True when it is empty").                                   *)
(***************************************************************************)
Written == []<>(W!InMemory = {})

(***************************************************************************)
(* Again and again no expired row is left, in whichever table it was and   *)
(* however many batches, empty tables and failures came before it.         *)
(***************************************************************************)
Pruned == []<>(\A r \in table : TimeOf[r] + Keep >= now)
==============================================================================
