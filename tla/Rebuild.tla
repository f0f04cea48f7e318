-------------------------------- MODULE Rebuild --------------------------------
(***************************************************************************)
(* A scheduler run (SchedMain.py) statement by statement, beside the other *)
(* writers of the action table.  PostgreSQL runs it at READ COMMITTED: it  *)
(* deletes the pending rows, reads what is left, works out a plan, inserts *)
(* it row by row and commits.  Until then the others neither see what it   *)
(* inserted nor may touch what it deleted, and each of its own statements  *)
(* sees what they have committed before it.                                *)
(*                                                                         *)
(* A statement of a web page which meets a deleted row waits for the end   *)
(* of the run, and does not see the rows inserted by it: it is taken to    *)
(* come right before the commit.  A valve command of such a row is gone.   *)
(***************************************************************************)
EXTENDS ActionTable, FiniteSets, FiniteSetsExt

CONSTANTS
  LateSecs,   \* an on which is later asks for a rebuild
  MaxPlan     \* bound: rows in a plan

ASSUME RebuildAssumption == LateSecs \in Nat /\ MaxPlan \in Nat

VARIABLES
  phase,      \* "idle", "cleaned", "loaded", "inserted"
  minTime,    \* the run places nothing before this
  gone,       \* rows it has deleted
  plan,       \* runs it wants to insert: [valve, on, off]
  fresh,      \* rows it has inserted: from ids to runs
  wanted,     \* a notification, a retry or a new start of the scheduler is outstanding
  restored    \* auxiliary: rows which came back with a lost commit and no run has seen since

run == <<phase, minTime, gone, plan, fresh, wanted, restored>>
rebuildVars == <<vars, run>>

Runs == [valve : Station, on : 0 .. MaxTime, off : 0 .. MaxTime]
Overlaps(r, s) == ~Disjoint(r.on, r.off, s.on, s.off)
RunOf(a) == [valve |-> ValveOf[a], on |-> tOn[a], off |-> tOff[a]]

RebuildTypeOK ==
  /\ TypeOK
  /\ phase \in {"idle", "cleaned", "loaded", "inserted"}
  /\ minTime \in Nat
  /\ gone \in SUBSET cmdOn
  /\ plan \in SUBSET Runs
  /\ DOMAIN fresh \in SUBSET (Act \ used)
  /\ \A a \in DOMAIN fresh : fresh[a] \in Runs /\ ValveOf[a] = fresh[a].valve
  /\ wanted \in BOOLEAN
  /\ restored \in SUBSET Act
  /\ phase # "idle" => restored = {}
  /\ phase = "idle" => gone = {} /\ plan = {} /\ DOMAIN fresh = {}

RebuildInit ==
  /\ Init
  /\ phase = "idle" /\ minTime = 0 /\ gone = {} /\ plan = {} /\ fresh = << >>
  /\ wanted = FALSE /\ restored = {}
------------------------------------------------------------------------------
(***************************************************************************)
(* The scheduler.                                                          *)
(***************************************************************************)
(* Woken up, or in its own time; cleanPending. *)
Clean ==
  /\ phase = "idle"
  /\ phase' = "cleaned"
  /\ minTime' = now + CleanSecs
  /\ gone' = Cleanable(now + CleanSecs)
  /\ wanted' = FALSE /\ restored' = {}
  /\ UNCHANGED <<vars, plan, fresh>>

(* What its own statements see of the table. *)
Standing == {RunOf(a) : a \in action \ gone}

(* loadExisting and the plan: clear of the same valve's runs, of off periods *)
(* of the point of connection, and of itself.                              *)
Load ==
  /\ phase = "cleaned"
  /\ phase' = "loaded"
  /\ \E P \in UNION {kSubset(n, {r \in Runs : minTime <= r.on /\ r.on < r.off}) : n \in 0 .. MaxPlan} :
       /\ \A r \in P : \A s \in Standing \cup (P \ {r}) :
            s.valve \in Master \cup {r.valve} => ~Overlaps(r, s)
       /\ plan' = P
  /\ UNCHANGED <<vars, minTime, gone, fresh, wanted, restored>>

(* action_onOff_insert finds the valve on meanwhile. *)
Refused(r) == \E s \in Standing \cup {fresh[a] : a \in DOMAIN fresh} : s.valve = r.valve /\ Overlaps(r, s)

Insert(a, r) ==
  /\ phase = "loaded"
  /\ r \in plan /\ ~Refused(r)
  /\ a \in Act \ (used \cup DOMAIN fresh) /\ ValveOf[a] = r.valve
  /\ plan' = plan \ {r}
  /\ fresh' = [b \in DOMAIN fresh \cup {a} |-> IF b = a THEN r ELSE fresh[b]]
  /\ UNCHANGED <<vars, phase, minTime, gone, wanted, restored>>

EndRun ==
  /\ phase' = "idle"
  /\ minTime' = 0 /\ gone' = {} /\ plan' = {} /\ fresh' = << >>

(* One refused insert rejects the whole plan; scheduler.py tries again. *)
RollBack ==
  /\ phase = "loaded"
  /\ \E r \in plan : Refused(r)
  /\ EndRun
  /\ wanted' = TRUE
  /\ UNCHANGED <<vars, restored>>

AllInserted ==
  /\ phase = "loaded" /\ plan = {}
  /\ phase' = "inserted"
  /\ UNCHANGED <<vars, minTime, gone, plan, fresh, wanted, restored>>

Commit ==
  /\ phase = "inserted"
  /\ Replace(gone, DOMAIN fresh, [a \in DOMAIN fresh |-> <<fresh[a].on, fresh[a].off>>])
  /\ EndRun
  /\ UNCHANGED <<wanted, restored>>

(* The commit fails, and what was deleted is back.  runScheduler does not   *)
(* look at what DB.commit returns and reports success: nobody tries again. *)
CommitLost ==
  /\ phase = "inserted"
  /\ EndRun
  /\ restored' = gone
  /\ UNCHANGED <<vars, wanted>>

(* Any other statement over a broken connection, or a signal, ends the      *)
(* process; the new one which systemd starts builds a schedule.            *)
Killed ==
  /\ phase # "idle"
  /\ EndRun
  /\ wanted' = TRUE
  /\ UNCHANGED <<vars, restored>>
------------------------------------------------------------------------------
(***************************************************************************)
(* The others, while the scheduler may be at any point of its run.         *)
(***************************************************************************)
(* Mutant of LateOn: however late, nobody asks for a rebuild. *)
LateOnUnheeded(a, t) == UNCHANGED wanted

LateOn(a, t) == wanted' = (wanted \/ t > tOn[a] + LateSecs)

CommandsCarriedOut ==
  /\ \E a \in Act \ gone :
       \/ \E t \in 0 .. now : CommandOnDone(a, t) /\ LateOn(a, t)
       \/ \E began \in 0 .. now : CommandOnFailed(a, began) /\ UNCHANGED wanted
       \/ CommandOnRefused(a) /\ UNCHANGED wanted
       \/ CommandOffDone(a) /\ UNCHANGED wanted
  /\ UNCHANGED <<phase, minTime, gone, plan, fresh, restored>>

(* A statement which deletes the rows of D waits for the scheduler. *)
Waits(D) == D \cap gone # {} /\ phase # "inserted"

(* What is deleted meanwhile is not there for the scheduler to delete. *)
Forget == gone' = gone \cap cmdOn' /\ UNCHANGED <<phase, minTime, plan, fresh, restored>>

Pages ==
  /\ \/ \E v \in Valve : ManualOff(v)
     \/ ManualAllOff
     \/ \E a \in Act : ~Waits({a}) /\ MonitorPendingRemove(a)
     \/ ~Waits(cmdOn) /\ MonitorClearAll
  /\ Forget
  /\ UNCHANGED wanted

(* scheduler_notify *)
PocPages ==
  /\ \/ \E end \in 1 .. MaxTime, R \in SUBSET RunningOn(Master), N \in SUBSET (Act \ (used \cup DOMAIN fresh)) :
          ~Waits(PocDropped(end)) /\ PocOff(end, R, N)
     \/ PocOn
  /\ Forget
  /\ wanted' = TRUE

(* The scheduler's run takes at most RebuildSecs. *)
Time ==
  /\ phase # "idle" => now < minTime - CleanSecs + RebuildSecs
  /\ Tick
  /\ UNCHANGED run

RebuildNext ==
  \/ Clean \/ Load \/ \E a \in Act, r \in plan : Insert(a, r)
  \/ RollBack \/ AllInserted \/ Commit \/ CommitLost \/ Killed
  \/ CommandsCarriedOut \/ Pages \/ PocPages \/ Time

RebuildSpec == RebuildInit /\ [][RebuildNext]_rebuildVars
------------------------------------------------------------------------------
Shared(r, s) == Min({r.off, s.off}) - Max({r.on, s.on})

(***************************************************************************)
(* A run still to come may stand, for more than LateSecs, inside a run of  *)
(* its valve which was pushed later, or inside an off period of its point  *)
(* of connection, as the scheduler and the others do not see each other's  *)
(* rows; but never without another run of the scheduler on its way, which  *)
(* will see both, unless it begins before that could move it.  The rows    *)
(* which a lost commit has brought back are the exception: nobody knows    *)
(* that the run which was to move them came to nothing, and they stand     *)
(* where they stood until something else makes the scheduler run.          *)
(***************************************************************************)
PlanSeenTo ==
  \A b \in PendingOn(Station) \ (gone \cup restored) :
    \A a \in RunningOn({ValveOf[b]}) \cup Rows(Master) :
      Shared(RunOf(a), RunOf(b)) > LateSecs => wanted \/ tOn[b] <= now + CleanSecs

==============================================================================
