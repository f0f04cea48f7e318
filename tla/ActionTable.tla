----------------------------- MODULE ActionTable -----------------------------
(***************************************************************************)
(* The action, command and historical tables of database/db.schema.sql and *)
(* the transactions of their four writers: the valve thread (TDIvalve.py)  *)
(* through command_on_done and its siblings, the scheduler (SchedMain.py), *)
(* and the web pages through database/db.funcs.sql and DELETE statements.  *)
(* Each transaction is one action; any writer may commit at any time.      *)
(*                                                                         *)
(* An action row of an on/off run owns two command rows, its on and its    *)
(* off.  Deleting the action deletes both (ON DELETE CASCADE); deleting    *)
(* the on command sets action.cmdOn to NULL (ON DELETE SET NULL), which is *)
(* how the system says that the run is on.                                 *)
(***************************************************************************)
EXTENDS Integers

CONSTANTS
  Act,        \* the ids the action table's sequence may hand out
  Valve,      \* the sensors, one for each (controller, addr)
  ValveOf,    \* the sensor which the row with an id is for
  Master,     \* the master valves (pocMV) of the point of connection
  MaxTime,    \* runs are scheduled within 0..MaxTime
  CleanSecs,  \* how far ahead of its start the scheduler leaves rows alone
  RebuildSecs \* the longest that a run of the scheduler takes

ASSUME TableAssumption ==
  /\ ValveOf \in [Act -> Valve]
  /\ Master \subseteq Valve
  /\ MaxTime \in Nat
  /\ CleanSecs \in Nat
  /\ RebuildSecs \in Nat

VARIABLES
  now,        \* the clock, in seconds
  used,       \* ids handed out so far
  action,     \* ids of the rows of the action table
  cmdOn,      \* rows whose on command still exists: cmdOn IS NOT NULL
  tOn, tOff,  \* columns of the action table
  offAt,      \* timestamp of the row's off command, NoTime if there is none
  unconfirmed,\* rows with a negative onCode
  historical  \* how many rows of the historical table came from each id

tableVars == <<used, action, cmdOn, tOn, tOff, offAt, unconfirmed, historical>>
vars == <<now, used, action, cmdOn, tOn, tOff, offAt, unconfirmed, historical>>

NoTime == -1
Later(s, t) == IF s >= t THEN s ELSE t              \* SQL GREATEST
Put(f, S, x) == [a \in Act |-> IF a \in S THEN x ELSE f[a]]

Running == action \ cmdOn                           \* the view "active"
Rows(V) == {a \in action : ValveOf[a] \in V}
RunningOn(V) == {a \in Running : ValveOf[a] \in V}
PendingOn(V) == {a \in cmdOn : ValveOf[a] \in V}
Station == Valve \ Master

(* Half-open intervals: abutting runs do not overlap. *)
Disjoint(on1, off1, on2, off2) == off1 <= on2 \/ off2 <= on1
------------------------------------------------------------------------------
TypeOK ==
  /\ now \in Nat
  /\ used \in SUBSET Act
  /\ action \in SUBSET used
  /\ cmdOn \in SUBSET action
  /\ tOn \in [Act -> Nat]
  /\ tOff \in [Act -> Nat]
  /\ offAt \in [Act -> Nat \cup {NoTime}]
  /\ unconfirmed \in SUBSET action
  /\ historical \in [Act -> Nat]

Init ==
  /\ now = 0
  /\ used = {} /\ action = {} /\ cmdOn = {} /\ unconfirmed = {}
  /\ tOn = [a \in Act |-> 0] /\ tOff = [a \in Act |-> 0]
  /\ offAt = [a \in Act |-> NoTime]
  /\ historical = [a \in Act |-> 0]

(* Time passes as long as there is something left to wait for. *)
Tick ==
  /\ now < MaxTime \/ \E a \in action : offAt[a] > now
  /\ now' = now + 1
  /\ UNCHANGED tableVars
------------------------------------------------------------------------------
(* Mutant of Remove: no ON DELETE CASCADE. *)
RemoveKeepsCommands(D) ==
  /\ action' = action \ D
  /\ tOn' = Put(tOn, D, 0)
  /\ tOff' = Put(tOff, D, 0)
  /\ unconfirmed' = unconfirmed \ D
  /\ UNCHANGED <<cmdOn, offAt>>

(* Rows leave the table with their commands, by cascade. *)
Remove(D) ==
  /\ action' = action \ D
  /\ cmdOn' = cmdOn \ D
  /\ tOn' = Put(tOn, D, 0)
  /\ tOff' = Put(tOff, D, 0)
  /\ offAt' = Put(offAt, D, NoTime)
  /\ unconfirmed' = unconfirmed \ D

(* Mutant of Archive: the row is copied, and stays. *)
ArchiveKeepsRow(D) ==
  /\ historical' = [a \in Act |-> IF a \in D THEN historical[a] + 1 ELSE historical[a]]
  /\ UNCHANGED <<now, used, action, cmdOn, tOn, tOff, offAt, unconfirmed>>

(* action_copy_to_historical for every row of D. *)
Archive(D) ==
  /\ Remove(D)
  /\ historical' = [a \in Act |-> IF a \in D THEN historical[a] + 1 ELSE historical[a]]
  /\ UNCHANGED <<now, used>>

(* Mutant of Retime: the command is not moved along. *)
RetimeActionOnly(S, end) == tOff' = Put(tOff, S, end) /\ UNCHANGED offAt

(* A row whose end moves: the tOff column and the off command together. *)
Retime(S, end) ==
  /\ tOff' = Put(tOff, S, end)
  /\ offAt' = Put(offAt, S, end)
------------------------------------------------------------------------------
(***************************************************************************)
(* The valve thread, which takes up a command only once it is due.  A late *)
(* on keeps its run time by moving its end, but not past the valve's next  *)
(* pending on, and never to before t + 1 second.                           *)
(***************************************************************************)
NextOns(a) == {tOn[b] : b \in {b \in PendingOn({ValveOf[a]}) \ {a} : tOn[b] >= tOn[a]}}
Earliest(S) == {s \in S : \A r \in S : s <= r}     \* SQL MIN: no member when S is empty

FullEnd(a, t) == Later(tOff[a], t + (tOff[a] - tOn[a]))

(* Mutant of OnEnds: runs into the next run. *)
OnEndsUncapped(a, t) == {FullEnd(a, t)}

OnEnds(a, t) ==
  IF \A s \in NextOns(a) : s >= FullEnd(a, t)
    THEN {FullEnd(a, t)}
    ELSE {Later(s, t + 1) : s \in Earliest(NextOns(a))}

(* t is when the reply arrived; a caller whose on command is gone gets FALSE. *)
CommandOnDone(a, t) ==
  /\ a \in cmdOn
  /\ tOn[a] <= t /\ t <= now
  /\ cmdOn' = cmdOn \ {a}
  /\ tOn' = Put(tOn, {a}, t)
  /\ \E end \in OnEnds(a, t) : Retime({a}, end)
  /\ unconfirmed' = unconfirmed \ {a}
  /\ UNCHANGED <<now, used, action, historical>>

(* began is CURRENT_TIMESTAMP: when the caller's transaction began, which is *)
(* before the on was sent.                                                 *)
CommandOnFailed(a, began) ==
  /\ a \in cmdOn
  /\ tOn[a] <= began /\ began <= now
  /\ cmdOn' = cmdOn \ {a}
  /\ Retime({a}, Later(began, tOn[a] + 1))
  /\ unconfirmed' = unconfirmed \cup {a}
  /\ UNCHANGED <<now, used, action, tOn, historical>>

CommandOnRefused(a) ==
  /\ a \in cmdOn
  /\ tOn[a] <= now
  /\ Archive({a})

(* The rows which a confirmed off of row a closes. *)
ClosedBy(a) == {a} \cup {b \in RunningOn({ValveOf[a]}) : offAt[b] # NoTime /\ tOn[b] < offAt[a]}

CommandOffDone(a) ==
  /\ a \in action
  /\ Archive(ClosedBy(a))
------------------------------------------------------------------------------
(***************************************************************************)
(* The web pages.  The CHECK action_causal makes a transaction which would *)
(* leave tOn >= tOff fail as a whole, so Ends is a condition of each.      *)
(***************************************************************************)
Ends(S) == \A a \in S : tOn[a] < now

ManualOffRows(S) ==
  /\ Ends(S)
  /\ Retime(S, now)
  /\ UNCHANGED <<now, used, action, cmdOn, tOn, unconfirmed, historical>>

ManualOff(v) == ManualOffRows(RunningOn({v}))
ManualAllOff == ManualOffRows(Running)

MonitorPendingRemove(a) ==
  /\ a \in cmdOn
  /\ Remove({a})
  /\ UNCHANGED <<now, used, historical>>

(* Mutant of MonitorClearAll: clears what is on, too. *)
ClearEverything ==
  /\ Remove(action)
  /\ UNCHANGED <<now, used, historical>>

MonitorClearAll ==
  /\ Remove(cmdOn)
  /\ UNCHANGED <<now, used, historical>>

(***************************************************************************)
(* poc_off ends the running station rows, drops the pending ones which the *)
(* off period overlaps, and for each master valve drops a period which has *)
(* not begun, then moves the end of one which has (R, LIMIT 1) or inserts  *)
(* a new one (N).                                                          *)
(***************************************************************************)
PocDropped(end) ==
  PendingOn(Master) \cup {a \in PendingOn(Station) : tOn[a] < end /\ tOff[a] > now}

OnePerMaster(R, N) ==
  /\ R \subseteq RunningOn(Master)
  /\ N \subseteq Act \ used
  /\ \A a \in N : ValveOf[a] \in Master
  /\ \A m \in Master :
       \/ /\ RunningOn({m}) # {}
          /\ \E a \in R : {b \in R : ValveOf[b] = m} = {a}
          /\ \A b \in N : ValveOf[b] # m
       \/ /\ RunningOn({m}) = {}
          /\ \E a \in N : {b \in N : ValveOf[b] = m} = {a}

PocOff(end, R, N) ==
  LET D == PocDropped(end)
      E == RunningOn(Station)
  IN  /\ now < end
      /\ OnePerMaster(R, N)
      /\ Ends(E)
      /\ used' = used \cup N
      /\ action' = (action \ D) \cup N
      /\ cmdOn' = (cmdOn \ D) \cup N
      /\ tOn' = Put(Put(tOn, D, 0), N, now)
      /\ tOff' = Put(Put(Put(tOff, D, 0), E, now), R \cup N, end)
      /\ offAt' = Put(Put(Put(offAt, D, NoTime), E, now), R \cup N, end)
      /\ unconfirmed' = unconfirmed \ D
      /\ UNCHANGED <<now, historical>>

PocOn ==
  LET D == PendingOn(Master)
      E == RunningOn(Master)
  IN  /\ Ends(E)
      /\ action' = action \ D
      /\ cmdOn' = cmdOn \ D
      /\ tOn' = Put(tOn, D, 0)
      /\ tOff' = Put(Put(tOff, D, 0), E, now)
      /\ offAt' = Put(Put(offAt, D, NoTime), E, now)
      /\ unconfirmed' = unconfirmed \ D
      /\ UNCHANGED <<now, used, historical>>
------------------------------------------------------------------------------
(***************************************************************************)
(* A scheduler run: one transaction drops the pending station rows it may  *)
(* place again and inserts the new plan; one insert refused rolls back all *)
(* of it.  min is minTime, CleanSecs past the start of the run.  D leaves out the *)
(* rows whose pgmStn was deleted since they were planned.                  *)
(***************************************************************************)
Slots(min) == {s \in (min .. MaxTime) \X (min .. MaxTime) : s[1] < s[2]}

Cleanable(min) == {a \in PendingOn(Station) : tOn[a] > min}

(* What is committed: the rows of D go, those of N come. *)
Replace(D, N, slot) ==
  /\ used' = used \cup N
  /\ action' = (action \ D) \cup N
  /\ cmdOn' = (cmdOn \ D) \cup N
  /\ tOn' = [a \in Act |-> IF a \in N THEN slot[a][1] ELSE IF a \in D THEN 0 ELSE tOn[a]]
  /\ tOff' = [a \in Act |-> IF a \in N THEN slot[a][2] ELSE IF a \in D THEN 0 ELSE tOff[a]]
  /\ offAt' = [a \in Act |-> IF a \in N THEN slot[a][2] ELSE IF a \in D THEN NoTime ELSE offAt[a]]
  /\ unconfirmed' = unconfirmed \ D
  /\ UNCHANGED <<now, historical>>

Rebuild(min, D, N, slot) ==
  /\ CleanSecs <= min
  /\ now <= min - CleanSecs + RebuildSecs /\ min - CleanSecs <= now
  /\ D \subseteq Cleanable(min)
  /\ N \subseteq Act \ used
  /\ \A a \in N : ValveOf[a] \in Station
  /\ slot \in [N -> Slots(min)]
  /\ \A a \in N :
       /\ \A b \in Rows({ValveOf[a]}) \ D : Disjoint(slot[a][1], slot[a][2], tOn[b], tOff[b])
       /\ \A b \in N \ {a} :
            ValveOf[b] = ValveOf[a] => Disjoint(slot[a][1], slot[a][2], slot[b][1], slot[b][2])
  /\ Replace(D, N, slot)
------------------------------------------------------------------------------
ValveThread ==
  \E a \in Act :
    \/ \E t \in 0 .. now : CommandOnDone(a, t)
    \/ \E began \in 0 .. now : CommandOnFailed(a, began)
    \/ CommandOnRefused(a)
    \/ CommandOffDone(a)

WebPages ==
  \/ \E v \in Valve : ManualOff(v)
  \/ ManualAllOff
  \/ \E a \in Act : MonitorPendingRemove(a)
  \/ MonitorClearAll
  \/ \E end \in 1 .. MaxTime, R \in SUBSET RunningOn(Master), N \in SUBSET (Act \ used) :
       PocOff(end, R, N)
  \/ PocOn

Scheduler ==
  \E min \in 0 .. MaxTime, D \in SUBSET PendingOn(Station), N \in SUBSET (Act \ used) :
    \E slot \in [N -> Slots(min)] : Rebuild(min, D, N, slot)

Next == Tick \/ ValveThread \/ WebPages \/ Scheduler

Spec == Init /\ [][Next]_vars
------------------------------------------------------------------------------
(***************************************************************************)
(* The off time which the scheduler, the web pages and reaffirm read from  *)
(* action.tOff is the one at which TDIvalve's doPending will read the off  *)
(* command, for every row, whoever moved it last.                          *)
(***************************************************************************)
OffMatchesAction == \A a \in Act : offAt[a] = IF a \in action THEN tOff[a] ELSE NoTime

(***************************************************************************)
(* A run in progress never reaches into a run of the same valve which is   *)
(* still to come: "that on would then come before this off, which would    *)
(* end both runs" (db.schema.sql:1220).  An on which is already overdue is *)
(* the only exception.                                                     *)
(***************************************************************************)
EndsBeforeNextOn ==
  \A a \in Running, b \in cmdOn :
    ValveOf[a] = ValveOf[b] => tOff[a] <= tOn[b] \/ tOn[b] <= now

(* A run which is on began in the past. *)
Begun == \A a \in Running : tOn[a] <= now

(* Whatever is in the history has had an id. *)
HistoryUsed == \A a \in Act : historical[a] > 0 => a \in used

(* The life of a run, read off the tables. *)
StageOf(a) ==
  IF a \in cmdOn THEN "pending"
  ELSE IF a \in Running THEN "running"
  ELSE IF historical[a] > 0 THEN "history"
  ELSE IF a \notin used THEN "unknown"
  ELSE "dropped"

Ledger == INSTANCE RunLedger WITH stage <- [a \in Act |-> StageOf(a)]

(***************************************************************************)
(* Whatever the three writers do and however their transactions interleave *)
(* a run follows the life RunLedger allows: in particular one which is on  *)
(* leaves the table only through the history.                              *)
(***************************************************************************)
LedgerSpec == Ledger!Spec

(* A run is written to the history at most once, and then it is over. *)
ArchivedOnce == \A a \in Act : historical[a] = 0 \/ (historical[a] = 1 /\ a \notin action)
==============================================================================
