------------------------------- MODULE ValveOps -------------------------------
(***************************************************************************)
(* The ValveOps thread of scripts/TDIvalve.py: the one process which turns *)
(* valves on and off.  It reads due commands from the database, sends them *)
(* through the serial thread to the controller, and records the outcome.   *)
(* Three things can go wrong at every step: the controller may not confirm *)
(* what it did or did not do, the database may refuse or lose a statement, *)
(* and the process may die.  Other clients commit to the tables in between.*)
(*                                                                         *)
(* Every call to the serial thread and every database transaction is a     *)
(* step of its own, so whatever the web pages and the scheduler do can     *)
(* come between any two of them.  Sleeping and waking up are left out: an  *)
(* idle thread may start a pass at any time, and a backoff may end at any  *)
(* time.                                                                   *)
(***************************************************************************)
EXTENDS Integers, FiniteSets

CONSTANTS
  Act, Valve, ValveOf, Master, MaxTime, CleanSecs, RebuildSecs, \* see ActionTable
  MaxStations,   \* params['maxStations'], valves on at once
  AllOffTries,   \* OFF_ALLOFF_TRIES
  Margin,        \* REAFFIRM_MARGIN
  NoAct,         \* no command is being carried out
  Faults,        \* which failures happen
  Clients        \* which of the other clients' transactions happen

AllFaults == {"serial",   \* a command is not confirmed, carried out or not
              "read",     \* a SELECT raises
              "write",    \* a transaction raises and is rolled back
              "commit",   \* the COMMIT fails, which dbCall does not notice
              "outage",   \* the database is unreachable for a while
              "crash"}    \* the process dies
AllClients == {"rebuild", "remove", "clear", "manualOff", "allOff", "pocOff", "pocOn"}

ASSUME ValveAssumption ==
  /\ ValveOf \in [Act -> Valve]
  /\ Master \subseteq Valve
  /\ MaxTime \in Nat /\ CleanSecs \in Nat /\ RebuildSecs \in Nat /\ Margin \in Nat
  /\ NoAct \notin Act
  /\ MaxStations \in Nat \ {0} /\ AllOffTries \in Nat \ {0}
  /\ Faults \subseteq AllFaults
  /\ Clients \subseteq AllClients

VARIABLES
  now, used, action, cmdOn, tOn, tOff, offAt, unconfirmed, historical, \* ActionTable
  open,         \* valves which are on, at the controller
  pc,           \* what the thread does next
  todo,         \* rows of this pass not yet looked at
  cur,          \* the action whose command is being carried out
  tSent,        \* when the command being carried out was sent
  again,        \* valves still to be turned back on by reaffirm
  onAddrs,      \* valves this process turned on, or may have
  tries,        \* Retry.tries of each command, 0 when it has no Retry
  allOffDue,    \* an all-off which was not confirmed has to be retried
  reaffirmDue,  \* valves need turning back on once the database is back
  dbDown        \* dbDownSince is set: the last probe found no database

tableVars == <<now, used, action, cmdOn, tOn, tOff, offAt, unconfirmed, historical>>
row == <<cur, tSent>>                \* locals of the row being carried out
memory == <<todo, row, again, onAddrs, tries, allOffDue, reaffirmDue, dbDown>>
vars == <<tableVars, open, pc, memory>>

DB == INSTANCE ActionTable

(* An all-off, and after it what its caller does, named for the caller. *)
AllOff == {"startupAllOff", "retryAllOff", "offAllOff", "forceAllOff", "failsafeAllOff", "exitAllOff"}
Pcs == AllOff \cup
       {"down", "idle", "rows", "on", "onDone", "onFailed", "off", "offSuper", "offSend",
        "offDone", "offByAllOff", "force", "forceBlind", "reaffirm", "again"}

Command == {"on", "off"} \X Act
Row == [kind : {"on", "off"}, act : Act, due : Nat]
ValveTried == ValveOf[cur]

TypeOK ==
  /\ DB!TypeOK
  /\ open \in SUBSET Valve
  /\ pc \in Pcs
  /\ todo \in SUBSET Row
  /\ cur \in Act \cup {NoAct}
  /\ tSent \in Nat
  /\ again \in SUBSET Valve
  /\ onAddrs \in SUBSET Valve
  /\ tries \in [Command -> 0 .. AllOffTries]
  /\ allOffDue \in BOOLEAN
  /\ reaffirmDue \in BOOLEAN
  /\ dbDown \in BOOLEAN

Init ==
  /\ DB!Init
  /\ open \in SUBSET Valve          \* whatever the last process left on
  /\ pc = "down"
  /\ todo = {} /\ cur = NoAct /\ tSent = 0 /\ again = {} /\ onAddrs = {}
  /\ tries = [c \in Command |-> 0]
  /\ allOffDue = FALSE /\ reaffirmDue = FALSE /\ dbDown = FALSE
------------------------------------------------------------------------------
(***************************************************************************)
(* The controller.  A command is confirmed, which means it was carried     *)
(* out, or it is not, and then it may or may not have been.                *)
(***************************************************************************)
Confirmed(on, off) == open' = (open \cup on) \ off
Unconfirmed(on, off) ==
  /\ "serial" \in Faults
  /\ open' \in {open, (open \cup on) \ off}

(***************************************************************************)
(* dbCall: committed; or raised, rolled back and reported as failed; or    *)
(* executed but not committed, which DB.commit logs and dbCall does not    *)
(* look at, so it is reported as done.                                     *)
(***************************************************************************)
Raised == "write" \in Faults /\ UNCHANGED tableVars
CommitLost == "commit" \in Faults /\ UNCHANGED tableVars

(* One SQL call on row a: the rows it needs may have gone meanwhile. *)
Recorded(Call, found) == IF found THEN Call ELSE UNCHANGED tableVars

Goto(p) == pc' = p /\ UNCHANGED row
NextIs(p) == pc' = p /\ cur' = NoAct /\ tSent' = 0   \* done with this row

Forget(c) == tries' = [tries EXCEPT ![c] = 0]
Failed(c) == tries' = [tries EXCEPT ![c] = IF @ < AllOffTries THEN @ + 1 ELSE @]
------------------------------------------------------------------------------
Start ==
  /\ pc = "down"
  /\ pc' = "startupAllOff"
  /\ UNCHANGED <<tableVars, open, memory>>

Crash ==
  /\ "crash" \in Faults
  /\ pc # "down"
  /\ NextIs("down")
  /\ todo' = {} /\ again' = {} /\ onAddrs' = {}
  /\ tries' = [c \in Command |-> 0]
  /\ allOffDue' = FALSE /\ reaffirmDue' = FALSE /\ dbDown' = FALSE
  /\ UNCHANGED <<tableVars, open>>

(* An idle thread waits for the next command to be due or a notification. *)
Wait ==
  /\ pc = "idle"
  /\ UNCHANGED vars

(* dbReady finds no database: wait, or turn everything off, or give up. *)
NoDatabase ==
  /\ "outage" \in Faults
  /\ pc = "idle"
  /\ dbDown' = TRUE
  /\ \/ UNCHANGED pc
     \/ dbDown /\ onAddrs # {} /\ pc' = "failsafeAllOff"   \* DB_FAILSAFE_SECS
     \/ dbDown /\ pc' = "exitAllOff"                       \* DB_OUTAGE_LIMIT
  /\ UNCHANGED <<tableVars, open, todo, row, again, onAddrs, tries, allOffDue, reaffirmDue>>

(* dbReady finds it, and turns on again what the failsafe turned off. *)
DatabaseBack ==
  /\ pc = "idle" /\ reaffirmDue
  /\ dbDown' = FALSE
  /\ pc' = "reaffirm"
  /\ UNCHANGED <<tableVars, open, todo, row, again, onAddrs, tries, allOffDue, reaffirmDue>>

RetryAllOff ==
  /\ pc = "idle" /\ allOffDue
  /\ pc' = "retryAllOff"
  /\ UNCHANGED <<tableVars, open, memory>>
------------------------------------------------------------------------------
(***************************************************************************)
(* doPending: one query for the due rows, then row by row, earliest first  *)
(* and offs before ons.  A row is passed over while its backoff runs, when *)
(* it has gone since the query, and when looking it up raises.             *)
(***************************************************************************)
DueRows ==
  {[kind |-> "on",  act |-> a, due |-> tOn[a]]   : a \in {a \in cmdOn : tOn[a] <= now}} \cup
  {[kind |-> "off", act |-> a, due |-> offAt[a]] : a \in {a \in action : offAt[a] <= now}}

Before(r, s) == r.due < s.due \/ (r.due = s.due /\ r.kind = "off" /\ s.kind = "on")

CmdExists(c) == c[2] \in IF c[1] = "on" THEN cmdOn ELSE action

DoPending ==
  /\ pc = "idle"
  /\ ~reaffirmDue \/ "read" \in Faults      \* or dbReady has tried and failed to
  /\ DueRows # {}
  /\ todo' = DueRows
  /\ dbDown' = FALSE
  /\ pc' = "rows"
  /\ UNCHANGED <<tableVars, open, row, again, onAddrs, tries, allOffDue, reaffirmDue>>

First(r) == r \in todo /\ \A s \in todo : ~Before(s, r)

PassOver(r) ==
  /\ pc = "rows" /\ First(r)
  /\ tries[<<r.kind, r.act>>] > 0 \/ ~CmdExists(<<r.kind, r.act>>) \/ "read" \in Faults
  /\ todo' = todo \ {r}
  /\ UNCHANGED <<tableVars, open, pc, row, again, onAddrs, tries, allOffDue, reaffirmDue, dbDown>>

(* Mutant of TakeUp: the row is taken for its action. *)
TakeUpWholeRow(r) ==
  /\ pc = "rows" /\ First(r)
  /\ CmdExists(<<r.kind, r.act>>)
  /\ todo' = todo \ {r}
  /\ cur' = r
  /\ pc' = r.kind
  /\ UNCHANGED <<tableVars, open, tSent, again, onAddrs, tries, allOffDue, reaffirmDue, dbDown>>

TakeUp(r) ==
  /\ pc = "rows" /\ First(r)
  /\ CmdExists(<<r.kind, r.act>>)
  /\ todo' = todo \ {r}
  /\ cur' = r.act
  /\ pc' = r.kind
  /\ UNCHANGED <<tableVars, open, tSent, again, onAddrs, tries, allOffDue, reaffirmDue, dbDown>>

(* The pass is over; nextTime forgets the tries of commands which are gone. *)
EndPass ==
  /\ pc = "rows" /\ todo = {}
  /\ pc' = "idle"
  /\ tries' = [c \in Command |-> IF CmdExists(c) THEN tries[c] ELSE 0]
  /\ UNCHANGED <<tableVars, open, todo, row, again, onAddrs, allOffDue, reaffirmDue, dbDown>>
------------------------------------------------------------------------------
(***************************************************************************)
(* valveOn.  Only the thread changes which rows are running, so what       *)
(* onInfo read stays true until the on is sent.                            *)
(***************************************************************************)
(* Mutant of OverLimit: off by one. *)
OneOverLimit ==
  /\ DB!RunningOn({ValveTried}) = {}
  /\ Cardinality(DB!Running) > MaxStations

OverLimit ==
  /\ DB!RunningOn({ValveTried}) = {}
  /\ Cardinality(DB!Running) >= MaxStations

OnRefused ==
  /\ pc = "on" /\ OverLimit
  /\ \/ Recorded(DB!CommandOnRefused(cur), cur \in cmdOn)
     \/ Raised
     \/ CommitLost
  /\ NextIs("rows")
  /\ UNCHANGED <<open, todo, again, onAddrs, tries, allOffDue, reaffirmDue, dbDown>>

(* Mutant of OnSent: only a confirmed on is remembered. *)
OnSentIfConfirmed ==
  /\ pc = "on" /\ (~OverLimit \/ "read" \in Faults)
  /\ tSent' = now
  /\ \/ Confirmed({ValveTried}, {}) /\ pc' = "onDone" /\ onAddrs' = onAddrs \cup {ValveTried}
     \/ Unconfirmed({ValveTried}, {}) /\ pc' = "onFailed" /\ UNCHANGED onAddrs
  /\ UNCHANGED <<tableVars, todo, cur, again, tries, allOffDue, reaffirmDue, dbDown>>

OnSent ==
  /\ pc = "on" /\ (~OverLimit \/ "read" \in Faults)
  /\ onAddrs' = onAddrs \cup {ValveTried}
  /\ tSent' = now
  /\ \/ Confirmed({ValveTried}, {}) /\ pc' = "onDone"
     \/ Unconfirmed({ValveTried}, {}) /\ pc' = "onFailed"
  /\ UNCHANGED <<tableVars, todo, cur, again, tries, allOffDue, reaffirmDue, dbDown>>

(* Mutant of OnDone: does not look at what command_on_done returns. *)
OnDoneUnlooked ==
  /\ pc = "onDone"
  /\ \/ /\ Recorded(\E t \in tSent .. now : DB!CommandOnDone(cur, t), cur \in cmdOn)
        /\ Forget(<<"on", cur>>) /\ NextIs("rows")
     \/ Raised /\ Goto("onFailed") /\ UNCHANGED tries
  /\ UNCHANGED <<open, todo, again, onAddrs, allOffDue, reaffirmDue, dbDown>>

OnDone ==
  /\ pc = "onDone"
  /\ \/ /\ cur \in cmdOn
        /\ (\E t \in tSent .. now : DB!CommandOnDone(cur, t)) \/ CommitLost
        /\ Forget(<<"on", cur>>) /\ NextIs("rows")
     \/ /\ cur \notin cmdOn                  \* its action was deleted: FALSE
        /\ Goto("force")
        /\ UNCHANGED <<tableVars, tries>>
     \/ Raised /\ Goto("onFailed") /\ UNCHANGED tries
  /\ UNCHANGED <<open, todo, again, onAddrs, allOffDue, reaffirmDue, dbDown>>

(* The valve may be on: keep its off, from when the transaction began which *)
(* is open now, perhaps when the pass did, and send it.                     *)
OnFailed ==
  /\ pc = "onFailed"
  /\ \/ /\ cur \in cmdOn
        /\ (\E began \in 0 .. now : DB!CommandOnFailed(cur, began)) \/ CommitLost
        /\ Forget(<<"on", cur>>) /\ Goto("off")
     \/ /\ cur \notin cmdOn                  \* its action was deleted: NULL
        /\ Goto("force")
        /\ UNCHANGED <<tableVars, tries>>
     \/ Raised /\ Goto("forceBlind") /\ Failed(<<"on", cur>>)
  /\ UNCHANGED <<open, todo, again, onAddrs, allOffDue, reaffirmDue, dbDown>>
------------------------------------------------------------------------------
(* Mutant of Superseded: an off is sent however late it is. *)
NeverSuperseded == FALSE

(* valveOff. *)
Superseded ==
  /\ cur \in action
  /\ \E b \in DB!RunningOn({ValveTried}) \ {cur} : tOn[b] >= offAt[cur]

OffRead ==
  /\ pc = "off"
  /\ \/ Superseded /\ Goto("offSuper")
     \/ (~Superseded \/ "read" \in Faults) /\ Goto("offSend")
  /\ UNCHANGED <<tableVars, open, todo, again, onAddrs, tries, allOffDue, reaffirmDue, dbDown>>

(* Mutant of OffRecorded: the row goes, but not to the history. *)
OffForgotten ==
  Recorded(DB!Remove({cur}) /\ UNCHANGED <<now, used, historical>>, cur \in action)

OffRecorded ==
  Recorded(DB!CommandOffDone(cur), cur \in action) \/ CommitLost

(* The next run of the valve is on: close this one without sending its off. *)
OffSuperseded ==
  /\ pc = "offSuper"
  /\ \/ OffRecorded /\ Forget(<<"off", cur>>)
     \/ Raised /\ UNCHANGED tries
  /\ NextIs("rows")
  /\ UNCHANGED <<open, todo, again, onAddrs, allOffDue, reaffirmDue, dbDown>>

OffConfirmed ==
  /\ pc = "offSend"
  /\ Confirmed({}, {ValveTried})
  /\ onAddrs' = onAddrs \ {ValveTried}
  /\ Goto("offDone")
  /\ UNCHANGED <<tableVars, todo, again, tries, allOffDue, reaffirmDue, dbDown>>

(* Mutant of OffUnconfirmed: never gives up on the valve's own off. *)
OffUnconfirmedAgain ==
  /\ pc = "offSend"
  /\ Unconfirmed({}, {ValveTried})
  /\ Failed(<<"off", cur>>)
  /\ NextIs("rows")
  /\ UNCHANGED <<tableVars, todo, again, onAddrs, allOffDue, reaffirmDue, dbDown>>

OffUnconfirmed ==
  /\ pc = "offSend"
  /\ Unconfirmed({}, {ValveTried})
  /\ Failed(<<"off", cur>>)
  /\ IF tries'[<<"off", cur>>] = AllOffTries THEN Goto("offAllOff") ELSE NextIs("rows")
  /\ UNCHANGED <<tableVars, todo, again, onAddrs, allOffDue, reaffirmDue, dbDown>>

OffDone ==
  /\ pc = "offDone"
  /\ \/ OffRecorded /\ Forget(<<"off", cur>>)
     \/ Raised /\ Failed(<<"off", cur>>)
  /\ NextIs("rows")
  /\ UNCHANGED <<open, todo, again, onAddrs, allOffDue, reaffirmDue, dbDown>>

(* After the all-off which OFF_ALLOFF_TRIES unconfirmed tries led to. *)
OffByAllOff ==
  /\ pc = "offByAllOff"
  /\ \/ OffRecorded /\ Forget(<<"off", cur>>)
     \/ Raised /\ UNCHANGED tries
  /\ NextIs("reaffirm")
  /\ UNCHANGED <<open, todo, again, onAddrs, allOffDue, reaffirmDue, dbDown>>
------------------------------------------------------------------------------
(* forceOff, of a valve which has no off command; blind when the database is gone. *)
ForceLeave ==
  /\ pc = "force"
  /\ DB!RunningOn({ValveTried}) # {}           \* another action has it on
  /\ NextIs("rows")
  /\ UNCHANGED <<tableVars, open, todo, again, onAddrs, tries, allOffDue, reaffirmDue, dbDown>>

ForceOff ==
  /\ \/ pc = "forceBlind"
     \/ pc = "force" /\ (DB!RunningOn({ValveTried}) = {} \/ "read" \in Faults)
  /\ \/ /\ Confirmed({}, {ValveTried})
        /\ onAddrs' = onAddrs \ {ValveTried}
        /\ NextIs("rows")
     \/ /\ Unconfirmed({}, {ValveTried})
        /\ UNCHANGED onAddrs
        /\ NextIs("forceAllOff")
  /\ UNCHANGED <<tableVars, todo, again, tries, allOffDue, reaffirmDue, dbDown>>
------------------------------------------------------------------------------
(***************************************************************************)
(* allOff, and where its caller goes when it is confirmed and when not.    *)
(* That it also ends every backoff is not seen here: a backoff may end at  *)
(* any time anyway.                                                        *)
(***************************************************************************)
AllOffConfirmed ==
  /\ pc \in AllOff
  /\ Confirmed({}, open)
  /\ onAddrs' = {}
  /\ allOffDue' = FALSE
  /\ \/ pc \in {"startupAllOff", "retryAllOff", "forceAllOff"} /\ Goto("reaffirm")
     \/ pc = "offAllOff" /\ Goto("offByAllOff")
     \/ pc = "failsafeAllOff" /\ Goto("rows")
     \/ pc = "exitAllOff" /\ Goto("down")
  /\ reaffirmDue' = (reaffirmDue \/ pc = "failsafeAllOff")
  /\ UNCHANGED <<tableVars, todo, again, tries, dbDown>>

AllOffUnconfirmed ==
  /\ pc \in AllOff
  /\ Unconfirmed({}, open)
  /\ allOffDue' = TRUE
  /\ \/ pc = "startupAllOff" /\ Goto("reaffirm")
     \/ pc = "exitAllOff" /\ Goto("down")
     \/ pc \in {"retryAllOff", "offAllOff", "forceAllOff", "failsafeAllOff"} /\ NextIs("rows")
  /\ UNCHANGED <<tableVars, todo, again, onAddrs, tries, reaffirmDue, dbDown>>

(* After an all-off, turn back on the valves the database says should be on. *)
ShouldBeOn ==
  {ValveOf[a] : a \in {a \in DB!Running : a \notin unconfirmed /\ tOff[a] > now + Margin}}

ReaffirmRead ==
  /\ pc = "reaffirm"
  /\ \/ /\ reaffirmDue' = FALSE
        /\ again' = ShouldBeOn
        /\ pc' = "again"
     \/ /\ "read" \in Faults
        /\ reaffirmDue' = TRUE
        /\ UNCHANGED again
        /\ pc' = "rows"
  /\ UNCHANGED <<tableVars, open, todo, row, onAddrs, tries, allOffDue, dbDown>>

TurnBackOn(v) ==
  /\ pc = "again" /\ v \in again
  /\ again' = again \ {v}
  /\ onAddrs' = onAddrs \cup {v}
  /\ Confirmed({v}, {}) \/ Unconfirmed({v}, {})
  /\ UNCHANGED <<tableVars, pc, todo, row, tries, allOffDue, reaffirmDue, dbDown>>

Reaffirmed ==
  /\ pc = "again" /\ again = {}
  /\ pc' = "rows"
  /\ UNCHANGED <<tableVars, open, memory>>
------------------------------------------------------------------------------
Thread ==
  \/ Start \/ Wait
  \/ NoDatabase \/ DatabaseBack \/ RetryAllOff
  \/ DoPending \/ (\E r \in todo : PassOver(r) \/ TakeUp(r)) \/ EndPass
  \/ OnRefused \/ OnSent \/ OnDone \/ OnFailed
  \/ OffRead \/ OffSuperseded \/ OffConfirmed \/ OffUnconfirmed \/ OffDone \/ OffByAllOff
  \/ ForceLeave \/ ForceOff
  \/ AllOffConfirmed \/ AllOffUnconfirmed
  \/ ReaffirmRead \/ (\E v \in again : TurnBackOn(v)) \/ Reaffirmed

(* The other clients of the database, as in ActionTable. *)
Client ==
  /\ \/ "rebuild" \in Clients /\ DB!Scheduler
     \/ "remove" \in Clients /\ \E a \in cmdOn : DB!MonitorPendingRemove(a)
     \/ "clear" \in Clients /\ DB!MonitorClearAll
     \/ "manualOff" \in Clients /\ \E v \in Valve : DB!ManualOff(v)
     \/ "allOff" \in Clients /\ DB!ManualAllOff
     \/ /\ "pocOff" \in Clients
        /\ \E end \in 1 .. MaxTime, R \in SUBSET DB!RunningOn(Master), N \in SUBSET (Act \ used) :
             DB!PocOff(end, R, N)
     \/ "pocOn" \in Clients /\ DB!PocOn
  /\ UNCHANGED <<open, pc, memory>>

Tick == DB!Tick /\ UNCHANGED <<open, pc, memory>>

Next == Thread \/ Crash \/ Client \/ Tick

Spec == Init /\ [][Next]_vars

(***************************************************************************)
(* runMain never returns, the clock moves, and no step is for ever the one *)
(* that fails: of an endless series of tries at reading the due commands,  *)
(* at looking one up, at recording an off, and at the all-off which stands *)
(* in for an off, some succeed.  Nothing is assumed of a valve's own off,  *)
(* which may never be confirmed, nor of any other all-off.                 *)
(***************************************************************************)
TakeUpOff(a) == \E r \in todo : r.kind = "off" /\ r.act = a /\ TakeUp(r)
CloseRun == (OffSuperseded \/ OffDone \/ OffByAllOff) /\ action' # action

FairSpec ==
  /\ Spec
  /\ WF_vars(Thread) /\ WF_vars(Tick)
  /\ SF_vars(DoPending) /\ SF_vars(CloseRun)
  /\ SF_vars(pc = "offAllOff" /\ AllOffConfirmed)
  /\ \A a \in Act : SF_vars(TakeUpOff(a))
------------------------------------------------------------------------------
(***************************************************************************)
(* Something will turn off every valve which is on: an action of it which  *)
(* is on, and so has its off command; or an all-off which is due or being  *)
(* sent; or the thread, which is dealing with that valve right now; or the *)
(* all-off with which a dead process comes back.  No valve is left on with *)
(* nobody to turn it off.                                                  *)
(***************************************************************************)
NoOrphan ==
  \A v \in open :
    \/ pc \in AllOff \cup {"down"}
    \/ allOffDue
    \/ DB!RunningOn({v}) # {}
    \/ pc \in {"onDone", "onFailed", "force", "forceBlind"} /\ ValveTried = v

(***************************************************************************)
(* The failsafe for a database outage looks only at onAddrs, so once the   *)
(* startup all-off has been tried onAddrs knows every valve which is on,   *)
(* or else an all-off is due anyway.                                       *)
(***************************************************************************)
FailsafeSees ==
  \/ pc \in {"down", "startupAllOff"}
  \/ allOffDue
  \/ open \subseteq onAddrs

(***************************************************************************)
(* Never more valves on than the controller may have, unless an all-off is *)
(* due: the limit is checked against the tables, the valves are not.       *)
(***************************************************************************)
WithinLimit ==
  \/ pc \in AllOff \cup {"down"}
  \/ allOffDue
  \/ Cardinality(open) <= MaxStations

(***************************************************************************)
(* A run which is recorded as on and not due off is not silently left off: *)
(* this process turned its valve on, or tried to, and has not had it       *)
(* confirmed off since; or an off of the valve is being carried out, or a  *)
(* command of it retried; or valves are about to be turned back on.  Not   *)
(* so a master valve: poc_off may extend an off period which reaffirm left *)
(* off because it was about to end.                                        *)
(***************************************************************************)
BeingTried(v) ==
  \/ pc = "offDone" /\ ValveTried = v
  \/ \E c \in Command : c[2] \in DB!Rows({v}) /\ tries[c] > 0

KeptOn ==
  \/ pc \in AllOff \cup {"down", "offByAllOff", "reaffirm", "again"}
  \/ allOffDue \/ reaffirmDue
  \/ \A v \in ShouldBeOn \ Master : v \in onAddrs \/ BeingTried(v)

(***************************************************************************)
(* Whatever happens to the thread, and wherever it is in its work, all that*)
(* it and the other clients do to the tables is what ActionTable allows, so*)
(* that what holds of the tables there holds beside this thread.           *)
(***************************************************************************)
TableSpec == DB!Spec

(***************************************************************************)
(* Beside the thread, which records ons and offs late and closes runs early*)
(* or not at all, a run in progress still never reaches into a run of the  *)
(* same valve to come (db.schema.sql:1220), but for an on already overdue. *)
(***************************************************************************)
EndsBeforeNextOn == DB!EndsBeforeNextOn

(***************************************************************************)
(* A run which has been turned on ends, even if the controller never       *)
(* confirms the off of its own valve (TDIvalve.py:8-11).                   *)
(***************************************************************************)
RunsEnd == \A a \in Act : a \in DB!Running ~> a \notin action
------------------------------------------------------------------------------
(* What follows is said of the program and does not hold; see the README.  *)

(* "A late on still gets its full run time" (db.schema.sql:1217): the off of a
   run which is on is not sent before the end which its row now has. *)
OffSentWhenDue ==
  pc = "offSend" /\ cur \in DB!Running => offAt[cur] <= now
==============================================================================
