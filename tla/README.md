# OpenIrrigation: models, checks and proofs

OpenIrrigation runs the valves of an irrigation site. A PostgreSQL database
holds the configuration, the plan and the commands; a scheduler fills in the
plan; one daemon, `TDIserver.py`, carries the commands out over a serial line;
web pages show the tables and let a person interfere. What must not happen is
water running with nobody to turn it off, or a run silently lost. This
directory models the parts which decide that, checks the models with TLC and
proves the main results with TLAPS.

## 1. Inventory

### Components

| Component | State it keeps | Operations | Correct when |
|---|---|---|---|
| **Action table** (`database/db.schema.sql`, `db.funcs.sql`) | `action`, `command`, `historical` rows; `action.cmdOn IS NULL` says "is on" | `command_on_done/failed/refused`, `command_off_done`, `manual_off`, `manual_all_off`, `poc_off`, `poc_on`, `action_onOff_insert`, deletes with cascade | `action.tOff` and the off command agree; a run never reaches into the next run of its valve; a run which is on leaves only into the history, once |
| **Valve thread** (`TDIvalve.py`, `ValveOps`) | due rows of a pass, retries, `onAddrs`, `allOffDue`, `reaffirmDue`, `dbDownSince` | `doPending`, `valveOn`, `valveOff`, `forceOff`, `allOff`, `reaffirm`, `dbReady`, `nextTime` | no valve is left on with nobody to turn it off; a run which is on ends; a run not due off is not silently left off; the limit of valves on holds |
| **Serial thread** (`TDIserial.py`) | request queue, the request in flight, the receive buffer | `put`, `request`, `transact`, `readACK`, `readReply`, `_reconnect` | a confirmed request was carried out; a reply goes to its own request; an abandoned request is not sent late without the caller knowing |
| **Server process** (`TDIserver.py`, `MyBaseThread.py`, `OITDI.service`) | threads, `should_run`, heartbeats | start, `stopThreads`, watchdog, signals | the final all-off is the last valve command; a stalled thread is noticed |
| **Controller polling** (`TDI.py`, `TDIbase.py`) | last values, statement of each table | periodic queries, rows to the log writer | logged rows are written in order |
| **Controller simulator** (`TDISimulate.py`) | valves, sensors, pending replies | answers the protocol over a pseudo terminal | answers as the controller does |
| **Database access** (`DB.py`) | connection; backlog of the log writer; LISTEN state | `cursor`, `commit`, `alive`; `DBout.write/flush`; `Listen.fetch` | no row is written twice or out of order, bounded loss; no wake-up lost for ever |
| **Scheduler loop** (`scheduler.py`, `SchedMain.py`) | nothing between runs | `doit`: load, clean, place, insert in one transaction; shortfalls; sleep, retry | all or nothing; an overlap with what others did meanwhile is seen by another run; no request forgotten, unless its commit failed |
| **Placement** (`SchedPlacer`, `SchedResource`, `SchedInterval`, ...) | reservations, cumulative times | `place_station`, `find_slots`, `record_placement` | capacities never exceeded; windows, cycle and soak times respected |
| **Program calendar** (`SchedProgram.py`) | none | which dates, start and stop times | every selected date exactly once |
| **Web pages** (`public_html`) | none | one SQL statement or function each | see the action table |
| **Flow alarms** (`FlowSensorWatch.py`) | a state file | low, high, missing and stale flow | one mail per stall, run and episode; never silent for ever |
| **Failure notification** (`notifyFailure.py`, `Notify.py`) | a stamp file | report a failed unit | at most one mail per hold-off, none lost for ever |
| **Maintenance** (`databaseMaintenance.py`, `dumpDatabase.py`) | archive files, rows not yet archived | archive and delete in batches | each deleted row is in an archive file; each table gets pruned |
| **Migrations** (`migrate_001` to `_017`, `check_schema.py`) | the schema, the table `schemaMigration` | bring a database of any age up to date | nothing goes back; what is recorded is done |
| **Reports, filter statistics, weather, editors of settings** | none that others read | see the sources | not modelled |

### How they interact

The web pages and the scheduler write to the action table; triggers and
`command_notify` send a NOTIFY; the valve thread wakes up, reads the due
commands, and for each one sends a request to the serial thread and waits for
its reply. It records the outcome with `command_on_done` and its siblings,
each a transaction of its own, so other transactions come in between. Rows of
the log tables go through the queue of the `DBout` thread, and from their
tables, in time, through the maintenance into archive files. The scheduler
reads the same action table when it plans, and changes only pending rows; it
sleeps until a notification or the next day. The flow watchdog reads what was
logged; when it fails systemd starts `notifyFailure.py`.

### What is hard about it

 - a command may be carried out although it is not confirmed, so every
   failure path has to assume that the valve is on;
 - each SQL function is atomic, what `valveOn` and `valveOff` do is not: rows
   move or disappear between the command and its record;
 - the off of a run can fail for so long that the next run of the valve has
   begun;
 - the database may be away, may come back, may refuse a write, or may lose
   a commit; the process may die anywhere and starts with an empty memory;
 - an all-off for one valve turns off all the others, which then have to be
   turned back on;
 - the scheduler's transaction takes seconds at READ COMMITTED, so it and the
   valve thread do not see what the other is about to commit;
 - a notification reaches only who listens at that moment;
 - rows, archive files, state files and mails change one after the other, and
   the process or the power may go between any two.

`PROJECT.json` lists each of these as a hazard at its line, with the
properties which would show it going wrong.

## 2. Plan

The order is that of what can go wrong with water.

1. `RunLedger`, `ActionTable`: the tables and their writers. **Done, proved.**
2. `ValveOps`: the valve thread, with failures, on top of `ActionTable`.
   **Done; its safety results proved.**
3. `TDISerial`: requests, ACKs and replies, which have to bear out what
   `ValveOps` assumes of a command (confirmed and taken, or not confirmed and
   either), and how the server stops. **Done; safety proved.**
4. `Wakeup`: notifications, `nextTime` and a lost connection. **Done; safety
   proved.**
5. `Rebuild`: the scheduler's transaction at READ COMMITTED beside
   `command_on_done`, with the checks of `action_onOff_insert`. **Done,
   proved.**
6. `Placement`: the resources, `place_station` and the rebuilds which follow
   one another. **Done; all but one property proved.**
7. `DbOut`, `Maintenance` and `Logs`, which composes them: the life of a
   logged reading. **Done; safety proved.**
8. `Alerts`: the watchdog and the report of its failures. **Done; safety
   proved.**
9. `Migrations`: the migrations and `check_schema.py`. **Done,
   model-checked.**

What is left: `Calendar` (days of the week, sun times and daylight saving,
against the dates they should select), and a proof of `Stable`, which is known
to hold only where no run is divided anew (section 4).

## 3. The modules

### RunLedger

The abstract specification: a run is unknown, pending, running, dropped or
history, and may only move along five edges. `ActionTable` maps its rows to
these stages (`StageOf`).

### ActionTable

One action for each transaction that changes `action`, `command` or
`historical`. `Act` is the set of ids the sequence can hand out; `action` and
`cmdOn` are the sets of rows, and of rows whose on command still exists (the
column `cmdOn` is set to NULL by the foreign key when the command goes);
`tOn`, `tOff` are columns, `offAt` is the timestamp of the off command, kept
apart from `tOff` on purpose because the code writes both. `unconfirmed` are
rows with a negative `onCode`. `Running` is the view `active`.

| Action | Code |
|---|---|
| `CommandOnDone`, `CommandOnFailed`, `CommandOnRefused`, `CommandOffDone` | the SQL functions of the same name |
| `ManualOff`, `ManualAllOff`, `PocOff`, `PocOn` | `db.funcs.sql` |
| `MonitorPendingRemove`, `MonitorClearAll` | the DELETE of each page |
| `Rebuild` | `doit`: `cleanPending`, `insertActions` with the checks of `action_onOff_insert` |
| `Tick` | the clock |

A rebuild may drop any subset of the rows `cleanPending` may drop (rows whose
`pgmStn` has gone are not dropped) and place any plan the insert accepts, so
nothing depends on how the plan is made. `OnEnds` is a relation rather than a
function: SQL's MIN over the next ons, GREATEST with one second later. The web
pages abort when the CHECK `action_causal` would fail (`Ends`).

### ValveOps

The thread's control point is `pc`; each call to the serial thread and each
database transaction is one action, so others can come between. A pass
(`DoPending`) reads the due rows into `todo`, `TakeUp` takes the next one,
`PassOver` leaves one out (backing off, gone, or not readable). The locals of
the row are `cur` and `tSent`. `tries` stands for the Retry objects, 0 when
there is none. `open` is the hardware: the valves which are on.

| Part of the code | Actions |
|---|---|
| `valveOn` | `OnRefused`, `OnSent`, `OnDone`, `OnFailed` |
| `valveOff` | `OffRead`, `OffSuperseded`, `OffConfirmed`, `OffUnconfirmed`, `OffDone`, `OffByAllOff` |
| `forceOff` | `ForceLeave`, `ForceOff` |
| `allOff` from each of its six callers | `AllOffConfirmed`, `AllOffUnconfirmed`; the caller is in `pc` |
| `reaffirm` | `ReaffirmRead`, `TurnBackOn`, `Reaffirmed` |
| `runMain`, `dbReady`, `nextTime` | `Start`, `Wait`, `RetryAllOff`, `NoDatabase`, `DatabaseBack`, `EndPass` |
| the process dies, systemd starts it | `Crash`, `Start` |
| other clients | `Client`: the actions of `ActionTable` |

`Faults` says which failures happen: a command not confirmed ("serial"), a
SELECT or a transaction which raises ("read", "write"), a COMMIT which fails
unseen ("commit"), an outage, a crash. `Clients` says which other writers
there are. Runs choose both, so that the properties which need an assumption
name it.

Abstractions: backoffs and timers may end at any time, so nothing holds
because of a delay; the e-mails, the log and `valveTest` are left out; a
rebuild is one step beside the thread (`Rebuild` looks inside); how the thread
sleeps is in `Wakeup`. `command_on_failed` takes the start of its caller's
transaction (`CURRENT_TIMESTAMP`), which may be that of the pass; `OnFailed`
allows any time since the on was due.

### TDISerial

Three kinds of processes and the controller. Requests are in `queue`, a set
which `Ahead` orders as the priority queue does. The serial thread is in
`state`: `idle` (`readPending`, then the next request), `ack` (`readACK`),
`reply` (`readReply`), `reconnect`, `dead`. A requester has the message it
decided on (`intent`), the request it waits for (`slot`) and what its `Reply`
holds (`answer`); looking at `should_run` (`Decide`) and the put (`Ask`) are
two steps, so the server may stop in between. The main thread is in `server`:
running, stopping, `allOff` (`allOffNow`), closing, exited.

| Part of the code | Actions |
|---|---|
| `Serial.runMain`, `readPending` | `DropPending`, `TakeRequest`, `StopSerial` |
| `transact`, `readACK`, `readReply` | `ReadAck`, `AckTimeout`, `ReadReply`, `ReplyTimeout` with `TryAgain` and `TakeFrame` |
| port errors, `_reconnect` | `PortError`, `Reconnect` |
| `put`, `request`, `ValveOps.transact`, the loop of the polls | `Decide`, `Ask`, `TakeAnswer`, `GiveUp` |
| `TDIserver.py` | `StopThreads`, `AllOffNow`, `CloseSerial`, `Exit`, `SignalAgain` |
| the controller (external, as `README.TDI` and `TDIserial.py` take it) | `Act`, `SendAgain` |

What happens to a sentence is decided when it is sent (`Send`): taken and
ACKed, taken with the ACK lost, NAKed, or lost. Of the faults, "sentence" is one
which never got there, "line" a frame of the controller that was lost or
damaged; `lost` remembers that a sentence was lost, damaged or rejected, which
is what a confirmation may be wrong about. `toHost` is what is on its way
back, in order. The controller keeps every reply it has no ACK for in `owed`
and may send it again at any later time: nobody has measured for how long it
does. A time-out of the ACK ends only when nothing is on its way; that of the
reply also waits for the controller to be done, unless replies may be "slow".
A requester may give up at any time.

### Rebuild

`ActionTable` with its one-step rebuild taken apart. `phase` is how far a run
of the scheduler has come; `gone` and `fresh` are the rows it has deleted and
inserted but not committed, which nobody else sees; `plan` is what it still
wants to insert. The other writers are the actions of `ActionTable`, taken at
any point between two of its statements.

| Action | Code |
|---|---|
| `Clean`, `Load`, `Insert`, `AllInserted`, `Commit` | `cleanPending`, `loadExisting` and the plan, the loop of `insertActions`, the commit |
| `RollBack` | an insert refused by `action_onOff_insert`; another run follows |
| `CommitLost` | a commit which fails: `runScheduler` ignores that `DB.commit` returned False and reports success |
| `Killed` | any other statement over a broken connection, or a signal, ends the process; systemd's new one builds a schedule |
| `CommandsCarriedOut`, `LateOn` | the valve thread; an on more than `LateSecs` late asks for another run |
| `Pages`, `PocPages` | the web pages; those of the point of connection ask for another run |

A page which would delete a row the run has already deleted waits for it
(`DELETE` at READ COMMITTED blocks on the row lock), so it is taken to come
right before the commit. The plan is any set of runs which is clear of what
the run has read. After a lost commit `restored` holds, until the next run,
the deleted rows which are back. The bridge to the thread is
`RebuildImplementsLedger`: with
a rebuild of many steps the tables still implement `RunLedger`.

### Wakeup

How the valve thread and the scheduler sleep. Times are counted from now, so
that the clock needs no bound. `due` has the time to each command; `wake` is the
thread's `tNext`; `notices` are the notifications on their way to it, which
a broken connection loses. `vconn` and `sconn` are the two `Listen`
connections: none, listening, or broken without anybody knowing.

| Action | Code |
|---|---|
| `BringForward`, `RemoveRow`, `Request` | commits of the clients, with `command_notify` and `scheduler_notify` |
| `ValveListen`, `ValveNotified`, `ValveBroken` | `Listen.fetch` |
| `ValveWake`, `CarryOut`, `LateOn`, `OnFails`, `CarryOutFails`, `ValveQuery` | `runMain`, `doPending`, `nextTime`, the Retry |
| `SchedulerListen`, `SchedulerWake`, `Build`, `Built`, `BuildFails`, `RebuildCut`, `CommitLost`, `SchedulerDies`, `SchedulerStart` | the loop of `scheduler.py` |
| `Tick`, `DatabaseDown`, `DatabaseUp` | the clock, the server |

`asked` says which requests for a rebuild are still to be met: "new", not yet
read, "taken" into the rebuild at hand, "missed", committed after the tables
were read while nobody listened. `lost` remembers those of a rebuild
whose commit failed. `RebuildCut` breaks the connection of a rebuild, which is
another than the one that listens.

What a command does and how a plan is made are left to the other modules.

### DbOut, Maintenance and Logs

`DbOut` is the log writer: `queue`, `backlog`, the connection as the writer
knows it, and the statement at hand with its tries. A statement may find no
database, fail because of itself (`Refused`), or have its commit carried out
without being told. `Maintenance` is `databaseMaintenance.py`, one action for
each call which reaches the disk or the database: `NextBatch`, `Copy`, `Sync`,
`Rename`, `SyncDir`, `Delete`, `Commit`, with `Fail`, `Kill` and `PowerCut`
between any two. A file is its rows, whether its contents are synced and
whether its name is: a power cut may take what is not. `Logs` composes the
two: they share the tables and the database, which takes a run of the
maintenance with it when it goes, and lose their power together.

Abstractions: a repeated reading is never put, and not seen; `archive_name` is
evaluated before the COPY in the code and at the rename here, which is the
same with one maintenance at a time (two at once are not modelled).

### Alerts

The watchdog, its state file, and what systemd and `notifyFailure.py` make of
its failures. `alarms` is what `checkPOC` finds now: any combination it can
return. The file holds, for each kind, how long ago it was mailed about this
stall, run or episode. Every mail, the emptying and the writing of the file,
the report and its stamp are steps of their own, with refused mails,
exceptions, kills and power cuts between them. How readings become alarms is
left out.

### Migrations

What each migration looks at and changes is a thing with the versions it has
had; a migration is a sequence of steps `Change(x, from, to)`. `RunAll` is the
loop of `database/README.md`, or the part of it `check_schema.py` names;
`RunOne` is one by hand; each runs in one transaction (`work`), may be a dry
run, fail, be stopped while it waits for a lock, and somebody may change a
label meanwhile. `CheckSchema` is what `check_schema.py` reports.

### Placement

The scheduler as a series of rebuilds, each of which looks at what the earlier
ones left: what has run, runs now, is about to begin, or was taken away by
somebody. Time is in ticks; all ticks of a sub-interval of the sweep line have
the reservations of that sub-interval, so a slot is a set of ticks. `cfg` is
the joined settings of a program station, its valve, controller, point of
connection and program; `rows` the rows of `action` and `historical` and the
placements not yet inserted; `todo` the set of program stations and dates
`build_schedule` still has to place, and `window` what `place_station` may still
use for the `First` of them, by date and priority (`Order`).

| Action | Code |
|---|---|
| `Rebuild` | `doit`, `cleanPending`, `loadExisting`, the order of `build_schedule`, `place_program` |
| `PlaceStation` | one turn of the loop of `place_station`: `find_slots`, the choice of a slot and a cycle, `record_placement` |
| `NextStation` | the loop ends; the last one commits |
| `Tick` | valves go on and off on time; the trigger which removes a manual run from `pgmStn` |
| `ManualOff`, `RemovePending`, `PocOff` | `manual_off` and `poc_on`, `monitorPendingRemove.php`, `poc_off` |

Rows stay in `rows` for ever, but the scheduler does not see all of them.
`Read` is the selection of `loadExisting`: every action, and of the history what
is dated yesterday or later and all of a manual run which still is a program
station. `Binding` is the condition of `_recordExisting`: a row takes of the
stations and the flow of its program only while its program station exists, which
that of a manual run does until its last on is done (`gone`). `Reserved` are the
rows of a tracker which are both.

`UsesOf` lists the six trackers with amount, limit and delays, `Blocked` is
`unavailable` of one of them, `Slots` is `find_slots`. `WindowOf` is the window
of a program on a date, with the day before and the whole further day of a
manual run.

Abstractions: a rebuild is one transaction nobody interrupts (module
`Rebuild` looks inside); valves are on time, so a late on is left to `ValveOps`;
limits which are NULL are a number no sum reaches; there is one point of
connection with a master valve. Days of the week, sun and daylight saving are
left out of the calendar, and so are the shortfall rows and their e-mails.

## 4. The runs

| Run | What it asks | States |
|---|---|---|
| `valve_two_runs` | two runs of one valve, unconfirmed commands, outages and crashes, rebuilds and removals: `TypeOK`, `FailsafeSees`, `KeptOn`, `EndsBeforeNextOn`, and that the thread implements `ActionTable` (`TableSpec`) | 270 000 |
| `valve_two_valves` | a master valve and a station, a limit of one, seven kinds of clients, unconfirmed commands, failing writes and outages: `NoOrphan`, `WithinLimit` | 1 438 000 |
| `valve_liveness` | two runs, unconfirmed commands, lost commits, offs of a valve never confirmed: `RunsEnd` | 140 000 |
| `serial` | two commands or a command and a poll, two failures anywhere (a lost or damaged sentence or frame, a late reply, a Zee, the port, a second signal), the server stopping at any point: `TypeOK`, `NothingAfterFinal`, `ConfirmedHolds`, `ConfirmedDespiteOne`, `InOrder`, `Answered` | 959 000 |
| `placement` | three program stations, two of one valve, two or three days and a rebuild at any time: `WithinLimits`, `Soaked`, `NoMoreThanAsked`, `NoNeedlessShortfall`, `WorthIt`, `Stable`, `Ends` | 174 000 |
| `rebuild` | two runs of a station, one off period of its master valve, a rebuild statement by statement beside all other writers, refused, killed or its commit lost: `RebuildTypeOK`, `OffMatchesAction`, `ArchivedOnce`, `PlanSeenTo`, and that the tables implement `RunLedger` (`LedgerSpec`) | 646 000 |
| `wakeup` | two commands, the database going away at any time, a scheduler which is refused, cut off and dies: `CommandsHeld`, `RequestHeld`, `Attended` | 644 000 |
| `logs` | three readings, one of them refused, two breaks or troubles of any kind: `TypeOK`, `NothingLost`, `DeletedAreArchived`, `InOrder`, `Written`, `Pruned` | 373 000 |
| `alerts` | one sensor, every failure, one power cut: `NoRepeat`, `NeverSilent` | 551 000 |
| `migrations` | a database of any of eighteen ages, any order of runs and stops: `LedgerTrue`, `Upgraded`, `NeverBack` | 17 000 |

The transactions of `ActionTable` are covered by the valve runs, whose property
`TableSpec` is `ActionTable`'s specification, and by `rebuild`.

Bounds. Two rows of one valve are enough for everything the code says about a
valve, which always relates one run to its next; two valves are enough for the
effect of an all-off on the others and for the limit (of one). Times up to 2
or 3 give room for a run, a gap of nothing or one second, and a next run, and
each of the valve and rebuild runs visits late ons, late offs and overlapping
rebuilds. `AllOffTries` is 2 instead of 4 (`OFF_ALLOFF_TRIES`): once and not
yet, then the all-off.
`Margin` is 0 seconds because the clock counts whole runs. Ids are finite, so
the runs look at two rows from their birth to the history and not at an
endless series; the theorems have no such limit.

The serial run makes two requests besides the all-off: one before, one after
the point where something goes wrong. A sentence is sent twice instead of
three times, so that two faults reach the giving up. `ConfirmedHolds` speaks of
a line on which no sentence was lost, whatever else was; `ConfirmedDespiteOne`
of one failure of any kind and of `MaxFrames` = 1, which is a controller that
sends a reply again only when nothing is on its way.

The placement run goes through 23 settings. Sixteen cross the minimum and
maximum cycle (equal to, below and above each other), a valve which has to soak
beside one which runs alone, and a program which fills its window from the end;
the others have limits on flow and current, delays, windows over midnight with
a manual run, a run of several cycles from the end of its window, a maximum
cycle of nothing, two manual stations of a program which allows one at a time
(`Manuals`), and a manual run over one midnight whose valve soaks over the next
(`TwoNights`). A day has 7 ticks and time goes to
8, so rebuilds cross midnight and what ran yesterday still counts; in `TwoNights`
it goes to 15, the third day, when the run of the first is not read any
more. One change
by somebody else is enough to leave a gap in a plan, a run cut short, or the
point of connection off; any number of rebuilds may follow it. The settings are
`Fitting` (`AllFit`, which TLC evaluates), so the run is an instance of what
`LimitsAreKept` proves.

In `rebuild` a plan has two rows, `LateSecs` is 0 seconds instead of 10, and a
run of the scheduler takes up to two units of time, so a late on and a page
both fit inside it. `wakeup` has two commands, since what counts is the
earliest and one more, up to two ticks ahead, which `MaxSleep` equals. Time is
relative and the run goes on for ever. `logs` has a backlog of two for three
readings, so that it overflows, a batch of one row and a table limit of one,
so that a run ends before all is pruned, readings two of which have the same
time and all of which fall within a second, so that file names collide, and a
table with nothing in it before theirs. `alerts` has 3 ticks of time to a
reminder and 2 to a hold-off: before, at and after each, and the two in
different order; it needs no bound but that of power cuts. `migrations` has no
bound: the things and versions are those of the scripts.

Deadlock is checked everywhere: the tables may always wait for time or place a
plan until the ids are used up and the last run is over, and the threads may
always idle.

### Disagreements found

Each is a run which expects a violation and a finding in `PROJECT.json`.

 - `late_on`: `doPending` carries out an off it read before the on of the same
   run moved it, so after an outage a run can be ended as soon as it began.
 - `off_race`: a `manual_off` between `superseded()` and `command_off_done`
   makes the database forget a valve which is on.

Narrower cases were met while modelling and have no run of their own. They are
why some runs above leave out a fault or a client, or a property an instance:

 - an on confirmed after the next on of its valve was due gets an off one
   second later (`command_on_done`, the GREATEST), and if both runs are on by
   then that off closes both: the valve is off and so are its runs, as
   `NoOrphan` and `KeptOn` ask, but the second run is cut short;
 - the limit of valves on is not applied when the count cannot be read, so
   `WithinLimit` is checked without failing reads;
 - `poc_off` extends an off period that is on in the table but that `reaffirm`
   left off because it was about to end, so `KeptOn` leaves master valves out;
 - a read or a write which fails between the two runs of one valve leaves the
   second one off until its end, so `KeptOn` is checked with neither;
 - `dbCall` reports a transaction as done whose commit failed
   (`TDIvalve.py:639`, `:644`), so a recorded on may not be: `NoOrphan` is
   checked without the fault "commit", `RunsEnd` with it;
 - the reply to an earlier command, sent again because its ACK was lost, may
   confirm a later one like it which was itself lost. It takes two failures, or
   one if the controller sends a reply again of its own accord and that is
   still on its way when the later command goes out. `ConfirmedHolds` therefore
   excludes lost sentences, and `ConfirmedDespiteOne` says that a single failure
   does no harm while the controller sends again only on a quiet line;
 - a rebuild does not see a late on which commits while it plans, and may leave
   a run of the valve inside another. The late on asks for a rebuild, which
   will see both (`PlanSeenTo`), unless it is late by no more than 10 seconds
   (`LateSecs`, `db.schema.sql:1242`): such an overlap stays, and
   `EndsBeforeNextOn` is a property of whole rebuilds only;
 - a request for a rebuild which is committed after the scheduler has read the
   tables and before it listens again is left to the next rebuild
   (`RequestHeld` calls it "missed");
 - `runScheduler` ignores what `DB.commit` returns (`SchedMain.py:33`,
   `DB.py:117-126`). When a commit fails the deleted rows are back, success is
   reported, and `--failureRetrySeconds` does not apply: the requests the run had
   taken are forgotten until the next notification or midnight (`lost` in
   `RequestHeld`), and rows it was to move stand where they stood (`restored` in
   `PlanSeenTo`);
 - while its last cycle is on, a manual run has no `pgmStn` any more
   (`db.schema.sql:1242-1246`) and does not count against its program
   (`SchedMain.py:292`). A rebuild then places another station of that program
   beside it, beyond `pgmMaxStations` or `pgmMaxFlow`. `WithinLimits` takes such
   a run off the limits of its program, not off those of its valve,
   controller and point of connection. Where a row does not count any more for a
   station still to be planned, somebody may use what it took, and a rebuild may
   move the plan (`AllCount` in `Stable`);
 - a manual run dated before yesterday whose last cycle is over is not read
   (`SchedMain.py:207-210`), so a long soak time of its valve is not kept by
   other programs; `Soaked` asks for the soak only while the cycle is read
   (`Soak`), and always that cycles do not overlap;
 - a manual run which is not placed in full when its window ends waits for the
   window of the next day, which a rebuild then finds occupied otherwise
   (`ManualsAwaited` in `Stable`);
 - a second signal during the clean-up ends the server before its final all-off
   (`SignalAgain`), so the serial runs promise what follows an all-off, not that
   there is one;
 - when a valve's `maxCycleTime` is less than its `minCycleTime`, cycles shorter
   than the minimum are placed, which the docstring of `place_station` does not
   list among its exceptions; `WorthIt` leaves such valves out;
 - with a delay between stations, of a controller or a point of connection, the
   station placed first need not keep its delay from the second. It does when it
   is placed anew, so a rebuild may move a plan nothing has changed; `Stable`
   leaves such settings out;
 - a program with `qBackward` places its latest cycle first, but `cleanPending`
   spares the earliest one first. What the spared one leaves of the run time is
   divided anew (`SchedPlacer.py:109`), and may be divided otherwise: in the
   setting `Backwards` the plan has 2 and then 3 of the 6 ticks asked for (the
   last would be a runt); when the 2 are spared, the 4 which are left become 2
   and a last cycle of 2, for which there is no room, so a rebuild nobody needed
   leaves 4 instead of 5. `Stable` therefore speaks of such a program only
   where it has one cycle (`OneCycle`);
 - `build_resource_set` consults a tracker only when it has a reservation
   (`SchedResource.py:424`), so the first station to be placed is not held to its
   limits: one which by itself takes more flow than its point of connection
   allows is placed as long as nothing else is reserved there, and nowhere once
   anything is. The docstring of `place_station` says it respects all resource
   constraints (`SchedPlacer.py:59`). `Fitting` excludes such a station;
 - `poc_off` turns a master valve on whatever else is on at its controller. The
   stations of its own point of connection go off, but a station of another one
   on the same controller does not, and the two together may exceed the limits
   of the controller; `Fitting` leaves such a wiring out of `LimitsAreKept`;
 - what remains of a run may be less than a cycle and is then left out, so
   `NoNeedlessShortfall` speaks of what is worth a cycle;
 - the mail about a new episode of low flow may come sooner than `remindHours`
   after a late mail about the one before (`NoRepeat` allows it), and zones
   recorded after an episode's mail are dropped unlisted when it ends;
 - a power cut or a kill while the watchdog saves empties its state file, after
   which what was mailed is mailed again (`NoRepeat` excuses it);
 - a dry run of the whole loop on an old database stops at migration 009, which
   needs the table 008 would have made;
 - `check_schema.py` does not look at the quantiles of 003, the indexes of 004 or
   the parameter and labels of 016, while `database/README.md:27` says it fails
   if the objects of any migration are missing; and it fails for a stop mode
   label somebody has changed (`check_schema.py:126`), hence the last conjunct of
   `Upgraded`;
 - 003 and 014 overwrite ranges and labels whatever they were, 010 and 016 leave
   what was customised; 016 tests the old label in a query of its own before its
   UPDATE;
 - `manual_all_off` is aborted as a whole by a run which began in the same
   instant (`action_causal`); the next call succeeds.

`NoOrphan` is checked with `manualOff` only on valves with one run, for the
reason of `off_race`; for crashes it is proved instead (`NothingOrphaned`).

## 5. Fairness

`FairSpec` assumes: the thread takes a step whenever it can (`runMain` loops
for ever and every call it makes has a time-out); the clock moves; and of an
endless series of tries at the same statement or at the all-off some succeed
(strong fairness of reading the due rows, looking one up, recording an off,
and confirming the all-off which stands in for an off). Nothing is assumed
about the off of a single valve: it may fail for ever, and the run still ends
through the all-off (`OFF_ALLOFF_TRIES`).

`TDISerial` assumes of its own `FairSpec` that the serial thread runs and its
time-outs end (`readFixed` bounds each read by `select`), and that the
controller acts on what it has taken. Giving up is not fair, so `Answered`
shows that the serial thread bounds each command itself, as `TDIvalve.py:43`
says. Sending again is not fair either.

`Wakeup`: time does not stop and the thread runs (weak fairness of waking and
of the query, strong of the clock, which a row that is due holds up), and a
row the thread has taken up is carried out or fails, and does not fail for
ever. Nothing is assumed of notifications: with every one of them lost,
`Attended` still follows from `nextTime` and the Retry, once the database
stays up, which is the premise of the property itself.

`Logs`: the writer goes on, a database which went away comes back, a stopped
process ends (systemd kills it if need be), and the daily timer starts the
maintenance, whose calls return. What fails is bounded by `MaxFaults`: a run
with endless failures may indeed keep every row for ever.

`Alerts`: the timer goes on, time passes, and a mail is not refused for ever
nor a report killed every time. A run of the watchdog itself may fail every
time: `NeverSilent` says that somebody hears of it.

`Placement`, `Rebuild` and `Migrations` need no fairness. That a rebuild of
`Placement` ends is `Ends`, an action
property: every turn finishes a program station or shrinks the window, and
without deadlock there is always a turn.

## 6. What is proved

Each theorem holds for every value of the constants, from the named assumption
of its module alone (`TableAssumption`, `SerialAssumption` and so on), and all
of them under every failure the module has unless it is said otherwise. Where a
theorem excludes a failure or a client, its hypothesis names it, and section 4
says what happens with it.

In `ActionTableProofs`, for any number of runs, valves and any times:

 - `TypeCorrect`, and with it `OffMatches`: the end a row shows is the one its
   off command has. Inductive with the types.
 - `RunsDoNotReach` (`EndsBeforeNextOn`). Not inductive alone: moving an end
   needs to know that a run which is on began in the past (`Begun`), so that a
   later on is later than it. `Order` is the conjunction.
 - `HistoryOnce`: needs that ids in the history have been used, so that no
   insert reuses one (`Once`).
 - `ImplementsLedger`: each step moves each run along a legal edge or not at
   all.

These are about `ActionTable`'s own specification. The modules which build on
it carry them over: the valve thread by `ThreadKeepsTables`, the rebuild by
the lemmas on single steps.

In `ValveOpsProofs`, for any number of valves, runs, stations on and tries:

 - `FailsafeMissesNothing`: inductive as it stands.
 - `ThreadTypeCorrect` and `ThreadKeepsTables`: the thread beside its clients
   implements `ActionTable`. The invariant adds that the command being carried
   out belongs to a known action (`Known`).
 - `ThreadRunsDoNotReach`: `EndsBeforeNextOn` beside the thread, by
   `ThreadKeepsTables` and the step lemma of `ActionTableProofs`.
 - `NothingOrphaned`: `NoOrphan` under every failure except a lost commit,
   for clients which plan and delete. The inductive invariant (`Foreknown`)
   says what the thread relies on between two steps: when it closes a run
   without an off, another run of the valve which began no earlier than that
   off is on; after a confirmed off the valve is off until it is recorded.
   A client which moves an end breaks the first (`off_race`), a lost commit
   the premise that a recorded on is recorded.
 - `NeverOverLimit`: `WithinLimit` without failing reads or lost commits, for
   the same clients. What is open is not inductive: `onInfo` counts rows, not
   valves, and counts them before the on is sent. The invariant (`Limited`)
   bounds the valves which have a run that is on, with the valve of the command
   while an on is out (`OnIsOut`), until it is recorded or forced off; by
   `NoOrphan` every open valve is one of these.
 - `RunsAreKeptOn`: `KeptOn`, also of master valves, when reads, writes and
   commits succeed (outages, unconfirmed commands and crashes may happen), for
   the same clients. A confirmed off takes its valve off `onAddrs` before any
   row is closed, so it must be the off of a run which is on (`OffOfRun`) and
   every other run of that valve must be one it closes (`OffClosesAll`). That
   holds because an on comes before its own off in a pass (`OnFirst`), which in
   turn needs that no on is left out of a pass, hence no failing reads or
   writes (`NoOnTries`).

In `RebuildProofs`, for plans of any size and any page or command between two
statements of a rebuild:

 - `RebuildTypeCorrect`, `RebuildKeepsEnds`, `RebuildArchivesOnce` and
   `RebuildImplementsLedger`. To the tables every step is one of `ActionTable`,
   the commit of a plan, or none (a lost commit and the end of the process leave the
   tables alone). Only the commit is new, and the types of what
   it commits (`RunOK`) are all it needs: that its rows are unused, and what it
   drops is pending.
 - `PlansAreSeenTo` (`PlanSeenTo`). The property is about rows which are
   committed; the invariant (`SInv`) is about all runs to come, those which
   stand and those the scheduler has still to insert or commit: they last
   (`Lasting`), are apart from one another (`Apart`), those of the scheduler
   come after those which stand (`Ahead`), and each is clear of what runs and of
   the off periods, or shares no more than `LateSecs` with them, or another
   rebuild is asked for (`AllSeen`). The rows a lost commit brought back are left
   out until the next run takes them up (`restored`). A late on pushes the end of its run by as
   much as it is late, so what it can reach into by more than `LateSecs` it
   asks for.

In `TDISerialProofs`, for any number of valves, requests and tries:

 - `CarriedInOrder`: `InOrder`. The inductive invariant (`Order`) follows a
   request along its way: the last command the controller carried out is no
   later than those it has still to act on, these are in order among
   themselves and no later than the one in flight, and that is earlier than
   all which are queued. Only commands of the valve thread and the main thread
   are in it; a poll may be overtaken. A sentence sent again repeats a number,
   hence "no later".
 - `AllOffIsFinal`: `NothingAfterFinal`. Adds to `Order` that `put` takes
   nothing but all-offs after the first final one (`LastOnes`), and that a
   poll turns nothing on. The order alone is not enough: an on of a thread
   which had not looked again at `should_run` would come after the all-off.
 - `TypeCorrect`: `TypeOK`. The numbers of requests are bounded although three
   threads hand them out: a thread decides only while a number is left for each
   which has decided (`Limits`).
 - `ConfirmedIsSo`: `ConfirmedHolds`. A confirmation is about a valve, not about
   a request: a reply may be an old one. The invariant (`Heard`) is therefore
   that the sentence in flight is in force (carried out, or going to be once
   the controller has done all it has taken) as soon as it is sent, unless a
   sentence was lost, and that what is confirmed is in force. That later
   commands do not undo it rests on `Links`: a command in the queue is waited
   for, given up or of a thread which has been told to stop, and once the
   all-off of the main thread is taken no other command is in the queue.
 - `ConfirmedDespiteOneLoss`: `ConfirmedDespiteOne`, for a controller which sends
   a reply again on a quiet line only (`MaxFrames` at most 1). If the one
   failure is not the loss of a sentence, `ConfirmedIsSo` says it already. If it
   is, nothing else has failed, and the invariant (`Attuned`) is that the serial
   thread and the controller are in step (`InStep`): on the line is what is not
   yet read of the ACK and the reply of the request in flight, and nothing of
   any other, and a reply is owed only while it is on the line. So a reply is
   taken only by the request it is for, which the controller has then carried
   out (`Echoed`). Because the lost sentence may be sent again while another
   requester has a confirmation, the invariant also says that only the final
   all-off is ever in flight then (`Rivals`).

This is what `ValveOps` relies on where it decides a command which is not
confirmed at once, as carried out or not: one which the controller carries out
late still comes before the next command.

In `WakeupProofs`, for any number of commands and any sleep: `SleepsNoLonger`
(`CommandsHeld`) and `RequestsAreHeld` (`RequestHeld`). Inductive with the
types and `Reachable`: a scheduler which has been notified is listening, one
which is dead is not. `RequestHeld` names what is forgotten, the requests of a
rebuild whose commit was lost and those which were missed, and the theorem says
that there are no others. That the thread sleeps until the
earliest of its times needs that a set of numbers has a least one, which
follows from the well-foundedness of the order.

In `LogsProofs` of the maintenance alone, for any policies, rows and batches, and
rows inserted by anybody: `MaintenanceTypeCorrect` and
`NothingDeletedUnarchived`. The inductive invariant says what is on the disk at
each call: the temporary file holds rows of the batch and is synced before it
is renamed (`Copied`), and from then on one file holds the whole batch, its
directory entry synced before the DELETE (`Filed`). A file which is durable is
never renamed over, so what is archived stays archived, also through a power
cut.

There too, for any number of readings, any backlog and number of breaks, the
maintenance at work beside the writer: `TypeCorrect`, `NoReadingIsLost`
(`NothingLost`), `StoredInOrder` (`InOrder`) and `WhatIsDeletedIsArchived`.
The proofs name the actions of the two instances (`W!Take`, `M!Copy` and so on).
The writer's invariant (`WriterInv`): the backlog holds
consecutive readings or later ones, all earlier than the queue, whose numbers
rise (`Numbered`), so one dropped from a full backlog has `BacklogMax` after
it; and a statement which failed although nothing is wrong with it has met a
break, two if it failed twice (`Blamed`). `gone`, a parameter of these lemmas,
stands for the rows the maintenance has taken. The invariant
of both together (`IInv`) has one case for each kind of step: it is the
writer's, or the maintenance's, which only takes rows from the tables, or a loss
of memory.

In `AlertsProofs`, for any times between reminders and any combination of
failures: `TypeCorrect` and `MailedOnce` (`NoRepeat`). The invariant (`Recorded`)
says where a mail is recorded at each step: in the run's copy of the state file
while the run still means to write it (`Held`), otherwise in the file. A run
which ends early drops its copy, and its mails with it. Low flow needs `AsRead`
besides: the alarm decides from the copy what `NoRepeat` says of the file.

In `PlacementProofs`, for any stations, settings (`PlacementAssumption` only gives
them their types), windows, days and changes by others: `TypeCorrect`,
`ValvesSoak` (`Soaked`), `NoneGetsMore` (`NoMoreThanAsked`), `LimitsAreKept`
(`WithinLimits`, for settings which are `Fitting`), `RebuildEnds` (`Ends`),
`PlacedIsWorthIt` (`WorthIt`) and `ShortForWantOfRoom` (`NoNeedlessShortfall`).

 - The model adds up lengths and amounts with `SumFunction`, a recursive
   function of the community modules, and takes extremes with `CHOOSE`. What
   they are cannot be had from the library's induction theorems, so the first
   part of the module derives it from the smallest counterexample: that numbers
   and finite sets are well-founded needs no operator parameter. A sum exists
   (`SumExists`), does not depend on the order (`AnyOrder`), may be split
   (`SumByParts`), and is no greater over fewer elements (`SumShrinks`).
 - `IInv` has the types, finitely many rows, the amounts and limits which
   follow from the settings (`Usages`), that a master valve which shuts a point
   of connection has begun (`MasterHasBegun`), and that the window is ahead of
   the time to clean up (`WindowAhead`).
 - Every step but one leaves fewer or shorter rows: a rebuild drops some, a page
   ends or removes some. `Fewer` says so with a function `p` from the new rows to
   the old ones, one to one, each within its origin; soak times, sums and limits
   carry over along it (`FewerSoak`, `FewerTime`, `FewerKeep`). A row which is not
   read any more is never read again, as time and dates only grow (`DivGrows`,
   `SoakShrinks`). The exceptions
   are `poc_off`, whose master valve is new or longer and falls under the limits
   of its controller alone (`LimitsShut`), and the placing of a cycle.
 - A cycle lies in one slot of the free ticks (`SlotIs`, `PlaceIs`). A free tick
   is one at which the station fits beside those which are on and
   count against its limits (`FreeFits`; `BindsIn`: a manual run counts for its
   program no longer than its program station exists), and
   no row of the same valve which is read is within its gap (`FreeSoaks`): a row near the
   window, but outside it, is among the rows looked at because the padding is
   the greatest margin of any row of the tracker.
 - `NoNeedlessShortfall` speaks of the whole window of a date when the loop of
   `place_station` has looked at each part of it once and gives up. Its
   invariant `RoomAhead`: room for a worthwhile cycle which is still free lies
   in what is left of the window. It holds because whether a tick is free does
   not depend on the window looked at (`FreeIs`; the padding again), because
   more rows never free a tick (`FreeBesideMore`), because slots are maximal,
   so that free room lies within one (`SlotAround`), and because the gap which
   is skipped after a cycle is not free beside it (`NotAroundItself`).

Only model-checked:

 - `Stable` of `Placement`, which compares two whole plans, each the outcome of
   many turns of the loop. That its premises cannot be dropped TLC has shown, with
   settings which break it;
 - all of `Migrations`, which has no parameters, so TLC has looked at all of
   it;
 - liveness (`RunsEnd`, `Answered`, `Attended`, `Written`, `Pruned`,
   `NeverSilent`): fairness and ENABLED are out of the prover's reach.

The modules with proofs reach no RECURSIVE operator, which the prover could not
reason about.

## 7. Not modelled

`PROJECT.json` gives the reason for each component. Left out are:

 - of the valve thread: valve tests (`cmd` 2) and the wording of e-mails;
 - of the line: bytes and checksums (a frame arrives whole, damaged or not at
   all), and how a reading is decoded;
 - of the server: heartbeats and the watchdog thread, which only cause a stop,
   and a stop may come at any time;
 - of the calendar: days of the week, time zones, sun times and daylight
   saving. They are calendar arithmetic of libraries, which a model would only
   repeat;
 - of the scheduler: shortfall rows and their mails, refused configuration;
   pending rows whose `pgmStn` is NULL, which `cleanPending` spares for ever
   (`SchedMain.py:183`; a manual run loses its program station only once its
   last on is done), so `Clean` takes all others; and an insert refused because
   its `pgmStn` was deleted meanwhile, which is a refusal like any other;
 - of the log writer: a good statement which fails twice on a live connection for
   a passing reason, and is dropped as a bad one would be (`DB.py:266-278`);
   `Refused` is a fixed set of readings;
 - of the flow alarms: how readings become alarms (sums and limits of
   floating-point data). Any combination of alarms may appear at any time;
 - of the maintenance: two at once, `dumpDatabase.py` and `sdWear.py`, which
   change no table;
 - filter statistics, reports, weather, the status pages, the generic table
   editor, `extract.site.py` and the start-up configuration: they read, or
   change rows nothing modelled decides on, or are floating-point statistics.
