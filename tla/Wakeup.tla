-------------------------------- MODULE Wakeup --------------------------------
(***************************************************************************)
(* How the two daemons sleep and wake up.  The valve thread (TDIvalve.py)  *)
(* reads the time of the earliest command and sleeps until then; the       *)
(* scheduler (scheduler.py) sleeps until after midnight, or a while after a*)
(* rebuild which failed.  Whoever commits a change which cannot wait sends *)
(* a NOTIFY with it, which reaches a daemon only through a connection that *)
(* listens at that moment (Listen, DB.py).  The server may go away with    *)
(* both connections, and what they had not yet delivered, at any time.     *)
(*                                                                         *)
(* All times are counted from now, so that the clock needs no bound.       *)
(***************************************************************************)
EXTENDS Integers, FiniteSets, FiniteSetsExt

CONSTANTS
  Cmd,       \* commands
  MaxDue,    \* bound: how far ahead commands are planned
  MaxSleep   \* the 3600 s after which the valve thread looks anyway

ASSUME WakeupAssumption == MaxDue \in Nat /\ MaxSleep \in Nat \ {0}

VARIABLES
  up,        \* the database answers
  due,       \* time until the row's timestamp, NoTime without a row
  vpc,       \* the valve thread is in fetch ("sleep") or in a pass ("pass")
  wake,      \* its tNext
  vconn,     \* its Listen connection: "none", "listening", "broken": not known to be
  notices,   \* times in notifications on their way to it
  skipped,   \* commands whose backoff runs
  todo,      \* rows of the pass which are still to come
  blind,     \* auxiliary: since its last query it may have missed something
  spc,       \* the scheduler: "sleep", "run", "building", "cut": its connection is gone, "dead"
  sconn,     \* its Listen connection
  woken,     \* a notification is on its way to it
  failed,    \* failureCount > 0: the next run is DB_RETRY_SECS away at most
  asked,     \* auxiliary: the requests not yet planned: "new", "taken" into a rebuild, or
             \* "missed": committed when nobody listened and the tables had been read
  lost       \* auxiliary: those whose rebuild failed at its commit, which nobody notices

NoTime == -1
Conn == {"none", "listening", "broken"}
valve == <<vpc, wake, vconn, notices, skipped, todo, blind>>
scheduler == <<spc, sconn, woken, failed, asked, lost>>
vars == <<up, due, valve, scheduler>>

Rows == {c \in Cmd : due[c] # NoTime}

TypeOK ==
  /\ up \in BOOLEAN
  /\ due \in [Cmd -> NoTime .. MaxDue]
  /\ vpc \in {"sleep", "pass"} /\ wake \in 0 .. MaxDue + MaxSleep
  /\ vconn \in Conn /\ notices \in SUBSET (0 .. MaxDue)
  /\ skipped \in SUBSET Cmd /\ todo \in SUBSET Cmd /\ blind \in BOOLEAN
  /\ spc \in {"sleep", "run", "building", "cut", "dead"} /\ sconn \in Conn
  /\ woken \in BOOLEAN /\ failed \in BOOLEAN
  /\ asked \in SUBSET {"new", "taken", "missed"} /\ lost \in SUBSET {"taken"}

(* Both have their connection before their first query. *)
Init ==
  /\ up = TRUE
  /\ due \in [Cmd -> NoTime .. MaxDue]
  /\ vpc = "pass" /\ wake = 0 /\ vconn = "listening" /\ notices = {}
  /\ skipped = {} /\ todo = {} /\ blind = FALSE
  /\ spc = "run" /\ sconn = "listening" /\ woken = FALSE /\ failed = FALSE
  /\ asked = {} /\ lost = {}

Sooner(t) == IF t > 0 THEN t - 1 ELSE t

(* Mutant of Tick: a command tried in vain is never tried again. *)
TickWithoutRetry ==
  /\ vpc = "sleep" => wake > 0
  /\ due' = [c \in Cmd |-> Sooner(due[c])]
  /\ wake' = Sooner(wake)
  /\ notices' = {Sooner(t) : t \in notices}
  /\ UNCHANGED <<up, vpc, vconn, skipped, todo, blind, scheduler>>

(* Time passes until something is due; a backoff is over after one tick. *)
Tick ==
  /\ vpc = "sleep" => wake > 0
  /\ due' = [c \in Cmd |-> Sooner(due[c])]
  /\ wake' = Sooner(wake)
  /\ notices' = {Sooner(t) : t \in notices}
  /\ skipped' = {}
  /\ UNCHANGED <<up, vpc, vconn, todo, blind, scheduler>>

Broken(conn) == IF conn = "listening" THEN "broken" ELSE conn

(* All connections break, whether the server is back at once or not. *)
DatabaseDown ==
  /\ up
  /\ up' \in BOOLEAN
  /\ vconn' = Broken(vconn) /\ sconn' = Broken(sconn)
  /\ notices' = {} /\ woken' = FALSE
  /\ blind' = TRUE
  /\ spc' = IF spc = "building" THEN "cut" ELSE spc
  /\ UNCHANGED <<due, vpc, wake, skipped, todo, failed, asked, lost>>

DatabaseUp ==
  /\ ~up
  /\ up' = TRUE
  /\ UNCHANGED <<due, valve, scheduler>>
------------------------------------------------------------------------------
(***************************************************************************)
(* What the clients commit, with their notifications.                      *)
(***************************************************************************)
(* command_notify(t): delivered with the commit, to a connection which listens. *)
CommandNotify(t) ==
  /\ notices' = IF vconn = "listening" THEN notices \cup {t} ELSE notices
  /\ blind' = (blind \/ vconn # "listening")

SchedulerNotify ==
  /\ woken' = (woken \/ sconn = "listening")
  /\ asked' = asked \cup {IF sconn = "none" /\ spc \notin {"run", "dead"} THEN "missed" ELSE "new"}

(* manual_off, poc_off and their like bring a command forward to now. *)
BringForward(c) ==
  /\ up /\ due[c] > 0
  /\ due' = [due EXCEPT ![c] = 0]
  /\ CommandNotify(0)
  /\ UNCHANGED <<up, vpc, wake, vconn, skipped, todo, scheduler>>

RemoveRow(c) ==
  /\ up /\ c \in Rows
  /\ due' = [due EXCEPT ![c] = NoTime]
  /\ UNCHANGED <<up, valve, scheduler>>

(* manual_on, poc_off and runScheduler.php ask for a rebuild. *)
Request ==
  /\ up
  /\ SchedulerNotify
  /\ UNCHANGED <<up, due, valve, spc, sconn, failed, lost>>
------------------------------------------------------------------------------
(* nextTime: the earliest row or backoff; an hour when there is none. *)
NextTime(times) == IF times = {} THEN MaxSleep ELSE Min(times)

(* Mutant of Received: only the last notification counts. *)
ReceivedLast == CHOOSE t \in notices : TRUE

Received == Min(notices \cup {wake})

(* Listen.fetch opens a connection, receives, or finds the connection broken. *)
ValveListen ==
  /\ vpc = "sleep" /\ wake > 0
  /\ vconn = "none" /\ up
  /\ vconn' = "listening"
  /\ UNCHANGED <<up, due, vpc, wake, notices, skipped, todo, blind, scheduler>>

ValveNotified ==
  /\ vpc = "sleep" /\ wake > 0
  /\ notices # {}
  /\ wake' = Received
  /\ notices' = {}
  /\ UNCHANGED <<up, due, vpc, vconn, skipped, todo, blind, scheduler>>

ValveBroken ==
  /\ vpc = "sleep" /\ wake > 0
  /\ vconn = "broken"
  /\ vconn' = "none"
  /\ UNCHANGED <<up, due, vpc, wake, notices, skipped, todo, blind, scheduler>>

(* doPending reads the rows which are due and not in backoff. *)
ValveWake ==
  /\ vpc = "sleep" /\ wake = 0
  /\ vpc' = "pass"
  /\ todo' = IF up THEN {c \in Rows : due[c] = 0} \ skipped ELSE {}
  /\ UNCHANGED <<up, due, wake, vconn, notices, skipped, blind, scheduler>>

(* A row is carried out, or is gone.  An on which is late moves its off, with *)
(* no notification to this thread, and asks for a rebuild.                 *)
CarryOut(c) ==
  /\ vpc = "pass" /\ up /\ c \in todo
  /\ todo' = todo \ {c}
  /\ due' = [due EXCEPT ![c] = NoTime]
  /\ UNCHANGED <<up, vpc, wake, vconn, notices, skipped, blind, scheduler>>

LateOn(c) ==
  /\ vpc = "pass" /\ up /\ c \in todo \cap Rows
  /\ todo' = todo \ {c}
  /\ \E d \in Rows \ {c}, t \in 1 .. MaxDue :
       due[d] < t /\ due' = [due EXCEPT ![c] = NoTime, ![d] = t]
  /\ SchedulerNotify
  /\ UNCHANGED <<up, vpc, wake, vconn, notices, skipped, blind, spc, sconn, failed, lost>>

(* An on is not confirmed: command_on_failed brings its off forward. *)
OnFails(c) ==
  /\ vpc = "pass" /\ up /\ c \in todo \cap Rows
  /\ todo' = todo \ {c}
  /\ \E d \in Rows \ {c} : due' = [due EXCEPT ![c] = NoTime, ![d] = 0]
  /\ CommandNotify(0)
  /\ UNCHANGED <<up, vpc, wake, vconn, skipped, scheduler>>

(* It is not, and is tried again after a while. *)
CarryOutFails(c) ==
  /\ vpc = "pass" /\ c \in todo
  /\ todo' = todo \ {c}
  /\ skipped' = skipped \cup {c}
  /\ UNCHANGED <<up, due, vpc, wake, vconn, notices, blind, scheduler>>

(* The query of nextTime; without a database it is repeated soon. *)
ValveQuery ==
  /\ vpc = "pass" /\ todo = {}
  /\ vpc' = "sleep"
  /\ wake' = IF up THEN NextTime({IF c \in skipped THEN 1 ELSE due[c] : c \in Rows}) ELSE 1
  /\ skipped' = IF up THEN skipped \cap Rows ELSE skipped
  /\ blind' = ~up
  /\ UNCHANGED <<up, due, vconn, notices, todo, scheduler>>
------------------------------------------------------------------------------
(***************************************************************************)
(* The scheduler: whatever ends its fetch, a notification, the time or a   *)
(* broken connection, it builds a schedule.                                *)
(***************************************************************************)
SchedulerListen ==
  /\ spc = "sleep" /\ sconn = "none" /\ up
  /\ sconn' = "listening"
  /\ UNCHANGED <<up, due, valve, spc, woken, failed, asked, lost>>

(* Mutant of SchedulerWake: a connection found broken is no reason to wake up. *)
SchedulerWakeIfNotified ==
  /\ spc = "sleep"
  /\ \/ woken /\ woken' = FALSE /\ spc' = "run" /\ UNCHANGED sconn
     \/ spc' = "run" /\ UNCHANGED <<woken, sconn>>
     \/ sconn = "broken" /\ sconn' = "none" /\ UNCHANGED <<spc, woken>>
  /\ UNCHANGED <<up, due, valve, failed, asked, lost>>

SchedulerWake ==
  /\ spc = "sleep"
  /\ spc' = "run"
  /\ \/ woken /\ woken' = FALSE /\ UNCHANGED sconn
     \/ UNCHANGED <<woken, sconn>>
     \/ sconn = "broken" /\ sconn' = "none" /\ UNCHANGED woken
  /\ UNCHANGED <<up, due, valve, failed, asked, lost>>

(* The tables are read: whatever was asked for before is in this schedule. *)
Build ==
  /\ spc = "run" /\ up
  /\ spc' = "building"
  /\ asked' = IF asked = {} THEN {} ELSE {"taken"}
  /\ lost' = {}
  /\ UNCHANGED <<up, due, valve, sconn, woken, failed>>

(* Commit: pending rows are replaced, with a notification for each insert. *)
Built ==
  /\ spc = "building"
  /\ \/ UNCHANGED <<due, valve>>
     \/ \E c \in Cmd, t \in 1 .. MaxDue :
          /\ due[c] # 0 /\ c \notin skipped \cup todo
          /\ due' = [due EXCEPT ![c] = t]
          /\ CommandNotify(t)
          /\ UNCHANGED <<vpc, wake, vconn, skipped, todo>>
  /\ spc' = "sleep" /\ failed' = FALSE
  /\ asked' = asked \ {"taken"}
  /\ UNCHANGED <<up, sconn, woken, lost>>

(* One insert was refused: rolled back, and again after failureRetrySeconds. *)
BuildFails ==
  /\ spc = "building"
  /\ spc' = "sleep" /\ failed' = TRUE
  /\ UNCHANGED <<up, due, valve, sconn, woken, asked, lost>>

(* The connection of the rebuild breaks while the one which listens lives. *)
RebuildCut ==
  /\ spc = "building"
  /\ spc' = "cut"
  /\ UNCHANGED <<up, due, valve, sconn, woken, failed, asked, lost>>

(* DB.commit says that the commit failed, but runScheduler does not look: the *)
(* run counts as one which succeeded, and what it took is not planned.        *)
CommitLost ==
  /\ spc = "cut"
  /\ spc' = "sleep" /\ failed' = FALSE
  /\ lost' = asked \cap {"taken"}
  /\ UNCHANGED <<up, due, valve, sconn, woken, asked>>

(* No connection, or any other statement over a dead one, ends the process. *)
SchedulerDies ==
  /\ spc = "cut" \/ (spc = "run" /\ ~up)
  /\ spc' = "dead" /\ sconn' = "none" /\ woken' = FALSE /\ failed' = FALSE
  /\ UNCHANGED <<up, due, valve, asked, lost>>

(* A new process listens first and then builds a schedule. *)
SchedulerStart ==
  /\ spc = "dead" /\ up
  /\ spc' = "run" /\ sconn' = "listening"
  /\ UNCHANGED <<up, due, valve, woken, failed, asked, lost>>
------------------------------------------------------------------------------
CarriedOut(c) == CarryOut(c) \/ LateOn(c) \/ OnFails(c)

Next ==
  \/ Tick \/ DatabaseDown \/ DatabaseUp \/ Request
  \/ \E c \in Cmd : BringForward(c) \/ RemoveRow(c)
  \/ ValveListen \/ ValveNotified \/ ValveBroken \/ ValveWake \/ ValveQuery
  \/ \E c \in Cmd : CarriedOut(c) \/ CarryOutFails(c)
  \/ SchedulerListen \/ SchedulerWake \/ Build \/ Built \/ BuildFails
  \/ RebuildCut \/ CommitLost \/ SchedulerDies \/ SchedulerStart

Spec == Init /\ [][Next]_vars

(* Time does not stop, the thread runs, and a command is not refused for ever. *)
FairSpec ==
  /\ Spec
  /\ SF_vars(Tick) /\ WF_vars(ValveWake) /\ WF_vars(ValveQuery)
  /\ \A c \in Cmd : SF_vars(CarriedOut(c)) /\ WF_vars(CarriedOut(c) \/ CarryOutFails(c))
------------------------------------------------------------------------------
(* The valve thread never sleeps past a row, or has a notification on its  *)
(* way which is early enough, unless a broken connection has kept one from *)
(* it since its last query (nextTime, fetch, command_notify).              *)
CommandsHeld ==
  vpc = "sleep" /\ ~blind =>
    \A c \in Rows : \E t \in notices \cup {wake} : t <= IF c \in skipped THEN 1 ELSE due[c]

(* While the scheduler sleeps, a request for a rebuild is still on its way *)
(* to it, or the connection it came by is one whose loss the scheduler has *)
(* yet to find, or its rebuild failed and is to be repeated.  There are two*)
(* exceptions, both left to the next rebuild, at the latest after midnight:*)
(* a request which is committed after the tables were read, while no       *)
(* connection listens, and the requests of a rebuild whose commit fails,   *)
(* which nobody notices (scheduler.py, runScheduler, Listen.fetch).        *)
RequestHeld ==
  /\ "new" \in asked => woken \/ spc \in {"run", "dead"} \/ sconn = "broken"
  /\ "taken" \in asked \ lost => spc # "sleep" \/ failed \/ sconn = "broken"

(* A command which is due does not stay due for ever: however many         *)
(* notifications were lost, the thread looks again, at the latest when the *)
(* next row it knows of is due (runMain, nextTime, Retry).                 *)
Attended == <>[]up => \A c \in Cmd : []<>(due[c] # 0)
==============================================================================
