-------------------------------- MODULE DbOut --------------------------------
(***************************************************************************)
(* How a reading of the controller gets into the database: a polling       *)
(* thread (TDIbase.py) puts it on a queue, and the writer thread (DBout,   *)
(* DB.py) takes it into a backlog and writes the backlog in order, one     *)
(* statement and one commit for each.  The database may go away at any     *)
(* time, which the writer learns only from its next statement; the process *)
(* may be stopped, and then tries once more, or die.                       *)
(*                                                                         *)
(* Readings are numbered in the order in which they are put.  A repeated   *)
(* reading is not put at all, so it is not seen here.                      *)
(***************************************************************************)
EXTENDS Integers, Sequences, FiniteSets, SequencesExt

CONSTANTS
  MaxReadings,  \* bound: readings ever put
  BacklogMax,   \* BACKLOG_MAX
  Refused,      \* readings whose statement the database never accepts
  MaxBreaks     \* bound: times a connection breaks

(* Assumed by the module which composes this one with its reader. *)
DbOutAssumption ==
  /\ MaxReadings \in Nat /\ MaxBreaks \in Nat
  /\ BacklogMax \in Nat \ {0}
  /\ Refused \subseteq 1 .. MaxReadings

VARIABLES
  made,     \* readings put so far
  queue,    \* DBout.queue; 0 is the None which shutdown puts
  backlog,  \* DBout.backlog
  table,    \* readings which are rows of a log table
  up,       \* the database answers
  link,     \* the writer's connection: "none", "live", or "stale": not yet known to be dead
  pc,       \* what the writer does next
  tries,    \* tries at the first statement of the backlog which failed
  wait,     \* tRetry is still to come
  last,     \* the None was taken: this flush is the last
  logged,   \* auxiliary: readings logged as dropped by write()
  ended,    \* auxiliary: readings put before the process last ended
  breaks    \* auxiliary: times a connection broke

Reading == 1 .. MaxReadings
memory == <<queue, backlog, link, pc, tries, wait, last>>
vars == <<made, memory, table, up, logged, ended, breaks>>

Queued == ToSet(queue) \ {0}
InMemory == Queued \cup ToSet(backlog)

TypeOK ==
  /\ made \in 0 .. MaxReadings
  /\ queue \in Seq(0 .. MaxReadings)
  /\ backlog \in Seq(Reading) /\ Len(backlog) <= BacklogMax
  /\ table \in SUBSET Reading
  /\ up \in BOOLEAN
  /\ link \in {"none", "live", "stale"}
  /\ pc \in {"off", "get", "execute", "commit", "alive", "done"}
  /\ tries \in 0 .. 1
  /\ wait \in BOOLEAN /\ last \in BOOLEAN
  /\ logged \in SUBSET Reading
  /\ ended \in 0 .. made
  /\ breaks \in 0 .. MaxBreaks

Init ==
  /\ made = 0 /\ table = {} /\ up = TRUE
  /\ queue = <<>> /\ backlog = <<>> /\ link = "none" /\ pc = "off"
  /\ tries = 0 /\ wait = FALSE /\ last = FALSE
  /\ logged = {} /\ ended = 0 /\ breaks = 0
------------------------------------------------------------------------------
(* The parameters come from the database, so nothing starts without it. *)
Start ==
  /\ pc = "off" /\ up
  /\ pc' = "get"
  /\ UNCHANGED <<made, queue, backlog, link, tries, wait, last, table, up, logged, ended, breaks>>

(* A poll whose reading is new; a thread which does not stop in time may  *)
(* still put one behind the None.                                         *)
Poll ==
  /\ pc # "off" /\ made < MaxReadings
  /\ made' = made + 1
  /\ queue' = Append(queue, made + 1)
  /\ UNCHANGED <<backlog, link, pc, tries, wait, last, table, up, logged, ended, breaks>>

Shutdown ==
  /\ pc # "off" /\ ~last /\ 0 \notin ToSet(queue)
  /\ queue' = Append(queue, 0)
  /\ UNCHANGED <<made, backlog, link, pc, tries, wait, last, table, up, logged, ended, breaks>>

(* The process ends, of itself or by force, with all that is in its memory. *)
MemoryLost ==
  /\ queue' = <<>> /\ backlog' = <<>> /\ link' = "none" /\ pc' = "off"
  /\ tries' = 0 /\ wait' = FALSE /\ last' = FALSE
  /\ ended' = made

Exit ==
  /\ pc # "off"
  /\ MemoryLost
  /\ UNCHANGED <<made, table, up, logged, breaks>>

DatabaseDown ==
  /\ up /\ breaks < MaxBreaks
  /\ up' = FALSE
  /\ link' = IF link = "live" THEN "stale" ELSE link
  /\ breaks' = breaks + 1
  /\ UNCHANGED <<made, queue, backlog, pc, tries, wait, last, table, logged, ended>>

DatabaseUp ==
  /\ ~up
  /\ up' = TRUE
  /\ UNCHANGED <<made, memory, table, logged, ended, breaks>>
------------------------------------------------------------------------------
(* Mutants of Held: what does not fit is not taken; everything is kept. *)
HeldOldest(s) == IF Len(s) > BacklogMax THEN Front(s) ELSE s
HeldAll(s) == s

(* The backlog with one more statement, the oldest dropped when it is full. *)
Held(s) == IF Len(s) > BacklogMax THEN Tail(s) ELSE s

Take ==
  /\ pc = "get" /\ queue # <<>> /\ Head(queue) # 0
  /\ queue' = Tail(queue)
  /\ backlog' = Held(Append(backlog, Head(queue)))
  /\ \/ wait /\ UNCHANGED <<pc, wait>>
     \/ wait' = FALSE /\ pc' = "execute"
  /\ UNCHANGED <<made, link, tries, last, table, up, logged, ended, breaks>>

Retry ==
  /\ pc = "get" /\ queue = <<>> /\ backlog # <<>>
  /\ wait' = FALSE
  /\ pc' = "execute"
  /\ UNCHANGED <<made, queue, backlog, link, tries, last, table, up, logged, ended, breaks>>

TakeStop ==
  /\ pc = "get" /\ queue # <<>> /\ Head(queue) = 0
  /\ queue' = Tail(queue)
  /\ last' = TRUE
  /\ pc' = IF backlog = <<>> THEN "done" ELSE "execute"
  /\ UNCHANGED <<made, backlog, link, tries, wait, table, up, logged, ended, breaks>>

(* flush() is over; the last one is followed by the return of runMain. *)
Flushed == pc' = IF last THEN "done" ELSE "get"

(* write() is done with the first statement of the backlog. *)
Advance ==
  /\ backlog' = Tail(backlog)
  /\ tries' = 0
  /\ IF Len(backlog) = 1 THEN Flushed ELSE pc' = "execute"

(* Execute, on a connection opened if there is none.  The primary key of a *)
(* log table refuses a row which is there already.                         *)
Execute ==
  /\ pc = "execute"
  /\ LET reached == up /\ link # "stale"
         taken == Head(backlog) \notin Refused \cup table
     IN  /\ link' = IF reached THEN "live" ELSE link
         /\ pc' = IF reached /\ taken THEN "commit" ELSE "alive"
  /\ UNCHANGED <<made, queue, backlog, tries, wait, last, table, up, logged, ended, breaks>>

Commit ==
  /\ pc = "commit" /\ link = "live"
  /\ table' = table \cup {Head(backlog)}
  /\ Advance
  /\ UNCHANGED <<made, queue, link, wait, last, up, logged, ended, breaks>>

(* The connection broke before the commit, or during it: the row may be there. *)
CommitFailed ==
  /\ pc = "commit"
  /\ \/ link = "stale" /\ UNCHANGED <<table, breaks>>
     \/ /\ link = "live" /\ breaks < MaxBreaks
        /\ breaks' = breaks + 1
        /\ table' \in {table, table \cup {Head(backlog)}}
  /\ link' = "stale"
  /\ pc' = "alive"
  /\ UNCHANGED <<made, queue, backlog, tries, wait, last, up, logged, ended>>

(* Mutant of Unreachable: flush() goes on to the next statement. *)
UnreachableDrops ==
  /\ pc = "alive" /\ ~up
  /\ link' = "none"
  /\ wait' = TRUE
  /\ Advance
  /\ UNCHANGED <<made, queue, last, table, up, logged, ended, breaks>>

(* alive() finds no database: the backlog waits. *)
Unreachable ==
  /\ pc = "alive" /\ ~up
  /\ link' = "none"
  /\ tries' = 0
  /\ wait' = TRUE
  /\ Flushed
  /\ UNCHANGED <<made, queue, backlog, last, table, up, logged, ended, breaks>>

TryAgain ==
  /\ pc = "alive" /\ up /\ tries = 0
  /\ link' = "live"
  /\ tries' = 1
  /\ pc' = "execute"
  /\ UNCHANGED <<made, queue, backlog, wait, last, table, up, logged, ended, breaks>>

(* Mutant of Drop: a statement which fails is kept like one which found no database. *)
DropNothing ==
  /\ pc = "alive" /\ up /\ tries = 1
  /\ link' = "live"
  /\ tries' = 0
  /\ wait' = TRUE
  /\ Flushed
  /\ UNCHANGED <<made, queue, backlog, last, table, up, logged, ended, breaks>>

(* A statement which failed twice, the second time on a fresh connection. *)
Drop ==
  /\ pc = "alive" /\ up /\ tries = 1
  /\ link' = "live"
  /\ logged' = logged \cup {Head(backlog)}
  /\ Advance
  /\ UNCHANGED <<made, queue, wait, last, table, up, ended, breaks>>
------------------------------------------------------------------------------
Writer ==
  \/ Take \/ Retry \/ TakeStop
  \/ Execute \/ Commit \/ CommitFailed \/ Unreachable \/ TryAgain \/ Drop

Next == Start \/ Poll \/ Shutdown \/ Exit \/ DatabaseDown \/ DatabaseUp \/ Writer

Spec == Init /\ [][Next]_vars
==============================================================================
