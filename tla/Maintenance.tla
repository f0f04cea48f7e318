----------------------------- MODULE Maintenance -----------------------------
(***************************************************************************)
(* scripts/databaseMaintenance.py, which a timer starts: for one table     *)
(* after the other it writes the oldest expired rows to a file in the      *)
(* archive directory and deletes them, batch by batch, each batch in one   *)
(* REPEATABLE READ transaction.  Every call which reaches the file system  *)
(* or the database is a step of its own.  Rows are added meanwhile, any    *)
(* step may fail, the process may be killed between any two, and the power *)
(* may go, with everything which was not synced.                           *)
(***************************************************************************)
EXTENDS Integers, Sequences, FiniteSets, SequencesExt

CONSTANTS
  Row,        \* the rows of all tables
  Policies,   \* POLICIES: the tables in the order in which they are looked at
  TableOf,    \* the table of a row
  TimeOf,     \* its time column
  PerSecond,  \* units of time in a second, the precision of a file's name
  Keep,       \* how long rows are kept
  BatchSize,  \* rows in a batch, if no more have the same time
  MaxRows,    \* rows of one table deleted in one run
  MaxTime,    \* bound: the clock
  MaxTrouble  \* bound: failures, kills and power cuts

(* Assumed by the module which composes this one with its writer. *)
MaintenanceAssumption ==
  /\ IsFiniteSet(Row)
  /\ Policies \in Seq(ToSet(Policies))
  /\ TableOf \in [Row -> ToSet(Policies)]
  /\ TimeOf \in [Row -> Nat]
  /\ PerSecond \in Nat \ {0} /\ BatchSize \in Nat \ {0} /\ MaxRows \in Nat \ {0}
  /\ Keep \in Nat /\ MaxTime \in Nat /\ MaxTrouble \in Nat

VARIABLES
  now,      \* the clock
  table,    \* rows which are in their table
  file,     \* files of the archive directory, under their final names
  mpc,      \* the next call
  policy,   \* index of the table at hand
  total,    \* rows deleted from it in this run
  batch,    \* rows of this batch
  tmp,      \* the temporary file: the rows in it, and whether it is synced
  trouble,  \* auxiliary: what went wrong so far
  deleted   \* auxiliary: rows whose deletion was committed

job == <<mpc, policy, total, batch, tmp>>
vars == <<now, table, file, job, trouble, deleted>>

Name == [table : ToSet(Policies), first : Nat, last : Nat, n : Nat]
File == [name : Name, rows : SUBSET Row, synced : BOOLEAN, entry : BOOLEAN]
NoFile == [rows |-> {}, synced |-> FALSE]

TypeOK ==
  /\ now \in Nat
  /\ table \in SUBSET Row
  /\ file \in SUBSET File
  /\ mpc \in {"idle", "batch", "copy", "sync", "rename", "syncdir", "delete", "commit"}
  /\ policy \in 1 .. Len(Policies) + 1
  /\ total \in Nat
  /\ batch \in SUBSET Row
  /\ tmp \in [rows : SUBSET Row, synced : BOOLEAN]
  /\ trouble \in Nat
  /\ deleted \in SUBSET Row

Init ==
  /\ now = 0 /\ table = {} /\ file = {}
  /\ mpc = "idle" /\ policy = 1 /\ total = 0 /\ batch = {} /\ tmp = NoFile
  /\ trouble = 0 /\ deleted = {}
------------------------------------------------------------------------------
Tick ==
  /\ now < MaxTime
  /\ now' = now + 1
  /\ UNCHANGED <<table, file, job, trouble, deleted>>

(* Another client adds a row, whose time may be some time ago. *)
Insert(r) ==
  /\ r \notin table /\ TimeOf[r] <= now
  /\ table' = table \cup {r}
  /\ UNCHANGED <<now, file, job, trouble, deleted>>
------------------------------------------------------------------------------
NextTable == mpc' = "batch" /\ policy' = policy + 1 /\ total' = 0 /\ batch' = {} /\ tmp' = NoFile
Idle == mpc' = "idle" /\ policy' = 1 /\ total' = 0 /\ batch' = {} /\ tmp' = NoFile

Limit == IF BatchSize < MaxRows - total THEN BatchSize ELSE MaxRows - total

Expired(t) == {r \in table : TableOf[r] = t /\ TimeOf[r] + Keep < now}

(* The oldest k rows of S and whatever has the same time as the last of them. *)
Oldest(S, k) == {r \in S : Cardinality({q \in S : TimeOf[q] < TimeOf[r]}) < k}

(* Something goes wrong with this step. *)
Trouble ==
  /\ mpc # "idle" /\ trouble < MaxTrouble
  /\ trouble' = trouble + 1

(* Started by the timer. *)
Begin ==
  /\ mpc = "idle"
  /\ mpc' = "batch" /\ policy' = 1 /\ total' = 0
  /\ UNCHANGED <<now, table, file, batch, tmp, trouble, deleted>>

(* next_batch, in the snapshot which the whole transaction works on. *)
NextBatch ==
  /\ mpc = "batch" /\ policy <= Len(Policies) /\ total < MaxRows
  /\ Expired(Policies[policy]) # {}
  /\ batch' = Oldest(Expired(Policies[policy]), Limit)
  /\ mpc' = "copy"
  /\ UNCHANGED <<now, table, file, policy, total, tmp, trouble, deleted>>

(* Mutant of NoMore: a table with nothing to delete ends the run. *)
NoMoreEndsRun ==
  /\ mpc = "batch" /\ policy <= Len(Policies)
  /\ total >= MaxRows \/ Expired(Policies[policy]) = {}
  /\ Idle
  /\ UNCHANGED <<now, table, file, trouble, deleted>>

NoMore ==
  /\ mpc = "batch" /\ policy <= Len(Policies)
  /\ total >= MaxRows \/ Expired(Policies[policy]) = {}
  /\ NextTable
  /\ UNCHANGED <<now, table, file, trouble, deleted>>

Finish ==
  /\ mpc = "batch" /\ policy > Len(Policies)
  /\ Idle
  /\ UNCHANGED <<now, table, file, trouble, deleted>>

(* COPY into a temporary file; it may end early without an error. *)
Copy ==
  /\ mpc = "copy"
  /\ \/ tmp' = [rows |-> batch, synced |-> FALSE] /\ UNCHANGED trouble
     \/ Trouble /\ tmp' \in [rows : SUBSET batch, synced : {FALSE}]
  /\ mpc' = "sync"
  /\ UNCHANGED <<now, table, file, policy, total, batch, deleted>>

Sync ==
  /\ mpc = "sync"
  /\ tmp' = [tmp EXCEPT !.synced = TRUE]
  /\ mpc' = "rename"
  /\ UNCHANGED <<now, table, file, policy, total, batch, trouble, deleted>>

Second(r) == TimeOf[r] \div PerSecond
Taken(name) == \E f \in file : f.name = name

(* Mutant of NameFor: the range is taken to be unique. *)
NameOfRange(name) ==
  /\ name.table = Policies[policy]
  /\ \E r \in batch : name.first = Second(r) /\ \A q \in batch : TimeOf[r] <= TimeOf[q]
  /\ \E r \in batch : name.last = Second(r) /\ \A q \in batch : TimeOf[q] <= TimeOf[r]
  /\ name.n = 0

(* archive_name: no file of the directory has this name. *)
NameFor(name) ==
  /\ name.table = Policies[policy]
  /\ \E r \in batch : name.first = Second(r) /\ \A q \in batch : TimeOf[r] <= TimeOf[q]
  /\ \E r \in batch : name.last = Second(r) /\ \A q \in batch : TimeOf[q] <= TimeOf[r]
  /\ ~Taken(name)
  /\ \A n \in 0 .. name.n - 1 : Taken([name EXCEPT !.n = n])

Names == [table : {Policies[policy]}, first : {Second(r) : r \in batch},
          last : {Second(r) : r \in batch}, n : 0 .. Cardinality(file)]

(* Re-read and counted, then renamed over whatever has the name. *)
Rename ==
  /\ mpc = "rename"
  /\ Cardinality(tmp.rows) = Cardinality(batch)
  /\ \E name \in Names :
       /\ NameFor(name)
       /\ file' = {f \in file : f.name # name} \cup
                  {[name |-> name, rows |-> tmp.rows, synced |-> tmp.synced, entry |-> FALSE]}
  /\ mpc' = "syncdir"
  /\ UNCHANGED <<now, table, policy, total, batch, tmp, trouble, deleted>>

SyncDir ==
  /\ mpc = "syncdir"
  /\ file' = {[f EXCEPT !.entry = TRUE] : f \in file}
  /\ mpc' = "delete"
  /\ UNCHANGED <<now, table, policy, total, batch, tmp, trouble, deleted>>

(* DELETE; nobody sees it before the commit. *)
Delete ==
  /\ mpc = "delete"
  /\ mpc' = "commit"
  /\ UNCHANGED <<now, table, file, policy, total, batch, tmp, trouble, deleted>>

(* The table without the batch, and no other row. *)
Deleted ==
  /\ table' = table \ batch
  /\ deleted' = deleted \cup batch

Commit ==
  /\ mpc = "commit"
  /\ Deleted
  /\ IF Cardinality(batch) < Limit
       THEN NextTable
       ELSE /\ total' = total + Cardinality(batch)
            /\ mpc' = "batch" /\ batch' = {} /\ tmp' = NoFile
            /\ UNCHANGED policy
  /\ UNCHANGED <<now, file, trouble>>
------------------------------------------------------------------------------
(* The commit has or has not happened when its answer is lost. *)
RolledBack ==
  \/ UNCHANGED <<table, deleted>>
  \/ mpc = "commit" /\ Deleted

(* An exception: roll back, and go on with the next table. *)
Fail ==
  /\ Trouble
  /\ policy <= Len(Policies)
  /\ NextTable
  /\ RolledBack
  /\ UNCHANGED <<now, file>>

(* Re-reading the file finds too few rows. *)
Mismatch ==
  /\ mpc = "rename" /\ Cardinality(tmp.rows) # Cardinality(batch)
  /\ NextTable
  /\ UNCHANGED <<now, table, file, trouble, deleted>>

Kill ==
  /\ Trouble
  /\ Idle
  /\ RolledBack
  /\ UNCHANGED <<now, file>>

(* What a file may be after the power was cut. *)
Survives(f) == IF f.synced THEN f ELSE [f EXCEPT !.rows = {}]

PowerCut ==
  /\ trouble < MaxTrouble
  /\ trouble' = trouble + 1
  /\ \E gone \in SUBSET {f \in file : ~f.entry} : file' = {Survives(f) : f \in file \ gone}
  /\ Idle
  /\ RolledBack
  /\ UNCHANGED now
------------------------------------------------------------------------------
Step ==
  \/ NextBatch \/ NoMore \/ Finish
  \/ Copy \/ Sync \/ Mismatch \/ Rename \/ SyncDir \/ Delete \/ Commit

Next ==
  \/ Tick \/ (\E r \in Row : Insert(r))
  \/ Begin \/ Step
  \/ Fail \/ Kill \/ PowerCut

Spec == Init /\ [][Next]_vars
------------------------------------------------------------------------------
(***************************************************************************)
(* "If anything fails the transaction rolls back and nothing is deleted"   *)
(* (databaseMaintenance.py:9): whatever fails and whenever the power goes, *)
(* a row which was deleted is in a file which the next power cut leaves    *)
(* alone.                                                                  *)
(***************************************************************************)
Durable(f) == f.synced /\ f.entry
Archived(r) == \E f \in file : Durable(f) /\ r \in f.rows
DeletedAreArchived == \A r \in deleted : Archived(r)
==============================================================================
