------------------------------ MODULE Migrations ------------------------------
(***************************************************************************)
(* The migrations of the database (database/migrate_NNN.py): scripts an    *)
(* operator runs all in order, `for f in migrate_*.py; do ... || break',   *)
(* or those check_schema.py names, or one again by hand, on a database of  *)
(* any age.  Each looks at what is there before it changes it, in one      *)
(* transaction, and check_schema.py says what is wrong afterwards.         *)
(*                                                                         *)
(* What a migration looks at and changes is a thing, a column, a function, *)
(* a group of rows, with the versions it has had, oldest first.            *)
(***************************************************************************)
EXTENDS Naturals, Sequences, SequencesExt

Newest == 17

Added == <<"none", "there">>
Versions ==
  [etDates |-> <<"time", "date">>, doyCheck |-> Added, historicalIndex |-> Added,
   actionTee |-> <<"pStnID", "closed", "half open">>, programLabel |-> <<"unique", "free">>,
   cropMAD |-> <<"none", "0..100", "0..1">>,
   ETannual |-> <<"value", "stddev", "quantiles">>,
   logIndexes |-> <<"redundant", "dropped">>,
   tOffIndex |-> Added, pgmDateIndex |-> Added,
   actionOnOff |-> <<"closed", "half open">>,
   cleanFlow |-> Added, filterSettings |-> Added,
   filterReading |-> <<"none", "cascade", "restrict">>,
   filterStatus |-> <<"none", "cascade", "restrict">>,
   gallons |-> Added, serviceVolume |-> Added,
   stopMode |-> <<"Start Mode", "End Mode", "custom">>, qBackward |-> <<"mixed", "lower">>,
   noFlow |-> Added, highFlow |-> Added,
   commandFunctions |-> <<"old", "new">>,
   history |-> <<"cascade", "restrict">>, changeLog |-> Added, ranges |-> <<"old", "new">>,
   schemaMigration |-> Added, record14 |-> Added, record15 |-> Added, record16 |-> Added,
   record17 |-> Added,
   shortfall |-> Added, pocFunctions |-> <<"old", "new">>,
   notified |-> Added, lowFlow |-> Added, labels |-> <<"old", "new", "custom">>,
   mapFeature |-> Added, sensorColumns |-> Added, mapSettings |-> Added]
Thing == DOMAIN Versions
Age(x, v) == CHOOSE i \in DOMAIN Versions[x] : Versions[x][i] = v

(* What a user has changed by hand is as new as it gets. *)
Goals(x) ==
  {v \in Range(Versions[x]) :
     \A u \in Range(Versions[x]) \ {"custom"} : Age(x, u) <= Age(x, v)}

(* A step: x, when its version is among from, becomes to, for which the    *)
(* table needs has to be there.                                            *)
Change(x, from, to) == [of |-> x, from |-> from, to |-> to, needs |-> "etDates"]
Add(x) == Change(x, {"none"}, "there")
AddTo(table, x) == [Add(x) EXCEPT !.needs = table]
Record(x) == AddTo("schemaMigration", x)
------------------------------------------------------------------------------
(* The index it would drop cannot exist beside the one of action.          *)
(* Mutant of Migrate001: no CHECK of MAD counts as right. *)
Migrate001OnlyOldMAD ==
  <<Change("etDates", {"time"}, "date"), Add("doyCheck"), Add("historicalIndex"),
    Change("actionTee", {"pStnID"}, "closed"), Change("programLabel", {"unique"}, "free"),
    Change("cropMAD", {"0..100"}, "0..1")>>

Migrate001 ==
  <<Change("etDates", {"time"}, "date"), Add("doyCheck"), Add("historicalIndex"),
    Change("actionTee", {"pStnID"}, "closed"), Change("programLabel", {"unique"}, "free"),
    Change("cropMAD", {"none", "0..100"}, "0..1")>>
(* Mutant of Migrate002: it does not look for mn. *)
Migrate002Unless == <<Change("ETannual", {"value", "quantiles"}, "stddev")>>

Migrate002 == <<Change("ETannual", {"value"}, "stddev")>>
Migrate003 == <<Change("ETannual", {"value", "stddev"}, "quantiles")>>
Migrate004 == <<Change("logIndexes", {"redundant"}, "dropped")>>
Migrate005 == <<Add("tOffIndex")>>
Migrate006 == <<Add("pgmDateIndex")>>
Migrate007 ==
  <<Change("actionOnOff", {"closed"}, "half open"),
    Change("actionTee", {"pStnID", "closed"}, "half open")>>
Migrate008 ==
  <<Add("cleanFlow"), Change("filterReading", {"none"}, "cascade"),
    Change("filterStatus", {"none"}, "cascade"), Add("filterSettings")>>
Migrate009 == <<AddTo("filterStatus", "gallons"), Add("serviceVolume")>>
Migrate010 ==
  <<Change("stopMode", {"Start Mode"}, "End Mode"), Change("qBackward", {"mixed"}, "lower")>>
Migrate011 == <<Add("noFlow")>>
Migrate012 == <<Add("highFlow")>>
Migrate013 == <<Change("commandFunctions", {"old"}, "new")>>
Migrate014 ==
  <<Change("history", {"cascade"}, "restrict"), Change("filterReading", {"cascade"}, "restrict"),
    Change("filterStatus", {"cascade"}, "restrict"), Add("changeLog"),
    Change("ranges", {"old"}, "new"), Add("schemaMigration"), Record("record14")>>
Migrate015 == <<Add("shortfall"), Change("pocFunctions", {"old"}, "new"), Record("record15")>>
Migrate016 ==
  <<AddTo("filterStatus", "notified"), Add("lowFlow"), Change("labels", {"old"}, "new"),
    Record("record16")>>
Migrate017 ==
  <<Add("mapFeature"), AddTo("mapFeature", "sensorColumns"), Add("mapSettings"), Record("record17")>>

Migrate ==
  <<Migrate001, Migrate002, Migrate003, Migrate004, Migrate005, Migrate006, Migrate007, Migrate008,
    Migrate009, Migrate010, Migrate011, Migrate012, Migrate013, Migrate014, Migrate015, Migrate016,
    Migrate017>>
------------------------------------------------------------------------------
Due(s, step) == s[step.of] \in step.from
Possible(s, step) == Due(s, step) => s[step.needs] # "none"
Done(s, step) == IF Due(s, step) THEN [s EXCEPT ![step.of] = step.to] ELSE s

(* The things check_schema.py finds missing or wrong in s.  It does not    *)
(* look at ETannual, logIndexes, the settings and labels of 016.           *)
CheckSchema(s) ==
  {x \in Thing \ {"ETannual", "logIndexes", "lowFlow", "labels", "record14", "record15", "record16",
                  "record17"} :
     s[x] \notin Goals(x) \ {"custom"}}

(* The newest recorded migration, which check_schema.py names; 0 for none. *)
Records == [n \in 14 .. Newest |-> CASE n = 14 -> "record14" [] n = 15 -> "record15"
                                     [] n = 16 -> "record16" [] n = 17 -> "record17"]
LatestMigration(s) ==
  LET recorded == {n \in DOMAIN Records : s[Records[n]] = "there"}
  IN  IF recorded = {} THEN 0 ELSE CHOOSE n \in recorded : \A k \in recorded : k <= n

VARIABLES
  schema,    \* the version of each thing in the database
  work,      \* that in the transaction which is open
  script,    \* the migration which runs, 0 for none
  todo,      \* its steps which are left
  loop,      \* it is one of the operator's run of all
  dry,       \* --dry-run
  finished   \* a run of all has come to its end

vars == <<schema, work, script, todo, loop, dry, finished>>

(* What a first release, and one after n migrations, came with. *)
First == {[[x \in Thing |-> Versions[x][1]] EXCEPT !.cropMAD = mad, !.changeLog = log] :
            mad \in {"none", "0..100"}, log \in {"none", "there"}}
Release(n, s) == FoldLeft(Done, s, FlattenSeq(SubSeq(Migrate, 1, n)))

Init ==
  /\ \E n \in 0 .. Newest, s \in First : schema = Release(n, s)
  /\ work = schema /\ script = 0 /\ todo = <<>>
  /\ loop = FALSE /\ dry = FALSE /\ finished = FALSE
------------------------------------------------------------------------------
Begin(n) == script' = n /\ todo' = Migrate[n]
Leave == script' = 0 /\ todo' = <<>> /\ loop' = FALSE

(* The loop of README.md, or the migrations check_schema.py says to run.   *)
RunAll ==
  /\ script = 0
  /\ \E n \in {1, LatestMigration(schema) + 1} \cap 1 .. Newest :
       /\ n = 1 \/ LatestMigration(schema) > 0
       /\ Begin(n)
  /\ loop' = TRUE /\ dry' \in BOOLEAN
  /\ UNCHANGED <<schema, work, finished>>

(* One by hand, again or in its turn. *)
RunOne ==
  /\ script = 0
  /\ \E n \in 1 .. Newest :
       /\ schema = Release(n - 1, schema)
       /\ Begin(n)
  /\ dry' \in BOOLEAN
  /\ UNCHANGED <<schema, work, loop, finished>>

Step ==
  /\ todo # <<>> /\ Possible(work, Head(todo))
  /\ work' = Done(work, Head(todo)) /\ todo' = Tail(todo)
  /\ UNCHANGED <<schema, script, loop, dry, finished>>

NextScript == IF loop /\ script < Newest THEN Begin(script + 1) /\ UNCHANGED loop ELSE Leave

Commit ==
  /\ script # 0 /\ todo = <<>> /\ ~dry
  /\ schema' = work /\ UNCHANGED work /\ NextScript
  /\ finished' = (finished \/ (loop /\ script = Newest))
  /\ UNCHANGED dry

DryRun ==
  /\ script # 0 /\ todo = <<>> /\ dry
  /\ work' = schema /\ NextScript
  /\ UNCHANGED <<schema, dry, finished>>

(* The connection closes without a commit, and `break' ends the loop: a    *)
(* statement fails,                                                        *)
Raises ==
  /\ todo # <<>> /\ ~Possible(work, Head(todo))
  /\ work' = schema /\ Leave
  /\ UNCHANGED <<schema, dry, finished>>

(* Mutant of Stopped: a time out is printed, and the exit status is 0. *)
StoppedQuietly ==
  /\ script # 0
  /\ work' = schema /\ NextScript
  /\ UNCHANGED <<schema, dry, finished>>

(* or times out waiting for a lock, or the script is killed.               *)
Stopped ==
  /\ script # 0
  /\ work' = schema /\ Leave
  /\ UNCHANGED <<schema, dry, finished>>

(* Somebody changes a label, of a row no open transaction has changed.     *)
Customise ==
  \E x \in {"stopMode", "labels"} :
    /\ work[x] = schema[x]
    /\ schema' = [schema EXCEPT ![x] = "custom"] /\ work' = [work EXCEPT ![x] = "custom"]
    /\ UNCHANGED <<script, todo, loop, dry, finished>>

Next == RunAll \/ RunOne \/ Step \/ Commit \/ DryRun \/ Raises \/ Stopped \/ Customise

Spec == Init /\ [][Next]_vars
------------------------------------------------------------------------------
(* Whatever is run again, or stopped half way, nothing goes back to an     *)
(* older version: a migration knows its successors, as 002 knows 003.      *)
NeverBack == [][\A x \in Thing : Age(x, schema'[x]) >= Age(x, schema[x])]_schema

(* What check_schema.py tells the operator to leave out has been done: up  *)
(* to the newest recorded migration everything is as it should be.         *)
LedgerTrue ==
  \A n \in 1 .. LatestMigration(schema) :
    \A x \in {Migrate[n][i].of : i \in DOMAIN Migrate[n]} : schema[x] \in Goals(x)

(* After the loop has come to its end, from a first release or from any    *)
(* later one, everything is as new as it gets, and check_schema.py finds   *)
(* nothing but labels somebody has changed.                                *)
Upgraded ==
  finished =>
    /\ \A x \in Thing : schema[x] \in Goals(x)
    /\ \A x \in CheckSchema(schema) : schema[x] = "custom"
==============================================================================
