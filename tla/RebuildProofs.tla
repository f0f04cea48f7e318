----------------------------- MODULE RebuildProofs -----------------------------
(***************************************************************************)
(* Proofs about a scheduler run statement by statement beside the others:  *)
(* that what ActionTable shows of whole transactions holds here as well,   *)
(* for any tables, plans and delays.                                       *)
(***************************************************************************)
EXTENDS Rebuild, ActionTableProofs

(* What the run is about to commit: rows for new ids in place of pending ones. *)
Planned == [a \in DOMAIN fresh |-> <<fresh[a].on, fresh[a].off>>]

LEMMA RunTimes ==
  ASSUME NEW r \in Runs
  PROVE  r.on \in Nat /\ r.off \in Nat
BY TableAssumption DEF Runs

LEMMA PlannedType ==
  ASSUME RebuildTypeOK
  PROVE  /\ gone \subseteq cmdOn /\ DOMAIN fresh \subseteq Act \ used
         /\ \A a \in DOMAIN fresh : Planned[a][1] \in Nat /\ Planned[a][2] \in Nat
<1>1. \A a \in DOMAIN fresh : fresh[a].on \in Nat /\ fresh[a].off \in Nat
  BY RunTimes DEF RebuildTypeOK
<1> QED
  BY <1>1 DEF RebuildTypeOK, Planned

(* To the tables a step is one of ActionTable, the commit of a plan, or none. *)
LEMMA TableSteps ==
  ASSUME [RebuildNext]_rebuildVars
  PROVE  [Next]_vars \/ (phase = "inserted" /\ Replace(gone, DOMAIN fresh, Planned))
<1>1. CASE \/ Clean \/ Load \/ RollBack \/ AllInserted \/ CommitLost \/ Killed
           \/ UNCHANGED rebuildVars
  BY <1>1 DEF Clean, Load, RollBack, AllInserted, CommitLost, Killed, rebuildVars
<1>2. ASSUME NEW a \in Act, NEW r \in plan, Insert(a, r) PROVE UNCHANGED vars
  BY <1>2 DEF Insert
<1>3. CASE Commit
  BY <1>3 DEF Commit, Planned
<1>4. CASE CommandsCarriedOut
  BY <1>4 DEF CommandsCarriedOut, ValveThread, Next
<1>5. CASE Pages
  BY <1>5 DEF Pages, WebPages, Next
<1>6. CASE PocPages
  <2>1. PocOn \/ \E end \in 1 .. MaxTime, R \in SUBSET RunningOn(Master), N \in SUBSET (Act \ used) :
          PocOff(end, R, N)
    BY <1>6 DEF PocPages
  <2> QED
    BY <2>1 DEF WebPages, Next
<1>7. CASE Time
  BY <1>7 DEF Time, Next
<1> QED
  BY <1>1, <1>2, <1>3, <1>4, <1>5, <1>6, <1>7 DEF RebuildNext

LEMMA TablesTyped ==
  ASSUME RebuildTypeOK, [RebuildNext]_rebuildVars
  PROVE  TypeOK'
<1>1. CASE [Next]_vars
  BY <1>1, TypeStep DEF RebuildTypeOK
<1>2. CASE Replace(gone, DOMAIN fresh, Planned)
  <2>1. DOMAIN fresh \subseteq Act
    BY PlannedType
  <2> QED
    BY <1>2, <2>1, PlannedType, ReplaceType DEF RebuildTypeOK
<1> QED
  BY <1>1, <1>2, TableSteps

LEMMA RowsMove ==
  ASSUME RebuildTypeOK, [RebuildNext]_rebuildVars, NEW a \in Act
  PROVE  RowStep(a)
<1>1. CASE [Next]_vars
  BY <1>1, RowSteps DEF RebuildTypeOK
<1>2. CASE Replace(gone, DOMAIN fresh, Planned)
  BY <1>2, PlannedType, ReplaceRows DEF RebuildTypeOK
<1> QED
  BY <1>1, <1>2, TableSteps
------------------------------------------------------------------------------
(* What the run itself keeps, apart from the tables. *)
RunOK ==
  /\ phase \in {"idle", "cleaned", "loaded", "inserted"}
  /\ minTime \in Nat
  /\ gone \in SUBSET cmdOn
  /\ plan \in SUBSET Runs
  /\ DOMAIN fresh \in SUBSET (Act \ used)
  /\ \A a \in DOMAIN fresh : fresh[a] \in Runs /\ ValveOf[a] = fresh[a].valve
  /\ wanted \in BOOLEAN
  /\ restored \in SUBSET Act
  /\ phase # "idle" => restored = {}
  /\ phase = "idle" => gone = {} /\ plan = {} /\ DOMAIN fresh = {}

LEMMA RunParts == RebuildTypeOK <=> TypeOK /\ RunOK
BY DEF RebuildTypeOK, RunOK

(* The others hand out no id the run has taken and carry out nothing it has deleted. *)
LEMMA OthersLeaveIt ==
  ASSUME TypeOK, RunOK, CommandsCarriedOut
  PROVE  gone \subseteq cmdOn' /\ UNCHANGED used
<1>1. PICK a \in Act \ gone :
        \/ \E t \in 0 .. now : CommandOnDone(a, t)
        \/ \E began \in 0 .. now : CommandOnFailed(a, began)
        \/ CommandOnRefused(a)
        \/ CommandOffDone(a)
  BY DEF CommandsCarriedOut
<1>2. CASE CommandOffDone(a)
  <2>1. gone \cap ClosedBy(a) = {}
    BY DEF RunOK, ClosedBy, RunningOn, Running
  <2> QED
    BY <1>2, <2>1 DEF RunOK, CommandOffDone, Archive, Remove
<1> QED
  BY <1>1, <1>2 DEF RunOK, CommandOnDone, CommandOnFailed, CommandOnRefused, Archive, Remove

LEMMA RunStep ==
  ASSUME TypeOK, RunOK, [RebuildNext]_rebuildVars
  PROVE  RunOK'
<1> USE DEF RunOK
<1>1. CASE Clean
  <2>1. now + CleanSecs \in Nat
    BY TableAssumption DEF TypeOK
  <2> QED
    BY <1>1, <2>1 DEF Clean, vars, Cleanable, PendingOn
<1>2. CASE Load
  <2>1. plan' \subseteq Runs
    <3> DEFINE Slot == {r \in Runs : minTime <= r.on /\ r.on < r.off}
    <3>1. PICK n \in 0 .. MaxPlan : plan' \in kSubset(n, Slot)
      BY <1>2 DEF Load
    <3>2. Slot \subseteq Runs
      OBVIOUS
    <3> HIDE DEF Slot
    <3> QED
      BY <3>1, <3>2 DEF kSubset
  <2> QED
    BY <1>2, <2>1 DEF Load, vars
<1>3. ASSUME NEW a \in Act, NEW r \in plan, Insert(a, r) PROVE RunOK'
  <2>1. DOMAIN fresh' = DOMAIN fresh \cup {a} /\ a \in Act \ used
    BY <1>3 DEF Insert
  <2>2. \A b \in DOMAIN fresh' : fresh'[b] = IF b = a THEN r ELSE fresh[b]
    BY <1>3 DEF Insert
  <2>3. r \in Runs /\ ValveOf[a] = r.valve
    BY <1>3 DEF Insert
  <2> QED
    BY <1>3, <2>1, <2>2, <2>3 DEF Insert, vars
<1>4. CASE RollBack \/ Killed
  <2>1. /\ phase' = "idle" /\ gone' = {} /\ plan' = {} /\ DOMAIN fresh' = {} /\ minTime' = 0
        /\ restored' = restored
    BY <1>4 DEF RollBack, Killed, EndRun
  <2>2. wanted' \in BOOLEAN
    BY <1>4, Zenon DEF RollBack, Killed
  <2> QED
    BY <2>1, <2>2
<1>5. CASE AllInserted
  BY <1>5 DEF AllInserted, vars
<1>6. CASE Commit
  BY <1>6 DEF Commit, EndRun
<1>7. CASE CommandsCarriedOut
  <2>1. wanted' \in BOOLEAN
    <3>1. wanted' = wanted \/ \E a \in Act, t \in 0 .. now : LateOn(a, t)
      BY <1>7 DEF CommandsCarriedOut
    <3> QED
      BY <3>1 DEF LateOn
  <2> QED
    BY <1>7, <2>1, OthersLeaveIt DEF CommandsCarriedOut
<1>8. CASE Pages
  <2>1. UNCHANGED used
    BY <1>8 DEF Pages, ManualOff, ManualAllOff, ManualOffRows, MonitorPendingRemove, MonitorClearAll
  <2> QED
    BY <1>8, <2>1 DEF Pages, Forget
<1>9. CASE PocPages
  <2>1. DOMAIN fresh \cap used' = {}
    BY <1>9 DEF PocPages, PocOff, PocOn
  <2> QED
    BY <1>9, <2>1 DEF PocPages, Forget
<1>10. CASE Time
  BY <1>10 DEF Time, run, Tick, tableVars
<1>11. CASE UNCHANGED rebuildVars
  BY <1>11 DEF rebuildVars, run, vars
<1>12. CASE CommitLost
  <2>1. cmdOn \subseteq Act
    BY DEF TypeOK
  <2> QED
    BY <1>12, <2>1 DEF CommitLost, EndRun, vars
<1> QED
  BY <1>1, <1>2, <1>3, <1>4, <1>5, <1>6, <1>7, <1>8, <1>9, <1>10, <1>11, <1>12 DEF RebuildNext

LEMMA RebuildTypeInit == RebuildInit => RebuildTypeOK
<1> SUFFICES ASSUME RebuildInit PROVE RebuildTypeOK
  OBVIOUS
<1>1. DOMAIN << >> = {}
  OBVIOUS
<1>2. DOMAIN fresh = {}
  BY <1>1, Zenon DEF RebuildInit
<1>3. /\ TypeOK /\ phase = "idle" /\ minTime = 0 /\ gone = {} /\ plan = {} /\ wanted = FALSE
      /\ restored = {}
  BY TypeInit DEF RebuildInit
<1> QED
  BY <1>2, <1>3 DEF RebuildTypeOK

LEMMA RebuildTypeStep ==
  ASSUME RebuildTypeOK, [RebuildNext]_rebuildVars
  PROVE  RebuildTypeOK'
<1>1. TypeOK' /\ RunOK'
  BY TablesTyped, RunStep, RunParts
<1> QED
  BY <1>1 DEF RebuildTypeOK, RunOK

(* What a run has deleted is still there for everybody else and pending,   *)
(* and what it inserted has ids nobody else has been given, whatever the   *)
(* others commit in the middle of it (SchedMain.py:39-84).                 *)
THEOREM RebuildTypeCorrect == RebuildSpec => []RebuildTypeOK
<1>1. RebuildTypeOK /\ [RebuildNext]_rebuildVars => RebuildTypeOK'
  BY RebuildTypeStep
<1> QED
  BY <1>1, RebuildTypeInit, PTL DEF RebuildSpec
------------------------------------------------------------------------------
(* A rebuild in several statements leaves the end a row shows and the one   *)
(* its off command has equal, too.                                         *)
THEOREM RebuildKeepsEnds == RebuildSpec => []OffMatchesAction
<1>1. RebuildInit => OffMatchesAction
  BY DEF RebuildInit, Init, OffMatchesAction
<1>2. RebuildTypeOK /\ OffMatchesAction /\ [RebuildNext]_rebuildVars => OffMatchesAction'
  BY TableSteps, MatchesStep, ReplaceMatches DEF RebuildTypeOK
<1> QED
  BY <1>1, <1>2, RebuildTypeCorrect, PTL DEF RebuildSpec

LEMMA RebuildOnce == RebuildSpec => []Once
<1>1. RebuildInit => Once
  BY DEF RebuildInit, Init, Once, HistoryUsed, ArchivedOnce
<1>2. RebuildTypeOK /\ Once /\ [RebuildNext]_rebuildVars => Once'
  BY RowsMove, OnceStep DEF RebuildTypeOK
<1> QED
  BY <1>1, <1>2, RebuildTypeCorrect, PTL DEF RebuildSpec

(* No run is written to the history twice because a rebuild put its row,    *)
(* or its id, back.                                                        *)
THEOREM RebuildArchivesOnce == RebuildSpec => []ArchivedOnce
BY RebuildOnce, PTL DEF Once

(* And each run lives the life which RunLedger allows: a rebuild which saw  *)
(* a run as pending does not drop it once it has been turned on.           *)
THEOREM RebuildImplementsLedger == RebuildSpec => LedgerSpec
<1>1. RebuildInit => Ledger!Init
  BY LedgerInit DEF RebuildInit
<1>2. RebuildTypeOK /\ RebuildTypeOK' /\ Once /\ Once' /\ [RebuildNext]_rebuildVars
      => [Ledger!Next]_([a \in Act |-> StageOf(a)])
  BY RowsMove, LedgerStep DEF RebuildTypeOK
<1> QED
  BY <1>1, <1>2, RebuildTypeCorrect, RebuildOnce, PTL DEF RebuildSpec, LedgerSpec, Ledger!Spec
------------------------------------------------------------------------------
(***************************************************************************)
(* PlanSeenTo.  Of the runs to come, the rows which stand and those the    *)
(* scheduler has still to commit, the invariant says that they last, are   *)
(* apart from each other and, all but those a lost commit brought back,    *)
(* are seen to beside what runs and beside the off periods: apart, as long as these are pending, and not inside them   *)
(* for more than LateSecs after that.  A late on can then push a run into  *)
(* them only by more than LateSecs, which asks for a rebuild.              *)
(***************************************************************************)
Proposed == plan \cup {fresh[a] : a \in DOMAIN fresh}
Expected == PendingOn(Station) \ (gone \cup restored)
Coming == {RunOf(b) : b \in Expected} \cup Proposed

Lasting ==
  /\ \A b \in cmdOn : tOn[b] < tOff[b]
  /\ \A r \in Proposed : r.on < r.off

Apart ==
  /\ \A a, b \in PendingOn(Station) :
       a # b /\ ValveOf[a] = ValveOf[b] => ~Overlaps(RunOf(a), RunOf(b))
  /\ \A r \in Proposed, b \in cmdOn \ gone : ValveOf[b] = r.valve => ~Overlaps(RunOf(b), r)
  /\ \A r \in plan : \A s \in (plan \ {r}) \cup {fresh[a] : a \in DOMAIN fresh} :
       s.valve = r.valve => ~Overlaps(r, s)
  /\ \A a, b \in DOMAIN fresh : a # b /\ ValveOf[a] = ValveOf[b] => ~Overlaps(fresh[a], fresh[b])

(* What stands begins before what the run of the scheduler places. *)
Ahead ==
  /\ gone \subseteq PendingOn(Station)
  /\ phase = "cleaned" => plan = {} /\ DOMAIN fresh = {}
  /\ phase # "idle" =>
       /\ minTime <= now + CleanSecs
       /\ \A b \in PendingOn(Station) \ gone : tOn[b] <= minTime
       /\ \A r \in Proposed : minTime <= r.on
  /\ \A m \in PendingOn(Master) : tOn[m] <= now

Near(r) == r.on <= now + CleanSecs
Beside(a, r) ==
  IF a \in cmdOn THEN ~Overlaps(RunOf(a), r) ELSE Shared(RunOf(a), r) <= LateSecs
AllSeen ==
  \A r \in Coming : \A a \in RunningOn({r.valve}) \cup Rows(Master) : wanted \/ Near(r) \/ Beside(a, r)

SInv == RebuildTypeOK /\ Lasting /\ Apart /\ Ahead /\ AllSeen
------------------------------------------------------------------------------
Times == [valve : Valve, on : Nat, off : Nat]

LEMMA SharedAtMost ==
  ASSUME NEW r \in Times, NEW s \in Times, NEW n \in Nat
  PROVE  Shared(r, s) <= n <=>
           \/ r.off - r.on <= n \/ r.off - s.on <= n \/ s.off - r.on <= n \/ s.off - s.on <= n
<1>1. /\ r.on \in Nat /\ r.off \in Nat /\ s.on \in Nat /\ s.off \in Nat
  BY DEF Times
<1>2. ASSUME NEW x \in Nat, NEW y \in Nat PROVE Min({x, y}) = IF x <= y THEN x ELSE y
  BY <1>2 DEF Min
<1>3. ASSUME NEW x \in Nat, NEW y \in Nat PROVE Max({x, y}) = IF x >= y THEN x ELSE y
  BY <1>3 DEF Max
<1>4. /\ Min({r.off, s.off}) = IF r.off <= s.off THEN r.off ELSE s.off
      /\ Max({r.on, s.on}) = IF r.on >= s.on THEN r.on ELSE s.on
  BY <1>1, <1>2, <1>3
<1> QED
  BY <1>1, <1>4 DEF Shared

LEMMA SharedInt ==
  ASSUME NEW r \in Times, NEW s \in Times
  PROVE  Shared(r, s) \in Int
<1>1. /\ r.on \in Nat /\ r.off \in Nat /\ s.on \in Nat /\ s.off \in Nat
  BY DEF Times
<1>2. ASSUME NEW x \in Nat, NEW y \in Nat PROVE Min({x, y}) \in Nat /\ Max({x, y}) \in Nat
  BY <1>2 DEF Min, Max
<1>3. Min({r.off, s.off}) \in Nat /\ Max({r.on, s.on}) \in Nat
  BY <1>1, <1>2
<1> QED
  BY <1>3 DEF Shared

LEMMA RunTimed ==
  ASSUME TypeOK, NEW a \in action
  PROVE  RunOf(a) \in Times
BY TableAssumption DEF TypeOK, RunOf, Times

LEMMA ComingTimed ==
  ASSUME RebuildTypeOK, NEW r \in Coming
  PROVE  r \in Times /\ r.valve \in Station
<1>1. Runs \subseteq [valve : Station, on : Nat, off : Nat]
  BY TableAssumption DEF Runs
<1>2. CASE r \in Proposed
  <2>1. r \in Runs
    BY <1>2 DEF Proposed, RebuildTypeOK
  <2> QED
    BY <1>1, <2>1 DEF Times, Station
<1>3. ASSUME NEW b \in Expected, r = RunOf(b) PROVE r \in Times /\ r.valve \in Station
  <2>1. b \in action
    BY <1>3 DEF Expected, PendingOn, RebuildTypeOK, TypeOK
  <2> QED
    BY <1>3, <2>1, RunTimed DEF Expected, RebuildTypeOK, RunOf, PendingOn
<1> QED
  BY <1>2, <1>3 DEF Coming

(* SInv says what it should. *)
LEMMA SeenTo == SInv => PlanSeenTo
<1> SUFFICES ASSUME SInv, NEW b \in Expected,
                    NEW a \in RunningOn({ValveOf[b]}) \cup Rows(Master),
                    ~wanted, ~Near(RunOf(b))
             PROVE  ~(Shared(RunOf(a), RunOf(b)) > LateSecs)
  BY DEF PlanSeenTo, Near, RunOf, Expected
<1>1. RunOf(b) \in Coming /\ RunOf(b).valve = ValveOf[b]
  BY DEF Coming, RunOf
<1>2. Beside(a, RunOf(b))
  BY <1>1 DEF SInv, AllSeen
<1>3. RunOf(a) \in Times /\ RunOf(b) \in Times
  <2>1. a \in action /\ b \in action
    BY DEF SInv, RebuildTypeOK, TypeOK, RunningOn, Running, Rows, PendingOn, Expected
  <2> QED
    BY <2>1, RunTimed DEF SInv, RebuildTypeOK
<1>4. CASE a \in cmdOn
  <2>1. Disjoint(tOn[a], tOff[a], tOn[b], tOff[b])
    BY <1>2, <1>4 DEF Beside, Overlaps, RunOf
  <2>2. Shared(RunOf(a), RunOf(b)) <= LateSecs
    BY <1>3, <2>1, SharedAtMost, RebuildAssumption DEF Disjoint, RunOf, Times
  <2> QED
    BY <2>2, <1>3, SharedInt, RebuildAssumption
<1>5. CASE a \notin cmdOn
  BY <1>2, <1>3, <1>5, SharedInt, RebuildAssumption DEF Beside
<1> QED
  BY <1>4, <1>5
------------------------------------------------------------------------------
(* What the others do to the rows: a pending row stays as it is until it   *)
(* goes or is turned on; a new one is an off period, and asks for a        *)
(* rebuild; a run which is on stays as it is, ends now, or has just been   *)
(* turned on, by LateSecs late at most; or else a rebuild is asked for.    *)
PendingStay ==
  /\ \A b \in cmdOn' \cap cmdOn : tOn'[b] = tOn[b] /\ tOff'[b] = tOff[b]
  /\ \A b \in cmdOn' \ cmdOn : wanted' /\ ValveOf[b] \in Master /\ tOn'[b] = now /\ now < tOff'[b]

Turned(a) == a \in cmdOn \ gone /\ tOn[a] <= now /\ tOff'[a] <= tOff[a] + LateSecs

RunsGoOn ==
  \A a \in Running' :
    \/ wanted'
    \/ a \in Running /\ tOn'[a] = tOn[a] /\ tOff'[a] = tOff[a]
    \/ tOff'[a] <= now + 1
    \/ Turned(a)

OthersStep ==
  /\ UNCHANGED <<now, phase, minTime, plan, fresh, restored>>
  /\ gone' = gone \cap cmdOn'
  /\ wanted => wanted'
  /\ PendingStay /\ RunsGoOn

LEMMA OnEndsLate ==
  ASSUME TypeOK, NEW a \in cmdOn, NEW t \in Nat, tOn[a] <= t, t <= tOn[a] + LateSecs,
         tOn[a] < tOff[a], NEW end \in OnEnds(a, t)
  PROVE  end <= tOff[a] + LateSecs
<1>1. /\ a \in Act /\ tOn[a] \in Nat /\ tOff[a] \in Nat
      /\ \A b \in cmdOn : tOn[b] \in Nat
  BY DEF TypeOK
<1>2. FullEnd(a, t) \in Nat /\ FullEnd(a, t) <= tOff[a] + LateSecs
  BY <1>1, RebuildAssumption DEF FullEnd, Later
<1>3. NextOns(a) \subseteq Nat
  BY <1>1 DEF NextOns, PendingOn
<1>4. CASE end = FullEnd(a, t)
  BY <1>2, <1>4
<1>5. ASSUME NEW s \in Earliest(NextOns(a)), end = Later(s, t + 1),
             NEW r \in NextOns(a), r < FullEnd(a, t)
      PROVE  end <= tOff[a] + LateSecs
  <2>1. s \in Nat /\ r \in Nat /\ s <= r
    BY <1>3, <1>5 DEF Earliest
  <2>2. t + 1 <= tOff[a] + LateSecs
    BY <1>1, RebuildAssumption
  <2> QED
    BY <1>1, <1>2, <1>5, <2>1, <2>2, RebuildAssumption DEF Later
<1>6. ASSUME ~(\A s \in NextOns(a) : s >= FullEnd(a, t))
      PROVE  \E r \in NextOns(a) : r < FullEnd(a, t)
  BY <1>2, <1>3, <1>6
<1> QED
  BY <1>4, <1>5, <1>6 DEF OnEnds

LEMMA OnDoneStep ==
  ASSUME SInv, NEW a \in Act \ gone, NEW t \in 0 .. now, CommandOnDone(a, t), LateOn(a, t)
  PROVE  PendingStay /\ RunsGoOn /\ UNCHANGED now /\ (wanted => wanted')
<1>1. TypeOK /\ Lasting /\ t \in Nat /\ now \in Nat
  BY DEF SInv, RebuildTypeOK, TypeOK
<1>2. PICK end \in OnEnds(a, t) : Retime({a}, end)
  BY DEF CommandOnDone
<1>3. /\ cmdOn' = cmdOn \ {a} /\ action' = action /\ now' = now
      /\ tOn' = Put(tOn, {a}, t) /\ tOff' = Put(tOff, {a}, end)
      /\ a \in cmdOn /\ tOn[a] <= t /\ t <= now
  BY <1>2 DEF CommandOnDone, Retime
<1>4. /\ \A b \in Act \ {a} : tOn'[b] = tOn[b] /\ tOff'[b] = tOff[b]
      /\ tOff'[a] = end
  BY <1>3 DEF Put
<1>5. action \subseteq Act /\ cmdOn \subseteq action /\ a \in Act /\ tOn[a] \in Nat
  BY <1>1 DEF TypeOK
<1>6. PendingStay
  BY <1>3, <1>4, <1>5 DEF PendingStay
<1>7. wanted' \/ t <= tOn[a] + LateSecs
  <2>1. t > tOn[a] + LateSecs \/ t <= tOn[a] + LateSecs
    BY <1>1, <1>5, RebuildAssumption
  <2>2. ASSUME t > tOn[a] + LateSecs PROVE wanted'
    BY <2>2, Zenon DEF LateOn
  <2> QED
    BY <2>1, <2>2
<1>8. wanted' \/ Turned(a)
  <2>1. CASE t <= tOn[a] + LateSecs
    <3>1. end <= tOff[a] + LateSecs
      BY <1>1, <1>3, <2>1, OnEndsLate DEF Lasting
    <3> QED
      BY <1>1, <1>3, <1>4, <1>5, <3>1 DEF Turned
  <2> QED
    BY <1>7, <2>1
<1>9. RunsGoOn
  BY <1>3, <1>4, <1>5, <1>8 DEF RunsGoOn, Running
<1>10. wanted => wanted'
  BY DEF LateOn
<1> QED
  BY <1>3, <1>6, <1>9, <1>10

LEMMA OnFailedStep ==
  ASSUME TypeOK, NEW a \in Act, NEW began \in 0 .. now, CommandOnFailed(a, began)
  PROVE  PendingStay /\ RunsGoOn
<1>1. /\ action \subseteq Act /\ cmdOn \subseteq action /\ a \in Act /\ tOn[a] \in Nat
      /\ now \in Nat /\ began \in Nat
  BY DEF TypeOK
<1>2. /\ cmdOn' = cmdOn \ {a} /\ action' = action /\ tOn' = tOn
      /\ \A b \in Act \ {a} : tOff'[b] = tOff[b]
      /\ tOff'[a] = Later(began, tOn[a] + 1) /\ tOn[a] <= began
  BY DEF CommandOnFailed, Retime, Put
<1>3. tOff'[a] <= now + 1
  BY <1>1, <1>2 DEF Later
<1> QED
  BY <1>1, <1>2, <1>3 DEF PendingStay, RunsGoOn, Running

LEMMA RemoveStep ==
  ASSUME TypeOK, NEW D, Remove(D)
  PROVE  PendingStay /\ RunsGoOn
<1>1. action \subseteq Act /\ cmdOn \subseteq action
  BY DEF TypeOK
<1>2. /\ cmdOn' = cmdOn \ D /\ action' = action \ D
      /\ \A b \in Act \ D : tOn'[b] = tOn[b] /\ tOff'[b] = tOff[b]
  BY DEF Remove, Put
<1> QED
  BY <1>1, <1>2 DEF PendingStay, RunsGoOn, Running

LEMMA ManualOffStep ==
  ASSUME TypeOK, NEW S, S \subseteq Running, ManualOffRows(S)
  PROVE  PendingStay /\ RunsGoOn
<1>1. action \subseteq Act /\ cmdOn \subseteq action /\ now \in Nat
  BY DEF TypeOK
<1>2. /\ cmdOn' = cmdOn /\ action' = action /\ tOn' = tOn
      /\ \A b \in Act : tOff'[b] = IF b \in S THEN now ELSE tOff[b]
  BY DEF ManualOffRows, Retime, Put
<1> QED
  BY <1>1, <1>2 DEF PendingStay, RunsGoOn, Running

LEMMA PocStep ==
  ASSUME TypeOK, wanted',
         PocOn \/ \E end \in 1 .. MaxTime, R \in SUBSET RunningOn(Master), N \in SUBSET (Act \ used) :
                    PocOff(end, R, N)
  PROVE  PendingStay /\ RunsGoOn
<1>1. action \subseteq used /\ used \subseteq Act /\ cmdOn \subseteq action /\ now \in Nat
  BY DEF TypeOK
<1>2. CASE PocOn
  <2>1. /\ cmdOn' \subseteq cmdOn /\ tOff' = Put(Put(tOff, PendingOn(Master), 0), RunningOn(Master), now)
        /\ tOn' = Put(tOn, PendingOn(Master), 0) /\ cmdOn' = cmdOn \ PendingOn(Master)
    BY <1>2 DEF PocOn
  <2> QED
    BY <1>1, <2>1 DEF PendingStay, RunsGoOn, Put, Running, RunningOn
<1>3. ASSUME NEW end \in 1 .. MaxTime, NEW R \in SUBSET RunningOn(Master), NEW N \in SUBSET (Act \ used),
             PocOff(end, R, N)
      PROVE  PendingStay /\ RunsGoOn
  <2> DEFINE D == PocDropped(end)
             E == RunningOn(Station)
  <2>1. /\ now < end /\ \A a \in N : ValveOf[a] \in Master
        /\ cmdOn' = (cmdOn \ D) \cup N
        /\ tOn' = Put(Put(tOn, D, 0), N, now)
        /\ tOff' = Put(Put(Put(tOff, D, 0), E, now), R \cup N, end)
    BY <1>3 DEF PocOff, OnePerMaster
  <2>2. R \cap cmdOn = {} /\ E \cap cmdOn = {} /\ N \cap cmdOn = {}
    BY <1>1 DEF RunningOn, Running
  <2> HIDE DEF D, E
  <2>3. ASSUME NEW b \in cmdOn' \cap cmdOn PROVE tOn'[b] = tOn[b] /\ tOff'[b] = tOff[b]
    BY <1>1, <2>1, <2>2, <2>3 DEF Put
  <2>4. ASSUME NEW b \in cmdOn' \ cmdOn PROVE ValveOf[b] \in Master /\ tOn'[b] = now /\ now < tOff'[b]
    BY <1>1, <2>1, <2>2, <2>4 DEF Put
  <2> QED
    BY <2>3, <2>4 DEF PendingStay, RunsGoOn
<1> QED
  BY <1>2, <1>3

LEMMA OthersSteps ==
  ASSUME SInv, CommandsCarriedOut \/ Pages \/ PocPages
  PROVE  OthersStep
<1>1. TypeOK /\ RunOK /\ cmdOn \subseteq action
  BY RunParts DEF SInv, TypeOK
<1>2. CASE CommandsCarriedOut
  <2>1. gone' = gone \cap cmdOn' /\ UNCHANGED <<phase, minTime, plan, fresh, restored>>
    BY <1>1, <1>2, OthersLeaveIt DEF CommandsCarriedOut
  <2>2. PICK a \in Act \ gone :
          \/ \E t \in 0 .. now : CommandOnDone(a, t) /\ LateOn(a, t)
          \/ \E began \in 0 .. now : CommandOnFailed(a, began) /\ UNCHANGED wanted
          \/ CommandOnRefused(a) /\ UNCHANGED wanted
          \/ CommandOffDone(a) /\ UNCHANGED wanted
    BY <1>2 DEF CommandsCarriedOut
  <2>3. CASE \E t \in 0 .. now : CommandOnDone(a, t) /\ LateOn(a, t)
    BY <2>1, <2>3, OnDoneStep DEF OthersStep
  <2>4. CASE \E began \in 0 .. now : CommandOnFailed(a, began) /\ UNCHANGED wanted
    BY <1>1, <2>1, <2>4, OnFailedStep DEF OthersStep, CommandOnFailed
  <2>5. CASE (CommandOnRefused(a) \/ CommandOffDone(a)) /\ UNCHANGED wanted
    BY <1>1, <2>1, <2>5, RemoveStep DEF OthersStep, CommandOnRefused, CommandOffDone, Archive
  <2> QED
    BY <2>2, <2>3, <2>4, <2>5
<1>3. CASE Pages
  <2>1. /\ gone' = gone \cap cmdOn' /\ UNCHANGED <<phase, minTime, plan, fresh, wanted, restored>>
    BY <1>3 DEF Pages, Forget
  <2>2. PendingStay /\ RunsGoOn /\ now' = now
    <3>1. ASSUME NEW S, S \subseteq Running, ManualOffRows(S) PROVE PendingStay /\ RunsGoOn /\ now' = now
      BY <1>1, <3>1, ManualOffStep DEF ManualOffRows
    <3>2. \A v : RunningOn({v}) \subseteq Running
      BY DEF RunningOn
    <3>3. ASSUME NEW D, Remove(D), UNCHANGED now PROVE PendingStay /\ RunsGoOn /\ now' = now
      BY <1>1, <3>3, RemoveStep
    <3> QED
      BY <1>3, <3>1, <3>2, <3>3 DEF Pages, ManualOff, ManualAllOff, MonitorPendingRemove, MonitorClearAll
  <2> QED
    BY <2>1, <2>2 DEF OthersStep
<1>4. CASE PocPages
  <2>1. /\ gone' = gone \cap cmdOn' /\ UNCHANGED <<phase, minTime, plan, fresh, restored>> /\ wanted'
    BY <1>4 DEF PocPages, Forget
  <2>2. PocOn \/ \E end \in 1 .. MaxTime, R \in SUBSET RunningOn(Master), N \in SUBSET (Act \ used) :
                    PocOff(end, R, N)
    BY <1>4 DEF PocPages
  <2>3. now' = now
    BY <2>2 DEF PocOn, PocOff
  <2> QED
    BY <1>1, <2>1, <2>2, <2>3, PocStep DEF OthersStep
<1> QED
  BY <1>2, <1>3, <1>4

LEMMA OthersKeep ==
  ASSUME SInv, OthersStep, RebuildTypeOK'
  PROVE  SInv'
<1>1. /\ cmdOn \subseteq action /\ action \subseteq Act /\ cmdOn' \subseteq action' /\ action' \subseteq Act
      /\ tOn \in [Act -> Nat] /\ tOff \in [Act -> Nat] /\ tOn' \in [Act -> Nat] /\ tOff' \in [Act -> Nat]
      /\ now \in Nat /\ CleanSecs \in Nat /\ LateSecs \in Nat
  BY TableAssumption, RebuildAssumption DEF SInv, RebuildTypeOK, TypeOK
<1>2. UNCHANGED <<now, phase, minTime, plan, fresh, restored, Proposed>> /\ gone' = gone \cap cmdOn'
  BY DEF OthersStep, Proposed
<1>3. /\ \A b \in cmdOn' \cap cmdOn : tOn'[b] = tOn[b] /\ tOff'[b] = tOff[b]
      /\ \A b \in cmdOn' \ cmdOn : wanted' /\ ValveOf[b] \in Master /\ tOn'[b] = now /\ now < tOff'[b]
  BY DEF OthersStep, PendingStay
<1>4. /\ PendingOn(Station)' \subseteq PendingOn(Station)
      /\ \A b \in PendingOn(Station)' : RunOf(b)' = RunOf(b)
      /\ PendingOn(Station)' \ gone' \subseteq PendingOn(Station) \ gone
      /\ Expected' \subseteq Expected /\ Expected' \subseteq PendingOn(Station)'
  BY <1>1, <1>2, <1>3 DEF PendingOn, RunOf, Station, Expected
<1>5. Lasting'
  BY <1>1, <1>2, <1>3 DEF SInv, Lasting
<1>6. Apart'
  <2>1. \A a, b \in PendingOn(Station)' :
          a # b /\ ValveOf[a] = ValveOf[b] => ~Overlaps(RunOf(a)', RunOf(b)')
    BY <1>4 DEF SInv, Apart
  <2>2. ASSUME NEW r \in Proposed, NEW b \in cmdOn' \ gone', ValveOf[b] = r.valve
        PROVE  ~Overlaps(RunOf(b)', r)
    <3>1. r.valve \in Station
      BY ComingTimed DEF SInv, Coming
    <3>2. b \in PendingOn(Station)'
      BY <2>2, <3>1 DEF PendingOn
    <3>3. b \in cmdOn \ gone /\ RunOf(b)' = RunOf(b)
      BY <1>4, <2>2, <3>2 DEF PendingOn
    <3> QED
      BY <2>2, <3>3 DEF SInv, Apart
  <2> QED
    BY <1>2, <2>1, <2>2 DEF SInv, Apart, Overlaps
<1>7. Ahead'
  <2>1. gone' \subseteq PendingOn(Station)'
    BY <1>2 DEF SInv, Ahead, PendingOn
  <2>2. \A m \in PendingOn(Master)' : tOn'[m] <= now
    BY <1>1, <1>3 DEF SInv, Ahead, PendingOn
  <2>3. \A b \in PendingOn(Station)' : tOn'[b] = tOn[b]
    BY <1>4 DEF RunOf
  <2> QED
    BY <1>2, <1>4, <2>1, <2>2, <2>3 DEF SInv, Ahead
<1>8. Coming' \subseteq Coming
  BY <1>2, <1>4 DEF Coming
<1>9. AllSeen'
  <2> SUFFICES ASSUME NEW r \in Coming', NEW a \in RunningOn({r.valve})' \cup Rows(Master)',
                      ~wanted', ~Near(r)'
               PROVE  Beside(a, r)'
    BY DEF AllSeen
  <2>1. /\ r \in Coming /\ r \in Times /\ r.valve \in Station
        /\ r.on \in Nat /\ r.off \in Nat /\ r.on > now + CleanSecs /\ ~Near(r) /\ ~wanted
    BY <1>1, <1>2, <1>8, ComingTimed DEF SInv, Times, Near, OthersStep
  <2>2. r.on < r.off
    BY <2>1 DEF Coming, Expected, SInv, Lasting, RunOf, PendingOn
  <2>3. a \in action' /\ RunOf(a)' \in Times
    <3>1. a \in action'
      BY DEF RunningOn, Rows, Running
    <3> QED
      BY <3>1, RunTimed, TableAssumption, <1>1 DEF RunOf, Times
  <2>4. CASE a \in cmdOn'
    <3>1. a \in cmdOn /\ RunOf(a)' = RunOf(a) /\ a \in Rows(Master)
      BY <1>1, <1>3, <2>4 DEF RunOf, RunningOn, Running, Rows
    <3> QED
      BY <2>1, <2>4, <3>1 DEF SInv, AllSeen, Beside, Overlaps
  <2>5. ASSUME a \notin cmdOn', tOff'[a] - r.on <= LateSecs
        PROVE  Beside(a, r)'
    BY <1>1, <2>1, <2>3, <2>5, SharedAtMost DEF Beside, RunOf, Shared
  <2>6. CASE a \notin cmdOn'
    <3>1. a \in Running'
      BY <2>3, <2>6 DEF Running
    <3>2. CASE a \in Running /\ tOn'[a] = tOn[a] /\ tOff'[a] = tOff[a]
      <4>1. a \in RunningOn({r.valve}) \cup Rows(Master) /\ a \notin cmdOn /\ RunOf(a)' = RunOf(a)
        BY <3>2 DEF RunningOn, Running, Rows, RunOf
      <4> QED
        BY <2>1, <2>6, <4>1 DEF SInv, AllSeen, Beside, Shared
    <3>3. CASE tOff'[a] <= now + 1
      BY <1>1, <2>1, <2>3, <2>5, <2>6, <3>3
    <3>4. CASE Turned(a)
      <4>1. a \in cmdOn \ gone /\ tOn[a] <= now /\ tOff'[a] <= tOff[a] + LateSecs
        BY <3>4 DEF Turned
      <4>2. ~Overlaps(RunOf(a), r)
        <5>1. CASE ValveOf[a] \in Master
          <6>1. a \in Rows(Master)
            BY <1>1, <4>1, <5>1 DEF Rows
          <6> QED
            BY <2>1, <4>1, <6>1 DEF SInv, AllSeen, Beside
        <5>2. CASE ValveOf[a] = r.valve /\ r \in Proposed
          BY <4>1, <5>2 DEF SInv, Apart
        <5>3. ASSUME ValveOf[a] = r.valve, NEW b \in Expected', r = RunOf(b)'
              PROVE  ~Overlaps(RunOf(a), r)
          <6>1. r = RunOf(b) /\ b \in PendingOn(Station) /\ ValveOf[b] = r.valve /\ b # a
            BY <1>4, <2>6, <5>3 DEF RunOf, PendingOn
          <6>2. a \in PendingOn(Station)
            BY <2>1, <4>1, <5>3 DEF PendingOn
          <6> QED
            BY <5>3, <6>1, <6>2 DEF SInv, Apart
        <5>4. ValveOf[a] \in Master \/ ValveOf[a] = r.valve
          BY DEF RunningOn, Rows
        <5> QED
          BY <1>2, <5>1, <5>2, <5>3, <5>4 DEF Coming
      <4>3. tOff[a] <= r.on
        BY <1>1, <2>1, <2>2, <4>1, <4>2 DEF Overlaps, Disjoint, RunOf
      <4> QED
        BY <1>1, <2>1, <2>3, <2>5, <2>6, <4>1, <4>3
    <3> QED
      BY <3>1, <3>2, <3>3, <3>4 DEF OthersStep, RunsGoOn
  <2> QED
    BY <2>4, <2>6
<1> QED
  BY <1>5, <1>6, <1>7, <1>9 DEF SInv

(* The steps of the scheduler itself.  After it has deleted what begins    *)
(* later, all that stands is near.                                         *)
LEMMA CleanKeeps ==
  ASSUME SInv, Clean
  PROVE  Lasting' /\ Apart' /\ Ahead' /\ AllSeen'
<1>1. /\ plan = {} /\ DOMAIN fresh = {} /\ Proposed = {} /\ gone = {}
      /\ UNCHANGED <<vars, plan, fresh, Proposed>>
  BY DEF Clean, SInv, RebuildTypeOK, Proposed
<1>2. /\ gone' = Cleanable(minTime') /\ minTime' = now + CleanSecs
      /\ \A b \in cmdOn : tOn[b] \in Nat
      /\ now \in Nat /\ CleanSecs \in Nat
  BY TableAssumption DEF Clean, SInv, RebuildTypeOK, TypeOK
<1>3. \A b \in PendingOn(Station) \ gone' : tOn[b] <= minTime'
  BY <1>2 DEF Cleanable, PendingOn
<1>4. Lasting' /\ Apart'
  BY <1>1 DEF SInv, Lasting, Apart, vars, PendingOn, Overlaps, RunOf
<1>5. Ahead'
  BY <1>1, <1>2, <1>3 DEF SInv, Ahead, vars, PendingOn, Cleanable
<1>6. AllSeen'
  BY <1>1, <1>2, <1>3 DEF AllSeen, Coming, Expected, Near, RunOf, vars, PendingOn
<1> QED
  BY <1>4, <1>5, <1>6

LEMMA LoadKeeps ==
  ASSUME SInv, Load
  PROVE  Lasting' /\ Apart' /\ Ahead' /\ AllSeen'
<1>1. /\ DOMAIN fresh = {} /\ plan = {} /\ Proposed' = plan'
      /\ UNCHANGED <<vars, minTime, gone, fresh, wanted, restored>> /\ phase = "cleaned" /\ phase' = "loaded"
  BY DEF Load, SInv, Ahead, Proposed
<1>2. /\ \A r \in plan' : r \in Runs /\ minTime <= r.on /\ r.on < r.off
      /\ \A r \in plan' : \A s \in Standing \cup (plan' \ {r}) :
           s.valve \in Master \cup {r.valve} => ~Overlaps(r, s)
  <2> DEFINE Slot == {r \in Runs : minTime <= r.on /\ r.on < r.off}
  <2>1. /\ \E n \in 0 .. MaxPlan : plan' \in kSubset(n, Slot)
        /\ \A r \in plan' : \A s \in Standing \cup (plan' \ {r}) :
             s.valve \in Master \cup {r.valve} => ~Overlaps(r, s)
    BY DEF Load
  <2>2. plan' \subseteq Slot
    BY <2>1 DEF kSubset
  <2> QED
    BY <2>1, <2>2
<1>3. \A r, s : ~Overlaps(r, s) => ~Overlaps(s, r)
  BY DEF Overlaps, Disjoint
<1>4. \A a \in action \ gone : RunOf(a) \in Standing /\ RunOf(a).valve = ValveOf[a]
  BY DEF Standing, RunOf
<1>5. cmdOn \subseteq action /\ gone \subseteq cmdOn
  BY DEF SInv, RebuildTypeOK, TypeOK
<1>6. Lasting'
  BY <1>1, <1>2 DEF SInv, Lasting, vars
<1>7. Apart'
  <2>1. ASSUME NEW r \in plan', NEW b \in cmdOn \ gone, ValveOf[b] = r.valve
        PROVE  ~Overlaps(RunOf(b), r)
    BY <1>2, <1>3, <1>4, <1>5, <2>1
  <2> QED
    BY <1>1, <1>2, <2>1 DEF SInv, Apart, vars, PendingOn, RunOf
<1>8. Ahead'
  BY <1>1, <1>2 DEF SInv, Ahead, vars, PendingOn
<1>9. AllSeen'
  <2> SUFFICES ASSUME NEW r \in plan', NEW a \in RunningOn({r.valve}) \cup Rows(Master)
               PROVE  Beside(a, r)
    BY <1>1 DEF SInv, AllSeen, Coming, Expected, Near, Beside, vars, PendingOn, RunningOn, Running, Rows,
                RunOf, Proposed
  <2>1. a \in action \ gone /\ ValveOf[a] \in Master \cup {r.valve}
    BY <1>5 DEF RunningOn, Running, Rows, SInv, Ahead, PendingOn, Station
  <2>2. ~Overlaps(RunOf(a), r)
    BY <1>2, <1>3, <1>4, <2>1
  <2>3. RunOf(a) \in Times /\ r \in Times
    <3>1. r \in Times
      BY <1>2, TableAssumption DEF Runs, Times, Station
    <3> QED
      BY <2>1, <3>1, RunTimed DEF SInv, RebuildTypeOK
  <2>4. Shared(RunOf(a), r) <= LateSecs
    BY <2>2, <2>3, SharedAtMost, RebuildAssumption DEF Overlaps, Disjoint, Times
  <2> QED
    BY <2>2, <2>4 DEF Beside
<1> QED
  BY <1>6, <1>7, <1>8, <1>9

LEMMA InsertKeeps ==
  ASSUME SInv, NEW a \in Act, NEW r \in plan, Insert(a, r)
  PROVE  Lasting' /\ Apart' /\ Ahead' /\ AllSeen'
<1>1. /\ plan' = plan \ {r} /\ DOMAIN fresh' = DOMAIN fresh \cup {a} /\ a \notin DOMAIN fresh
      /\ \A b \in DOMAIN fresh' : fresh'[b] = IF b = a THEN r ELSE fresh[b]
      /\ ValveOf[a] = r.valve
      /\ UNCHANGED <<vars, phase, minTime, gone, wanted, restored>> /\ phase = "loaded"
  BY DEF Insert
<1>2. Proposed' = Proposed
  BY <1>1 DEF Proposed
<1>3. Lasting' /\ Ahead' /\ AllSeen'
  BY <1>1, <1>2 DEF SInv, Lasting, Ahead, AllSeen, Coming, Expected, Near, Beside, vars, PendingOn, RunningOn,
                    Running, Rows, RunOf
<1>4. Apart'
  <2>1. \A s, t : ~Overlaps(s, t) => ~Overlaps(t, s)
    BY DEF Overlaps, Disjoint
  <2>2. \A b \in DOMAIN fresh : ValveOf[b] = fresh[b].valve
    BY DEF SInv, RebuildTypeOK
  <2>3. ASSUME NEW b \in DOMAIN fresh, ValveOf[b] = ValveOf[a] PROVE ~Overlaps(r, fresh[b])
    BY <1>1, <2>2, <2>3 DEF SInv, Apart
  <2>4. \A b, c \in DOMAIN fresh' :
          b # c /\ ValveOf[b] = ValveOf[c] => ~Overlaps(fresh'[b], fresh'[c])
    BY <1>1, <2>1, <2>3 DEF SInv, Apart
  <2>5. \A p \in plan' : \A s \in (plan' \ {p}) \cup {fresh'[b] : b \in DOMAIN fresh'} :
          s.valve = p.valve => ~Overlaps(p, s)
    <3>1. (plan \ {r}) \cup {fresh'[b] : b \in DOMAIN fresh'} =
            plan \cup {fresh[b] : b \in DOMAIN fresh}
      BY <1>1
    <3> QED
      BY <1>1, <3>1 DEF SInv, Apart
  <2>6. \A p \in Proposed, b \in cmdOn \ gone : ValveOf[b] = p.valve => ~Overlaps(RunOf(b), p)
    BY DEF SInv, Apart
  <2>7. \A c, b \in PendingOn(Station) :
          c # b /\ ValveOf[c] = ValveOf[b] => ~Overlaps(RunOf(c), RunOf(b))
    BY DEF SInv, Apart
  <2> QED
    BY <1>1, <1>2, <2>4, <2>5, <2>6, <2>7 DEF Apart, vars, PendingOn, RunOf
<1> QED
  BY <1>3, <1>4

LEMMA RollBackKeeps ==
  ASSUME SInv, RollBack \/ Killed
  PROVE  Lasting' /\ Apart' /\ Ahead' /\ AllSeen'
<1>1. /\ phase' = "idle" /\ gone' = {} /\ plan' = {} /\ DOMAIN fresh' = {} /\ wanted'
      /\ UNCHANGED vars /\ Proposed' = {}
  BY DEF RollBack, Killed, EndRun, Proposed
<1> QED
  BY <1>1 DEF SInv, Lasting, Apart, Ahead, AllSeen, vars, PendingOn, RunOf

(* What the run deleted is back, and no longer among what is expected. *)
LEMMA CommitLostKeeps ==
  ASSUME SInv, CommitLost
  PROVE  Lasting' /\ Apart' /\ Ahead' /\ AllSeen'
<1>1. /\ phase' = "idle" /\ gone' = {} /\ plan' = {} /\ DOMAIN fresh' = {} /\ restored' = gone
      /\ UNCHANGED <<vars, wanted>> /\ Proposed' = {} /\ restored = {}
  BY DEF CommitLost, EndRun, Proposed, SInv, RebuildTypeOK
<1>2. Coming' \subseteq Coming
  BY <1>1 DEF Coming, Expected, vars, PendingOn, RunOf
<1>3. AllSeen'
  BY <1>1, <1>2 DEF SInv, AllSeen, Near, Beside, vars, RunningOn, Running, Rows, RunOf
<1> QED
  BY <1>1, <1>3 DEF SInv, Lasting, Apart, Ahead, vars, PendingOn, RunOf

LEMMA CommitKeeps ==
  ASSUME SInv, Commit, RebuildTypeOK'
  PROVE  Lasting' /\ Apart' /\ Ahead' /\ AllSeen'
<1> DEFINE N == DOMAIN fresh
<1>1. /\ cmdOn \subseteq action /\ action \subseteq used /\ used \subseteq Act /\ gone \subseteq cmdOn
      /\ N \subseteq Act \ used
      /\ \A b \in N : fresh[b] \in Runs /\ ValveOf[b] = fresh[b].valve
  BY DEF SInv, RebuildTypeOK, TypeOK
<1>2. /\ phase = "inserted" /\ phase' = "idle" /\ gone' = {} /\ plan' = {} /\ DOMAIN fresh' = {}
      /\ Proposed' = {} /\ UNCHANGED <<now, wanted, restored>>
  <2>1. DOMAIN fresh' = {}
    BY DEF Commit, EndRun
  <2> QED
    BY <2>1 DEF Commit, EndRun, Replace, Proposed
<1>3. /\ action' = (action \ gone) \cup N /\ cmdOn' = (cmdOn \ gone) \cup N
      /\ \A b \in Act : tOn'[b] = IF b \in N THEN fresh[b].on ELSE IF b \in gone THEN 0 ELSE tOn[b]
      /\ \A b \in Act : tOff'[b] = IF b \in N THEN fresh[b].off ELSE IF b \in gone THEN 0 ELSE tOff[b]
  <2>1. Replace(gone, N, [a \in N |-> <<fresh[a].on, fresh[a].off>>])
    BY DEF Commit
  <2> HIDE DEF N
  <2> QED
    BY <2>1 DEF Replace
<1>4. \A b \in action \ gone : RunOf(b)' = RunOf(b)
  BY <1>1, <1>3 DEF RunOf
<1>5. \A b \in N : RunOf(b)' = fresh[b] /\ ValveOf[b] \in Station /\ fresh[b] \in Proposed
  <2>1. \A r \in Runs : r = [valve |-> r.valve, on |-> r.on, off |-> r.off] /\ r.valve \in Station
    BY DEF Runs
  <2> QED
    BY <1>1, <1>3, <2>1 DEF RunOf, Proposed
<1> HIDE DEF N
<1>6. \A r, s : ~Overlaps(r, s) => ~Overlaps(s, r)
  BY DEF Overlaps, Disjoint
<1>7. Lasting'
  <2>1. ASSUME NEW b \in cmdOn' PROVE tOn'[b] < tOff'[b]
    <3>1. CASE b \in N
      <4>1. fresh[b].on < fresh[b].off
        BY <1>5, <3>1 DEF SInv, Lasting
      <4> QED
        BY <1>1, <1>3, <3>1, <4>1
    <3>2. CASE b \in cmdOn \ gone /\ b \notin N
      BY <1>1, <1>3, <3>2 DEF SInv, Lasting
    <3> QED
      BY <1>3, <2>1, <3>1, <3>2
  <2> QED
    BY <1>2, <2>1 DEF Lasting
<1>8. Apart'
  <2>1. ASSUME NEW a \in PendingOn(Station)', NEW b \in PendingOn(Station)',
               a # b, ValveOf[a] = ValveOf[b]
        PROVE  ~Overlaps(RunOf(a)', RunOf(b)')
    <3>1. CASE a \in N /\ b \in N
      BY <1>5, <2>1, <3>1 DEF SInv, Apart, N
    <3>2. ASSUME NEW c \in N, NEW d \in cmdOn \ gone, ValveOf[c] = ValveOf[d]
          PROVE  ~Overlaps(RunOf(d)', RunOf(c)')
      BY <1>1, <1>4, <1>5, <3>2 DEF SInv, Apart
    <3>3. CASE a \in cmdOn \ gone /\ b \in cmdOn \ gone
      BY <1>1, <1>4, <2>1, <3>3 DEF SInv, Apart, PendingOn
    <3> QED
      BY <1>3, <1>6, <2>1, <3>1, <3>2, <3>3 DEF PendingOn
  <2> QED
    BY <1>2, <2>1 DEF Apart, Overlaps
<1>9. Ahead'
  <2>1. \A m \in PendingOn(Master)' : m \in PendingOn(Master) /\ tOn'[m] = tOn[m]
    BY <1>1, <1>3, <1>5 DEF PendingOn, Station
  <2> QED
    BY <1>2, <2>1 DEF SInv, Ahead
<1>10. ASSUME NEW r \in Coming' PROVE r \in Coming
  <2>1. PICK b \in Expected' : r = RunOf(b)'
    BY <1>2 DEF Coming
  <2>2. CASE b \in N
    BY <1>5, <2>1, <2>2 DEF Coming
  <2>3. CASE b \in cmdOn \ gone
    BY <1>1, <1>2, <1>4, <2>1, <2>3 DEF Coming, Expected, PendingOn
  <2> QED
    BY <1>3, <2>1, <2>2, <2>3 DEF Expected, PendingOn
<1>11. AllSeen'
  <2> SUFFICES ASSUME NEW r \in Coming', NEW a \in RunningOn({r.valve})' \cup Rows(Master)',
                      ~wanted', ~Near(r)'
               PROVE  Beside(a, r)'
    BY DEF AllSeen
  <2>1. a \in action \ gone /\ a \notin N /\ (a \in cmdOn' <=> a \in cmdOn)
    BY <1>1, <1>3, <1>5 DEF RunningOn, Running, Rows, Station, SInv, Ahead, PendingOn
  <2>2. a \in RunningOn({r.valve}) \cup Rows(Master)
    BY <2>1 DEF RunningOn, Running, Rows
  <2>3. Beside(a, r)
    BY <1>2, <1>10, <2>2 DEF SInv, AllSeen, Near
  <2> QED
    BY <1>4, <2>1, <2>3 DEF Beside, Overlaps, Shared
<1> QED
  BY <1>7, <1>8, <1>9, <1>11

LEMMA TimeKeeps ==
  ASSUME SInv, Time
  PROVE  Lasting' /\ Apart' /\ Ahead' /\ AllSeen'
<1>1. /\ UNCHANGED <<tableVars, run, Proposed>> /\ now' = now + 1 /\ now \in Nat /\ CleanSecs \in Nat
      /\ \A r \in Coming : r.on \in Nat
      /\ \A b \in cmdOn : tOn[b] \in Nat
      /\ minTime \in Nat
  BY ComingTimed, TableAssumption
  DEF Time, Tick, run, Proposed, SInv, RebuildTypeOK, TypeOK, Times
<1>2. Lasting' /\ Apart'
  BY <1>1 DEF SInv, Lasting, Apart, tableVars, run, PendingOn, Overlaps, RunOf
<1>3. Ahead'
  BY <1>1 DEF SInv, Ahead, tableVars, run, PendingOn
<1>4. Coming' = Coming
  BY <1>1 DEF Coming, Expected, tableVars, run, PendingOn, RunOf
<1>5. \A r \in Coming : Near(r) => Near(r)'
  BY <1>1 DEF Near
<1>6. AllSeen'
  BY <1>1, <1>4, <1>5 DEF SInv, AllSeen, Beside, tableVars, run, RunningOn, Running, Rows, RunOf
<1> QED
  BY <1>2, <1>3, <1>6

LEMMA SInvStep ==
  ASSUME SInv, [RebuildNext]_rebuildVars
  PROVE  SInv'
<1>1. RebuildTypeOK'
  BY RebuildTypeStep DEF SInv
<1>2. CASE Clean \/ Load \/ RollBack \/ Commit \/ CommitLost \/ Killed \/ Time
  BY <1>1, <1>2, CleanKeeps, LoadKeeps, RollBackKeeps, CommitKeeps, CommitLostKeeps, TimeKeeps
  DEF SInv
<1>3. ASSUME NEW a \in Act, NEW r \in plan, Insert(a, r) PROVE SInv'
  BY <1>1, <1>3, InsertKeeps DEF SInv
<1>4. CASE AllInserted \/ UNCHANGED rebuildVars
  <2>1. /\ UNCHANGED <<vars, minTime, gone, plan, fresh, wanted, restored, Proposed>>
        /\ phase' = phase \/ (phase = "loaded" /\ phase' = "inserted")
    BY <1>4 DEF AllInserted, rebuildVars, run, Proposed
  <2> QED
    BY <1>1, <2>1 DEF SInv, Lasting, Apart, Ahead, AllSeen, Coming, Expected, Near, Beside, vars, PendingOn,
                      RunningOn, Running, Rows, RunOf
<1>5. CASE CommandsCarriedOut \/ Pages \/ PocPages
  BY <1>1, <1>5, OthersSteps, OthersKeep
<1> QED
  BY <1>2, <1>3, <1>4, <1>5 DEF RebuildNext

(* A plan which was made while a late on pushed a run, or an off period    *)
(* began, stands inside it for more than LateSecs only as long as another  *)
(* run of the scheduler is on its way (SchedMain.py:46, db.schema.sql:1242)*)
(* for any plans, with the others at any point of the transaction, and     *)
(* however it ends.  It is not said of the rows a commit brings back whose *)
(* failure the scheduler does not notice (SchedMain.py:33): with these a   *)
(* conflict can outlast the run which was asked for.                       *)
THEOREM PlansAreSeenTo == RebuildSpec => []PlanSeenTo
<1>1. RebuildInit => SInv
  <2> SUFFICES ASSUME RebuildInit PROVE SInv
    OBVIOUS
  <2>1. RebuildTypeOK /\ cmdOn = {} /\ gone = {} /\ phase = "idle" /\ plan = {}
    BY RebuildTypeInit DEF RebuildInit, Init
  <2>2. DOMAIN fresh = {}
    BY <2>1 DEF RebuildTypeOK
  <2> QED
    BY <2>1, <2>2 DEF SInv, Lasting, Apart, Ahead, AllSeen, Coming, Expected, Proposed, PendingOn
<1>2. SInv /\ [RebuildNext]_rebuildVars => SInv'
  BY SInvStep
<1> QED
  BY <1>1, <1>2, SeenTo, PTL DEF RebuildSpec
==============================================================================
