---------------------------- MODULE ValveOpsProofs ----------------------------
(***************************************************************************)
(* Proofs about the valve thread, for any number of valves, runs and       *)
(* retries: that the failsafe for an outage knows every valve which may be *)
(* on, and that no valve is left on with nobody to turn it off.            *)
(***************************************************************************)
EXTENDS ValveOps, FiniteSetTheorems, TLAPS

(* Each step keeps the failsafe's list complete. *)
LEMMA SeesStep ==
  ASSUME FailsafeSees, [Next]_vars
  PROVE  FailsafeSees'
<1> USE DEF FailsafeSees, memory, row, Goto, NextIs, Confirmed, Unconfirmed
<1>1. CASE Start \/ Wait \/ NoDatabase \/ DatabaseBack \/ RetryAllOff
  BY <1>1 DEF Start, Wait, NoDatabase, DatabaseBack, RetryAllOff, vars
<1>2. CASE DoPending \/ EndPass \/ OnRefused \/ OffRead \/ OffSuperseded \/ OffDone \/ OffByAllOff
  BY <1>2 DEF DoPending, EndPass, OnRefused, OffRead, OffSuperseded, OffDone, OffByAllOff
<1>3. ASSUME NEW r \in todo, PassOver(r) \/ TakeUp(r) PROVE FailsafeSees'
  BY <1>3 DEF PassOver, TakeUp
<1>4. CASE OnSent \/ OnDone \/ OnFailed
  BY <1>4 DEF OnSent, OnDone, OnFailed
<1>5. CASE OffConfirmed \/ OffUnconfirmed
  BY <1>5 DEF OffConfirmed, OffUnconfirmed, ValveTried
<1>6. CASE ForceLeave \/ ForceOff
  BY <1>6 DEF ForceLeave, ForceOff, ValveTried
<1>7. CASE AllOffConfirmed \/ AllOffUnconfirmed
  BY <1>7 DEF AllOffConfirmed, AllOffUnconfirmed
<1>8. CASE ReaffirmRead \/ Reaffirmed
  BY <1>8 DEF ReaffirmRead, Reaffirmed
<1>9. ASSUME NEW v \in again, TurnBackOn(v) PROVE FailsafeSees'
  BY <1>9 DEF TurnBackOn
<1>10. CASE Crash \/ Client \/ Tick \/ UNCHANGED vars
  BY <1>10 DEF Crash, Client, Tick, vars
<1> QED
  BY <1>1, <1>2, <1>3, <1>4, <1>5, <1>6, <1>7, <1>8, <1>9, <1>10 DEF Next, Thread

(* Once the startup all-off has been tried, the failsafe for an outage,     *)
(* which looks only at onAddrs, misses no valve which is on, whatever fails *)
(* and whatever the other clients do (TDIvalve.py:357, 434, 504, 531, 553). *)
THEOREM FailsafeMissesNothing == Spec => []FailsafeSees
<1>1. Init => FailsafeSees
  BY DEF Init, FailsafeSees
<1>2. FailsafeSees /\ [Next]_vars => FailsafeSees'
  BY SeesStep
<1> QED
  BY <1>1, <1>2, PTL DEF Spec
------------------------------------------------------------------------------
(***************************************************************************)
(* The thread beside the tables.  The proofs about ActionTable are about   *)
(* the instance T of its definitions; they are those of DB.                *)
(***************************************************************************)
T == INSTANCE ActionTableProofs

LEMMA SameParts ==
  /\ \A S : T!Ends(S) <=> DB!Ends(S)
  /\ \A D : T!Archive(D) <=> DB!Archive(D)
  /\ \A V : T!RunningOn(V) = DB!RunningOn(V) /\ T!PendingOn(V) = DB!PendingOn(V)
<1>1. \A S : T!Ends(S) <=> DB!Ends(S)
  BY DEF T!Ends, DB!Ends
<1>2. \A D : T!Archive(D) <=> DB!Archive(D)
  BY DEF T!Archive, DB!Archive, T!Remove, DB!Remove, T!Put, DB!Put, T!NoTime, DB!NoTime
<1>3. \A V : T!RunningOn(V) = DB!RunningOn(V) /\ T!PendingOn(V) = DB!PendingOn(V)
  BY DEF T!RunningOn, DB!RunningOn, T!Running, DB!Running, T!PendingOn, DB!PendingOn
<1> QED
  BY <1>1, <1>2, <1>3

LEMMA SameValveThread == T!ValveThread <=> DB!ValveThread
<1>1. ASSUME NEW a, NEW t PROVE T!CommandOnDone(a, t) <=> DB!CommandOnDone(a, t)
  BY DEF T!CommandOnDone, DB!CommandOnDone, T!Retime, DB!Retime, T!Put, DB!Put,
         T!OnEnds, DB!OnEnds, T!NextOns, DB!NextOns, T!FullEnd, DB!FullEnd, T!Later, DB!Later,
         T!Earliest, DB!Earliest, T!PendingOn, DB!PendingOn
<1>2. ASSUME NEW a, NEW t PROVE T!CommandOnFailed(a, t) <=> DB!CommandOnFailed(a, t)
  BY DEF T!CommandOnFailed, DB!CommandOnFailed, T!Retime, DB!Retime, T!Put, DB!Put,
         T!Later, DB!Later
<1>3. ASSUME NEW a PROVE T!CommandOnRefused(a) <=> DB!CommandOnRefused(a)
  BY SameParts DEF T!CommandOnRefused, DB!CommandOnRefused
<1>4. ASSUME NEW a PROVE T!CommandOffDone(a) <=> DB!CommandOffDone(a)
  <2>1. T!ClosedBy(a) = DB!ClosedBy(a)
    BY SameParts DEF T!ClosedBy, DB!ClosedBy, T!NoTime, DB!NoTime
  <2> QED
    BY <2>1, SameParts DEF T!CommandOffDone, DB!CommandOffDone
<1> QED
  BY <1>1, <1>2, <1>3, <1>4 DEF T!ValveThread, DB!ValveThread

LEMMA SameWebPages == T!WebPages <=> DB!WebPages
<1>1. ASSUME NEW S PROVE T!ManualOffRows(S) <=> DB!ManualOffRows(S)
  BY SameParts DEF T!ManualOffRows, DB!ManualOffRows, T!Retime, DB!Retime, T!Put, DB!Put
<1>2. /\ \A v : T!ManualOff(v) <=> DB!ManualOff(v)
      /\ T!ManualAllOff <=> DB!ManualAllOff
  BY <1>1, SameParts DEF T!ManualOff, DB!ManualOff, T!ManualAllOff, DB!ManualAllOff,
                         T!Running, DB!Running
<1>3. /\ \A a : T!MonitorPendingRemove(a) <=> DB!MonitorPendingRemove(a)
      /\ T!MonitorClearAll <=> DB!MonitorClearAll
  BY DEF T!MonitorPendingRemove, DB!MonitorPendingRemove, T!MonitorClearAll, DB!MonitorClearAll,
         T!Remove, DB!Remove, T!Put, DB!Put, T!NoTime, DB!NoTime
<1>4. ASSUME NEW end, NEW R, NEW N PROVE T!PocOff(end, R, N) <=> DB!PocOff(end, R, N)
  BY DEF T!PocOff, DB!PocOff, T!OnePerMaster, DB!OnePerMaster, T!PocDropped, DB!PocDropped,
         T!Put, DB!Put, T!NoTime, DB!NoTime, T!Ends, DB!Ends, T!Station, DB!Station,
         T!Running, DB!Running, T!RunningOn, DB!RunningOn, T!PendingOn, DB!PendingOn
<1>5. T!PocOn <=> DB!PocOn
  BY DEF T!PocOn, DB!PocOn, T!Put, DB!Put, T!NoTime, DB!NoTime, T!Ends, DB!Ends,
         T!Running, DB!Running, T!RunningOn, DB!RunningOn, T!PendingOn, DB!PendingOn
<1>6. T!RunningOn(Master) = DB!RunningOn(Master)
  BY SameParts
<1> QED
  BY <1>2, <1>3, <1>4, <1>5, <1>6 DEF T!WebPages, DB!WebPages

LEMMA SameScheduler == T!Scheduler <=> DB!Scheduler
<1>1. ASSUME NEW min, NEW D, NEW N, NEW slot
      PROVE  T!Rebuild(min, D, N, slot) <=> DB!Rebuild(min, D, N, slot)
  BY DEF T!Rebuild, DB!Rebuild, T!Replace, DB!Replace, T!Cleanable, DB!Cleanable, T!Slots, DB!Slots, T!NoTime, DB!NoTime,
         T!Rows, DB!Rows, T!Disjoint, DB!Disjoint, T!PendingOn, DB!PendingOn, T!Station, DB!Station
<1>2. T!PendingOn(T!Station) = DB!PendingOn(DB!Station)
  BY DEF T!PendingOn, DB!PendingOn, T!Station, DB!Station
<1>3. ASSUME NEW min PROVE T!Slots(min) = DB!Slots(min)
  BY DEF T!Slots, DB!Slots
<1> QED
  BY <1>1, <1>2, <1>3 DEF T!Scheduler, DB!Scheduler

LEMMA SameTable ==
  /\ T!TypeOK <=> DB!TypeOK
  /\ T!OffMatchesAction <=> DB!OffMatchesAction
  /\ T!Next <=> DB!Next
  /\ T!vars = DB!vars
<1>1. T!Tick <=> DB!Tick
  BY DEF T!Tick, DB!Tick, T!tableVars, DB!tableVars
<1> QED
  BY <1>1, SameValveThread, SameWebPages, SameScheduler
  DEF T!TypeOK, DB!TypeOK, T!OffMatchesAction, DB!OffMatchesAction, T!NoTime, DB!NoTime,
      T!Next, DB!Next, T!vars, DB!vars
------------------------------------------------------------------------------
(* While a command is being carried out, it is one of a known action.      *)
Busy == {"on", "onDone", "onFailed", "off", "offSuper", "offSend", "offDone",
         "offAllOff", "offByAllOff", "force", "forceBlind"}
Known == pc \in Busy => cur \in used

IInv == TypeOK /\ DB!OffMatchesAction /\ Known

(* Every step of the thread is one the tables allow. *)
LEMMA TableStep ==
  ASSUME TypeOK, [Next]_vars
  PROVE  [DB!Next]_DB!vars
<1>1. /\ action \subseteq Act /\ cmdOn \subseteq Act
      /\ now \in Nat /\ tSent \in Nat
  BY DEF TypeOK, DB!TypeOK
<1>2. ASSUME DB!ValveThread PROVE DB!Next
  BY <1>2 DEF DB!Next
<1>3. ASSUME OffRecorded PROVE [DB!Next]_DB!vars
  <2>1. CASE cur \in action /\ DB!CommandOffDone(cur)
    BY <1>1, <1>2, <2>1 DEF DB!ValveThread
  <2>2. CASE UNCHANGED tableVars
    BY <2>2 DEF tableVars, DB!vars
  <2> QED
    BY <1>3, <2>1, <2>2 DEF OffRecorded, Recorded, CommitLost
<1>4. CASE Start \/ Wait \/ NoDatabase \/ DatabaseBack \/ RetryAllOff \/ DoPending \/ EndPass
  BY <1>4 DEF Start, Wait, NoDatabase, DatabaseBack, RetryAllOff, DoPending, EndPass,
              vars, tableVars, DB!vars
<1>5. ASSUME NEW r \in todo, PassOver(r) \/ TakeUp(r) PROVE [DB!Next]_DB!vars
  BY <1>5 DEF PassOver, TakeUp, tableVars, DB!vars
<1>6. CASE OnRefused
  <2>1. CASE cur \in cmdOn /\ DB!CommandOnRefused(cur)
    BY <1>1, <1>2, <2>1 DEF DB!ValveThread
  <2>2. CASE UNCHANGED tableVars
    BY <2>2 DEF tableVars, DB!vars
  <2> QED
    BY <1>6, <2>1, <2>2 DEF OnRefused, Recorded, Raised, CommitLost
<1>7. CASE OnSent \/ OffRead
  BY <1>7 DEF OnSent, OffRead, tableVars, DB!vars
<1>8. CASE OnDone
  <2>1. ASSUME NEW t \in tSent .. now, cur \in cmdOn, DB!CommandOnDone(cur, t)
        PROVE  DB!Next
    <3>1. t \in 0 .. now
      BY <1>1
    <3> QED
      BY <1>1, <1>2, <2>1, <3>1 DEF DB!ValveThread
  <2>2. CASE UNCHANGED tableVars
    BY <2>2 DEF tableVars, DB!vars
  <2> QED
    BY <1>8, <2>1, <2>2 DEF OnDone, Raised, CommitLost
<1>9. CASE OnFailed
  <2>1. ASSUME NEW began \in 0 .. now, cur \in cmdOn, DB!CommandOnFailed(cur, began)
        PROVE  DB!Next
    <3>1. began \in 0 .. now
      BY <1>1
    <3> QED
      BY <1>1, <1>2, <2>1, <3>1 DEF DB!ValveThread
  <2>2. CASE UNCHANGED tableVars
    BY <2>2 DEF tableVars, DB!vars
  <2> QED
    BY <1>9, <2>1, <2>2 DEF OnFailed, Raised, CommitLost
<1>10. CASE OffSuperseded \/ OffDone \/ OffByAllOff
  <2>1. CASE UNCHANGED tableVars
    BY <2>1 DEF tableVars, DB!vars
  <2> QED
    BY <1>3, <1>10, <2>1 DEF OffSuperseded, OffDone, OffByAllOff, Raised
<1>11. CASE OffConfirmed \/ OffUnconfirmed \/ ForceLeave \/ ForceOff
  BY <1>11 DEF OffConfirmed, OffUnconfirmed, ForceLeave, ForceOff, tableVars, DB!vars
<1>12. CASE AllOffConfirmed \/ AllOffUnconfirmed \/ ReaffirmRead \/ Reaffirmed
  BY <1>12 DEF AllOffConfirmed, AllOffUnconfirmed, ReaffirmRead, Reaffirmed, tableVars, DB!vars
<1>13. ASSUME NEW v \in again, TurnBackOn(v) PROVE [DB!Next]_DB!vars
  BY <1>13 DEF TurnBackOn, tableVars, DB!vars
<1>14. CASE Client
  BY <1>1, <1>14 DEF Client, DB!Next, DB!WebPages
<1>15. CASE Crash \/ Tick \/ UNCHANGED vars
  BY <1>15 DEF Crash, Tick, vars, tableVars, DB!vars, DB!Next
<1> QED
  BY <1>4, <1>5, <1>6, <1>7, <1>8, <1>9, <1>10, <1>11, <1>12, <1>13, <1>14, <1>15
  DEF Next, Thread

(* So the tables keep their type beside the thread, and its offs their times. *)
LEMMA TableKept ==
  ASSUME TypeOK, DB!OffMatchesAction, [Next]_vars
  PROVE  DB!TypeOK' /\ DB!OffMatchesAction'
<1>1. [T!Next]_(T!vars)
  BY TableStep, SameTable DEF T!vars, DB!vars
<1>2. T!TypeOK /\ T!OffMatchesAction
  BY SameTable DEF TypeOK
<1>3. T!TableAssumption
  BY ValveAssumption DEF T!TableAssumption
<1>4. T!TypeOK'
  BY <1>1, <1>2, <1>3, T!TypeStep
<1>5. T!OffMatchesAction'
  BY <1>1, <1>2, <1>3, T!MatchesStep
<1> QED
  BY <1>4, <1>5 DEF T!TypeOK, DB!TypeOK, T!OffMatchesAction, DB!OffMatchesAction,
                    T!NoTime, DB!NoTime

(* Ids are handed out once and for all. *)
LEMMA UsedGrows ==
  ASSUME [DB!Next]_DB!vars
  PROVE  used \subseteq used'
<1>1. CASE DB!Tick
  BY <1>1 DEF DB!Tick, DB!tableVars
<1>2. CASE DB!ValveThread
  BY <1>2 DEF DB!ValveThread, DB!CommandOnDone, DB!CommandOnFailed, DB!CommandOnRefused,
              DB!CommandOffDone, DB!Archive
<1>3. CASE DB!WebPages
  BY <1>3 DEF DB!WebPages, DB!ManualOff, DB!ManualAllOff, DB!ManualOffRows,
              DB!MonitorPendingRemove, DB!MonitorClearAll, DB!PocOff, DB!PocOn
<1>4. CASE DB!Scheduler
  BY <1>4 DEF DB!Scheduler, DB!Rebuild, DB!Replace
<1> QED
  BY <1>1, <1>2, <1>3, <1>4 DEF DB!Next, DB!vars

(* What the thread itself keeps, apart from the tables. *)
ThreadOK ==
  /\ open \in SUBSET Valve
  /\ pc \in Pcs
  /\ todo \in SUBSET Row
  /\ cur \in Act \cup {NoAct}
  /\ tSent \in Nat
  /\ again \in SUBSET Valve
  /\ onAddrs \in SUBSET Valve
  /\ tries \in [Command -> 0 .. AllOffTries]
  /\ allOffDue \in BOOLEAN
  /\ reaffirmDue \in BOOLEAN
  /\ dbDown \in BOOLEAN

LEMMA TypeParts == TypeOK <=> DB!TypeOK /\ ThreadOK
BY DEF TypeOK, ThreadOK

LEMMA TriesOK ==
  ASSUME tries \in [Command -> 0 .. AllOffTries], NEW c, Forget(c) \/ Failed(c) \/ UNCHANGED tries
  PROVE  tries' \in [Command -> 0 .. AllOffTries]
<1>1. AllOffTries \in Nat
  BY ValveAssumption
<1> QED
  BY <1>1 DEF Forget, Failed

LEMMA DueRowsOK ==
  ASSUME DB!TypeOK, DB!OffMatchesAction
  PROVE  DueRows \subseteq Row
<1>1. \A a \in action : a \in Act /\ offAt[a] \in Nat
  BY DEF DB!TypeOK, DB!OffMatchesAction
<1>2. \A a \in cmdOn : a \in Act /\ tOn[a] \in Nat
  BY DEF DB!TypeOK
<1> QED
  BY <1>1, <1>2 DEF DueRows, Row

LEMMA ThreadStep ==
  ASSUME IInv, [Next]_vars
  PROVE  ThreadOK' /\ Known'
<1> DEFINE Goal == ThreadOK' /\ Known'
<1> USE DEF Goto, NextIs, memory, row, Busy, Pcs, AllOff
<1>1. /\ DB!TypeOK /\ ThreadOK /\ Known
      /\ used \subseteq Act /\ action \subseteq used /\ cmdOn \subseteq used
  BY TypeParts DEF IInv, TypeOK, DB!TypeOK
<1>2. used \subseteq used'
  BY TableStep, UsedGrows DEF IInv
<1>3. pc \in Busy => ValveTried \in Valve
  BY <1>1, ValveAssumption DEF Known, ValveTried
<1>4. CASE Start \/ Wait \/ NoDatabase \/ DatabaseBack \/ RetryAllOff \/ Reaffirmed
  BY <1>1, <1>2, <1>4 DEF Start, Wait, NoDatabase, DatabaseBack, RetryAllOff, Reaffirmed,
                          vars, ThreadOK, Known
<1>5. CASE DoPending
  BY <1>1, <1>2, <1>5, DueRowsOK DEF IInv, DoPending, ThreadOK, Known
<1>6. ASSUME NEW r \in todo, PassOver(r) PROVE Goal
  BY <1>1, <1>2, <1>6 DEF PassOver, ThreadOK, Known
<1>7. ASSUME NEW r \in todo, TakeUp(r) PROVE Goal
  <2>1. r.act \in used /\ r.kind \in {"on", "off"}
    BY <1>1, <1>7 DEF TakeUp, CmdExists, ThreadOK, Row
  <2> QED
    BY <1>1, <1>2, <1>7, <2>1 DEF TakeUp, ThreadOK, Known
<1>8. CASE EndPass
  <2>1. tries' \in [Command -> 0 .. AllOffTries]
    BY <1>1, <1>8, ValveAssumption DEF EndPass, ThreadOK
  <2> QED
    BY <1>1, <1>2, <1>8, <2>1 DEF EndPass, ThreadOK, Known
<1>9. CASE OnRefused
  BY <1>1, <1>2, <1>9 DEF OnRefused, ThreadOK, Known
<1>10. CASE OnSent
  <2>1. now \in Nat
    BY <1>1 DEF DB!TypeOK
  <2>2. open' \subseteq Valve
    BY <1>1, <1>3, <1>10 DEF OnSent, Confirmed, Unconfirmed, ThreadOK
  <2> QED
    BY <1>1, <1>2, <1>3, <1>10, <2>1, <2>2 DEF OnSent, ThreadOK, Known
<1>11. CASE OnDone \/ OnFailed
  <2>1. tries' \in [Command -> 0 .. AllOffTries]
    BY <1>1, <1>11, TriesOK DEF OnDone, OnFailed, ThreadOK
  <2> QED
    BY <1>1, <1>2, <1>11, <2>1 DEF OnDone, OnFailed, ThreadOK, Known
<1>12. CASE OffRead
  BY <1>1, <1>2, <1>12 DEF OffRead, ThreadOK, Known
<1>13. CASE OffSuperseded \/ OffDone \/ OffByAllOff
  <2>1. tries' \in [Command -> 0 .. AllOffTries]
    BY <1>1, <1>13, TriesOK DEF OffSuperseded, OffDone, OffByAllOff, ThreadOK
  <2> QED
    BY <1>1, <1>2, <1>13, <2>1 DEF OffSuperseded, OffDone, OffByAllOff, ThreadOK, Known
<1>14. CASE OffConfirmed
  BY <1>1, <1>2, <1>14 DEF OffConfirmed, Confirmed, ThreadOK, Known
<1>15. CASE OffUnconfirmed
  <2>1. tries' \in [Command -> 0 .. AllOffTries]
    BY <1>1, <1>15, TriesOK DEF OffUnconfirmed, ThreadOK
  <2> QED
    BY <1>1, <1>2, <1>15, <2>1 DEF OffUnconfirmed, Unconfirmed, ThreadOK, Known
<1>16. CASE ForceLeave \/ ForceOff
  BY <1>1, <1>2, <1>16 DEF ForceLeave, ForceOff, Confirmed, Unconfirmed, ThreadOK, Known
<1>17. CASE AllOffConfirmed \/ AllOffUnconfirmed
  <2>1. pc' \in Pcs /\ Known'
    BY <1>1, <1>2, <1>17 DEF AllOffConfirmed, AllOffUnconfirmed, Known
  <2>2. open' \in SUBSET Valve /\ onAddrs' \in SUBSET Valve
    BY <1>1, <1>17 DEF AllOffConfirmed, AllOffUnconfirmed, Confirmed, Unconfirmed, ThreadOK
  <2>3. cur' \in Act \cup {NoAct} /\ tSent' \in Nat
    BY <1>1, <1>17 DEF AllOffConfirmed, AllOffUnconfirmed, ThreadOK
  <2>4. allOffDue' \in BOOLEAN /\ reaffirmDue' \in BOOLEAN
    <3>1. /\ allOffDue' = TRUE \/ allOffDue' = FALSE
          /\ reaffirmDue' = reaffirmDue \/ reaffirmDue' = (reaffirmDue \/ pc = "failsafeAllOff")
      BY <1>17 DEF AllOffConfirmed, AllOffUnconfirmed
    <3> QED
      BY <1>1, <3>1, Zenon DEF ThreadOK
  <2>5. UNCHANGED <<todo, again, tries, dbDown>>
    BY <1>17 DEF AllOffConfirmed, AllOffUnconfirmed
  <2> QED
    BY <1>1, <2>1, <2>2, <2>3, <2>4, <2>5 DEF ThreadOK
<1>18. CASE ReaffirmRead
  <2>1. ShouldBeOn \subseteq Valve
    BY <1>1, ValveAssumption DEF ShouldBeOn, DB!Running
  <2> QED
    BY <1>1, <1>2, <1>18, <2>1 DEF ReaffirmRead, ThreadOK, Known
<1>19. ASSUME NEW v \in again, TurnBackOn(v) PROVE Goal
  BY <1>1, <1>2, <1>19 DEF TurnBackOn, Confirmed, Unconfirmed, ThreadOK, Known
<1>20. CASE Crash
  <2>1. tries' \in [Command -> 0 .. AllOffTries]
    BY <1>20, ValveAssumption DEF Crash
  <2> QED
    BY <1>1, <1>2, <1>20, <2>1 DEF Crash, ThreadOK, Known
<1>21. CASE Client \/ Tick \/ UNCHANGED vars
  BY <1>1, <1>2, <1>21 DEF Client, Tick, vars, ThreadOK, Known
<1> QED
  BY <1>4, <1>5, <1>6, <1>7, <1>8, <1>9, <1>10, <1>11, <1>12, <1>13, <1>14, <1>15, <1>16,
     <1>17, <1>18, <1>19, <1>20, <1>21 DEF Next, Thread

LEMMA IInvInit == Init => IInv
<1> SUFFICES ASSUME Init PROVE IInv
  OBVIOUS
<1>1. T!TypeOK
  BY T!TypeInit, ValveAssumption
  DEF T!TableAssumption, Init, T!Init, DB!Init, T!NoTime, DB!NoTime
<1>2. ThreadOK
  <2>1. tries \in [Command -> 0 .. AllOffTries]
    BY ValveAssumption DEF Init
  <2> QED
    BY <2>1 DEF Init, ThreadOK, Pcs
<1>3. DB!OffMatchesAction
  BY DEF Init, DB!Init, DB!OffMatchesAction
<1> QED
  BY <1>1, <1>2, <1>3, SameTable, TypeParts DEF IInv, Known, Busy, Init

LEMMA IInvStep ==
  ASSUME IInv, [Next]_vars
  PROVE  IInv'
BY TableKept, ThreadStep DEF IInv, TypeOK, ThreadOK

(* The thread's variables keep their types, the command being carried out *)
(* is always one of a known action, and the tables keep theirs.           *)
THEOREM ThreadTypeCorrect == Spec => []TypeOK
<1>1. IInv /\ [Next]_vars => IInv'
  BY IInvStep
<1>2. IInv => TypeOK
  BY DEF IInv
<1> QED
  BY <1>1, <1>2, IInvInit, PTL DEF Spec

(* Whatever fails and wherever the thread is in its work, it does to the   *)
(* tables only what ActionTable allows: all that is proved of ActionTable  *)
(* holds of the tables beside this thread.                                 *)
THEOREM ThreadKeepsTables == Spec => TableSpec
<1>1. Init => DB!Init
  BY DEF Init
<1>2. IInv /\ [Next]_vars => [DB!Next]_DB!vars
  BY TableStep DEF IInv
<1>3. IInv /\ [Next]_vars => IInv'
  BY IInvStep
<1> QED
  BY <1>1, <1>2, <1>3, IInvInit, PTL DEF Spec, TableSpec, DB!Spec

(* Beside the thread, too, a run which is on does not reach into the next  *)
(* one of its valve: whatever it was told to do late, in whatever order and*)
(* with whatever failures, it moves ends only as ActionTable does.         *)
THEOREM ThreadRunsDoNotReach == Spec => []EndsBeforeNextOn
<1> DEFINE Ordered == T!Begun /\ T!EndsBeforeNextOn
<1>1. Init => Ordered
  BY DEF Init, DB!Init, T!Begun, T!EndsBeforeNextOn, T!Running
<1>2. IInv /\ Ordered /\ [Next]_vars => Ordered'
  <2> SUFFICES ASSUME IInv, Ordered, [Next]_vars PROVE Ordered'
    OBVIOUS
  <2>1. [T!Next]_(T!vars)
    BY TableStep, SameTable DEF IInv, T!vars, DB!vars
  <2>2. T!Order
    BY SameTable, TypeParts DEF IInv, T!Order
  <2>3. T!TableAssumption
    BY ValveAssumption DEF T!TableAssumption
  <2> QED
    BY <2>1, <2>2, <2>3, T!OrderStep
<1>3. Ordered => EndsBeforeNextOn
  BY DEF EndsBeforeNextOn, DB!EndsBeforeNextOn, T!EndsBeforeNextOn, T!Running, DB!Running
<1>4. IInv /\ [Next]_vars => IInv'
  BY IInvStep
<1> QED
  BY <1>1, <1>2, <1>3, <1>4, IInvInit, PTL DEF Spec
------------------------------------------------------------------------------
(***************************************************************************)
(* No valve is left on with nobody to turn it off, as long as every commit *)
(* holds and the web pages move no ends (off_race shows what they can do). *)
(* What makes NoOrphan inductive is what the thread knows between two of   *)
(* its steps: why it may close a run without sending an off, and which     *)
(* valves an off or an all-off has left off.                               *)
(***************************************************************************)
Foreknown ==
  /\ pc = "offSuper" /\ cur \in action =>
       \E b \in DB!RunningOn({ValveTried}) \ {cur} : tOn[b] >= offAt[cur]
  /\ pc = "offDone" => ValveTried \notin open
  /\ pc = "offByAllOff" => open = {}
  /\ \A v \in again : pc = "again" /\ DB!RunningOn({v}) # {}

OInv == IInv /\ NoOrphan /\ Foreknown

(* The runs which are on stay on, with their beginnings and their ends. *)
RunsStand ==
  /\ \A a \in DB!Running : a \in DB!Running' /\ tOn'[a] = tOn[a]
  /\ \A a \in used \cap action' : a \in action /\ offAt'[a] = offAt[a]

LEMMA RebuildStands ==
  ASSUME DB!TypeOK, DB!Scheduler
  PROVE  RunsStand
<1>1. PICK min \in 0 .. MaxTime, D \in SUBSET DB!PendingOn(DB!Station), N \in SUBSET (Act \ used) :
        \E slot \in [N -> DB!Slots(min)] : DB!Rebuild(min, D, N, slot)
  BY DEF DB!Scheduler
<1>2. PICK slot \in [N -> DB!Slots(min)] : DB!Rebuild(min, D, N, slot)
  BY <1>1
<1>3. D \subseteq cmdOn /\ N \cap used = {} /\ action \subseteq used /\ used \subseteq Act
      /\ cmdOn \subseteq action
  BY <1>1 DEF DB!PendingOn, DB!TypeOK
<1>4. /\ action' = (action \ D) \cup N /\ cmdOn' = (cmdOn \ D) \cup N
      /\ \A a \in Act \ (D \cup N) : tOn'[a] = tOn[a] /\ offAt'[a] = offAt[a]
  BY <1>2 DEF DB!Rebuild, DB!Replace
<1> QED
  BY <1>3, <1>4 DEF RunsStand, DB!Running

LEMMA RemovalStands ==
  ASSUME DB!TypeOK, NEW D, D \subseteq cmdOn, DB!Remove(D)
  PROVE  RunsStand
<1>1. action \subseteq Act /\ cmdOn \subseteq action
  BY DEF DB!TypeOK
<1>2. /\ action' = action \ D /\ cmdOn' = cmdOn \ D
      /\ \A a \in Act \ D : tOn'[a] = tOn[a] /\ offAt'[a] = offAt[a]
  BY DEF DB!Remove, DB!Put
<1> QED
  BY <1>1, <1>2 DEF RunsStand, DB!Running

LEMMA ClientStands ==
  ASSUME Clients \subseteq {"rebuild", "remove", "clear"}, DB!TypeOK, Client
  PROVE  RunsStand
<1>1. CASE DB!Scheduler
  BY <1>1, RebuildStands
<1>2. ASSUME NEW a \in cmdOn, DB!MonitorPendingRemove(a) PROVE RunsStand
  BY <1>2, RemovalStands DEF DB!MonitorPendingRemove
<1>3. CASE DB!MonitorClearAll
  BY <1>3, RemovalStands DEF DB!MonitorClearAll
<1> QED
  BY <1>1, <1>2, <1>3 DEF Client

(* Closing cur takes no other run off its valve unless it began before the off. *)
LEMMA ClosedRuns ==
  ASSUME DB!TypeOK, DB!CommandOffDone(cur), NEW b \in DB!Running \ {cur},
         ValveOf[b] # ValveTried \/ tOn[b] >= offAt[cur]
  PROVE  b \in DB!Running'
<1>1. b \notin DB!ClosedBy(cur)
  <2>1. b \in Act /\ cur \in Act /\ tOn[b] \in Nat /\ offAt[cur] \in Int
    BY DEF DB!TypeOK, DB!Running, DB!CommandOffDone, DB!NoTime
  <2> QED
    BY <2>1 DEF DB!ClosedBy, DB!RunningOn, ValveTried
<1>2. action' = action \ DB!ClosedBy(cur) /\ cmdOn' = cmdOn \ DB!ClosedBy(cur)
  BY DEF DB!CommandOffDone, DB!Archive, DB!Remove
<1> QED
  BY <1>1, <1>2 DEF DB!Running

LEMMA OrphanStep ==
  ASSUME "commit" \notin Faults, Clients \subseteq {"rebuild", "remove", "clear"},
         OInv, [Next]_vars
  PROVE  NoOrphan' /\ Foreknown'
<1> DEFINE Goal == NoOrphan' /\ Foreknown'
<1> USE DEF Goto, NextIs, AllOff, memory, row
<1>1. NoOrphan /\ Foreknown /\ DB!TypeOK /\ Known
  BY DEF OInv, IInv, TypeOK
<1>2. CASE Start \/ Wait \/ NoDatabase \/ DatabaseBack \/ RetryAllOff \/ Reaffirmed \/ UNCHANGED vars
  BY <1>1, <1>2 DEF Start, Wait, NoDatabase, DatabaseBack, RetryAllOff, Reaffirmed, NoOrphan,
                    Foreknown, ValveTried, vars, tableVars, DB!RunningOn, DB!Running
<1>3. CASE DoPending \/ EndPass
  BY <1>1, <1>3 DEF DoPending, EndPass, NoOrphan, Foreknown, ValveTried, tableVars,
                    DB!RunningOn, DB!Running
<1>4. ASSUME NEW r \in todo, PassOver(r) \/ TakeUp(r) PROVE Goal
  <2>1. pc' # "offSuper" /\ pc' # "offDone" /\ pc' # "offByAllOff"
    <3>1. r.kind \in {"on", "off"}
      BY DEF OInv, IInv, TypeOK, Row
    <3> QED
      BY <1>4, <3>1 DEF PassOver, TakeUp
  <2> QED
    BY <1>1, <1>4, <2>1 DEF PassOver, TakeUp, NoOrphan, Foreknown, ValveTried, tableVars,
                            DB!RunningOn, DB!Running
<1>5. CASE Crash
  BY <1>5 DEF Crash, NoOrphan, Foreknown
<1>6. CASE OnRefused
  <2>1. DB!Running' = DB!Running
    BY <1>1, <1>6 DEF OnRefused, Recorded, Raised, CommitLost, tableVars, DB!CommandOnRefused,
                      DB!Archive, DB!Remove, DB!Running, DB!TypeOK
  <2> QED
    BY <1>1, <1>6, <2>1 DEF OnRefused, NoOrphan, Foreknown, DB!RunningOn
<1>7. CASE OnSent \/ OffRead
  BY <1>1, <1>7 DEF OnSent, OffRead, Superseded, Confirmed, Unconfirmed, NoOrphan, Foreknown,
                    ValveTried, tableVars, DB!RunningOn, DB!Running
<1>8. CASE OnDone \/ OnFailed
  <2>1. CASE cur \in cmdOn /\ ~UNCHANGED tableVars
    <3>1. cmdOn' = cmdOn \ {cur} /\ action' = action /\ cur \in action
      BY <1>1, <1>8, <2>1 DEF OnDone, OnFailed, Raised, CommitLost, DB!CommandOnDone,
                              DB!CommandOnFailed, DB!TypeOK
    <3>2. DB!Running' = DB!Running \cup {cur}
      BY <1>1, <2>1, <3>1 DEF DB!Running, DB!TypeOK
    <3>3. pc' \in {"rows", "off"} /\ pc \in {"onDone", "onFailed"} /\ UNCHANGED <<open, again, allOffDue>>
      BY <1>8, <2>1 DEF OnDone, OnFailed, Raised
    <3> QED
      BY <1>1, <3>2, <3>3 DEF NoOrphan, Foreknown, DB!RunningOn, ValveTried
  <2>2. CASE UNCHANGED tableVars /\ pc' \in {"onFailed", "force", "forceBlind"}
    BY <1>1, <1>8, <2>2 DEF OnDone, OnFailed, NoOrphan, Foreknown, DB!RunningOn, DB!Running,
                            ValveTried, tableVars
  <2>3. ~CommitLost
    BY DEF CommitLost
  <2> QED
    BY <1>1, <1>8, <2>1, <2>2, <2>3
    DEF OnDone, OnFailed, Raised, tableVars, DB!CommandOnDone, DB!CommandOnFailed, DB!TypeOK
<1>9. CASE OffSuperseded \/ OffDone \/ OffByAllOff
  <2>1. CASE UNCHANGED tableVars
    BY <1>1, <1>9, <2>1 DEF OffSuperseded, OffDone, OffByAllOff, NoOrphan, Foreknown,
                            DB!RunningOn, DB!Running, tableVars
  <2>2. CASE cur \in action /\ DB!CommandOffDone(cur)
    <3>1. ASSUME NEW b \in DB!Running, ValveOf[b] # ValveTried PROVE b \in DB!Running'
      BY <1>1, <2>2, <3>1, ClosedRuns DEF ValveTried
    <3>2. \A v \in open : v = ValveTried \/ allOffDue \/ DB!RunningOn({v}) # {}
      BY <1>1, <1>9 DEF NoOrphan, OffSuperseded, OffDone, OffByAllOff
    <3>3. ASSUME ValveTried \in open PROVE \E b \in DB!Running' : ValveOf[b] = ValveTried
      <4>1. pc = "offSuper"
        BY <1>1, <1>9, <3>3 DEF Foreknown, OffSuperseded, OffDone, OffByAllOff
      <4>2. PICK b \in DB!RunningOn({ValveTried}) \ {cur} : tOn[b] >= offAt[cur]
        BY <1>1, <2>2, <4>1 DEF Foreknown
      <4>3. b \in DB!Running'
        BY <1>1, <2>2, <4>2, ClosedRuns DEF DB!RunningOn
      <4> QED
        BY <4>2, <4>3 DEF DB!RunningOn
    <3>4. again = {} /\ pc' \notin {"offSuper", "offDone", "offByAllOff"}
          /\ UNCHANGED <<open, again, allOffDue>>
      BY <1>1, <1>9 DEF Foreknown, OffSuperseded, OffDone, OffByAllOff
    <3>5. NoOrphan'
      <4> SUFFICES ASSUME NEW v \in open, ~allOffDue, v # ValveTried
                   PROVE  \E b \in DB!Running' : ValveOf[b] = v
        BY <3>3, <3>4 DEF NoOrphan, DB!RunningOn
      <4>1. PICK b \in DB!Running : ValveOf[b] = v
        BY <3>2 DEF DB!RunningOn
      <4> QED
        BY <3>1, <4>1 DEF DB!RunningOn
    <3> QED
      BY <3>4, <3>5 DEF Foreknown
  <2> QED
    BY <1>9, <2>1, <2>2 DEF OffSuperseded, OffDone, OffByAllOff, OffRecorded, Recorded,
                            CommitLost, Raised
<1>10. CASE OffConfirmed \/ OffUnconfirmed
  BY <1>1, <1>10 DEF OffConfirmed, OffUnconfirmed, Confirmed, Unconfirmed, NoOrphan, Foreknown,
                     ValveTried, tableVars, DB!RunningOn, DB!Running
<1>11. CASE ForceLeave \/ ForceOff
  BY <1>1, <1>11 DEF ForceLeave, ForceOff, Confirmed, Unconfirmed, NoOrphan, Foreknown,
                     ValveTried, tableVars, DB!RunningOn, DB!Running
<1>12. CASE AllOffConfirmed
  <2>1. open' = {} /\ again' = {} /\ pc' \notin {"offSuper", "offDone"}
    BY <1>1, <1>12 DEF AllOffConfirmed, Confirmed, Foreknown
  <2> QED
    BY <2>1 DEF NoOrphan, Foreknown
<1>13. CASE AllOffUnconfirmed
  <2>1. allOffDue' /\ again' = {} /\ pc' \notin {"offSuper", "offDone", "offByAllOff"}
    BY <1>1, <1>13 DEF AllOffUnconfirmed, Foreknown
  <2> QED
    BY <2>1 DEF NoOrphan, Foreknown
<1>14. CASE ReaffirmRead
  BY <1>1, <1>14 DEF ReaffirmRead, ShouldBeOn, NoOrphan, Foreknown, tableVars, DB!RunningOn, DB!Running
<1>15. ASSUME NEW v \in again, TurnBackOn(v) PROVE Goal
  BY <1>1, <1>15 DEF TurnBackOn, Confirmed, Unconfirmed, NoOrphan, Foreknown, tableVars,
                     DB!RunningOn, DB!Running
<1>16. CASE Client
  <2>1. RunsStand /\ UNCHANGED <<open, pc, memory>>
    BY <1>1, <1>16, ClientStands DEF Client
  <2>2. \A v : DB!RunningOn({v}) # {} => DB!RunningOn({v})' # {}
    BY <2>1 DEF RunsStand, DB!RunningOn
  <2>3. NoOrphan'
    BY <1>1, <2>1, <2>2 DEF NoOrphan, ValveTried
  <2>4. ASSUME pc = "offSuper", cur \in action'
        PROVE  \E b \in DB!RunningOn({ValveTried})' \ {cur} : tOn'[b] >= offAt'[cur]
    <3>1. cur \in used
      BY <1>1, <2>4 DEF Known, Busy
    <3>2. cur \in action /\ offAt'[cur] = offAt[cur]
      BY <2>1, <2>4, <3>1 DEF RunsStand
    <3> QED
      BY <1>1, <2>1, <2>4, <3>2 DEF Foreknown, RunsStand, DB!RunningOn, ValveTried
  <2> QED
    BY <1>1, <2>1, <2>2, <2>3, <2>4 DEF Foreknown, ValveTried
<1>17. CASE Tick
  BY <1>1, <1>17 DEF Tick, DB!Tick, DB!tableVars, NoOrphan, Foreknown, ValveTried,
                     DB!RunningOn, DB!Running
<1> QED
  BY <1>2, <1>3, <1>4, <1>5, <1>6, <1>7, <1>8, <1>9, <1>10, <1>11, <1>12, <1>13, <1>14, <1>15,
     <1>16, <1>17 DEF Next, Thread

(* No valve is left on with nobody to turn it off (TDIvalve.py:3-13),      *)
(* whatever is not confirmed, raises or dies, and whatever the scheduler   *)
(* plans and the web pages delete.                                         *)
THEOREM NothingOrphaned ==
  ASSUME "commit" \notin Faults, Clients \subseteq {"rebuild", "remove", "clear"}
  PROVE  Spec => []NoOrphan
<1>1. Init => OInv
  BY IInvInit DEF OInv, Init, NoOrphan, Foreknown
<1>2. OInv /\ [Next]_vars => OInv'
  BY OrphanStep, IInvStep DEF OInv
<1>3. OInv => NoOrphan
  BY DEF OInv
<1> QED
  BY <1>1, <1>2, <1>3, PTL DEF Spec
------------------------------------------------------------------------------
(***************************************************************************)
(* Never more valves on than the controller may have, as long as commits   *)
(* hold, onInfo can be read, and the web pages move no ends.  onInfo       *)
(* counts rows, not valves, and counts them before the on is sent: so what *)
(* is bounded is how many valves have a run which is on, and, until the on *)
(* is recorded or forced off, how many there would be with that one more.  *)
(***************************************************************************)
ValvesOn == {ValveOf[a] : a \in DB!Running}
OnIsOut == pc \in {"onDone", "onFailed", "force", "forceBlind"}

Limited ==
  /\ IsFiniteSet(DB!Running)
  /\ Cardinality(ValvesOn) <= MaxStations
  /\ OnIsOut => Cardinality(ValvesOn \cup {ValveTried}) <= MaxStations

LInv == OInv /\ Limited

(* There are no more valves on than runs on. *)
LEMMA ValvesOnBound ==
  ASSUME IsFiniteSet(DB!Running)
  PROVE  /\ IsFiniteSet(ValvesOn)
         /\ Cardinality(ValvesOn) \in Nat
         /\ Cardinality(DB!Running) \in Nat
         /\ Cardinality(ValvesOn) <= Cardinality(DB!Running)
<1> DEFINE f == [a \in DB!Running |-> ValveOf[a]]
<1>1. f \in Surjection(DB!Running, ValvesOn)
  BY DEF Surjection, ValvesOn
<1>2. IsFiniteSet(ValvesOn) /\ Cardinality(ValvesOn) <= Cardinality(DB!Running)
  <2> HIDE DEF f
  <2> QED
    BY <1>1, FS_Surjection
<1> QED
  BY <1>2, FS_CardinalityType

(* An on which is not over the limit has room for its valve. *)
LEMMA OnHasRoom ==
  ASSUME Limited, ~OverLimit
  PROVE  Cardinality(ValvesOn \cup {ValveTried}) <= MaxStations
<1>1. MaxStations \in Nat
  BY ValveAssumption
<1>2. CASE DB!RunningOn({ValveTried}) # {}
  <2>1. ValvesOn \cup {ValveTried} = ValvesOn
    BY <1>2 DEF DB!RunningOn, ValvesOn
  <2> QED
    BY <2>1 DEF Limited
<1>3. CASE DB!RunningOn({ValveTried}) = {}
  <2>1. ~(Cardinality(DB!Running) >= MaxStations)
    BY <1>3 DEF OverLimit
  <2>2. Cardinality(ValvesOn) + 1 <= MaxStations
    BY <1>1, <2>1, ValvesOnBound DEF Limited
  <2>3. \/ Cardinality(ValvesOn \cup {ValveTried}) = Cardinality(ValvesOn)
        \/ Cardinality(ValvesOn \cup {ValveTried}) = Cardinality(ValvesOn) + 1
    BY ValvesOnBound, FS_AddElement DEF Limited
  <2> QED
    BY <1>1, <2>2, <2>3, ValvesOnBound DEF Limited
<1> QED
  BY <1>2, <1>3

(* Fewer runs on, and no on which has just been sent, keep the bound. *)
LEMMA FewerKeep ==
  ASSUME Limited, DB!Running' \subseteq DB!Running,
         OnIsOut' => OnIsOut /\ cur' = cur
  PROVE  Limited'
<1> DEFINE Here == ValvesOn \cup {ValveTried}
<1>1. MaxStations \in Nat
  BY ValveAssumption
<1>2. IsFiniteSet(DB!Running)'
  BY FS_Subset DEF Limited
<1>3. ValvesOn' \subseteq ValvesOn
  BY DEF ValvesOn
<1>4. Cardinality(ValvesOn)' <= MaxStations
  <2>1. Cardinality(ValvesOn') <= Cardinality(ValvesOn) /\ Cardinality(ValvesOn') \in Nat
    BY <1>3, ValvesOnBound, FS_Subset, FS_CardinalityType DEF Limited
  <2> QED
    BY <1>1, <2>1, ValvesOnBound DEF Limited
<1>5. ASSUME OnIsOut' PROVE Cardinality(Here)' <= MaxStations
  <2>1. Here' \subseteq Here
    BY <1>3, <1>5 DEF ValveTried
  <2>2. IsFiniteSet(Here) /\ Cardinality(Here) <= MaxStations
    BY <1>5, ValvesOnBound, FS_AddElement DEF Limited
  <2> HIDE DEF Here
  <2>3. Cardinality(Here') <= Cardinality(Here) /\ Cardinality(Here') \in Nat /\ Cardinality(Here) \in Nat
    BY <2>1, <2>2, FS_Subset, FS_CardinalityType
  <2> QED
    BY <1>1, <2>2, <2>3
<1> QED
  BY <1>2, <1>4, <1>5 DEF Limited

(* Neither the scheduler nor a deletion changes which runs are on. *)
LEMMA ClientRuns ==
  ASSUME Clients \subseteq {"rebuild", "remove", "clear"}, DB!TypeOK, Client
  PROVE  DB!Running' \subseteq DB!Running
<1>1. cmdOn \subseteq action /\ action \subseteq used
  BY DEF DB!TypeOK
<1>2. CASE DB!Scheduler
  <2>1. PICK min \in 0 .. MaxTime, D \in SUBSET DB!PendingOn(DB!Station), N \in SUBSET (Act \ used) :
          \E slot \in [N -> DB!Slots(min)] : DB!Rebuild(min, D, N, slot)
    BY <1>2 DEF DB!Scheduler
  <2>2. action' = (action \ D) \cup N /\ cmdOn' = (cmdOn \ D) \cup N
    BY <2>1 DEF DB!Rebuild, DB!Replace
  <2>3. N \cap used = {}
    BY <2>1
  <2> QED
    BY <2>2, <2>3 DEF DB!Running
<1>3. ASSUME NEW D, action' = action \ D, cmdOn' = cmdOn \ D
      PROVE  DB!Running' \subseteq DB!Running
  BY <1>3 DEF DB!Running
<1>4. ASSUME NEW a \in cmdOn, DB!MonitorPendingRemove(a) PROVE DB!Running' \subseteq DB!Running
  BY <1>3, <1>4 DEF DB!MonitorPendingRemove, DB!Remove
<1>5. CASE DB!MonitorClearAll
  BY <1>3, <1>5 DEF DB!MonitorClearAll, DB!Remove
<1> QED
  BY <1>2, <1>4, <1>5 DEF Client

LEMMA LimitStep ==
  ASSUME {"commit", "read"} \cap Faults = {}, Clients \subseteq {"rebuild", "remove", "clear"},
         LInv, [Next]_vars
  PROVE  Limited'
<1> USE DEF Goto, NextIs, memory, row
<1> DEFINE Kept == OnIsOut' => OnIsOut /\ cur' = cur
<1>1. Limited /\ DB!TypeOK /\ Foreknown
  BY DEF LInv, OInv, IInv, TypeOK
<1>2. ASSUME UNCHANGED tableVars, Kept PROVE Limited'
  <2>1. DB!Running' = DB!Running
    BY <1>2 DEF tableVars, DB!Running
  <2> QED
    BY <1>1, <1>2, <2>1, FewerKeep
<1>3. CASE Start \/ Wait \/ NoDatabase \/ DatabaseBack \/ RetryAllOff \/ Reaffirmed \/ UNCHANGED vars
  BY <1>2, <1>3 DEF Start, Wait, NoDatabase, DatabaseBack, RetryAllOff, Reaffirmed, vars, OnIsOut
<1>4. CASE DoPending \/ EndPass \/ Crash
  BY <1>2, <1>4 DEF DoPending, EndPass, Crash, OnIsOut
<1>5. ASSUME NEW r \in todo, PassOver(r) \/ TakeUp(r) PROVE Limited'
  <2>1. r.kind \in {"on", "off"}
    BY DEF LInv, OInv, IInv, TypeOK, Row
  <2> QED
    BY <1>2, <1>5, <2>1 DEF PassOver, TakeUp, OnIsOut
<1>6. CASE OnRefused
  <2>1. DB!Running' \subseteq DB!Running
    BY <1>1, <1>6 DEF OnRefused, Recorded, Raised, CommitLost, tableVars, DB!CommandOnRefused,
                      DB!Archive, DB!Remove, DB!Running, DB!TypeOK
  <2> QED
    BY <1>1, <1>6, <2>1, FewerKeep DEF OnRefused, OnIsOut
<1>7. CASE OnSent
  <2>1. ValvesOn' = ValvesOn /\ DB!Running' = DB!Running /\ ValveTried' = ValveTried
    BY <1>7 DEF OnSent, tableVars, ValvesOn, DB!Running, ValveTried
  <2>2. ~OverLimit
    BY <1>7 DEF OnSent
  <2> QED
    BY <1>1, <2>1, <2>2, OnHasRoom DEF Limited
<1>8. CASE OnDone \/ OnFailed
  <2>1. CASE cur \in cmdOn /\ ~UNCHANGED tableVars
    <3>1. cmdOn' = cmdOn \ {cur} /\ action' = action /\ cur \in action
      BY <1>1, <1>8, <2>1 DEF OnDone, OnFailed, Raised, CommitLost, DB!CommandOnDone,
                              DB!CommandOnFailed, DB!TypeOK
    <3>2. DB!Running' = DB!Running \cup {cur}
      BY <1>1, <2>1, <3>1 DEF DB!Running, DB!TypeOK
    <3>3. pc' \in {"rows", "off"} /\ pc \in {"onDone", "onFailed"}
      BY <1>8, <2>1 DEF OnDone, OnFailed, Raised
    <3>4. ValvesOn' = ValvesOn \cup {ValveTried}
      BY <3>2 DEF ValvesOn, ValveTried
    <3>5. IsFiniteSet(DB!Running')
      BY <1>1, <3>2, FS_AddElement DEF Limited
    <3> QED
      BY <1>1, <3>3, <3>4, <3>5 DEF Limited, OnIsOut
  <2>2. CASE UNCHANGED tableVars
    <3>1. ~CommitLost
      BY DEF CommitLost
    <3> QED
      BY <1>1, <1>2, <1>8, <2>2, <3>1 DEF OnDone, OnFailed, OnIsOut
  <2> QED
    BY <1>8, <2>1, <2>2 DEF OnDone, OnFailed, Raised, CommitLost
<1>9. CASE OffRead \/ OffConfirmed \/ OffUnconfirmed
  BY <1>2, <1>9 DEF OffRead, OffConfirmed, OffUnconfirmed, OnIsOut
<1>10. CASE OffSuperseded \/ OffDone \/ OffByAllOff
  <2>1. DB!Running' \subseteq DB!Running
    <3>1. CASE UNCHANGED tableVars
      BY <3>1 DEF tableVars, DB!Running
    <3>2. CASE cur \in action /\ DB!CommandOffDone(cur)
      BY <1>1, <3>2 DEF DB!CommandOffDone, DB!Archive, DB!Remove, DB!Running
    <3> QED
      BY <1>10, <3>1, <3>2 DEF OffSuperseded, OffDone, OffByAllOff, OffRecorded, Recorded,
                               CommitLost, Raised
  <2> QED
    BY <1>1, <1>10, <2>1, FewerKeep DEF OffSuperseded, OffDone, OffByAllOff, OnIsOut
<1>11. CASE ForceLeave \/ ForceOff
  BY <1>2, <1>11 DEF ForceLeave, ForceOff, OnIsOut
<1>12. CASE AllOffConfirmed \/ AllOffUnconfirmed
  BY <1>2, <1>12 DEF AllOffConfirmed, AllOffUnconfirmed, OnIsOut
<1>13. CASE ReaffirmRead
  BY <1>2, <1>13 DEF ReaffirmRead, OnIsOut
<1>14. ASSUME NEW v \in again, TurnBackOn(v) PROVE Limited'
  BY <1>2, <1>14 DEF TurnBackOn, OnIsOut
<1>15. CASE Client
  <2>1. UNCHANGED <<pc, cur>>
    BY <1>15 DEF Client
  <2> QED
    BY <1>1, <1>15, <2>1, ClientRuns, FewerKeep DEF OnIsOut
<1>16. CASE Tick
  <2>1. DB!Running' = DB!Running /\ UNCHANGED <<pc, cur>>
    BY <1>16 DEF Tick, DB!Tick, DB!tableVars, DB!Running
  <2> QED
    BY <1>1, <2>1, FewerKeep DEF OnIsOut
<1> QED
  BY <1>3, <1>4, <1>5, <1>6, <1>7, <1>8, <1>9, <1>10, <1>11, <1>12, <1>13, <1>14, <1>15, <1>16
  DEF Next, Thread

(* A valve which is on and which no all-off is about to turn off has a run *)
(* which is on, or is the one whose on is out.                             *)
LEMMA LimitedMeans ==
  ASSUME LInv
  PROVE  WithinLimit
<1> SUFFICES ASSUME pc \notin AllOff \cup {"down"}, ~allOffDue
             PROVE  Cardinality(open) <= MaxStations
  BY DEF WithinLimit
<1> DEFINE Here == IF OnIsOut THEN ValvesOn \cup {ValveTried} ELSE ValvesOn
<1>1. Limited /\ NoOrphan /\ MaxStations \in Nat
  BY ValveAssumption DEF LInv, OInv
<1>2. open \subseteq Here
  <2>1. \A v \in open : DB!RunningOn({v}) # {} => v \in ValvesOn
    BY DEF DB!RunningOn, ValvesOn
  <2> QED
    BY <1>1, <2>1 DEF NoOrphan, OnIsOut
<1>3. IsFiniteSet(Here) /\ Cardinality(Here) <= MaxStations
  BY <1>1, ValvesOnBound, FS_AddElement DEF Limited
<1> HIDE DEF Here
<1>4. Cardinality(open) <= Cardinality(Here) /\ Cardinality(open) \in Nat /\ Cardinality(Here) \in Nat
  BY <1>2, <1>3, FS_Subset, FS_CardinalityType
<1> QED
  BY <1>1, <1>3, <1>4

(* Never more valves on than maxStations (TDIvalve.py:347), whatever is    *)
(* not confirmed, is rolled back or dies: an on which is sent counts as one*)
(* more valve from then until it is recorded or its valve is forced off.   *)
THEOREM NeverOverLimit ==
  ASSUME {"commit", "read"} \cap Faults = {}, Clients \subseteq {"rebuild", "remove", "clear"}
  PROVE  Spec => []WithinLimit
<1>1. Init => LInv
  <2> SUFFICES ASSUME Init PROVE LInv
    OBVIOUS
  <2>1. DB!Running = {} /\ ValvesOn = {} /\ ~OnIsOut
    BY DEF Init, DB!Init, DB!Running, ValvesOn, OnIsOut
  <2>2. Limited
    BY <2>1, FS_EmptySet, ValveAssumption DEF Limited
  <2> QED
    BY <2>2, IInvInit DEF LInv, OInv, Init, NoOrphan, Foreknown
<1>2. LInv /\ [Next]_vars => LInv'
  <2> SUFFICES ASSUME LInv, [Next]_vars PROVE LInv'
    OBVIOUS
  <2>1. IInv' /\ NoOrphan' /\ Foreknown'
    BY OrphanStep, IInvStep DEF LInv, OInv
  <2> QED
    BY <2>1, LimitStep DEF LInv, OInv
<1> QED
  BY <1>1, <1>2, LimitedMeans, PTL DEF Spec
------------------------------------------------------------------------------
(***************************************************************************)
(* A run which is on is not silently left off, as long as the database     *)
(* answers what it is asked and holds what it is told (an outage is not    *)
(* excluded), and the web pages move no ends.  A confirmed off takes the   *)
(* valve off onAddrs before the runs which it ends are closed.  So nothing *)
(* may be left running on that valve afterwards: the off must be one of a  *)
(* run which is on, which is why an on comes before its off in a pass, and *)
(* every other run of the valve must have begun before it was due.         *)
(***************************************************************************)
Reliable == {"read", "write", "commit"} \cap Faults = {}
QuietClients == Clients \subseteq {"rebuild", "remove", "clear"}

PendingTimed == \A a \in cmdOn : tOn[a] < offAt[a]
KnownRows == \A r \in todo : r.act \in used
NoOnTries == pc # "forceBlind" /\ \A a \in Act : tries[<<"on", a>>] = 0

(* The on of row r is being carried out. *)
OnInHand(r) == pc \in {"on", "onDone", "onFailed"} /\ cur = r.act

OnFirst ==
  \A r \in todo :
    r.kind = "off" /\ r.act \in cmdOn =>
      \/ \E s \in todo : s.kind = "on" /\ s.act = r.act /\ s.due < r.due
      \/ OnInHand(r)

OffOfRun == pc \in {"off", "offSuper", "offSend", "offDone"} => cur \in DB!Running
OffClosesAll ==
  pc \in {"offSend", "offDone"} =>
    \A b \in DB!RunningOn({ValveTried}) \ {cur} : tOn[b] < offAt[cur]
OnRemembered == pc \in {"onDone", "onFailed"} => ValveTried \in onAddrs

InOrder == PendingTimed /\ KnownRows /\ NoOnTries /\ OnFirst
OffIsRight == OffOfRun /\ OffClosesAll /\ OnRemembered

(* What KeptOn comes to: the one valve which may be missing is that of the *)
(* off which has just been confirmed.                                      *)
StillOn ==
  /\ pc = "again" => ShouldBeOn \subseteq again \cup onAddrs
  /\ \/ pc \in AllOff \cup {"down", "offByAllOff", "reaffirm", "again"}
     \/ allOffDue \/ reaffirmDue
     \/ \A v \in ShouldBeOn : v \in onAddrs \/ (pc = "offDone" /\ ValveTried = v)

KInv == IInv /\ InOrder /\ OffIsRight /\ StillOn

(* A step of the thread leaves the pending rows which it does not take up  *)
(* as they are, and so does one of the clients, but for what it adds.      *)
LEMMA ThreadPending ==
  ASSUME DB!TypeOK, Thread
  PROVE  /\ cmdOn' \subseteq cmdOn
         /\ \A a \in cmdOn' : tOn'[a] = tOn[a] /\ offAt'[a] = offAt[a]
<1> DEFINE Goal == /\ cmdOn' \subseteq cmdOn
                   /\ \A a \in cmdOn' : tOn'[a] = tOn[a] /\ offAt'[a] = offAt[a]
<1>1. cmdOn \subseteq Act
  BY DEF DB!TypeOK
<1>2. CASE UNCHANGED tableVars
  BY <1>2 DEF tableVars
<1>3. ASSUME NEW D, DB!Archive(D) PROVE Goal
  BY <1>1, <1>3 DEF DB!Archive, DB!Remove, DB!Put
<1>4. ASSUME NEW t, DB!CommandOnDone(cur, t) \/ DB!CommandOnFailed(cur, t) PROVE Goal
  BY <1>1, <1>4 DEF DB!CommandOnDone, DB!CommandOnFailed, DB!Retime, DB!Put
<1>5. CASE OnRefused
  BY <1>2, <1>3, <1>5 DEF OnRefused, Recorded, Raised, CommitLost, DB!CommandOnRefused
<1>6. CASE OnDone \/ OnFailed
  BY <1>2, <1>4, <1>6 DEF OnDone, OnFailed, Raised, CommitLost, tableVars
<1>7. CASE OffSuperseded \/ OffDone \/ OffByAllOff
  BY <1>2, <1>3, <1>7 DEF OffSuperseded, OffDone, OffByAllOff, OffRecorded, Recorded, Raised,
                          CommitLost, DB!CommandOffDone
<1>8. CASE Start \/ Wait \/ NoDatabase \/ DatabaseBack \/ RetryAllOff \/ DoPending \/ EndPass
  BY <1>2, <1>8 DEF Start, Wait, NoDatabase, DatabaseBack, RetryAllOff, DoPending, EndPass, vars
<1>9. ASSUME NEW r \in todo, PassOver(r) \/ TakeUp(r) PROVE Goal
  BY <1>2, <1>9 DEF PassOver, TakeUp
<1>10. CASE OnSent \/ OffRead \/ OffConfirmed \/ OffUnconfirmed \/ ForceLeave \/ ForceOff
  BY <1>2, <1>10 DEF OnSent, OffRead, OffConfirmed, OffUnconfirmed, ForceLeave, ForceOff
<1>11. CASE AllOffConfirmed \/ AllOffUnconfirmed \/ ReaffirmRead \/ Reaffirmed
  BY <1>2, <1>11 DEF AllOffConfirmed, AllOffUnconfirmed, ReaffirmRead, Reaffirmed
<1>12. ASSUME NEW v \in again, TurnBackOn(v) PROVE Goal
  BY <1>2, <1>12 DEF TurnBackOn
<1> QED
  BY <1>5, <1>6, <1>7, <1>8, <1>9, <1>10, <1>11, <1>12 DEF Thread

LEMMA ClientPending ==
  ASSUME QuietClients, DB!TypeOK, PendingTimed, Client
  PROVE  /\ cmdOn' \cap used \subseteq cmdOn
         /\ PendingTimed'
<1> USE DEF PendingTimed
<1>1. cmdOn \subseteq action /\ action \subseteq used /\ used \subseteq Act
  BY DEF DB!TypeOK
<1>2. CASE DB!Scheduler
  <2>1. PICK min \in 0 .. MaxTime, D \in SUBSET DB!PendingOn(DB!Station), N \in SUBSET (Act \ used) :
          \E slot \in [N -> DB!Slots(min)] : DB!Rebuild(min, D, N, slot)
    BY <1>2 DEF DB!Scheduler
  <2>2. PICK slot \in [N -> DB!Slots(min)] : DB!Rebuild(min, D, N, slot)
    BY <2>1
  <2>3. /\ cmdOn' = (cmdOn \ D) \cup N
        /\ \A a \in N : tOn'[a] = slot[a][1] /\ offAt'[a] = slot[a][2]
        /\ \A a \in Act \ (D \cup N) : tOn'[a] = tOn[a] /\ offAt'[a] = offAt[a]
    BY <2>2 DEF DB!Rebuild, DB!Replace
  <2>4. \A a \in N : slot[a][1] < slot[a][2]
    BY <2>2 DEF DB!Slots
  <2>5. N \cap used = {}
    BY <2>1
  <2> QED
    BY <1>1, <2>3, <2>4, <2>5
<1>3. ASSUME NEW D, DB!Remove(D) PROVE cmdOn' \cap used \subseteq cmdOn /\ PendingTimed'
  BY <1>1, <1>3 DEF DB!Remove, DB!Put
<1>4. ASSUME NEW a \in cmdOn, DB!MonitorPendingRemove(a)
      PROVE  cmdOn' \cap used \subseteq cmdOn /\ PendingTimed'
  BY <1>3, <1>4 DEF DB!MonitorPendingRemove
<1>5. CASE DB!MonitorClearAll
  BY <1>3, <1>5 DEF DB!MonitorClearAll
<1> QED
  BY <1>2, <1>4, <1>5 DEF Client, QuietClients

LEMMA PendingStep ==
  ASSUME QuietClients, DB!TypeOK, PendingTimed, [Next]_vars
  PROVE  /\ cmdOn' \cap used \subseteq cmdOn
         /\ PendingTimed'
<1>1. CASE Thread
  BY <1>1, ThreadPending DEF PendingTimed
<1>2. CASE Client
  BY <1>2, ClientPending
<1>3. CASE Crash \/ Tick \/ UNCHANGED vars
  BY <1>3 DEF Crash, Tick, DB!Tick, DB!tableVars, vars, tableVars, PendingTimed
<1> QED
  BY <1>1, <1>2, <1>3 DEF Next

LEMMA OrderStep ==
  ASSUME Reliable, QuietClients, KInv, [Next]_vars
  PROVE  InOrder'
<1> USE DEF Goto, NextIs, memory, row
<1> DEFINE Goal == KnownRows' /\ NoOnTries' /\ OnFirst'
           Holds == pc \in {"on", "onDone", "onFailed"}
           Onward == Holds => (Holds' /\ cur' = cur) \/ cur \notin cmdOn'
<1>1. /\ DB!TypeOK /\ DB!OffMatchesAction /\ todo \subseteq Row /\ InOrder
      /\ tries \in [Command -> 0 .. AllOffTries]
      /\ cmdOn \subseteq action /\ action \subseteq used /\ used \subseteq Act
  BY DEF KInv, IInv, TypeOK, DB!TypeOK
<1>2. used \subseteq used'
  BY TableStep, UsedGrows DEF KInv, IInv
<1>3. PendingTimed' /\ \A a \in used : a \in cmdOn' => a \in cmdOn
  BY <1>1, PendingStep DEF InOrder
<1> SUFFICES Goal
  BY <1>3 DEF InOrder
<1>4. ASSUME todo' = todo, Onward PROVE KnownRows' /\ OnFirst'
  <2>1. KnownRows'
    BY <1>1, <1>2, <1>4 DEF InOrder, KnownRows
  <2>2. ASSUME NEW r \in todo, r.kind = "off", r.act \in cmdOn'
        PROVE  (\E s \in todo : s.kind = "on" /\ s.act = r.act /\ s.due < r.due) \/ OnInHand(r)'
    <3>1. r.act \in cmdOn
      BY <1>1, <1>3, <2>2 DEF InOrder, KnownRows
    <3> QED
      BY <1>1, <1>4, <2>2, <3>1 DEF InOrder, OnFirst, OnInHand
  <2> QED
    BY <1>4, <2>1, <2>2 DEF OnFirst
<1>5. ASSUME UNCHANGED tries \/ (\E a : tries' = [tries EXCEPT ![<<"on", a>>] = 0])
             \/ (\E a, n : tries' = [tries EXCEPT ![<<"off", a>>] = n]),
             pc' # "forceBlind"
      PROVE  NoOnTries'
  <2>1. \A a \in Act : <<"on", a>> \in Command
    BY DEF Command
  <2> QED
    BY <1>1, <1>5, <2>1 DEF InOrder, NoOnTries
<1>6. CASE Start \/ Wait \/ NoDatabase \/ DatabaseBack \/ RetryAllOff \/ Reaffirmed \/ UNCHANGED vars
  <2>1. todo' = todo /\ tries' = tries /\ Onward /\ pc' # "forceBlind"
    BY <1>1, <1>6 DEF Start, Wait, NoDatabase, DatabaseBack, RetryAllOff, Reaffirmed, vars,
                      InOrder, NoOnTries
  <2> QED
    BY <1>4, <1>5, <2>1
<1>7. CASE DoPending
  <2>1. todo' = DueRows /\ tries' = tries /\ pc' = "rows" /\ cmdOn' = cmdOn
    BY <1>7 DEF DoPending, tableVars
  <2>2. \A r \in DueRows : r.act \in action
    BY <1>1 DEF DueRows
  <2>3. ASSUME NEW r \in DueRows, r.kind = "off", r.act \in cmdOn
        PROVE  \E s \in DueRows : s.kind = "on" /\ s.act = r.act /\ s.due < r.due
    <3>1. r.due = offAt[r.act] /\ offAt[r.act] <= now
      BY <2>3 DEF DueRows
    <3>2. tOn[r.act] < offAt[r.act] /\ tOn[r.act] \in Nat /\ offAt[r.act] \in Int /\ now \in Nat
      BY <1>1, <2>3 DEF InOrder, PendingTimed, DB!TypeOK, DB!NoTime
    <3>3. tOn[r.act] <= now
      BY <3>1, <3>2
    <3>4. [kind |-> "on", act |-> r.act, due |-> tOn[r.act]] \in DueRows
      BY <2>3, <3>3 DEF DueRows
    <3> QED
      BY <3>1, <3>2, <3>4
  <2> QED
    BY <1>1, <1>2, <1>5, <2>1, <2>2, <2>3 DEF KnownRows, OnFirst
<1>8. ASSUME NEW r \in todo, PassOver(r) PROVE Goal
  <2>1. /\ todo' = todo \ {r} /\ tries' = tries /\ pc = "rows" /\ pc' = "rows" /\ cmdOn' = cmdOn
        /\ tries[<<r.kind, r.act>>] > 0 \/ ~CmdExists(<<r.kind, r.act>>)
    BY <1>8 DEF PassOver, tableVars, Reliable
  <2>2. ASSUME r.kind = "on" PROVE r.act \notin cmdOn
    <3>1. tries[<<"on", r.act>>] = 0
      BY <1>1 DEF InOrder, NoOnTries, Row
    <3> QED
      BY <2>1, <2>2, <3>1 DEF CmdExists
  <2> QED
    BY <1>1, <1>2, <1>5, <2>1, <2>2 DEF InOrder, KnownRows, OnFirst, OnInHand
<1>9. ASSUME NEW r \in todo, TakeUp(r) PROVE Goal
  <2>1. r.kind \in {"on", "off"}
    BY <1>1 DEF Row
  <2>2. /\ todo' = todo \ {r} /\ tries' = tries /\ pc = "rows" /\ pc' = r.kind /\ cur' = r.act
        /\ cmdOn' = cmdOn
    BY <1>9 DEF TakeUp, tableVars
  <2> QED
    BY <1>1, <1>2, <1>5, <2>1, <2>2 DEF InOrder, KnownRows, OnFirst, OnInHand
<1>10. CASE EndPass
  BY <1>1, <1>4, <1>10 DEF EndPass, InOrder, NoOnTries, Command
<1>11. CASE OnRefused
  <2>1. cur \notin cmdOn'
    BY <1>11 DEF OnRefused, Recorded, Raised, CommitLost, Reliable, tableVars,
                 DB!CommandOnRefused, DB!Archive, DB!Remove
  <2> QED
    BY <1>4, <1>5, <1>11, <2>1 DEF OnRefused
<1>12. CASE OnSent
  BY <1>4, <1>5, <1>12 DEF OnSent
<1>13. CASE OnDone \/ OnFailed
  <2>1. cur \notin cmdOn'
    BY <1>13 DEF OnDone, OnFailed, Raised, CommitLost, Reliable, tableVars, DB!CommandOnDone,
                 DB!CommandOnFailed
  <2>2. todo' = todo /\ pc' # "forceBlind" /\ (UNCHANGED tries \/ Forget(<<"on", cur>>))
    BY <1>13 DEF OnDone, OnFailed, Raised, CommitLost, Reliable
  <2> QED
    BY <1>4, <1>5, <2>1, <2>2 DEF Forget
<1>14. CASE OffRead \/ OffConfirmed \/ ForceLeave \/ ForceOff \/ AllOffConfirmed \/ AllOffUnconfirmed
  <2>1. todo' = todo /\ tries' = tries /\ ~Holds /\ pc' # "forceBlind"
    BY <1>14 DEF OffRead, OffConfirmed, ForceLeave, ForceOff, AllOffConfirmed, AllOffUnconfirmed, AllOff
  <2> QED
    BY <1>4, <1>5, <2>1
<1>15. CASE OffSuperseded \/ OffUnconfirmed \/ OffDone \/ OffByAllOff
  <2>1. todo' = todo /\ ~Holds /\ pc' # "forceBlind"
        /\ (UNCHANGED tries \/ Forget(<<"off", cur>>) \/ Failed(<<"off", cur>>))
    BY <1>15 DEF OffSuperseded, OffUnconfirmed, OffDone, OffByAllOff
  <2> QED
    BY <1>4, <1>5, <2>1 DEF Forget, Failed
<1>16. CASE ReaffirmRead
  BY <1>4, <1>5, <1>16 DEF ReaffirmRead
<1>17. ASSUME NEW v \in again, TurnBackOn(v) PROVE Goal
  BY <1>4, <1>5, <1>17 DEF TurnBackOn
<1>18. CASE Crash
  BY <1>18 DEF Crash, KnownRows, OnFirst, NoOnTries, Command
<1>19. CASE Client \/ Tick
  BY <1>1, <1>4, <1>5, <1>19 DEF Client, Tick, InOrder, NoOnTries
<1> QED
  BY <1>6, <1>7, <1>8, <1>9, <1>10, <1>11, <1>12, <1>13, <1>14, <1>15, <1>16, <1>17, <1>18, <1>19
  DEF Next, Thread

(* The clients leave the runs which are on, with all that is known of them. *)
LEMMA ClientShould ==
  ASSUME QuietClients, DB!TypeOK, Client
  PROVE  ShouldBeOn' \subseteq ShouldBeOn
<1> DEFINE Same == \A a \in DB!Running : (a \in unconfirmed' <=> a \in unconfirmed) /\ tOff'[a] = tOff[a]
<1>1. cmdOn \subseteq action /\ action \subseteq used /\ used \subseteq Act
  BY DEF DB!TypeOK
<1>2. ASSUME NEW D, D \subseteq cmdOn, DB!Remove(D) PROVE now' = now => Same
  BY <1>1, <1>2 DEF DB!Remove, DB!Put, DB!Running
<1>3. Same /\ now' = now
  <2>1. CASE DB!Scheduler
    <3>1. PICK min \in 0 .. MaxTime, D \in SUBSET DB!PendingOn(DB!Station), N \in SUBSET (Act \ used) :
            \E slot \in [N -> DB!Slots(min)] : DB!Rebuild(min, D, N, slot)
      BY <2>1 DEF DB!Scheduler
    <3>2. /\ unconfirmed' = unconfirmed \ D /\ now' = now
          /\ \A a \in Act \ (D \cup N) : tOff'[a] = tOff[a]
      BY <3>1 DEF DB!Rebuild, DB!Replace
    <3>3. N \cap used = {} /\ D \subseteq cmdOn
      BY <3>1 DEF DB!PendingOn
    <3> QED
      BY <1>1, <3>2, <3>3 DEF DB!Running
  <2>2. ASSUME NEW a \in cmdOn, DB!MonitorPendingRemove(a) PROVE Same /\ now' = now
    BY <1>2, <2>2 DEF DB!MonitorPendingRemove
  <2>3. CASE DB!MonitorClearAll
    BY <1>2, <2>3 DEF DB!MonitorClearAll
  <2> QED
    BY <2>1, <2>2, <2>3 DEF Client, QuietClients
<1>4. DB!Running' \subseteq DB!Running
  BY ClientRuns DEF QuietClients
<1> QED
  BY <1>3, <1>4 DEF ShouldBeOn

LEMMA OffStep ==
  ASSUME Reliable, QuietClients, KInv, [Next]_vars
  PROVE  OffIsRight'
<1> USE DEF Goto, NextIs, memory, row
<1> DEFINE Offs == {"off", "offSuper", "offSend", "offDone", "onDone", "onFailed"}
<1>1. /\ DB!TypeOK /\ todo \subseteq Row /\ InOrder /\ OffIsRight
      /\ cmdOn \subseteq action /\ action \subseteq used /\ used \subseteq Act
  BY DEF KInv, IInv, TypeOK, DB!TypeOK
<1>2. CASE pc' \notin Offs
  BY <1>2 DEF OffIsRight, OffOfRun, OffClosesAll, OnRemembered
<1>3. ASSUME UNCHANGED <<tableVars, cur>>, pc' = pc, onAddrs \subseteq onAddrs'
      PROVE  OffIsRight'
  BY <1>1, <1>3 DEF OffIsRight, OffOfRun, OffClosesAll, OnRemembered, ValveTried, tableVars,
                    DB!RunningOn, DB!Running
<1>4. CASE Start \/ NoDatabase \/ DatabaseBack \/ RetryAllOff \/ Reaffirmed \/ DoPending \/ EndPass
  BY <1>2, <1>4 DEF Start, NoDatabase, DatabaseBack, RetryAllOff, Reaffirmed, DoPending, EndPass
<1>5. CASE Wait \/ UNCHANGED vars
  BY <1>3, <1>5 DEF Wait, vars
<1>6. ASSUME NEW r \in todo, PassOver(r) PROVE OffIsRight'
  BY <1>2, <1>6 DEF PassOver
<1>7. ASSUME NEW r \in todo, TakeUp(r) PROVE OffIsRight'
  <2>1. CASE r.kind = "on"
    BY <1>2, <1>7, <2>1 DEF TakeUp
  <2>2. CASE r.kind = "off"
    <3>1. First(r) /\ pc = "rows" /\ pc' = "off" /\ cur' = r.act /\ UNCHANGED tableVars
          /\ r.act \in action
      BY <1>7, <2>2 DEF TakeUp, CmdExists
    <3>2. r.act \notin cmdOn
      <4> SUFFICES ASSUME r.act \in cmdOn PROVE FALSE
        OBVIOUS
      <4>1. PICK s \in todo : s.due < r.due
        BY <1>1, <2>2, <3>1 DEF InOrder, OnFirst, OnInHand
      <4> QED
        BY <3>1, <4>1 DEF First, Before
    <3> QED
      BY <3>1, <3>2 DEF OffIsRight, OffOfRun, OffClosesAll, OnRemembered, tableVars, DB!Running
  <2>3. r.kind \in {"on", "off"}
    BY <1>1 DEF Row
  <2> QED
    BY <2>1, <2>2, <2>3
<1>8. CASE OnRefused \/ OffSuperseded \/ OffUnconfirmed \/ OffDone \/ OffByAllOff \/ ForceLeave \/ ForceOff
  BY <1>2, <1>8 DEF OnRefused, OffSuperseded, OffUnconfirmed, OffDone, OffByAllOff, ForceLeave, ForceOff
<1>9. CASE OnSent
  BY <1>9 DEF OnSent, OffIsRight, OffOfRun, OffClosesAll, OnRemembered, ValveTried
<1>10. CASE OnDone
  BY <1>2, <1>10 DEF OnDone, Raised, Reliable
<1>11. CASE OnFailed
  <2>1. CASE pc' = "off"
    <3>1. PICK began : cur \in cmdOn /\ DB!CommandOnFailed(cur, began)
      BY <1>11, <2>1 DEF OnFailed, Raised, CommitLost, Reliable
    <3>2. cur' = cur /\ cur \in DB!Running'
      BY <1>1, <1>11, <2>1, <3>1 DEF OnFailed, DB!CommandOnFailed, DB!Running
    <3> QED
      BY <2>1, <3>2 DEF OffIsRight, OffOfRun, OffClosesAll, OnRemembered
  <2> QED
    BY <1>2, <1>11, <2>1 DEF OnFailed, Raised, Reliable
<1>12. CASE OffRead
  <2>1. UNCHANGED tableVars /\ cur' = cur /\ cur \in DB!Running /\ pc' \in {"offSuper", "offSend"}
    BY <1>1, <1>12 DEF OffRead, OffIsRight, OffOfRun
  <2>2. ASSUME pc' = "offSend", NEW b \in DB!RunningOn({ValveTried}) \ {cur} PROVE tOn[b] < offAt[cur]
    <3>1. ~(tOn[b] >= offAt[cur])
      BY <1>12, <2>1, <2>2 DEF OffRead, Superseded, Reliable, DB!Running
    <3>2. tOn[b] \in Nat /\ offAt[cur] \in Int
      BY <1>1, <2>1, <2>2 DEF DB!TypeOK, DB!NoTime, DB!Running, DB!RunningOn
    <3> QED
      BY <3>1, <3>2
  <2> QED
    BY <2>1, <2>2 DEF OffIsRight, OffOfRun, OffClosesAll, OnRemembered, ValveTried, tableVars,
                      DB!RunningOn, DB!Running
<1>13. CASE OffConfirmed
  BY <1>1, <1>13 DEF OffConfirmed, OffIsRight, OffOfRun, OffClosesAll, OnRemembered, ValveTried, tableVars,
                     DB!RunningOn, DB!Running
<1>14. CASE AllOffConfirmed \/ AllOffUnconfirmed \/ ReaffirmRead
  BY <1>2, <1>14 DEF AllOffConfirmed, AllOffUnconfirmed, ReaffirmRead
<1>15. ASSUME NEW v \in again, TurnBackOn(v) PROVE OffIsRight'
  BY <1>3, <1>15 DEF TurnBackOn
<1>16. CASE Crash
  BY <1>2, <1>16 DEF Crash
<1>17. CASE Client
  <2>1. RunsStand /\ DB!Running' \subseteq DB!Running
    BY <1>1, <1>17, ClientStands, ClientRuns DEF QuietClients
  <2>2. \A a \in DB!Running : tOn'[a] = tOn[a] /\ offAt'[a] = offAt[a]
    BY <1>1, <2>1 DEF RunsStand, DB!Running
  <2>3. UNCHANGED <<pc, cur, onAddrs>>
    BY <1>17 DEF Client
  <2> QED
    BY <1>1, <2>1, <2>2, <2>3 DEF RunsStand, OffIsRight, OffOfRun, OffClosesAll, OnRemembered,
                                  ValveTried, DB!RunningOn
<1>18. CASE Tick
  BY <1>1, <1>18 DEF Tick, DB!Tick, DB!tableVars, OffIsRight, OffOfRun, OffClosesAll, OnRemembered,
                     ValveTried, DB!RunningOn, DB!Running
<1> QED
  BY <1>4, <1>5, <1>6, <1>7, <1>8, <1>9, <1>10, <1>11, <1>12, <1>13, <1>14, <1>15, <1>16, <1>17, <1>18
  DEF Next, Thread

LEMMA StillOnStep ==
  ASSUME Reliable, QuietClients, KInv, [Next]_vars
  PROVE  StillOn'
<1> USE DEF Goto, NextIs, memory, row
<1> DEFINE Elsewhere == AllOff \cup {"down", "offByAllOff", "reaffirm", "again"}
<1>1. /\ DB!TypeOK /\ DB!OffMatchesAction /\ InOrder /\ OffIsRight /\ StillOn
      /\ cmdOn \subseteq action /\ action \subseteq used /\ used \subseteq Act
  BY DEF KInv, IInv, TypeOK, DB!TypeOK
<1>2. CASE pc' \in Elsewhere \ {"again"}
  BY <1>2 DEF StillOn, AllOff
<1>3. CASE pc' # "again" /\ (allOffDue' \/ reaffirmDue')
  BY <1>3 DEF StillOn
(* Nothing which should be on is added, and no valve is turned off. *)
<1>4. ASSUME ShouldBeOn' \subseteq ShouldBeOn, onAddrs \subseteq onAddrs', pc' # "again",
             pc' \in Elsewhere \/ pc \notin Elsewhere, pc = "offDone" => pc' = pc /\ cur' = cur,
             UNCHANGED <<allOffDue, reaffirmDue>>
      PROVE  StillOn'
  BY <1>1, <1>4 DEF StillOn, ValveTried
<1>5. ASSUME UNCHANGED tableVars PROVE ShouldBeOn' = ShouldBeOn
  BY <1>5 DEF tableVars, ShouldBeOn, DB!Running
<1>6. ASSUME NEW D, DB!Archive(D) PROVE ShouldBeOn' \subseteq ShouldBeOn
  <2>1. /\ DB!Running' \subseteq DB!Running /\ now' = now
        /\ \A a \in DB!Running' : a \notin D
        /\ unconfirmed' = unconfirmed \ D
        /\ \A a \in Act \ D : tOff'[a] = tOff[a]
    BY <1>1, <1>6 DEF DB!Archive, DB!Remove, DB!Put, DB!Running
  <2> QED
    BY <1>1, <2>1 DEF ShouldBeOn, DB!Running
<1>7. CASE Start \/ RetryAllOff \/ DatabaseBack
  BY <1>2, <1>7 DEF Start, RetryAllOff, DatabaseBack, AllOff
<1>8. CASE NoDatabase
  BY <1>2, <1>4, <1>5, <1>8 DEF NoDatabase, AllOff
<1>9. CASE Wait \/ UNCHANGED vars
  BY <1>1, <1>5, <1>9 DEF Wait, vars, StillOn, ValveTried
<1>10. CASE DoPending \/ EndPass
  BY <1>4, <1>5, <1>10 DEF DoPending, EndPass, AllOff
<1>11. ASSUME NEW r \in todo, PassOver(r) \/ TakeUp(r) PROVE StillOn'
  <2>1. r.kind \in {"on", "off"}
    BY DEF KInv, IInv, TypeOK, Row
  <2> QED
    BY <1>4, <1>5, <1>11, <2>1 DEF PassOver, TakeUp, AllOff
<1>12. CASE OnRefused
  <2>1. ShouldBeOn' \subseteq ShouldBeOn
    BY <1>5, <1>6, <1>12 DEF OnRefused, Recorded, Raised, CommitLost, Reliable, DB!CommandOnRefused
  <2> QED
    BY <1>4, <1>12, <2>1 DEF OnRefused, AllOff
<1>13. CASE OnSent \/ OffRead \/ ForceLeave
  BY <1>4, <1>5, <1>13 DEF OnSent, OffRead, ForceLeave, AllOff
<1>14. CASE OnDone \/ OnFailed
  <2>1. CASE UNCHANGED tableVars
    BY <1>4, <1>5, <1>14, <2>1 DEF OnDone, OnFailed, AllOff
  <2>2. ASSUME NEW t, DB!CommandOnDone(cur, t) \/ DB!CommandOnFailed(cur, t) PROVE StillOn'
    <3>1. /\ DB!Running' \subseteq DB!Running \cup {cur} /\ now' = now
          /\ \A a \in DB!Running : a # cur /\ tOff'[a] = tOff[a] /\ (a \in unconfirmed' <=> a \in unconfirmed)
      BY <1>1, <2>2 DEF DB!CommandOnDone, DB!CommandOnFailed, DB!Retime, DB!Put, DB!Running
    <3>2. ShouldBeOn' \subseteq ShouldBeOn \cup {ValveTried}
      BY <3>1 DEF ShouldBeOn, ValveTried
    <3>3. ValveTried \in onAddrs /\ pc \in {"onDone", "onFailed"}
      BY <1>1, <1>14 DEF OnDone, OnFailed, OffIsRight, OnRemembered
    <3>4. pc' \in {"rows", "off", "onFailed", "force", "forceBlind"}
          /\ UNCHANGED <<onAddrs, allOffDue, reaffirmDue>>
      BY <1>14 DEF OnDone, OnFailed
    <3> QED
      BY <1>1, <3>2, <3>3, <3>4 DEF StillOn, AllOff
  <2> QED
    BY <1>14, <2>1, <2>2 DEF OnDone, OnFailed, Raised, CommitLost, Reliable
<1>15. CASE OffSuperseded
  <2>1. ShouldBeOn' \subseteq ShouldBeOn
    BY <1>5, <1>6, <1>15 DEF OffSuperseded, OffRecorded, Recorded, Raised, CommitLost, Reliable,
                             DB!CommandOffDone
  <2> QED
    BY <1>4, <1>15, <2>1 DEF OffSuperseded, AllOff
<1>16. CASE OffConfirmed
  BY <1>1, <1>5, <1>16 DEF OffConfirmed, StillOn, ValveTried, AllOff
<1>17. CASE OffUnconfirmed
  BY <1>2, <1>4, <1>5, <1>17 DEF OffUnconfirmed, AllOff
<1>18. CASE OffDone
  <2>1. cur \in DB!Running /\ pc = "offDone"
    BY <1>1, <1>18 DEF OffDone, OffIsRight, OffOfRun
  <2>2. DB!CommandOffDone(cur)
    BY <1>18, <2>1 DEF OffDone, OffRecorded, Recorded, Raised, CommitLost, Reliable, DB!Running
  <2>3. ShouldBeOn' \subseteq ShouldBeOn
    BY <1>6, <2>2 DEF DB!CommandOffDone
  <2>4. \A b \in DB!RunningOn({ValveTried}) : b \in DB!ClosedBy(cur)
    <3>1. \A b \in action : offAt[b] \in Nat
      BY <1>1 DEF DB!OffMatchesAction, DB!TypeOK
    <3> QED
      BY <1>1, <2>1, <3>1 DEF OffIsRight, OffClosesAll, DB!ClosedBy, DB!RunningOn, DB!Running,
                              DB!NoTime, ValveTried
  <2>5. ValveTried \notin ShouldBeOn'
    <3>1. action' = action \ DB!ClosedBy(cur) /\ cmdOn' = cmdOn \ DB!ClosedBy(cur)
      BY <2>2 DEF DB!CommandOffDone, DB!Archive, DB!Remove
    <3> QED
      BY <2>4, <3>1 DEF ShouldBeOn, DB!RunningOn, DB!Running
  <2>6. pc' = "rows" /\ UNCHANGED <<onAddrs, allOffDue, reaffirmDue>>
    BY <1>18 DEF OffDone
  <2> QED
    BY <1>1, <2>1, <2>3, <2>5, <2>6 DEF StillOn, AllOff
<1>19. CASE OffByAllOff
  BY <1>2, <1>19 DEF OffByAllOff
<1>20. CASE ForceOff
  <2>1. CASE pc' = "rows"
    <3>1. pc = "force" /\ DB!RunningOn({ValveTried}) = {}
      BY <1>1, <1>20 DEF ForceOff, Reliable, InOrder, NoOnTries
    <3>2. ValveTried \notin ShouldBeOn /\ ShouldBeOn' = ShouldBeOn
      BY <1>5, <1>20, <3>1 DEF ForceOff, ShouldBeOn, DB!RunningOn
    <3>3. onAddrs \ {ValveTried} \subseteq onAddrs' /\ UNCHANGED <<allOffDue, reaffirmDue>>
      BY <1>20 DEF ForceOff
    <3> QED
      BY <1>1, <2>1, <3>1, <3>2, <3>3 DEF StillOn, AllOff
  <2>2. CASE pc' = "forceAllOff"
    BY <1>2, <2>2 DEF AllOff
  <2> QED
    BY <1>20, <2>1, <2>2 DEF ForceOff
<1>21. CASE AllOffConfirmed
  BY <1>2, <1>3, <1>21 DEF AllOffConfirmed, AllOff
<1>22. CASE AllOffUnconfirmed
  BY <1>3, <1>22 DEF AllOffUnconfirmed
<1>23. CASE ReaffirmRead
  BY <1>5, <1>23 DEF ReaffirmRead, Reliable, StillOn
<1>24. ASSUME NEW v \in again, TurnBackOn(v) PROVE StillOn'
  BY <1>1, <1>5, <1>24 DEF TurnBackOn, StillOn
<1>25. CASE Reaffirmed
  <2>1. ShouldBeOn' = ShouldBeOn
    BY <1>5, <1>25 DEF Reaffirmed
  <2> QED
    BY <1>1, <1>25, <2>1 DEF Reaffirmed, StillOn
<1>26. CASE Crash
  BY <1>2, <1>26 DEF Crash
<1>27. CASE Client \/ Tick
  <2>1. ShouldBeOn' \subseteq ShouldBeOn
    <3>1. CASE Client
      BY <1>1, <3>1, ClientShould
    <3>2. CASE Tick
      <4>1. /\ DB!Running' = DB!Running /\ now' = now + 1 /\ UNCHANGED <<tOff, unconfirmed>>
            /\ now \in Nat /\ Margin \in Nat /\ \A a \in DB!Running : tOff[a] \in Nat
        BY <1>1, <3>2, ValveAssumption DEF Tick, DB!Tick, DB!tableVars, DB!Running, DB!TypeOK
      <4> QED
        BY <4>1 DEF ShouldBeOn
    <3> QED
      BY <1>27, <3>1, <3>2
  <2>2. UNCHANGED <<pc, memory>>
    BY <1>27 DEF Client, Tick
  <2> QED
    BY <1>1, <2>1, <2>2 DEF StillOn, ValveTried
<1> QED
  BY <1>7, <1>8, <1>9, <1>10, <1>11, <1>12, <1>13, <1>14, <1>15, <1>16, <1>17, <1>18, <1>19, <1>20,
     <1>21, <1>22, <1>23, <1>24, <1>25, <1>26, <1>27 DEF Next, Thread

(* A run which is on stays on until it is off: whatever is not confirmed,  *)
(* however long the database is away and whenever the process dies, the    *)
(* thread does not silently leave off the valve of a run which is not due  *)
(* off (TDIvalve.py:358, 435, 530, 554).  Here this holds of a master valve too.*)
THEOREM RunsAreKeptOn ==
  ASSUME Reliable, QuietClients
  PROVE  Spec => []KeptOn
<1>1. Init => KInv
  <2> SUFFICES ASSUME Init PROVE KInv
    OBVIOUS
  <2>1. InOrder /\ OffIsRight
    BY DEF Init, DB!Init, InOrder, PendingTimed, KnownRows, NoOnTries, OnFirst, OffIsRight,
           OffOfRun, OffClosesAll, OnRemembered, Command
  <2> QED
    BY <2>1, IInvInit DEF KInv, Init, StillOn
<1>2. KInv /\ [Next]_vars => KInv'
  BY IInvStep, OrderStep, OffStep, StillOnStep DEF KInv
<1>3. KInv => KeptOn
  BY DEF KInv, StillOn, KeptOn, BeingTried
<1> QED
  BY <1>1, <1>2, <1>3, PTL DEF Spec
===============================================================================
