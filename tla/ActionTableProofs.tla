-------------------------- MODULE ActionTableProofs --------------------------
(***************************************************************************)
(* Proofs that the tables keep their type, that both records of the end of *)
(* a run agree, that no run reaches into the next one of its valve, that a *)
(* run is written to the history once, and that the tables implement       *)
(* RunLedger, for any set of valves and any number of runs.                *)
(***************************************************************************)
EXTENDS ActionTable, TLAPS

(* GREATEST of two times is a time, and no earlier than either. *)
LEMMA LaterIsTime ==
  ASSUME NEW s \in Nat, NEW t \in Nat
  PROVE  Later(s, t) \in Nat /\ Later(s, t) >= s /\ Later(s, t) >= t
BY DEF Later

(* Writing times into a column keeps its type. *)
LEMMA PutType ==
  ASSUME NEW X, NEW f \in [Act -> X], NEW S, NEW x \in X
  PROVE  Put(f, S, x) \in [Act -> X]
BY DEF Put

(* The end which command_on_done gives a run is a time. *)
LEMMA OnEndsTime ==
  ASSUME TypeOK, NEW a \in Act, NEW t \in Nat, tOn[a] <= t, NEW end \in OnEnds(a, t)
  PROVE  end \in Nat
<1>1. tOff[a] \in Nat /\ tOn[a] \in Nat
  BY DEF TypeOK
<1>2. t + (tOff[a] - tOn[a]) \in Nat
  BY <1>1
<1>3. FullEnd(a, t) \in Nat
  BY <1>1, <1>2, LaterIsTime DEF FullEnd
<1>4. ASSUME NEW s \in Earliest(NextOns(a)) PROVE Later(s, t + 1) \in Nat
  <2>1. s \in Nat /\ t + 1 \in Nat
    BY DEF Earliest, NextOns, PendingOn, TypeOK
  <2> QED
    BY <2>1, LaterIsTime
<1> QED
  BY <1>3, <1>4 DEF OnEnds
------------------------------------------------------------------------------
(* Deleting rows keeps the types of the columns. *)
LEMMA RemoveType ==
  ASSUME TypeOK, NEW D, Remove(D)
  PROVE  /\ action' \subseteq action
         /\ cmdOn' \subseteq action'
         /\ tOn' \in [Act -> Nat] /\ tOff' \in [Act -> Nat]
         /\ offAt' \in [Act -> Nat \cup {NoTime}]
         /\ unconfirmed' \subseteq action'
<1>1. tOn' \in [Act -> Nat] /\ tOff' \in [Act -> Nat]
  BY PutType DEF TypeOK, Remove
<1>2. offAt' \in [Act -> Nat \cup {NoTime}]
  BY PutType DEF TypeOK, Remove
<1> QED
  BY <1>1, <1>2 DEF TypeOK, Remove

LEMMA ArchiveType ==
  ASSUME TypeOK, NEW D, Archive(D)
  PROVE  TypeOK'
<1>1. historical' \in [Act -> Nat]
  BY DEF TypeOK, Archive
<1> QED
  BY <1>1, RemoveType DEF TypeOK, Archive

(* Moving the ends of rows keeps the types of the columns. *)
LEMMA RetimeType ==
  ASSUME TypeOK, NEW S, NEW end \in Nat, Retime(S, end)
  PROVE  tOff' \in [Act -> Nat] /\ offAt' \in [Act -> Nat \cup {NoTime}]
<1>1. tOff' \in [Act -> Nat]
  BY PutType DEF TypeOK, Retime
<1>2. end \in Nat \cup {NoTime}
  OBVIOUS
<1>3. offAt' \in [Act -> Nat \cup {NoTime}]
  BY <1>2, PutType DEF TypeOK, Retime
<1> QED
  BY <1>1, <1>3

LEMMA PocOffType ==
  ASSUME TypeOK, NEW end \in Nat, NEW R, NEW N, PocOff(end, R, N)
  PROVE  TypeOK'
<1> DEFINE D == PocDropped(end)
           E == RunningOn(Station)
<1>1. N \subseteq Act
  BY DEF PocOff, OnePerMaster
<1>2. now \in Nat /\ now \in Nat \cup {NoTime} /\ end \in Nat \cup {NoTime}
      /\ NoTime \in Nat \cup {NoTime} /\ 0 \in Nat
  BY DEF TypeOK
<1>3. tOn' \in [Act -> Nat]
  <2>1. Put(tOn, D, 0) \in [Act -> Nat]
    BY <1>2, PutType DEF TypeOK
  <2>2. Put(Put(tOn, D, 0), N, now) \in [Act -> Nat]
    BY <2>1, <1>2, PutType
  <2> QED
    BY <2>2 DEF PocOff
<1>4. tOff' \in [Act -> Nat]
  <2>1. Put(tOff, D, 0) \in [Act -> Nat]
    BY <1>2, PutType DEF TypeOK
  <2>2. Put(Put(tOff, D, 0), E, now) \in [Act -> Nat]
    BY <2>1, <1>2, PutType
  <2>3. Put(Put(Put(tOff, D, 0), E, now), R \cup N, end) \in [Act -> Nat]
    BY <2>2, PutType
  <2> QED
    BY <2>3 DEF PocOff
<1>5. offAt' \in [Act -> Nat \cup {NoTime}]
  <2>1. Put(offAt, D, NoTime) \in [Act -> Nat \cup {NoTime}]
    BY <1>2, PutType DEF TypeOK
  <2>2. Put(Put(offAt, D, NoTime), E, now) \in [Act -> Nat \cup {NoTime}]
    BY <2>1, <1>2, PutType
  <2>3. Put(Put(Put(offAt, D, NoTime), E, now), R \cup N, end) \in [Act -> Nat \cup {NoTime}]
    BY <2>2, <1>2, PutType
  <2> QED
    BY <2>3 DEF PocOff
<1>6. /\ used' = used \cup N /\ action' = (action \ D) \cup N /\ cmdOn' = (cmdOn \ D) \cup N
      /\ unconfirmed' = unconfirmed \ D /\ historical' = historical /\ now' = now
  BY DEF PocOff
<1> QED
  BY <1>1, <1>3, <1>4, <1>5, <1>6 DEF TypeOK

LEMMA PocOnType ==
  ASSUME TypeOK, PocOn
  PROVE  TypeOK'
<1> DEFINE D == PendingOn(Master)
           E == RunningOn(Master)
<1>1. now \in Nat /\ now \in Nat \cup {NoTime} /\ NoTime \in Nat \cup {NoTime} /\ 0 \in Nat
  BY DEF TypeOK
<1>2. tOn' \in [Act -> Nat]
  BY <1>1, PutType DEF TypeOK, PocOn
<1>3. tOff' \in [Act -> Nat]
  <2>1. Put(tOff, D, 0) \in [Act -> Nat]
    BY <1>1, PutType DEF TypeOK
  <2> QED
    BY <2>1, <1>1, PutType DEF PocOn
<1>4. offAt' \in [Act -> Nat \cup {NoTime}]
  <2>1. Put(offAt, D, NoTime) \in [Act -> Nat \cup {NoTime}]
    BY <1>1, PutType DEF TypeOK
  <2> QED
    BY <2>1, <1>1, PutType DEF PocOn
<1>5. /\ used' = used /\ action' = action \ D /\ cmdOn' = cmdOn \ D
      /\ unconfirmed' = unconfirmed \ D /\ historical' = historical /\ now' = now
  BY DEF PocOn
<1> QED
  BY <1>2, <1>3, <1>4, <1>5 DEF TypeOK

(* The rows of a plan in the place of others. *)
LEMMA ReplaceType ==
  ASSUME TypeOK, NEW D, NEW N, N \subseteq Act, NEW slot,
         \A a \in N : slot[a][1] \in Nat /\ slot[a][2] \in Nat, Replace(D, N, slot)
  PROVE  TypeOK'
<1>1. tOn' \in [Act -> Nat] /\ tOff' \in [Act -> Nat] /\ offAt' \in [Act -> Nat \cup {NoTime}]
  BY DEF Replace, TypeOK
<1>2. /\ used' = used \cup N /\ action' = (action \ D) \cup N /\ cmdOn' = (cmdOn \ D) \cup N
      /\ unconfirmed' = unconfirmed \ D /\ historical' = historical /\ now' = now
  BY DEF Replace
<1> QED
  BY <1>1, <1>2 DEF TypeOK

LEMMA RebuildType ==
  ASSUME TypeOK, NEW min \in Nat, NEW D, NEW N, NEW slot, Rebuild(min, D, N, slot)
  PROVE  TypeOK'
<1>1. N \subseteq Act /\ slot \in [N -> Slots(min)] /\ Replace(D, N, slot)
  BY DEF Rebuild
<1>2. \A a \in N : slot[a][1] \in Nat /\ slot[a][2] \in Nat
  BY <1>1, TableAssumption DEF Slots
<1> QED
  BY <1>1, <1>2, ReplaceType
------------------------------------------------------------------------------
(* Every transaction, and the clock, keeps the type of the tables. *)
LEMMA TypeStep ==
  ASSUME TypeOK, [Next]_vars
  PROVE  TypeOK'
<1>1. CASE Tick
  BY <1>1 DEF TypeOK, Tick, tableVars
<1>2. ASSUME NEW a \in Act, NEW t \in 0 .. now, CommandOnDone(a, t) PROVE TypeOK'
  <2>1. t \in Nat /\ tOn[a] <= t
    BY <1>2 DEF TypeOK, CommandOnDone
  <2>2. PICK end \in OnEnds(a, t) : Retime({a}, end)
    BY <1>2 DEF CommandOnDone
  <2>3. end \in Nat
    BY <2>1, OnEndsTime
  <2>4. tOff' \in [Act -> Nat] /\ offAt' \in [Act -> Nat \cup {NoTime}]
    BY <2>2, <2>3, RetimeType
  <2>5. tOn' \in [Act -> Nat]
    BY <1>2, <2>1, PutType DEF TypeOK, CommandOnDone
  <2> QED
    BY <1>2, <2>4, <2>5 DEF TypeOK, CommandOnDone
<1>3. ASSUME NEW a \in Act, NEW began \in 0 .. now, CommandOnFailed(a, began) PROVE TypeOK'
  <2>1. began \in Nat /\ tOn[a] + 1 \in Nat
    BY DEF TypeOK
  <2>2. Later(began, tOn[a] + 1) \in Nat
    BY <2>1, LaterIsTime
  <2>3. tOff' \in [Act -> Nat] /\ offAt' \in [Act -> Nat \cup {NoTime}]
    BY <1>3, <2>2, RetimeType DEF CommandOnFailed
  <2> QED
    BY <1>3, <2>3 DEF TypeOK, CommandOnFailed
<1>4. ASSUME NEW a \in Act, CommandOnRefused(a) \/ CommandOffDone(a) PROVE TypeOK'
  BY <1>4, ArchiveType DEF CommandOnRefused, CommandOffDone
<1>5. ASSUME NEW S, ManualOffRows(S) PROVE TypeOK'
  <2>1. now \in Nat
    BY DEF TypeOK
  <2>2. tOff' \in [Act -> Nat] /\ offAt' \in [Act -> Nat \cup {NoTime}]
    BY <1>5, <2>1, RetimeType DEF ManualOffRows
  <2> QED
    BY <1>5, <2>2 DEF TypeOK, ManualOffRows
<1>6. ASSUME NEW D, Remove(D), UNCHANGED <<now, used, historical>> PROVE TypeOK'
  BY <1>6, RemoveType DEF TypeOK
<1>7. ASSUME NEW end \in 1 .. MaxTime, NEW R, NEW N, PocOff(end, R, N) PROVE TypeOK'
  <2>1. end \in Nat
    BY TableAssumption
  <2> QED
    BY <1>7, <2>1, PocOffType
<1>8. CASE PocOn
  BY <1>8, PocOnType
<1>9. ASSUME NEW min \in 0 .. MaxTime, NEW D, NEW N, NEW slot, Rebuild(min, D, N, slot)
      PROVE  TypeOK'
  <2>1. min \in Nat
    BY TableAssumption
  <2> QED
    BY <1>9, <2>1, RebuildType
<1>10. CASE UNCHANGED vars
  BY <1>10 DEF TypeOK, vars
<1>11. CASE ValveThread
  BY <1>2, <1>3, <1>4, <1>11 DEF ValveThread
<1>12. CASE WebPages
  BY <1>5, <1>6, <1>7, <1>8, <1>12
     DEF WebPages, ManualOff, ManualAllOff, MonitorPendingRemove, MonitorClearAll
<1>13. CASE Scheduler
  BY <1>9, <1>13 DEF Scheduler
<1> QED
  BY <1>1, <1>10, <1>11, <1>12, <1>13 DEF Next

LEMMA TypeInit == Init => TypeOK
BY DEF Init, TypeOK

(* The tables keep their type: rows have commands only while they exist,   *)
(* ids are not used twice, and times stay times.                           *)
THEOREM TypeCorrect == Spec => []TypeOK
<1>1. TypeOK /\ [Next]_vars => TypeOK'
  BY TypeStep
<1> QED
  BY <1>1, TypeInit, PTL DEF Spec
------------------------------------------------------------------------------
LEMMA RemoveMatches ==
  ASSUME TypeOK, OffMatchesAction, NEW D, Remove(D)
  PROVE  OffMatchesAction'
BY DEF TypeOK, OffMatchesAction, Remove, Put

LEMMA RetimeMatches ==
  ASSUME TypeOK, OffMatchesAction, NEW S, S \subseteq action, NEW end, Retime(S, end),
         action' = action
  PROVE  OffMatchesAction'
BY DEF TypeOK, OffMatchesAction, Retime, Put

LEMMA ReplaceMatches ==
  ASSUME OffMatchesAction, NEW D, NEW N, NEW slot, Replace(D, N, slot)
  PROVE  OffMatchesAction'
<1>1. ASSUME NEW a \in Act PROVE offAt'[a] = IF a \in action' THEN tOff'[a] ELSE NoTime
  BY DEF Replace, OffMatchesAction
<1> QED
  BY <1>1 DEF OffMatchesAction

LEMMA MatchesStep ==
  ASSUME TypeOK, OffMatchesAction, [Next]_vars
  PROVE  OffMatchesAction'
<1>1. CASE Tick
  BY <1>1 DEF OffMatchesAction, Tick, tableVars
<1>2. ASSUME NEW a \in Act, NEW t \in 0 .. now, CommandOnDone(a, t) PROVE OffMatchesAction'
  <2>1. {a} \subseteq action /\ action' = action
    BY <1>2 DEF TypeOK, CommandOnDone
  <2> QED
    BY <1>2, <2>1, RetimeMatches DEF CommandOnDone
<1>3. ASSUME NEW a \in Act, NEW began \in 0 .. now, CommandOnFailed(a, began)
      PROVE  OffMatchesAction'
  <2>1. {a} \subseteq action /\ action' = action
    BY <1>3 DEF TypeOK, CommandOnFailed
  <2> QED
    BY <1>3, <2>1, RetimeMatches DEF CommandOnFailed
<1>4. ASSUME NEW a \in Act, CommandOnRefused(a) \/ CommandOffDone(a) PROVE OffMatchesAction'
  BY <1>4, RemoveMatches DEF CommandOnRefused, CommandOffDone, Archive
<1>5. ASSUME NEW S, S \subseteq Running, ManualOffRows(S) PROVE OffMatchesAction'
  BY <1>5, RetimeMatches DEF ManualOffRows, Running
<1>6. ASSUME NEW D, Remove(D) PROVE OffMatchesAction'
  BY <1>6, RemoveMatches
<1>7. ASSUME NEW end \in 1 .. MaxTime, NEW R, NEW N, PocOff(end, R, N) PROVE OffMatchesAction'
  <2> DEFINE D == PocDropped(end)
             E == RunningOn(Station)
  <2>1. D \subseteq cmdOn /\ E \subseteq action \ cmdOn /\ R \subseteq action \ cmdOn /\ N \subseteq Act
    BY <1>7 DEF PocOff, PocDropped, PendingOn, RunningOn, Running, OnePerMaster
  <2>2. ASSUME NEW a \in Act PROVE offAt'[a] = IF a \in action' THEN tOff'[a] ELSE NoTime
    <3>1. offAt'[a] = IF a \in R \cup N THEN end ELSE IF a \in E THEN now
                      ELSE IF a \in D THEN NoTime ELSE offAt[a]
      BY <1>7 DEF PocOff, Put
    <3>2. tOff'[a] = IF a \in R \cup N THEN end ELSE IF a \in E THEN now
                     ELSE IF a \in D THEN 0 ELSE tOff[a]
      BY <1>7 DEF PocOff, Put
    <3>3. action' = (action \ D) \cup N
      BY <1>7 DEF PocOff
    <3> HIDE DEF D, E
    <3> QED
      BY <2>1, <3>1, <3>2, <3>3 DEF OffMatchesAction
  <2> QED
    BY <2>2 DEF OffMatchesAction
<1>8. CASE PocOn
  <2> DEFINE D == PendingOn(Master)
             E == RunningOn(Master)
  <2>1. D \subseteq cmdOn /\ E \subseteq action \ cmdOn
    BY DEF PendingOn, RunningOn, Running
  <2>2. ASSUME NEW a \in Act PROVE offAt'[a] = IF a \in action' THEN tOff'[a] ELSE NoTime
    <3>1. offAt'[a] = IF a \in E THEN now ELSE IF a \in D THEN NoTime ELSE offAt[a]
      BY <1>8 DEF PocOn, Put
    <3>2. tOff'[a] = IF a \in E THEN now ELSE IF a \in D THEN 0 ELSE tOff[a]
      BY <1>8 DEF PocOn, Put
    <3>3. action' = action \ D
      BY <1>8 DEF PocOn
    <3> HIDE DEF D, E
    <3> QED
      BY <2>1, <3>1, <3>2, <3>3 DEF OffMatchesAction
  <2> QED
    BY <2>2 DEF OffMatchesAction
<1>9. ASSUME NEW min, NEW D, NEW N, NEW slot, Rebuild(min, D, N, slot)
      PROVE  OffMatchesAction'
  BY <1>9, ReplaceMatches DEF Rebuild
<1>10. CASE UNCHANGED vars
  BY <1>10 DEF OffMatchesAction, vars
<1>11. CASE ValveThread
  BY <1>2, <1>3, <1>4, <1>11 DEF ValveThread
<1>12. CASE WebPages
  BY <1>5, <1>6, <1>7, <1>8, <1>12
     DEF WebPages, ManualOff, ManualAllOff, MonitorPendingRemove, MonitorClearAll, RunningOn
<1>13. CASE Scheduler
  BY <1>9, <1>13 DEF Scheduler
<1> QED
  BY <1>1, <1>10, <1>11, <1>12, <1>13 DEF Next

(* action.tOff and the timestamp of the off command never part, whichever   *)
(* of the writers moves the end of a run (manual_off, poc_off, poc_on,      *)
(* command_on_done, command_on_failed, the scheduler).                      *)
THEOREM OffMatches == Spec => []OffMatchesAction
<1>1. Init => OffMatchesAction
  BY DEF Init, OffMatchesAction
<1>2. TypeOK /\ OffMatchesAction /\ [Next]_vars => OffMatchesAction'
  BY MatchesStep
<1> QED
  BY <1>1, <1>2, TypeCorrect, PTL DEF Spec
------------------------------------------------------------------------------
(***************************************************************************)
(* EndsBeforeNextOn is not inductive alone: a rebuild could plan a run     *)
(* before one which is on if that had not begun yet.  Begun says it has.   *)
(***************************************************************************)
Order == TypeOK /\ Begun /\ EndsBeforeNextOn

(* The end of a late run is its full one, or that of the next on, or t + 1. *)
LEMMA OnEndsBefore ==
  ASSUME TypeOK, NEW a \in Act, NEW t \in Nat, tOn[a] <= t, NEW end \in OnEnds(a, t),
         NEW b \in cmdOn, b # a, ValveOf[a] = ValveOf[b], tOn[a] <= tOn[b]
  PROVE  end <= tOn[b] \/ end <= t + 1
<1>1. tOn[b] \in NextOns(a)
  BY DEF NextOns, PendingOn
<1>2. tOff[a] \in Nat /\ tOn[a] \in Nat /\ tOn[b] \in Nat
  BY DEF TypeOK
<1>3. CASE \A s \in NextOns(a) : s >= FullEnd(a, t)
  <2>1. end = FullEnd(a, t)
    BY <1>3 DEF OnEnds
  <2>2. FullEnd(a, t) <= tOn[b]
    <3>1. FullEnd(a, t) \in Int
      BY <1>2 DEF FullEnd, Later
    <3> QED
      BY <1>1, <1>2, <1>3, <3>1
  <2> QED
    BY <2>1, <2>2
<1>4. CASE ~ \A s \in NextOns(a) : s >= FullEnd(a, t)
  <2>1. PICK s \in Earliest(NextOns(a)) : end = Later(s, t + 1)
    BY <1>4 DEF OnEnds
  <2>2. s <= tOn[b]
    BY <1>1, <2>1 DEF Earliest
  <2> QED
    BY <2>1, <2>2 DEF Later
<1> QED
  BY <1>3, <1>4

LEMMA OnDoneOrder ==
  ASSUME Order, NEW a \in Act, NEW t \in 0 .. now, CommandOnDone(a, t)
  PROVE  Begun' /\ EndsBeforeNextOn'
<1>1. t \in Nat /\ now \in Nat /\ tOn[a] <= t /\ t <= now /\ a \in cmdOn /\ cmdOn \subseteq Act
  BY DEF Order, TypeOK, CommandOnDone
<1>2. PICK end \in OnEnds(a, t) : Retime({a}, end)
  BY DEF CommandOnDone
<1>3. /\ action' = action /\ cmdOn' = cmdOn \ {a} /\ now' = now /\ Running' = Running \cup {a}
  BY DEF CommandOnDone, Running, Order, TypeOK
<1>4. \A b \in Act : tOn'[b] = IF b = a THEN t ELSE tOn[b]
  BY DEF CommandOnDone, Put
<1>5. \A b \in Act : tOff'[b] = IF b = a THEN end ELSE tOff[b]
  BY <1>2 DEF Retime, Put
<1>6. Running \subseteq Act /\ a \notin Running
  BY <1>1 DEF Order, TypeOK, Running
<1>7. Begun'
  BY <1>1, <1>3, <1>4, <1>6 DEF Order, Begun
<1>8. ASSUME NEW r \in Running', NEW b \in cmdOn', ValveOf[r] = ValveOf[b]
      PROVE  tOff'[r] <= tOn'[b] \/ tOn'[b] <= now'
  <2>1. b \in cmdOn /\ b # a /\ b \in Act /\ tOn'[b] = tOn[b] /\ tOn[b] \in Nat
    BY <1>1, <1>3, <1>4 DEF Order, TypeOK
  <2>2. CASE r = a
    <3>1. CASE tOn[b] < tOn[a]
      BY <1>1, <1>3, <2>1, <3>1 DEF Order, TypeOK
    <3>2. CASE tOn[a] <= tOn[b]
      <4>1. end <= tOn[b] \/ end <= t + 1
        BY <1>1, <1>8, <2>1, <2>2, <3>2, OnEndsBefore DEF Order
      <4>2. end \in Nat
        BY <1>1, OnEndsTime DEF Order
      <4> QED
        BY <1>1, <1>3, <1>5, <2>1, <2>2, <4>1, <4>2
    <3> QED
      BY <1>1, <2>1, <3>1, <3>2 DEF Order, TypeOK
  <2>3. CASE r # a
    BY <1>3, <1>5, <1>6, <1>8, <2>1, <2>3 DEF Order, EndsBeforeNextOn
  <2> QED
    BY <2>2, <2>3
<1> QED
  BY <1>7, <1>8 DEF EndsBeforeNextOn

LEMMA OnFailedOrder ==
  ASSUME Order, NEW a \in Act, NEW began \in 0 .. now, CommandOnFailed(a, began)
  PROVE  Begun' /\ EndsBeforeNextOn'
<1> DEFINE end == Later(began, tOn[a] + 1)
<1>1. began \in Nat /\ now \in Nat /\ tOn[a] \in Nat /\ tOn[a] <= began /\ began <= now
  BY DEF Order, TypeOK, CommandOnFailed
<1>2. action' = action /\ cmdOn' = cmdOn \ {a} /\ now' = now /\ tOn' = tOn /\ Running' = Running \cup {a}
  BY DEF CommandOnFailed, Running, Order, TypeOK
<1>3. \A b \in Act : tOff'[b] = IF b = a THEN end ELSE tOff[b]
  BY DEF CommandOnFailed, Retime, Put
<1>4. Running \subseteq Act /\ cmdOn \subseteq Act
  BY DEF Order, TypeOK, Running
<1>5. Begun'
  BY <1>1, <1>2, <1>4 DEF Order, Begun
<1>6. ASSUME NEW r \in Running', NEW b \in cmdOn', ValveOf[r] = ValveOf[b]
      PROVE  tOff'[r] <= tOn'[b] \/ tOn'[b] <= now'
  <2>1. b \in cmdOn /\ tOn[b] \in Nat
    BY <1>2, <1>4 DEF Order, TypeOK
  <2>2. CASE r = a
    <3>1. end <= now + 1
      BY <1>1 DEF Later
    <3>2. end \in Nat
      BY <1>1 DEF Later
    <3> QED
      BY <1>1, <1>2, <1>3, <2>1, <2>2, <3>1, <3>2
  <2>3. CASE r # a
    BY <1>2, <1>3, <1>4, <1>6, <2>1, <2>3 DEF Order, EndsBeforeNextOn
  <2> QED
    BY <2>2, <2>3
<1> QED
  BY <1>5, <1>6 DEF EndsBeforeNextOn

LEMMA RemoveOrder ==
  ASSUME Order, NEW D, Remove(D), now' = now
  PROVE  Begun' /\ EndsBeforeNextOn'
<1>1. cmdOn' = cmdOn \ D /\ Running' = Running \ D /\ cmdOn \subseteq Act /\ Running \subseteq Act
  BY DEF Remove, Running, Order, TypeOK
<1>2. \A b \in Act \ D : tOn'[b] = tOn[b] /\ tOff'[b] = tOff[b]
  BY DEF Remove, Put
<1> QED
  BY <1>1, <1>2 DEF Order, Begun, EndsBeforeNextOn

LEMMA ManualOffOrder ==
  ASSUME Order, NEW S, ManualOffRows(S)
  PROVE  Begun' /\ EndsBeforeNextOn'
<1>1. cmdOn' = cmdOn /\ Running' = Running /\ tOn' = tOn /\ now' = now /\ now \in Nat
  BY DEF ManualOffRows, Running, Order, TypeOK
<1>2. cmdOn \subseteq Act /\ Running \subseteq Act /\ \A b \in Act : tOn[b] \in Nat
  BY DEF Running, Order, TypeOK
<1>3. \A b \in Act : tOff'[b] = IF b \in S THEN now ELSE tOff[b]
  BY DEF ManualOffRows, Retime, Put
<1>4. Begun'
  BY <1>1 DEF Order, Begun
<1>5. ASSUME NEW r \in Running', NEW b \in cmdOn', ValveOf[r] = ValveOf[b]
      PROVE  tOff'[r] <= tOn'[b] \/ tOn'[b] <= now'
  BY <1>1, <1>2, <1>3, <1>5 DEF Order, EndsBeforeNextOn
<1> QED
  BY <1>4, <1>5 DEF EndsBeforeNextOn

LEMMA PocOffOrder ==
  ASSUME Order, NEW end \in Nat, NEW R, NEW N, PocOff(end, R, N)
  PROVE  Begun' /\ EndsBeforeNextOn'
<1> DEFINE D == PocDropped(end)
           E == RunningOn(Station)
<1>1. /\ N \subseteq Act \ used /\ R \subseteq Running
      /\ \A a \in R \cup N : ValveOf[a] \in Master
      /\ \A b \in cmdOn \ D : ValveOf[b] \notin Master
  BY DEF PocOff, OnePerMaster, RunningOn, PocDropped, PendingOn, Order, TypeOK
<1>2. cmdOn' = (cmdOn \ D) \cup N /\ action' = (action \ D) \cup N /\ now' = now
  BY DEF PocOff
<1>3. D \subseteq cmdOn /\ cmdOn \subseteq Act /\ Running \subseteq Act /\ Running \cap cmdOn = {}
      /\ action \subseteq used
  BY DEF PocDropped, PendingOn, Order, TypeOK, Running
<1>4. Running' = Running
  BY <1>1, <1>2, <1>3 DEF Running
<1>5. \A b \in Act : tOn'[b] = IF b \in N THEN now ELSE IF b \in D THEN 0 ELSE tOn[b]
  BY DEF PocOff, Put
<1>6. \A b \in Act : tOff'[b] = IF b \in R \cup N THEN end ELSE IF b \in E THEN now
                               ELSE IF b \in D THEN 0 ELSE tOff[b]
  BY DEF PocOff, Put
<1>7. now \in Nat /\ \A b \in Act : tOn[b] \in Nat
  BY DEF Order, TypeOK
<1>8. Running \cap N = {} /\ Running \cap D = {}
  BY <1>1, <1>3 DEF Running
<1> HIDE DEF D, E
<1>9. Begun'
  BY <1>2, <1>3, <1>4, <1>5, <1>8 DEF Order, Begun
<1>10. ASSUME NEW r \in Running', NEW b \in cmdOn', ValveOf[r] = ValveOf[b]
       PROVE  tOff'[r] <= tOn'[b] \/ tOn'[b] <= now'
  <2>1. CASE b \in N
    BY <1>1, <1>2, <1>5, <1>7, <2>1
  <2>2. CASE b \notin N
    <3>1. b \in cmdOn /\ b \notin D /\ tOn'[b] = tOn[b]
      BY <1>2, <1>3, <1>5, <2>2
    <3>2. r \in Running /\ r \notin R \cup N
      BY <1>1, <1>4, <1>8, <1>10, <3>1
    <3>3. tOff'[r] = now \/ tOff'[r] = tOff[r]
      BY <1>3, <1>6, <1>8, <3>2
    <3> QED
      BY <1>2, <1>3, <1>7, <1>10, <3>1, <3>2, <3>3 DEF Order, EndsBeforeNextOn
  <2> QED
    BY <2>1, <2>2
<1> QED
  BY <1>9, <1>10 DEF EndsBeforeNextOn

LEMMA PocOnOrder ==
  ASSUME Order, PocOn
  PROVE  Begun' /\ EndsBeforeNextOn'
<1> DEFINE D == PendingOn(Master)
           E == RunningOn(Master)
<1>1. cmdOn' = cmdOn \ D /\ action' = action \ D /\ now' = now
  BY DEF PocOn
<1>2. D \subseteq cmdOn /\ cmdOn \subseteq Act /\ Running \subseteq Act /\ Running \cap cmdOn = {}
  BY DEF PendingOn, Order, TypeOK, Running
<1>3. Running' = Running
  BY <1>1, <1>2 DEF Running
<1>4. \A b \in Act : tOn'[b] = IF b \in D THEN 0 ELSE tOn[b]
  BY DEF PocOn, Put
<1>5. \A b \in Act : tOff'[b] = IF b \in E THEN now ELSE IF b \in D THEN 0 ELSE tOff[b]
  BY DEF PocOn, Put
<1>6. now \in Nat /\ \A b \in Act : tOn[b] \in Nat
  BY DEF Order, TypeOK
<1> HIDE DEF D, E
<1>7. Begun'
  BY <1>1, <1>2, <1>3, <1>4 DEF Order, Begun
<1>8. ASSUME NEW r \in Running', NEW b \in cmdOn', ValveOf[r] = ValveOf[b]
      PROVE  tOff'[r] <= tOn'[b] \/ tOn'[b] <= now'
  <2>1. b \in cmdOn /\ tOn'[b] = tOn[b] /\ r \in Running /\ r \notin D
    BY <1>1, <1>2, <1>3, <1>4
  <2>2. tOff'[r] = now \/ tOff'[r] = tOff[r]
    BY <1>2, <1>5, <2>1
  <2> QED
    BY <1>1, <1>2, <1>6, <1>8, <2>1, <2>2 DEF Order, EndsBeforeNextOn
<1> QED
  BY <1>7, <1>8 DEF EndsBeforeNextOn

LEMMA RebuildOrder ==
  ASSUME Order, NEW min \in Nat, NEW D, NEW N, NEW slot, Rebuild(min, D, N, slot)
  PROVE  Begun' /\ EndsBeforeNextOn'
<1>1. /\ N \subseteq Act \ used /\ D \subseteq cmdOn /\ slot \in [N -> Slots(min)]
      /\ cmdOn' = (cmdOn \ D) \cup N /\ action' = (action \ D) \cup N /\ now' = now
  BY DEF Rebuild, Replace, Cleanable, PendingOn
<1>2. cmdOn \subseteq Act /\ Running \subseteq Act /\ Running \cap cmdOn = {} /\ action \subseteq used
      /\ Running \subseteq action
  BY DEF Order, TypeOK, Running
<1>3. Running' = Running /\ Running \cap N = {} /\ Running \cap D = {}
  BY <1>1, <1>2 DEF Running
<1>4. \A b \in Act : tOn'[b] = IF b \in N THEN slot[b][1] ELSE IF b \in D THEN 0 ELSE tOn[b]
  BY DEF Rebuild, Replace
<1>5. \A b \in Act : tOff'[b] = IF b \in N THEN slot[b][2] ELSE IF b \in D THEN 0 ELSE tOff[b]
  BY DEF Rebuild, Replace
<1>6. Begun'
  BY <1>1, <1>2, <1>3, <1>4 DEF Order, Begun
<1>7. ASSUME NEW r \in Running', NEW b \in cmdOn', ValveOf[r] = ValveOf[b]
      PROVE  tOff'[r] <= tOn'[b] \/ tOn'[b] <= now'
  <2>1. r \in Running /\ r \notin D /\ r \in action /\ r \in Act /\ tOff'[r] = tOff[r] /\ tOn[r] <= now
    BY <1>2, <1>3, <1>5 DEF Order, Begun
  <2>2. CASE b \in N
    <3>1. slot[b][1] \in Nat /\ slot[b][2] \in Nat /\ slot[b][1] < slot[b][2]
      BY <1>1, <2>2, TableAssumption DEF Slots
    <3>2. Disjoint(slot[b][1], slot[b][2], tOn[r], tOff[r])
      BY <1>7, <2>1, <2>2 DEF Rebuild, Replace, Rows
    <3>3. tOn[r] \in Nat /\ tOff[r] \in Nat /\ now \in Nat
      BY <2>1 DEF Order, TypeOK
    <3>4. tOn'[b] = slot[b][1]
      BY <1>1, <1>4, <2>2
    <3> QED
      BY <1>1, <2>1, <3>1, <3>2, <3>3, <3>4 DEF Disjoint
  <2>3. CASE b \notin N
    <3>1. b \in cmdOn /\ tOn'[b] = tOn[b]
      BY <1>1, <1>2, <1>4, <2>3
    <3> QED
      BY <1>1, <1>7, <2>1, <3>1 DEF Order, EndsBeforeNextOn
  <2> QED
    BY <2>2, <2>3
<1> QED
  BY <1>6, <1>7 DEF EndsBeforeNextOn

LEMMA OrderStep ==
  ASSUME Order, [Next]_vars
  PROVE  Begun' /\ EndsBeforeNextOn'
<1> DEFINE Goal == Begun' /\ EndsBeforeNextOn'
<1>1. CASE Tick
  <2>1. now' = now + 1 /\ now \in Nat /\ UNCHANGED <<action, cmdOn, tOn, tOff>>
    BY <1>1 DEF Tick, tableVars, Order, TypeOK
  <2>2. Running' = Running /\ \A a \in action : tOn[a] \in Nat
    BY <2>1 DEF Running, Order, TypeOK
  <2>3. cmdOn \subseteq action /\ Running \subseteq action
    BY DEF Running, Order, TypeOK
  <2>4. Begun'
    BY <2>1, <2>2, <2>3 DEF Order, Begun
  <2>5. EndsBeforeNextOn'
    BY <2>1, <2>2, <2>3 DEF Order, EndsBeforeNextOn
  <2> QED
    BY <2>4, <2>5
<1>2. ASSUME NEW a \in Act, CommandOnRefused(a) \/ CommandOffDone(a) PROVE Goal
  BY <1>2, RemoveOrder DEF CommandOnRefused, CommandOffDone, Archive
<1>3. ASSUME NEW end \in 1 .. MaxTime, NEW R, NEW N, PocOff(end, R, N) PROVE Goal
  <2>1. end \in Nat
    BY TableAssumption
  <2> QED
    BY <1>3, <2>1, PocOffOrder
<1>4. ASSUME NEW min \in 0 .. MaxTime, NEW D, NEW N, NEW slot, Rebuild(min, D, N, slot)
      PROVE  Goal
  <2>1. min \in Nat
    BY TableAssumption
  <2> QED
    BY <1>4, <2>1, RebuildOrder
<1>5. CASE UNCHANGED vars
  BY <1>5 DEF Order, Begun, EndsBeforeNextOn, Running, vars
<1>6. CASE ValveThread
  BY <1>2, <1>6, OnDoneOrder, OnFailedOrder DEF ValveThread
<1>7. CASE WebPages
  BY <1>3, <1>7, RemoveOrder, ManualOffOrder, PocOnOrder
     DEF WebPages, ManualOff, ManualAllOff, MonitorPendingRemove, MonitorClearAll
<1>8. CASE Scheduler
  BY <1>4, <1>8 DEF Scheduler
<1> QED
  BY <1>1, <1>5, <1>6, <1>7, <1>8 DEF Next

(* No run which is on reaches into a run of its valve which is still to     *)
(* come: the cap of command_on_done (db.schema.sql:1220-1226), the overlap  *)
(* check of action_onOff_insert and the brought forward end of              *)
(* command_on_failed together see to it, for every interleaving.            *)
THEOREM RunsDoNotReach == Spec => []EndsBeforeNextOn
<1>1. Init => Begun /\ EndsBeforeNextOn
  BY DEF Init, Begun, EndsBeforeNextOn, Running
<1>2. TypeOK /\ Begun /\ EndsBeforeNextOn /\ [Next]_vars => Begun' /\ EndsBeforeNextOn'
  BY OrderStep DEF Order
<1> QED
  BY <1>1, <1>2, TypeCorrect, PTL DEF Spec
------------------------------------------------------------------------------
(***************************************************************************)
(* What any transaction does to one row: a row which appears has a new id  *)
(* and an on command, only rows which go are written to the history, each  *)
(* once, and one which was on does not go without being written.           *)
(***************************************************************************)
RowStep(a) ==
  /\ a \in used => a \in used'
  /\ a \in action' \ action => a \in used' \ used
  /\ a \in used' \ used => a \in cmdOn'
  /\ a \in cmdOn' => a \in cmdOn \/ a \notin used
  /\ \/ historical'[a] = historical[a]
     \/ historical'[a] = historical[a] + 1 /\ a \in action \ action'
  /\ a \in Running \ action' => historical'[a] = historical[a] + 1

LEMMA ArchiveRows ==
  ASSUME TypeOK, NEW D, D \subseteq action, Archive(D), NEW a \in Act
  PROVE  RowStep(a)
BY DEF TypeOK, Archive, Remove, RowStep, Running

LEMMA ReplaceRows ==
  ASSUME TypeOK, NEW D, D \subseteq cmdOn, NEW N, N \subseteq Act \ used, NEW slot,
         Replace(D, N, slot), NEW a \in Act
  PROVE  RowStep(a)
<1>1. /\ used' = used \cup N /\ action' = (action \ D) \cup N /\ cmdOn' = (cmdOn \ D) \cup N
      /\ historical' = historical
  BY DEF Replace
<1> QED
  BY <1>1 DEF TypeOK, RowStep, Running

LEMMA RowSteps ==
  ASSUME TypeOK, [Next]_vars, NEW r \in Act
  PROVE  RowStep(r)
<1>1. CASE Tick
  BY <1>1 DEF TypeOK, Tick, tableVars, RowStep, Running
<1>2. ASSUME NEW a \in Act, NEW t \in 0 .. now, CommandOnDone(a, t) PROVE RowStep(r)
  BY <1>2 DEF TypeOK, CommandOnDone, RowStep, Running
<1>3. ASSUME NEW a \in Act, NEW began \in 0 .. now, CommandOnFailed(a, began) PROVE RowStep(r)
  BY <1>3 DEF TypeOK, CommandOnFailed, RowStep, Running
<1>4. ASSUME NEW a \in Act, CommandOnRefused(a) PROVE RowStep(r)
  BY <1>4, ArchiveRows DEF TypeOK, CommandOnRefused
<1>5. ASSUME NEW a \in Act, CommandOffDone(a) PROVE RowStep(r)
  <2>1. ClosedBy(a) \subseteq action /\ Archive(ClosedBy(a))
    BY <1>5 DEF CommandOffDone, ClosedBy, RunningOn, Running
  <2> QED
    BY <2>1, ArchiveRows
<1>6. ASSUME NEW S, ManualOffRows(S) PROVE RowStep(r)
  BY <1>6 DEF TypeOK, ManualOffRows, RowStep, Running
<1>7. ASSUME NEW D, D \subseteq cmdOn, Remove(D), UNCHANGED <<now, used, historical>>
      PROVE  RowStep(r)
  BY <1>7 DEF TypeOK, Remove, RowStep, Running
<1>8. ASSUME NEW end \in 1 .. MaxTime, NEW R, NEW N, PocOff(end, R, N) PROVE RowStep(r)
  <2>1. PocDropped(end) \subseteq cmdOn /\ N \subseteq Act \ used
    BY <1>8 DEF PocOff, PocDropped, PendingOn, OnePerMaster
  <2> QED
    BY <1>8, <2>1 DEF TypeOK, PocOff, RowStep, Running
<1>9. CASE PocOn
  <2>1. PendingOn(Master) \subseteq cmdOn
    BY DEF PendingOn
  <2> QED
    BY <1>9, <2>1 DEF TypeOK, PocOn, RowStep, Running
<1>10. ASSUME NEW min, NEW D, NEW N, NEW slot, Rebuild(min, D, N, slot) PROVE RowStep(r)
  <2>1. D \subseteq cmdOn /\ N \subseteq Act \ used /\ Replace(D, N, slot)
    BY <1>10 DEF Rebuild, Cleanable, PendingOn
  <2> QED
    BY <2>1, ReplaceRows
<1>11. CASE UNCHANGED vars
  BY <1>11 DEF TypeOK, vars, RowStep, Running
<1>12. CASE ValveThread
  BY <1>2, <1>3, <1>4, <1>5, <1>12 DEF ValveThread
<1>13. CASE WebPages
  <2>1. \A a \in cmdOn : {a} \subseteq cmdOn
    OBVIOUS
  <2> QED
    BY <1>6, <1>7, <1>8, <1>9, <1>13, <2>1
       DEF WebPages, ManualOff, ManualAllOff, MonitorPendingRemove, MonitorClearAll
<1>14. CASE Scheduler
  BY <1>10, <1>14 DEF Scheduler
<1> QED
  BY <1>1, <1>11, <1>12, <1>13, <1>14 DEF Next

(* ArchivedOnce needs to know that ids in the history are not handed out again. *)
Once == HistoryUsed /\ ArchivedOnce

LEMMA OnceStep ==
  ASSUME TypeOK, Once, \A a \in Act : RowStep(a)
  PROVE  Once'
<1>1. ASSUME NEW a \in Act
      PROVE  /\ historical'[a] > 0 => a \in used'
             /\ historical'[a] = 0 \/ (historical'[a] = 1 /\ a \notin action')
  <2>1. RowStep(a)
    OBVIOUS
  <2>2. historical[a] \in Nat /\ (a \in action => a \in used)
    BY DEF TypeOK
  <2>3. /\ historical[a] > 0 => a \in used
        /\ historical[a] = 0 \/ (historical[a] = 1 /\ a \notin action)
    BY DEF Once, HistoryUsed, ArchivedOnce
  <2> QED
    BY <2>1, <2>2, <2>3 DEF RowStep
<1> QED
  BY <1>1 DEF Once, HistoryUsed, ArchivedOnce

LEMMA OnceInvariant == Spec => []Once
<1>1. Init => Once
  BY DEF Init, Once, HistoryUsed, ArchivedOnce
<1>2. TypeOK /\ Once /\ [Next]_vars => Once'
  BY OnceStep, RowSteps
<1> QED
  BY <1>1, <1>2, TypeCorrect, PTL DEF Spec

(* A run is written to the history at most once, although a confirmed off   *)
(* closes every other row of its valve which is on (db.schema.sql:1335).    *)
THEOREM HistoryOnce == Spec => []ArchivedOnce
BY OnceInvariant, PTL DEF Once
------------------------------------------------------------------------------
(* One row's move is a legal one. *)
LEMMA StageMoves ==
  ASSUME TypeOK, TypeOK', Once, Once', NEW a \in Act, RowStep(a)
  PROVE  StageOf(a)' = StageOf(a) \/ <<StageOf(a), StageOf(a)'>> \in Ledger!Moves
<1>1. RowStep(a)
  OBVIOUS
<1>2. /\ historical[a] \in Nat /\ historical'[a] \in Nat
      /\ a \in cmdOn => a \in action
      /\ a \in cmdOn' => a \in action'
      /\ a \in action => a \in used
      /\ a \in action' => a \in used'
  BY DEF TypeOK
<1>3. /\ historical[a] > 0 => a \in used /\ a \notin action
      /\ historical'[a] > 0 => a \in used' /\ a \notin action'
  BY <1>2 DEF Once, HistoryUsed, ArchivedOnce
<1>4. CASE a \in cmdOn
  <2>1. StageOf(a) = "pending"
    BY <1>4 DEF StageOf
  <2>2. StageOf(a)' \in {"pending", "running", "history", "dropped"}
    BY <1>1, <1>2, <1>4 DEF StageOf, RowStep, Running
  <2> QED
    BY <2>1, <2>2 DEF Ledger!Moves
<1>5. CASE a \in Running
  <2>1. StageOf(a) = "running"
    BY <1>5 DEF StageOf, Running
  <2>2. StageOf(a)' \in {"running", "history"}
    BY <1>1, <1>2, <1>5 DEF StageOf, RowStep, Running
  <2> QED
    BY <2>1, <2>2 DEF Ledger!Moves
<1>6. CASE a \notin action /\ historical[a] > 0
  <2>1. StageOf(a) = "history" /\ StageOf(a)' = "history"
    BY <1>1, <1>2, <1>3, <1>6 DEF StageOf, RowStep, Running
  <2> QED
    BY <2>1
<1>7. CASE a \notin action /\ historical[a] = 0 /\ a \notin used
  <2>1. StageOf(a) = "unknown"
    BY <1>2, <1>7 DEF StageOf, Running
  <2>2. StageOf(a)' \in {"unknown", "pending"}
    BY <1>1, <1>2, <1>7 DEF StageOf, RowStep, Running
  <2> QED
    BY <1>1, <1>2, <1>7, <2>1, <2>2 DEF Ledger!Moves
<1>8. CASE a \notin action /\ historical[a] = 0 /\ a \in used
  <2>1. StageOf(a) = "dropped" /\ StageOf(a)' = "dropped"
    BY <1>1, <1>2, <1>8 DEF StageOf, RowStep, Running
  <2> QED
    BY <2>1
<1> QED
  BY <1>2, <1>4, <1>5, <1>6, <1>7, <1>8 DEF Running

LEMMA LedgerInit == Init => Ledger!Init
BY DEF Init, Ledger!Init, StageOf, Running

LEMMA LedgerStep ==
  ASSUME TypeOK, TypeOK', Once, Once', \A a \in Act : RowStep(a)
  PROVE  Ledger!Next
<1>1. ASSUME NEW a \in Act PROVE StageOf(a)' \in Ledger!Stages
  BY DEF StageOf, Ledger!Stages
<1>2. [a \in Act |-> StageOf(a)]' = [a \in Act |-> StageOf(a)']
  OBVIOUS
<1>3. [a \in Act |-> StageOf(a)]' \in [Act -> Ledger!Stages]
  BY <1>1, <1>2
<1>4. ASSUME NEW a \in Act
      PROVE  LET was == [x \in Act |-> StageOf(x)][a]
                 is  == [x \in Act |-> StageOf(x)]'[a]
             IN  is = was \/ <<was, is>> \in Ledger!Moves
  BY StageMoves, <1>2
<1> QED
  BY <1>3, <1>4 DEF Ledger!Next

(***************************************************************************)
(* Whatever the valve thread, the web pages and the scheduler commit, and  *)
(* in whatever order, each run lives the life which RunLedger allows: one  *)
(* which has been turned on leaves the table only through the history.     *)
(***************************************************************************)
THEOREM ImplementsLedger == Spec => LedgerSpec
<1>1. TypeOK /\ TypeOK' /\ Once /\ Once' /\ [Next]_vars
      => [Ledger!Next]_([a \in Act |-> StageOf(a)])
  BY LedgerStep, RowSteps
<1> QED
  BY <1>1, LedgerInit, TypeCorrect, OnceInvariant, PTL DEF Spec, LedgerSpec, Ledger!Spec
==============================================================================
