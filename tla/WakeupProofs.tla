----------------------------- MODULE WakeupProofs -----------------------------
(***************************************************************************)
(* Proofs about the sleeping and waking of the two daemons, for any set of *)
(* commands and any bounds: what a thread which sleeps knows of commands   *)
(* and of requests for a rebuild.                                          *)
(***************************************************************************)
EXTENDS Wakeup, WellFoundedInduction, TLAPS

(* Where a notification and a broken connection of the scheduler can be. *)
Reachable ==
  /\ woken => sconn = "listening"
  /\ spc = "dead" => sconn # "listening"

IInv == TypeOK /\ Reachable /\ RequestHeld /\ CommandsHeld
------------------------------------------------------------------------------
(* Min, which the thread takes of times, is one of them and the earliest. *)
LEMMA MinOfTimes ==
  ASSUME NEW times \in SUBSET Nat, times # {}
  PROVE  Min(times) \in times /\ \A t \in times : Min(times) <= t
<1> DEFINE less == OpToRel(<, Nat)
<1>1. PICK x \in times : \A y \in times : ~ (<<y, x>> \in less)
  <2> HIDE DEF less
  <2>1. IsWellFoundedOn(less, Nat)
    BY NatLessThanWellFounded DEF less
  <2> QED
    BY <2>1, WFMin
<1>2. \A y \in times : x <= y
  <2> SUFFICES ASSUME NEW y \in times PROVE x <= y
    OBVIOUS
  <2>1. ~ (y < x)
    BY <1>1 DEF OpToRel
  <2> QED
    BY <2>1
<1> QED
  BY <1>2 DEF Min

LEMMA NextTimeHolds ==
  ASSUME WakeupAssumption, NEW times \in SUBSET (0 .. MaxDue + MaxSleep)
  PROVE  /\ NextTime(times) \in 0 .. MaxDue + MaxSleep
         /\ \A t \in times : NextTime(times) <= t
<1>1. CASE times = {}
  BY <1>1 DEF NextTime, WakeupAssumption
<1>2. CASE times # {}
  <2>1. times \in SUBSET Nat
    BY DEF WakeupAssumption
  <2> QED
    BY <1>2, <2>1, MinOfTimes DEF NextTime
<1> QED
  BY <1>1, <1>2

LEMMA ReceivedHolds ==
  ASSUME WakeupAssumption, TypeOK
  PROVE  Received \in 0 .. MaxDue + MaxSleep /\ \A t \in notices \cup {wake} : Received <= t
<1>1. notices \cup {wake} \subseteq 0 .. MaxDue + MaxSleep
  BY DEF TypeOK, WakeupAssumption
<1>2. notices \cup {wake} \in SUBSET Nat
  BY <1>1 DEF WakeupAssumption
<1> QED
  BY <1>1, <1>2, MinOfTimes DEF Received
------------------------------------------------------------------------------
(* Rows and backoffs as nextTime counts them. *)
LEMMA QueriedTimes ==
  ASSUME WakeupAssumption, TypeOK
  PROVE  {IF c \in skipped THEN 1 ELSE due[c] : c \in Rows} \in SUBSET (0 .. MaxDue + MaxSleep)
BY DEF TypeOK, WakeupAssumption, Rows, NoTime

LEMMA InitInv ==
  ASSUME WakeupAssumption, Init
  PROVE  IInv
<1>1. TypeOK
  <2>1. wake \in 0 .. MaxDue + MaxSleep
    BY DEF WakeupAssumption, Init
  <2>2. notices \in SUBSET (0 .. MaxDue) /\ skipped \in SUBSET Cmd /\ todo \in SUBSET Cmd
    BY DEF Init
  <2> QED
    BY <2>1, <2>2 DEF Init, TypeOK, Conn
<1>2. Reachable /\ RequestHeld /\ CommandsHeld
  BY DEF Init, Reachable, RequestHeld, CommandsHeld
<1> QED
  BY <1>1, <1>2 DEF IInv

(* A notification carries a time a command can have. *)
LEMMA NotifyTyped ==
  ASSUME WakeupAssumption, TypeOK, NEW t \in 0 .. MaxDue, CommandNotify(t)
  PROVE  notices' \in SUBSET (0 .. MaxDue) /\ blind' \in BOOLEAN
BY DEF TypeOK, CommandNotify

(* Every action keeps the types of what it changes. *)
LEMMA TypeStep ==
  ASSUME WakeupAssumption, TypeOK, [Next]_vars
  PROVE  TypeOK'
<1> USE DEF WakeupAssumption, TypeOK, Conn, NoTime, valve, scheduler
<1>1. CASE Tick
  BY <1>1 DEF Tick, Sooner
<1>2. CASE DatabaseDown
  BY <1>2 DEF DatabaseDown, Broken
<1>3. CASE DatabaseUp
  BY <1>3 DEF DatabaseUp
<1>4. CASE Request
  BY <1>4 DEF Request, SchedulerNotify
<1>5. ASSUME NEW c \in Cmd, BringForward(c) \/ RemoveRow(c)
      PROVE  TypeOK'
  <2>1. CASE BringForward(c)
    <3>1. 0 \in 0 .. MaxDue
      OBVIOUS
    <3> QED
      BY <2>1, <3>1, NotifyTyped DEF BringForward
  <2>2. CASE RemoveRow(c)
    BY <2>2 DEF RemoveRow
  <2> QED
    BY <1>5, <2>1, <2>2
<1>6. CASE ValveListen \/ ValveBroken
  BY <1>6 DEF ValveListen, ValveBroken
<1>7. CASE ValveNotified
  BY <1>7, ReceivedHolds DEF ValveNotified
<1>8. CASE ValveWake
  BY <1>8 DEF ValveWake, Rows
<1>9. CASE ValveQuery
  BY <1>9, QueriedTimes, NextTimeHolds, SMTT(40) DEF ValveQuery
<1>10. ASSUME NEW c \in Cmd, CarriedOut(c) \/ CarryOutFails(c)
       PROVE  TypeOK'
  <2>1. CASE CarryOut(c)
    BY <2>1 DEF CarryOut
  <2>2. CASE LateOn(c)
    BY <2>2, SMTT(40) DEF LateOn, SchedulerNotify, Rows
  <2>3. CASE OnFails(c)
    BY <2>3 DEF OnFails, CommandNotify, Rows
  <2>4. CASE CarryOutFails(c)
    BY <2>4 DEF CarryOutFails
  <2> QED
    BY <1>10, <2>1, <2>2, <2>3, <2>4 DEF CarriedOut
<1>11. CASE SchedulerListen \/ SchedulerWake \/ Build \/ BuildFails
  <2>1. CASE SchedulerListen
    BY <2>1 DEF SchedulerListen
  <2>2. CASE SchedulerWake
    BY <2>2 DEF SchedulerWake
  <2>3. CASE Build
    BY <2>3 DEF Build
  <2>4. CASE BuildFails
    BY <2>4 DEF BuildFails
  <2> QED
    BY <1>11, <2>1, <2>2, <2>3, <2>4
<1>12. CASE Built
  <2>1. CASE UNCHANGED <<due, valve>>
    BY <1>12, <2>1 DEF Built
  <2>2. CASE ~ UNCHANGED <<due, valve>>
    <3>1. PICK c \in Cmd, t \in 1 .. MaxDue :
            /\ due' = [due EXCEPT ![c] = t]
            /\ CommandNotify(t)
            /\ UNCHANGED <<vpc, wake, vconn, skipped, todo>>
      BY <1>12, <2>2 DEF Built
    <3>2. notices' \in SUBSET (0 .. MaxDue) /\ blind' \in BOOLEAN
      BY <3>1, NotifyTyped
    <3>3. due' \in [Cmd -> NoTime .. MaxDue]
      BY <3>1
    <3>4. /\ spc' \in {"sleep", "run", "building", "cut", "dead"} /\ failed' \in BOOLEAN
          /\ asked' \in SUBSET {"new", "taken", "missed"}
          /\ UNCHANGED <<up, sconn, woken, lost>>
      BY <1>12 DEF Built
    <3> QED
      BY <3>1, <3>2, <3>3, <3>4, SMTT(40)
  <2> QED
    BY <2>1, <2>2
<1>13. CASE RebuildCut \/ CommitLost
  BY <1>13 DEF RebuildCut, CommitLost
<1>14. CASE SchedulerDies \/ SchedulerStart
  BY <1>14 DEF SchedulerDies, SchedulerStart
<1>15. CASE UNCHANGED vars
  BY <1>15 DEF vars
<1> QED
  BY <1>1, <1>2, <1>3, <1>4, <1>5, <1>6, <1>7, <1>8, <1>9, <1>10, <1>11, <1>12, <1>13, <1>14,
     <1>15 DEF Next
------------------------------------------------------------------------------
(* A request is waited for by a notification, a rebuild or a connection    *)
(* whose loss the scheduler has yet to find, or its commit was lost.       *)
LEMMA RequestStep ==
  ASSUME TypeOK, Reachable, RequestHeld, [Next]_vars
  PROVE  Reachable' /\ RequestHeld'
<1> USE DEF TypeOK, Conn, Reachable, RequestHeld, scheduler
<1>1. CASE Tick \/ DatabaseUp \/ ValveListen \/ ValveNotified \/ ValveBroken \/ ValveWake
           \/ ValveQuery
  BY <1>1 DEF Tick, DatabaseUp, ValveListen, ValveNotified, ValveBroken, ValveWake, ValveQuery
<1>2. CASE DatabaseDown
  BY <1>2 DEF DatabaseDown, Broken
<1>3. CASE Request
  BY <1>3 DEF Request, SchedulerNotify
<1>4. ASSUME NEW c \in Cmd, \/ BringForward(c) \/ RemoveRow(c) \/ CarryOut(c) \/ OnFails(c)
                            \/ CarryOutFails(c)
      PROVE  Reachable' /\ RequestHeld'
  BY <1>4 DEF BringForward, RemoveRow, CarryOut, OnFails, CarryOutFails
<1>5. ASSUME NEW c \in Cmd, LateOn(c)
      PROVE  Reachable' /\ RequestHeld'
  BY <1>5 DEF LateOn, SchedulerNotify
<1>6. CASE SchedulerListen \/ SchedulerWake
  BY <1>6 DEF SchedulerListen, SchedulerWake
<1>7. CASE Build \/ Built \/ BuildFails
  BY <1>7 DEF Build, Built, BuildFails
<1>8. CASE RebuildCut \/ CommitLost
  BY <1>8 DEF RebuildCut, CommitLost
<1>9. CASE SchedulerDies \/ SchedulerStart
  BY <1>9 DEF SchedulerDies, SchedulerStart
<1>10. CASE UNCHANGED vars
  BY <1>10 DEF vars
<1> QED
  BY <1>1, <1>2, <1>3, <1>4, <1>5, <1>6, <1>7, <1>8, <1>9, <1>10 DEF Next, CarriedOut
------------------------------------------------------------------------------
(* The time the thread compares with its own for a row. *)
Awaited(c) == IF c \in skipped THEN 1 ELSE due[c]

(* While the thread sleeps and has missed nothing, what matters is that     *)
(* each row is awaited by an early enough time.                            *)
LEMMA CommandsStep ==
  ASSUME WakeupAssumption, TypeOK, CommandsHeld, [Next]_vars
  PROVE  CommandsHeld'
<1> USE DEF TypeOK, CommandsHeld, Rows, NoTime
<1>1. CASE Tick
  <2> SUFFICES ASSUME vpc = "sleep", ~blind, NEW c \in Cmd, due'[c] # NoTime
               PROVE  \E t \in notices' \cup {wake'} : t <= due'[c]
    BY <1>1 DEF Tick
  <2>1. c \in Rows /\ due'[c] = Sooner(due[c]) /\ due[c] \in Nat
    BY <1>1 DEF Tick, Sooner, WakeupAssumption
  <2>2. PICK t \in notices \cup {wake} : t <= Awaited(c)
    BY <2>1 DEF Awaited
  <2>3. Sooner(t) \in notices' \cup {wake'} /\ t \in Nat /\ wake \in Nat
    BY <1>1 DEF Tick, WakeupAssumption
  <2>4. CASE c \notin skipped
    BY <2>1, <2>2, <2>3, <2>4 DEF Awaited, Sooner
  <2>5. CASE c \in skipped
    BY <2>1, <2>2, <2>3, <2>5 DEF Awaited, Sooner
  <2> QED
    BY <2>4, <2>5
<1>2. CASE DatabaseDown
  BY <1>2 DEF DatabaseDown
<1>3. CASE DatabaseUp
  BY <1>3 DEF DatabaseUp, valve
<1>4. ASSUME NEW c \in Cmd, BringForward(c) \/ RemoveRow(c)
      PROVE  CommandsHeld'
  BY <1>4 DEF BringForward, RemoveRow, CommandNotify, valve
<1>5. CASE ValveListen \/ ValveBroken
  BY <1>5 DEF ValveListen, ValveBroken
<1>6. CASE ValveNotified
  <2> SUFFICES ASSUME ~blind, NEW c \in Rows
               PROVE  wake' <= Awaited(c)
    BY <1>6 DEF ValveNotified, Awaited
  <2>1. PICK t \in notices \cup {wake} : t <= Awaited(c)
    BY <1>6 DEF ValveNotified, Awaited
  <2>2. Received <= t /\ Received \in Int /\ t \in Int /\ Awaited(c) \in Int
    BY ReceivedHolds DEF Awaited, WakeupAssumption
  <2> QED
    BY <1>6, <2>1, <2>2 DEF ValveNotified
<1>7. CASE ValveWake \/ \E c \in Cmd : CarriedOut(c) \/ CarryOutFails(c)
  BY <1>7 DEF ValveWake, CarriedOut, CarryOut, LateOn, OnFails, CarryOutFails
<1>8. CASE ValveQuery
  <2> DEFINE times == {IF c \in skipped THEN 1 ELSE due[c] : c \in Rows}
  <2> SUFFICES ASSUME up, NEW c \in Rows
               PROVE  wake' <= IF c \in skipped' THEN 1 ELSE due[c]
    BY <1>8 DEF ValveQuery
  <2>1. wake' = NextTime(times) /\ skipped' = skipped \cap Rows
    BY <1>8 DEF ValveQuery
  <2>2. (IF c \in skipped THEN 1 ELSE due[c]) \in times
    OBVIOUS
  <2>3. \A t \in times : NextTime(times) <= t
    BY QueriedTimes, NextTimeHolds
  <2> QED
    BY <2>1, <2>2, <2>3
<1>9. CASE Request \/ SchedulerListen \/ SchedulerWake \/ Build \/ BuildFails
           \/ RebuildCut \/ CommitLost \/ SchedulerDies \/ SchedulerStart
  BY <1>9 DEF Request, SchedulerListen, SchedulerWake, Build, BuildFails, RebuildCut, CommitLost,
              SchedulerDies, SchedulerStart, valve
<1>10. CASE Built
  <2>1. CASE UNCHANGED <<due, valve>>
    BY <2>1 DEF valve
  <2>2. CASE ~ UNCHANGED <<due, valve>>
    <3>1. PICK c \in Cmd, t \in 1 .. MaxDue :
            /\ c \notin skipped
            /\ due' = [due EXCEPT ![c] = t]
            /\ CommandNotify(t)
            /\ UNCHANGED <<vpc, wake, vconn, skipped, todo>>
      BY <1>10, <2>2 DEF Built
    <3> SUFFICES ASSUME vpc = "sleep", ~blind, vconn = "listening", NEW d \in Cmd, due'[d] # NoTime
                 PROVE  \E u \in notices' \cup {wake'} : u <= Awaited(d)'
      BY <3>1 DEF CommandNotify, Awaited
    <3>2. notices' = notices \cup {t}
      BY <3>1 DEF CommandNotify
    <3>3. CASE d = c
      BY <3>1, <3>2, <3>3 DEF Awaited, WakeupAssumption
    <3>4. CASE d # c
      BY <3>1, <3>2, <3>4 DEF Awaited
    <3> QED
      BY <3>3, <3>4
  <2> QED
    BY <2>1, <2>2
<1>11. CASE UNCHANGED vars
  BY <1>11 DEF vars, valve
<1> QED
  BY <1>1, <1>2, <1>3, <1>4, <1>5, <1>6, <1>7, <1>8, <1>9, <1>10, <1>11 DEF Next
------------------------------------------------------------------------------
(* The inductive invariant of both daemons. *)
LEMMA Inductive == Spec => []IInv
<1>1. Init => IInv
  BY InitInv, WakeupAssumption
<1>2. IInv /\ [Next]_vars => IInv'
  <2> SUFFICES ASSUME IInv, [Next]_vars PROVE IInv'
    OBVIOUS
  <2>1. TypeOK'
    BY TypeStep, WakeupAssumption DEF IInv
  <2>2. Reachable' /\ RequestHeld'
    BY RequestStep DEF IInv
  <2>3. CommandsHeld'
    BY CommandsStep, WakeupAssumption DEF IInv
  <2> QED
    BY <2>1, <2>2, <2>3 DEF IInv
<1> QED
  BY <1>1, <1>2, PTL DEF Spec

(* The valve thread never sleeps past a command unless a connection was     *)
(* lost: its wake-up time or a notification on its way is early enough for *)
(* each row, whoever inserts, moves or carries out rows (nextTime, fetch). *)
THEOREM SleepsNoLonger == Spec => []CommandsHeld
<1>1. IInv => CommandsHeld
  BY DEF IInv
<1> QED
  BY <1>1, Inductive, PTL

(* While the scheduler sleeps, a request which reached it is held by a     *)
(* notification, by a rebuild which is to be repeated, or by a broken      *)
(* connection which it has yet to find.  A rebuild whose commit fails      *)
(* unnoticed is the exception: the requests it took have to wait for the   *)
(* next one (scheduler.py, runScheduler, DB.commit, Listen.fetch).         *)
THEOREM RequestsAreHeld == Spec => []RequestHeld
<1>1. IInv => RequestHeld
  BY DEF IInv
<1> QED
  BY <1>1, Inductive, PTL
==============================================================================
