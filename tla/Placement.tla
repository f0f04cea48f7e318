------------------------------- MODULE Placement -------------------------------
(***************************************************************************)
(* How the scheduler places the cycles of the program stations, again and  *)
(* again, beside what has already run, runs now, or is about to.           *)
(*                                                                         *)
(* One step of a rebuild is one turn of the loop of place_station; others  *)
(* change rows before or after a rebuild, which is one transaction.  Time  *)
(* is counted in ticks: the sub-intervals of the sweep line are cut into   *)
(* ticks, which all have the reservations of their sub-interval, so that a *)
(* set of instants is a set of ticks and the interval from a to b (not     *)
(* included) is a .. (b - 1).                                              *)
(***************************************************************************)
EXTENDS Integers, FiniteSetsExt, Functions

CONSTANTS
  Stn,         \* program stations
  Order,       \* the place of each, by the priority of its program and its own
  Master,      \* the master valve of the point of connection
  Settings,    \* the settings which are looked at, functions on Stn and Master
  MinCycle,    \* MIN_CYCLE
  CleanTime,   \* minCleanSeconds
  NDays,       \* days to plan after today
  DayLen,      \* ticks of a day
  ShutFor,     \* bound: how long the point of connection is turned off
  MaxTime,     \* bound: time, for each of the settings
  MaxChanges   \* bound: changes by others

(* What the columns of a station, or its master valve, may hold. *)
SettingOK(c) ==
  /\ {c.current, c.ctlDelay, c.delayOn, c.delayOff} \subseteq Nat
  /\ {c.ctlMaxStations, c.maxCurrent, c.baseCurrent} \subseteq Int
StationOK(c) ==
  /\ SettingOK(c)
  /\ {c.flow, c.soakTime, c.minCycleTime, c.maxCycleTime, c.runTime} \subseteq Nat
  /\ {c.pocMaxStations, c.pocMaxFlow, c.pgmMaxStations, c.pgmMaxFlow} \subseteq Int
  /\ {c.startTime, c.endTime} \subseteq Nat

ASSUME PlacementAssumption ==
  /\ Order \in [Stn -> Nat] /\ IsInjective(Order) /\ Master \notin Stn
  /\ \A c \in Settings :
       /\ DOMAIN c = Stn \cup {Master} /\ SettingOK(c[Master])
       /\ \A s \in Stn : StationOK(c[s])
  /\ MinCycle \in Nat \ {0} /\ CleanTime \in Nat /\ NDays \in Nat
  /\ DayLen \in Nat \ {0} /\ ShutFor \subseteq Nat \ {0}
  /\ MaxTime \in [Settings -> Nat] /\ MaxChanges \in Nat

VARIABLES
  cfg,      \* the settings, read from the tables at each rebuild and here never changed
  uses,     \* what they say each station takes of which trackers
  now,
  rows,     \* rows of action and historical, and the placements of the rebuild
  todo,     \* what the rebuild has still to place: program stations and dates
  window,   \* where it may still place the first of these
  gone,     \* manual runs which are no program station any more
  plan,     \* {what the last rebuild left}, {} when somebody else has changed it
  changes   \* changes by others so far

vars == <<cfg, uses, now, rows, todo, window, gone, plan, changes>>

NoPlan == {}
Row == [stn : Stn \cup {Master}, date : Int, on : Nat, off : Nat]

TypeOK ==
  /\ cfg \in Settings /\ now \in 0 .. MaxTime[cfg] /\ changes \in 0 .. MaxChanges
  /\ \A r \in rows : r \in Row /\ r.on < r.off
  /\ todo \subseteq [stn : Stn, date : Nat]
  /\ window \in Nat \X Nat /\ gone \subseteq Stn
  /\ \A p \in plan : plan = {p} /\ \A r \in p : r \in Row
------------------------------------------------------------------------------
(***************************************************************************)
(* SchedResource.py: reservations and the slots which they leave.          *)
(***************************************************************************)
Greatest(S) == Max(S \cup {0})

(* What x takes of which trackers: how much, up to which limit, and which  *)
(* delays count there.  A limit which is NULL is a number no sum reaches.  *)
Use(amount, limit, delay) == [amount |-> amount, limit |-> limit, delay |-> delay]

UsesOf(x, c) ==
  LET shared == {<<"ctlStations", c.ctl>>, <<"ctlCurrent", c.ctl>>, <<"pocStations", c.poc>>}
      own == {<<"pocFlow", c.poc>>, <<"pgmStations", c.program>>, <<"pgmFlow", c.program>>,
              <<"sensor", c.sensor>>}
  IN  [k \in IF x = Master THEN shared ELSE shared \cup own |->
         CASE k[1] = "ctlStations" -> Use(1, c.ctlMaxStations, "ctl")
           [] k[1] = "ctlCurrent" -> Use(c.current, c.maxCurrent - c.baseCurrent, "ctl")
           [] k[1] = "pocStations" -> IF x = Master THEN Use(0, 0, "poc") ELSE Use(1, c.pocMaxStations, "poc")
           [] k[1] = "pocFlow" -> Use(c.flow, c.pocMaxFlow, "poc")
           [] k[1] = "pgmStations" -> Use(1, c.pgmMaxStations, "none")
           [] k[1] = "pgmFlow" -> Use(c.flow, c.pgmMaxFlow, "none")
           [] k[1] = "sensor" -> Use(1, 1, "sensor")]

Init ==
  /\ cfg \in Settings /\ uses = [x \in Stn \cup {Master} |-> UsesOf(x, cfg[x])]
  /\ now = 0 /\ rows = {} /\ todo = {}
  /\ window = <<0, 0>> /\ gone = {} /\ plan = NoPlan /\ changes = 0

Today == now \div DayLen
Trackers(x) == DOMAIN uses[x]

(* loadExisting reads every action, and of the history what is dated since *)
(* yesterday and all of a manual run which is still a program station.     *)
Read(r) ==
  r.off > now \/ r.date >= Today - 1 \/ (r.stn \in Stn \ gone /\ cfg[r.stn].qSingle)

(* What a valve takes of its program is known by its program station only. *)
Binding(r, k) ==
  k \in Trackers(r.stn) /\ (r.stn \in gone => k[1] \notin {"pgmStations", "pgmFlow"})

Reserved(k) == {r \in rows : Binding(r, k) /\ Read(r)}
Active(k, t) == {r \in Reserved(k) : r.on <= t /\ t < r.off}
Usage(k, S) == SumFunction([r \in S |-> uses[r.stn][k].amount])
Limits(k, S) == {uses[r.stn][k].limit : r \in S}

(* Mutant of Fits: the limits of the others do not bind x. *)
FitsOwnLimit(x, k, S) == Usage(k, S) + uses[x][k].amount <= uses[x][k].limit

(* Besides S, x is within its limit and those of all in S.                 *)
Fits(x, k, S) ==
  LET usage == Usage(k, S) + uses[x][k].amount
  IN  \A limit \in {uses[x][k].limit} \cup Limits(k, S) : usage <= limit

(* Between cycles of one valve; place_station and the sensor tracker.      *)
Gap(x) == Greatest({cfg[x].soakTime, cfg[x].delayOn, cfg[x].delayOff})

(* The delays which count for a tracker, of those in S at most.            *)
Margin(S, delay) ==
  Greatest(UNION {IF delay = "ctl" THEN {cfg[y].ctlDelay}
                  ELSE IF delay = "poc" THEN {cfg[y].delayOn, cfg[y].delayOff}
                  ELSE IF delay = "sensor" THEN {Gap(y)}
                  ELSE {} : y \in S})

(* How long before, and after, a time at which S is on x may not be on.    *)
Before(x, S, delay) ==
  IF delay = "poc" THEN Greatest({cfg[x].delayOff} \cup {cfg[y].delayOn : y \in S})
  ELSE Margin(S \cup {x}, delay)
After(x, S, delay) ==
  IF delay = "poc" THEN Greatest({cfg[x].delayOn} \cup {cfg[y].delayOff : y \in S})
  ELSE Margin(S \cup {x}, delay)

Others(S) == {r.stn : r \in S}
Padding(x, k) == Margin({x} \cup Others(Reserved(k)), uses[x][k].delay)

(* What x may not use when it does not fit besides S at t. *)
Around(x, k, S, t) ==
  (t - Before(x, Others(S), uses[x][k].delay)) .. (t + After(x, Others(S), uses[x][k].delay))

(* Mutant of Blocked: no margin is looked at outside the window. *)
BlockedInside(x, k, lo, hi) ==
  UNION {LET S == Active(k, t) IN IF Fits(x, k, S) THEN {} ELSE Around(x, k, S, t) :
           t \in lo .. (hi - 1)}

(* The ticks which tracker k rules out for x in a window.                  *)
Blocked(x, k, lo, hi) ==
  LET padding == Padding(x, k)
  IN  UNION {LET S == Active(k, t) IN IF Fits(x, k, S) THEN {} ELSE Around(x, k, S, t) :
               t \in (lo - padding) .. (hi + padding - 1)}

Free(x, lo, hi) ==
  (lo .. (hi - 1)) \ UNION {Blocked(x, k, lo, hi) : k \in {i \in Trackers(x) : Reserved(i) # {}}}

(* find_slots: the free intervals in a window which are long enough. *)
Slots(x, lo, hi, least) ==
  LET free == Free(x, lo, hi)
      first == {a \in free : a - 1 \notin free}
      End(a) == Min({b \in a .. hi : b \notin free})
  IN  {w \in {<<a, End(a)>> : a \in first} : w[2] - w[1] >= least}
------------------------------------------------------------------------------
(***************************************************************************)
(* SchedProgram.py and place_program: which dates and windows.             *)
(***************************************************************************)
RunsOn(s, d) == (d - cfg[s].refDate) % cfg[s].nDays = 0

Jobs ==
  {j \in [stn : Stn \ gone, date : Today .. (Today + NDays)] :
     RunsOn(j.stn, j.date) /\ (cfg[j.stn].qSingle => j.date = Today)}

(* build_schedule: dates, programs and stations in their order. *)
First(jobs) ==
  CHOOSE j \in jobs : \A i \in jobs :
    j.date < i.date \/ (j.date = i.date /\ Order[j.stn] <= Order[i.stn])

(* The window of a date ends on it, and begins the day before when it has to. *)
StartOf(j) ==
  LET c == cfg[j.stn]
  IN  j.date * DayLen + c.startTime - (IF c.endTime <= c.startTime THEN DayLen ELSE 0)
EndOf(j) == j.date * DayLen + cfg[j.stn].endTime

WindowOf(j) ==
  LET from == Greatest({StartOf(j), now + CleanTime})
  IN  IF from < EndOf(j)
      THEN <<from, EndOf(j) + (IF cfg[j.stn].qSingle THEN DayLen ELSE 0)>>
      ELSE <<0, 0>>
FirstWindow(jobs) == IF jobs = {} THEN <<0, 0>> ELSE WindowOf(First(jobs))

(* A manual run keeps its first date.                                      *)
PgmDate(j) ==
  LET dates == {r.date : r \in {q \in rows : q.stn = j.stn}}
  IN  IF cfg[j.stn].qSingle /\ dates # {} THEN Min(dates) ELSE j.date

TimeOf(S) == SumFunction([r \in S |-> r.off - r.on])

(* Mutant of CumTime: what has run already is forgotten. *)
CumTimeOfPlan(s, d) ==
  TimeOf({r \in rows : r.stn = s /\ (cfg[s].qSingle \/ r.date = d) /\ r.on > now})

(* cum_time.get: what s has got on its date d.  All of it is read: d is    *)
(* today or later, or s is a manual run.                                   *)
CumTime(s, d) == TimeOf({r \in rows : r.stn = s /\ (cfg[s].qSingle \/ r.date = d)})
------------------------------------------------------------------------------
(***************************************************************************)
(* place_station for the first of todo.                                    *)
(***************************************************************************)
Shortest(s) == Greatest({cfg[s].minCycleTime, Min({MinCycle, cfg[s].maxCycleTime})})
TimeNeeded(j) == cfg[j.stn].runTime - CumTime(j.stn, PgmDate(j))
Whole(j) == TimeNeeded(j) >= cfg[j.stn].runTime
Backward(j) == cfg[j.stn].qBackward /\ ~cfg[j.stn].qManual /\ ~cfg[j.stn].qSingle

SlotsLeft(j) ==
  Slots(j.stn, window[1], window[2], Min({Shortest(j.stn), TimeNeeded(j)}))

(* Mutant of Over: a runt is placed too. *)
OverWhenPlaced(j) == TimeNeeded(j) <= 0 \/ window[1] >= window[2]

(* The loop ends: placed, no window or only a runt left; or no room, or a  *)
(* maxCycleTime of nothing.                                                *)
Over(j) ==
  \/ TimeNeeded(j) <= 0 \/ window[1] >= window[2]
  \/ TimeNeeded(j) < Shortest(j.stn) /\ ~Whole(j)

(* Mutant of NextSlot: forward too, the last one is used. *)
NextSlotLast(j, slots) == CHOOSE w \in slots : \A v \in slots : v[1] <= w[1]

(* The next slot to be used, of those left.                                *)
NextSlot(j, slots) ==
  LET at == IF Backward(j) THEN Max({w[1] : w \in slots}) ELSE Min({w[1] : w \in slots})
  IN  CHOOSE w \in slots : w[1] = at
Longest(j, slot) == Min({TimeNeeded(j), cfg[j.stn].maxCycleTime, slot[2] - slot[1]})
TooSmall(j, slot) == Longest(j, slot) < Shortest(j.stn) /\ TimeNeeded(j) > Shortest(j.stn)

(* Mutant of Stuck: a cycle of nothing is placed. *)
StuckWithoutSlots(j, slots) == slots = {}

Stuck(j, slots) == slots # {} => Longest(j, NextSlot(j, slots)) <= 0
Finished(j) == Over(j) \/ Stuck(j, SlotsLeft(j))

(* A shorter cycle, rather than a runt after it. *)
Cycle(j, slot) ==
  LET longest == Longest(j, slot)
      remainder == TimeNeeded(j) - longest
      lacking == Shortest(j.stn) - remainder
  IN  IF 0 < remainder /\ lacking > 0 /\ longest - lacking >= Shortest(j.stn)
      THEN longest - lacking ELSE longest

Placing == todo # {}

NextStation ==
  /\ Placing /\ Finished(First(todo))
  /\ todo' = todo \ {First(todo)} /\ window' = FirstWindow(todo')
  /\ plan' = IF todo' = {} THEN {rows} ELSE plan
  /\ UNCHANGED <<cfg, uses, now, rows, gone, changes>>

(* What of the window comes after the slot, in the direction of placing. *)
Beyond(j, slot) == IF Backward(j) THEN <<window[1], slot[1]>> ELSE <<slot[2], window[2]>>

(* Mutant of Rest: the gap counts from where the cycle begins. *)
RestFromStart(j, on, off) ==
  IF Backward(j) THEN <<window[1], Greatest({off - Gap(j.stn)})>> ELSE <<on + Gap(j.stn), window[2]>>

(* The window but for a cycle and the gap around it. *)
Rest(j, on, off) ==
  IF Backward(j) THEN <<window[1], Greatest({on - Gap(j.stn)})>> ELSE <<off + Gap(j.stn), window[2]>>

Place(j, slot) ==
  LET cycle == Cycle(j, slot)
      on == IF Backward(j) THEN slot[2] - cycle ELSE slot[1]
      off == on + cycle
  IN  /\ rows' = rows \cup {[stn |-> j.stn, date |-> PgmDate(j), on |-> on, off |-> off]}
      /\ window' = Rest(j, on, off)

PlaceStation ==
  /\ Placing
  /\ LET j == First(todo)
         slots == SlotsLeft(j)
     IN /\ ~Over(j) /\ ~Stuck(j, slots)
        /\ LET slot == NextSlot(j, slots) IN
           \/ TooSmall(j, slot) /\ window' = Beyond(j, slot) /\ UNCHANGED rows
           \/ ~TooSmall(j, slot) /\ Place(j, slot)
  /\ UNCHANGED <<cfg, uses, now, todo, gone, plan, changes>>
------------------------------------------------------------------------------
(* cleanPending spares what is about to begin; the rest is placed anew.    *)
Kept == {r \in rows : r.stn = Master \/ r.on <= now + CleanTime}

Rebuild ==
  /\ ~Placing
  /\ rows' = Kept
  /\ todo' = Jobs /\ window' = FirstWindow(Jobs)
  /\ plan' = IF Jobs = {} THEN {Kept} ELSE plan
  /\ UNCHANGED <<cfg, uses, now, gone, changes>>

(* Time passes, and the valves go on and off on time.  A manual run is no  *)
(* program station any more when the last of its actions is on.            *)
Tick ==
  /\ ~Placing /\ now < MaxTime[cfg]
  /\ now' = now + 1
  /\ gone' = gone \cup {s \in Stn : cfg[s].qSingle /\ \E r \in rows :
                 r.stn = s /\ r.on = now' /\ \A q \in rows : (q.stn = s /\ q.off > now') => q = r}
  /\ UNCHANGED <<cfg, uses, rows, todo, window, plan, changes>>

Change ==
  /\ ~Placing /\ changes < MaxChanges
  /\ changes' = changes + 1 /\ plan' = NoPlan
  /\ UNCHANGED <<cfg, uses, now, todo, window, gone>>

On == {r \in rows : r.on <= now /\ now < r.off}
Pending == {r \in rows : r.on > now}

(* The rows when those of S end now; what was on for less than a tick is   *)
(* nothing.                                                                *)
Ended(S) == (rows \ S) \cup {[r EXCEPT !.off = now] : r \in {q \in S : q.on < now}}

(* manual_off and poc_on *)
ManualOff == Change /\ \E r \in On : rows' = Ended({r})

(* monitorPendingRemove.php *)
RemovePending == Change /\ \E r \in Pending : rows' = rows \ {r}

(* poc_off: the stations on the point of connection are turned off, those  *)
(* which would begin are dropped, and its master valve goes on or stays on.*)
PocOff ==
  /\ Change
  /\ \E time \in ShutFor :
       LET here == {r \in rows : r.stn # Master /\ cfg[r.stn].poc = cfg[Master].poc}
           dropped == {r \in here \cap Pending : r.on < now + time}
           shut == {r \in On : r.stn = Master}
       IN  rows' = (Ended(here \cap On) \ (dropped \cup shut)) \cup
                     {[stn |-> Master, date |-> Min({Today} \cup {r.date : r \in shut}),
                       on |-> Min({now} \cup {r.on : r \in shut}), off |-> now + time]}

Next ==
  \/ NextStation \/ PlaceStation \/ Rebuild
  \/ Tick \/ ManualOff \/ RemovePending \/ PocOff

Spec == Init /\ [][Next]_vars
------------------------------------------------------------------------------
ShutAt(t) == \E r \in rows : r.stn = Master /\ r.on <= t /\ t < r.off
Shut(x, t) == cfg[x].poc = cfg[Master].poc /\ ShutAt(t)

(* Settings with which WithinLimits can be kept: no valve exceeds a limit by *)
(* itself, which nothing looks at while its trackers have no reservation,  *)
(* and a controller of the master valve has no station on another point of *)
(* connection, which poc_off would leave on beside it.                     *)
Fitting(c) ==
  /\ \A x \in Stn \cup {Master} :
       LET use == UsesOf(x, c[x]) IN \A k \in DOMAIN use : use[k].amount <= use[k].limit
  /\ \A s \in Stn : c[s].ctl = c[Master].ctl => c[s].poc = c[Master].poc

(* At no time do the placements use more of a controller, point of         *)
(* connection, program or valve than any of those on then allows, whatever *)
(* was turned off, removed and placed anew meanwhile.  One kind of run is  *)
(* let off, towards its program only: a manual run has no program station  *)
(* any more when its last cycle has begun, and while this is on others are *)
(* placed beside it as if it did not belong to the program.                *)
WithinLimits ==
  \A t \in UNION {{r.on, r.off} : r \in rows}, k \in UNION {Trackers(r.stn) : r \in rows} :
    LET S == {r \in rows : Binding(r, k) /\ r.on <= t /\ t < r.off}
        usage == Usage(k, S)
    IN  \A limit \in Limits(k, S) : usage <= limit

(* Cycles of a valve leave it time to soak, those of another program, of   *)
(* an earlier rebuild and of another date too.  action_onOff_insert        *)
(* refuses the whole plan when two of them overlap.  Only a cycle which is *)
(* not read any more, as one of a manual run dated before yesterday when   *)
(* its last cycle is over, need not have soaked; it is not overlapped.     *)
Soak(q) == IF Read(q) THEN Gap(q.stn) ELSE 0
Soaked ==
  \A q \in rows, r \in rows :
    (q # r /\ Master \notin {q.stn, r.stn} /\ cfg[q.stn].sensor = cfg[r.stn].sensor)
      => q.off + Soak(q) <= r.on \/ r.off + Soak(r) <= q.on

(* However often the plan is made anew, a station gets no more than its    *)
(* run time on a date, and a manual run no more than it on all together.   *)
NoMoreThanAsked ==
  \A r \in rows : r.stn # Master =>
    TimeOf({q \in rows : q.stn = r.stn /\ (cfg[r.stn].qSingle \/ q.date = r.date)})
      <= cfg[r.stn].runTime

(* A station is left short only if no cycle worth opening its valve for    *)
(* fits anywhere in its window.                                            *)
NoNeedlessShortfall ==
  (Placing /\ Finished(First(todo))) =>
    LET j == First(todo)
        w == WindowOf(j)
        least == Shortest(j.stn)
        room == Free(j.stn, w[1], w[2])
    IN  (TimeNeeded(j) >= least /\ least \in 1 .. cfg[j.stn].maxCycleTime) =>
          \A a \in w[1] .. (w[2] - least) : ~(a .. (a + least - 1) \subseteq room)

(* No cycle is too short to be worth it or longer than it may be, except a *)
(* whole run which is that short, and settings which contradict each other; *)
(* none begins in the past or while the point of connection is off.        *)
WorthIt ==
  [][\A r \in rows' \ rows : Placing =>
       /\ r.off - r.on <= cfg[r.stn].maxCycleTime
       /\ \/ r.off - r.on >= Shortest(r.stn)
          \/ r.off - r.on = cfg[r.stn].runTime
          \/ cfg[r.stn].maxCycleTime < cfg[r.stn].minCycleTime
       /\ r.on >= now + CleanTime
       /\ \A t \in r.on .. (r.off - 1) : ~Shut(r.stn, t)]_rows

Times(p) == {<<r.stn, r.on, r.off>> : r \in p}

(* Making the plan anew, now or later, changes none of it while nobody     *)
(* else does, but where a controller or point of connection wants a delay  *)
(* between stations: the first of them to be placed does not keep it from  *)
(* the second, and does when it is placed anew; and where a program has    *)
(* several cycles and fills its window from the end: they are placed       *)
(* latest first, the earliest is spared first, and what it leaves is       *)
(* divided anew among the later ones (or lies in a slot it has cut); where *)
(* somebody may use what a row took which does not count any more; and     *)
(* when the window of a manual run is over, which waits for the next day.  *)
Undelayed(x) == {cfg[x].ctlDelay, cfg[x].delayOn, cfg[x].delayOff} = {0}
OneCycle(s) == cfg[s].runTime < 2 * Shortest(s) /\ Shortest(s) <= cfg[s].maxCycleTime
AllCount ==
  \A r \in rows, k \in UNION {Trackers(s) : s \in Stn \ gone} :
    k \in Trackers(r.stn) => r \in Reserved(k)
ManualsAwaited ==
  \A s \in Stn \ gone :
    cfg[s].qSingle => now + CleanTime < EndOf([stn |-> s, date |-> Today])
Stable ==
  [][(/\ \A x \in DOMAIN cfg : Undelayed(x)
      /\ \A s \in Stn : cfg[s].qBackward => OneCycle(s)
      /\ AllCount /\ ManualsAwaited)
       => \A p \in plan, q \in plan' : Times(p) \subseteq Times(q)]_plan

(* A rebuild ends: each turn is the last of a program station or leaves    *)
(* less of the window to look at, and a turn is possible while there is    *)
(* anything to place (there is no deadlock).                               *)
Ends ==
  [][Placing => \/ todo' = todo \ {First(todo)}
                \/ todo' = todo /\ window'[2] - window'[1] < window[2] - window[1]]_vars
==============================================================================
