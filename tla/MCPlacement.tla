---------------------------- MODULE MCPlacement ----------------------------
EXTENDS Placement, TLC

CONSTANTS s1, s2, s3, mv

MCStn == {s1, s2, s3}
MCOrder == (s1 :> 1) @@ (s2 :> 2) @@ (s3 :> 3)
NoLimit == 99

(* What a program station has from its valve, from the controller and the  *)
(* point of connection of all, and from its program.                       *)
Valve(n) ==
  [sensor |-> n, minCycleTime |-> 0, maxCycleTime |-> NoLimit, soakTime |-> 0,
   flow |-> 1, current |-> 1, pocMaxStations |-> NoLimit]
Wiring ==
  [ctl |-> 1, poc |-> 1, ctlMaxStations |-> 2, maxCurrent |-> NoLimit, baseCurrent |-> 0,
   ctlDelay |-> 0, delayOn |-> 0, delayOff |-> 0, pocMaxFlow |-> NoLimit]
Program(n) ==
  [program |-> n, startTime |-> 0, endTime |-> 6, nDays |-> 2, refDate |-> 0,
   qBackward |-> FALSE, qManual |-> FALSE, pgmMaxStations |-> NoLimit, pgmMaxFlow |-> NoLimit]
Station(valve, wiring, program, runTime) ==
  valve @@ wiring @@ program @@ [runTime |-> runTime, qSingle |-> program.qManual]
Three(c1, c2, c3, wiring) ==
  (s1 :> c1) @@ (s2 :> c2) @@ (s3 :> c3) @@ (mv :> (Valve(9) @@ wiring))

(* s1 and s2 have a program; s3 is a second program station of the valve   *)
(* of s1, and its program may fill its window from the end.  A tight       *)
(* setting has a valve to soak, and one which runs alone.                  *)
Cycles ==
  {LET first == [Valve(1) EXCEPT !.minCycleTime = least, !.maxCycleTime = most,
                                 !.soakTime = IF tight THEN 1 ELSE 0]
       second == [Valve(2) EXCEPT !.pocMaxStations = IF tight THEN 1 ELSE NoLimit]
   IN  Three(Station(first, Wiring, Program(1), 5), Station(second, Wiring, Program(1), 3),
             Station(first, Wiring, [Program(2) EXCEPT !.qBackward = back, !.endTime = 5], 2), Wiring) :
     least \in {0, 3}, most \in {2, 4}, tight \in BOOLEAN, back \in BOOLEAN}

(* Limits on flow and current.                                             *)
Flows ==
  LET wiring == [Wiring EXCEPT !.pocMaxFlow = 3, !.maxCurrent = 3, !.baseCurrent = 1]
      program == [Program(1) EXCEPT !.pgmMaxFlow = 2]
  IN  Three(Station([Valve(1) EXCEPT !.flow = 2], wiring, program, 2), Station(Valve(2), wiring, program, 2),
            Station([Valve(3) EXCEPT !.flow = 2], wiring, Program(2), 2), wiring)

(* The delays of a controller which is full and of a point of connection.  *)
Delays ==
  LET wiring == [Wiring EXCEPT !.ctlDelay = 1, !.ctlMaxStations = 1, !.delayOff = 1]
  IN  Three(Station(Valve(1), wiring, Program(1), 2), Station(Valve(2), wiring, Program(1), 2),
            Station(Valve(1), wiring, Program(2), 1), [wiring EXCEPT !.ctl = 2])

(* A manual run, whose program has the whole day and more, and windows     *)
(* which begin the day before: s3 has time before and after s2, not beside *)
(* it.                                                                     *)
Night ==
  LET valve == [Valve(1) EXCEPT !.maxCycleTime = 3, !.soakTime = 1]
  IN  Three(Station(valve, Wiring, [Program(3) EXCEPT !.qManual = TRUE, !.nDays = 1, !.endTime = 10], 4),
            Station([Valve(2) EXCEPT !.pocMaxStations = 1], Wiring,
                    [Program(1) EXCEPT !.startTime = 4, !.endTime = 1, !.qBackward = TRUE], 2),
            Station(valve, Wiring, [Program(2) EXCEPT !.startTime = 4, !.endTime = 4, !.pgmMaxStations = 1], 4),
            Wiring)

(* A run of several cycles from the end of its window, which s1 cuts in two. *)
Backwards ==
  Three(Station([Valve(1) EXCEPT !.pocMaxStations = 1], Wiring, [Program(2) EXCEPT !.startTime = 3], 1),
        Station([Valve(2) EXCEPT !.maxCycleTime = 3], Wiring,
                [Program(1) EXCEPT !.endTime = 7, !.qBackward = TRUE], 6),
        Station([Valve(2) EXCEPT !.maxCycleTime = 3], Wiring, Program(3), 2), Wiring)

(* A maxCycleTime of nothing.                                              *)
Nothing ==
  Three(Station([Valve(1) EXCEPT !.maxCycleTime = 0], Wiring, Program(1), 2),
        Station(Valve(2), Wiring, Program(1), 1), Station(Valve(3), Wiring, Program(2), 2), Wiring)

(* Two manual runs, of which the program allows one at a time.             *)
Manuals ==
  LET program == [Program(3) EXCEPT !.qManual = TRUE, !.nDays = 1, !.pgmMaxStations = 1]
  IN  Three(Station(Valve(1), Wiring, program, 3), Station(Valve(2), Wiring, program, 2),
            Station(Valve(3), Wiring, Program(2), 2), Wiring)

(* A manual run over the first midnight, of a valve which has to soak over *)
(* the second before another program uses it.                              *)
TwoNights ==
  LET valve == [Valve(1) EXCEPT !.soakTime = 7]
  IN  Three(Station(valve, Wiring, [Program(3) EXCEPT !.qManual = TRUE, !.nDays = 1, !.endTime = 10], 8),
            Station(Valve(2), Wiring, [Program(1) EXCEPT !.nDays = 3], 1),
            Station(valve, Wiring, Program(2), 2), Wiring)

MCSettings == Cycles \cup {Flows, Delays, Night, Backwards, Nothing, Manuals, TwoNights}
MCMaxTime == [c \in MCSettings |-> IF c = TwoNights THEN 15 ELSE 8]

(* The settings of the run are such as LimitsAreKept speaks of.            *)
ASSUME AllFit == \A c \in MCSettings : Fitting(c)
=============================================================================
