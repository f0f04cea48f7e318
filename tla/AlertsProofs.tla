----------------------------- MODULE AlertsProofs -----------------------------
(***************************************************************************)
(* Proof that the watchdog repeats no mail, for any times between reminders*)
(* and any combination of failures.  What was mailed is at any time in the *)
(* state file, or in the copy which the run going on is about to write.    *)
(***************************************************************************)
EXTENDS Alerts, TLAPS

(* The steps at which the copy of the run is what the file will be. *)
InMemory == {"connect", "run", "save", "saving", "mark", "marking"}
Held == IF pc \in InMemory THEN state ELSE file

(* A mail whose age is known is recorded with it. *)
Recorded ==
  /\ sent["noflow"] = Held.noflow
  /\ sent["high"] # Never => Held.high
  /\ sent["low"] # Never => sent["low"] = Held.lowSent

(* The copy is what was read, as far as the low-flow alarm still needs it. *)
AsRead ==
  /\ pc = "connect" => state = file
  /\ pc = "run" /\ "low" \in todo => state.low = file.low

IInv == TypeOK /\ Recorded /\ AsRead
------------------------------------------------------------------------------
(* Ages stay within their limits. *)
LEMMA OlderIs ==
  ASSUME NEW limit \in Nat, NEW ago \in Ago(limit)
  PROVE  Older(ago, limit) \in Ago(limit)
BY DEF Older, Ago, Never

(* What an age or a mark in the file may be set to. *)
LEMMA FileSet ==
  ASSUME AlertsAssumption, NEW f \in File
  PROVE  /\ NoFile \in File
         /\ \A a \in Ago(Remind) : [f EXCEPT !.noflow = a] \in File /\ [f EXCEPT !.lowSent = a] \in File
         /\ [f EXCEPT !.high = TRUE] \in File /\ [f EXCEPT !.high = FALSE, !.thisRun = FALSE] \in File
         /\ [f EXCEPT !.lowSent = Never, !.low = Never, !.thisRun = FALSE] \in File
         /\ [f EXCEPT !.low = 0, !.thisRun = TRUE] \in File
         /\ [f EXCEPT !.error = 0] \in File
<1>1. 0 \in Ago(Remind) /\ Never \in Ago(Remind) /\ 0 \in Ago(ErrorRemind) /\ Never \in Ago(ErrorRemind)
  BY DEF AlertsAssumption, Ago, Never
<1>2. NoFile \in File
  BY <1>1 DEF NoFile, File
<1>3. \A a \in Ago(Remind) : [f EXCEPT !.noflow = a] \in File /\ [f EXCEPT !.lowSent = a] \in File
  BY DEF File
<1>4. [f EXCEPT !.high = TRUE] \in File /\ [f EXCEPT !.high = FALSE, !.thisRun = FALSE] \in File
  BY DEF File
<1>5. [f EXCEPT !.lowSent = Never, !.low = Never, !.thisRun = FALSE] \in File
  BY <1>1 DEF File
<1>6. [f EXCEPT !.low = 0, !.thisRun = TRUE] \in File /\ [f EXCEPT !.error = 0] \in File
  BY <1>1 DEF File
<1> QED
  BY <1>2, <1>3, <1>4, <1>5, <1>6

(* The ages of the mails which a file has recorded. *)
LEMMA UnrecordedIs ==
  ASSUME AlertsAssumption, TypeOK, NEW f \in File, Unrecorded(f)
  PROVE  /\ sent' \in [Kind -> Ago(Remind)]
         /\ sent'["noflow"] = f.noflow
         /\ sent'["high"] # Never => f.high
         /\ sent'["low"] # Never => sent'["low"] = f.lowSent
<1> DEFINE h == IF f.high THEN sent["high"] ELSE Never
<1> DEFINE l == IF f.lowSent = sent["low"] THEN sent["low"] ELSE Never
<1>1. sent' = [noflow |-> f.noflow, high |-> h, low |-> l]
  BY DEF Unrecorded
<1>2. f.noflow \in Ago(Remind) /\ h \in Ago(Remind) /\ l \in Ago(Remind)
  BY DEF TypeOK, File, Kind, Ago, AlertsAssumption, Never
<1>3. (h # Never => f.high) /\ (l # Never => l = f.lowSent)
  OBVIOUS
<1> HIDE DEF h, l
<1> QED
  BY <1>1, <1>2, <1>3 DEF Kind

(* Nothing has been mailed, and nothing recorded. *)
LEMMA InitHolds == AlertsAssumption /\ Init => IInv
BY DEF AlertsAssumption, Init, IInv, TypeOK, Recorded, AsRead, Held, InMemory, Found, File, NoFile, Ago, Never, Kind
------------------------------------------------------------------------------
(* Between two runs. *)
LEMMA WorldStep ==
  ASSUME AlertsAssumption, IInv, Tick \/ NewReading \/ NewRun
  PROVE  IInv'
<1>1. pc = "wait" /\ pc' = "wait" /\ Held = file /\ Held' = file' /\ todo' = {}
  BY DEF Tick, NewReading, NewRun, Held, InMemory, IInv, TypeOK
<1>2. /\ file \in File /\ sent \in [Kind -> Ago(Remind)] /\ stamp \in Ago(Holdoff)
      /\ Remind \in Nat /\ ErrorRemind \in Nat /\ Holdoff \in Nat /\ Never \in Ago(Remind)
  BY DEF IInv, TypeOK, AlertsAssumption, Ago, Never
<1>3. Recorded
  BY DEF IInv
<1>4. alarms' \in Found /\ file' \in File /\ sent' \in [Kind -> Ago(Remind)] /\ stamp' \in Ago(Holdoff) /\ Recorded'
  <2>1. CASE Tick
    <3> DEFINE nf == Older(file.noflow, Remind)
    <3> DEFINE ls == Older(file.lowSent, Remind)
    <3> DEFINE lo == Older(file.low, Remind)
    <3> DEFINE er == Older(file.error, ErrorRemind)
    <3>1. /\ file.noflow \in Ago(Remind) /\ file.lowSent \in Ago(Remind) /\ file.low \in Ago(Remind)
          /\ file.error \in Ago(ErrorRemind)
      BY <1>2 DEF File
    <3>2. nf \in Ago(Remind) /\ ls \in Ago(Remind) /\ lo \in Ago(Remind) /\ er \in Ago(ErrorRemind)
      BY <1>2, <3>1, OlderIs
    <3>3. file' = [file EXCEPT !.noflow = nf, !.lowSent = ls, !.low = lo, !.error = er]
      BY <2>1 DEF Tick
    <3>4. /\ sent' = [k \in Kind |-> IF k = "high" THEN sent[k] ELSE Older(sent[k], Remind)]
          /\ stamp' = Older(stamp, Holdoff) /\ alarms' = alarms
      BY <2>1 DEF Tick
    <3>5. \A k \in Kind : sent[k] \in Ago(Remind) /\ Older(sent[k], Remind) \in Ago(Remind)
      BY <1>2, OlderIs
    <3>6. /\ sent'["noflow"] = Older(sent["noflow"], Remind) /\ sent'["high"] = sent["high"]
          /\ sent'["low"] = Older(sent["low"], Remind)
      BY <3>4 DEF Kind
    <3>7. sent["low"] = Never => sent'["low"] = Never
      BY <3>6 DEF Older
    <3> HIDE DEF nf, ls, lo, er
    <3>8. file' \in File /\ file'.noflow = nf /\ file'.lowSent = ls /\ file'.high = file.high
      BY <1>2, <3>2, <3>3 DEF File
    <3>9. Recorded'
      BY <1>1, <1>3, <3>6, <3>7, <3>8 DEF Recorded, nf, ls
    <3> QED
      BY <1>2, <3>4, <3>5, <3>8, <3>9, OlderIs DEF IInv, TypeOK
  <2>2. CASE NewReading
    <3>1. file' = [file EXCEPT !.noflow = Never] /\ sent' = [sent EXCEPT !["noflow"] = Never] /\ stamp' = stamp
          /\ alarms' \in Found
      BY <2>2 DEF NewReading
    <3>2. file' \in File /\ file'.noflow = Never /\ file'.high = file.high /\ file'.lowSent = file.lowSent
      BY <1>2, <3>1, FileSet DEF File
    <3>3. /\ sent' \in [Kind -> Ago(Remind)]
          /\ sent'["noflow"] = Never /\ sent'["high"] = sent["high"] /\ sent'["low"] = sent["low"]
      BY <1>2, <3>1 DEF Kind
    <3> QED
      BY <1>1, <1>2, <1>3, <3>1, <3>2, <3>3 DEF Recorded
  <2>3. CASE NewRun
    <3>1. /\ file' = [file EXCEPT !.high = FALSE, !.thisRun = FALSE] /\ sent' = [sent EXCEPT !["high"] = Never]
          /\ stamp' = stamp /\ alarms' \in {{}, alarms \cap {"noflow"}}
      BY <2>3 DEF NewRun
    <3>2. file' \in File /\ file'.noflow = file.noflow /\ file'.lowSent = file.lowSent
      BY <1>2, <3>1, FileSet DEF File
    <3>3. /\ sent' \in [Kind -> Ago(Remind)]
          /\ sent'["noflow"] = sent["noflow"] /\ sent'["high"] = Never /\ sent'["low"] = sent["low"]
      BY <1>2, <3>1 DEF Kind
    <3>4. alarms' \in Found
      <4>1. alarms' = {} \/ alarms' = {"noflow"}
        BY <3>1
      <4> QED
        BY <4>1 DEF Found
    <3> QED
      BY <1>1, <1>2, <1>3, <3>1, <3>2, <3>3, <3>4 DEF Recorded
  <2> QED
    BY <2>1, <2>2, <2>3
<1>5. TypeOK'
  BY <1>1, <1>4 DEF Tick, NewReading, NewRun, IInv, TypeOK
<1> QED
  BY <1>1, <1>4, <1>5 DEF IInv, AsRead
------------------------------------------------------------------------------
(* A mail which goes out is recorded in the copy by the same step; one     *)
(* which does not, or was not due, leaves what it was.                     *)
LEMMA AlarmStep ==
  ASSUME AlertsAssumption, IInv, NoFlow \/ HighFlow \/ LowFlow
  PROVE  IInv'
<1>1. /\ pc = "run" /\ pc' = "run" /\ Held = state /\ Held' = state' /\ todo' \subseteq todo
      /\ file' = file /\ alarms' = alarms /\ database' = database /\ stamp' = stamp /\ cuts' = cuts
  BY DEF NoFlow, HighFlow, LowFlow, Taken, Held, InMemory
<1>2. /\ state \in File /\ sent \in [Kind -> Ago(Remind)] /\ 0 \in Ago(Remind) /\ Never \in Ago(Remind)
      /\ todo \in SUBSET Kind
  BY DEF IInv, TypeOK, AlertsAssumption, Ago, Never
<1>3. Recorded /\ ("low" \in todo => state.low = file.low)
  BY <1>1 DEF IInv, AsRead
<1>4. /\ state' \in File /\ sent' \in [Kind -> Ago(Remind)] /\ Recorded' /\ mail' \in Kind \cup {"none"}
      /\ "low" \in todo' => state'.low = state.low
  <2>1. CASE NoFlow
    <3>1. CASE Mailed("noflow") /\ state' = [state EXCEPT !.noflow = 0]
      <4>1. state' \in File /\ state'.noflow = 0 /\ state'.high = state.high /\ state'.lowSent = state.lowSent
            /\ state'.low = state.low
        BY <1>2, <3>1, FileSet DEF File
      <4>2. /\ sent' \in [Kind -> Ago(Remind)] /\ mail' = "noflow"
            /\ sent'["noflow"] = 0 /\ sent'["high"] = sent["high"] /\ sent'["low"] = sent["low"]
        BY <1>2, <3>1 DEF Kind, Mailed
      <4> QED
        BY <1>1, <1>3, <4>1, <4>2 DEF Recorded, Kind
    <3>2. CASE NotMailed /\ state' = state
      BY <1>1, <1>2, <1>3, <3>2 DEF Recorded, NotMailed
    <3> QED
      BY <2>1, <3>1, <3>2 DEF NoFlow, MailFails
  <2>2. CASE HighFlow
    <3>1. CASE Mailed("high") /\ state' = [state EXCEPT !.high = TRUE]
      <4>1. state' \in File /\ state'.high /\ state'.noflow = state.noflow /\ state'.lowSent = state.lowSent
            /\ state'.low = state.low
        BY <1>2, <3>1, FileSet DEF File
      <4>2. /\ sent' \in [Kind -> Ago(Remind)] /\ mail' = "high"
            /\ sent'["noflow"] = sent["noflow"] /\ sent'["low"] = sent["low"]
        BY <1>2, <3>1 DEF Kind, Mailed
      <4> QED
        BY <1>1, <1>3, <4>1, <4>2 DEF Recorded, Kind
    <3>2. CASE NotMailed /\ state' = state
      BY <1>1, <1>2, <1>3, <3>2 DEF Recorded, NotMailed
    <3> QED
      BY <2>2, <3>1, <3>2 DEF HighFlow, MailFails
  <2>3. CASE LowFlow
    <3> DEFINE ep == LowEpisode
    <3> DEFINE listed == IF ep.thisRun THEN ep ELSE [ep EXCEPT !.low = 0, !.thisRun = TRUE]
    <3>1. /\ ep \in File /\ ep.noflow = state.noflow /\ ep.high = state.high
          /\ \/ ep = state /\ state.low \in 0 .. Remind - 1
             \/ ep.lowSent = Never /\ ep.low = Never
      BY <1>2, FileSet DEF LowEpisode, File
    <3> HIDE DEF ep
    <3>2. /\ listed \in File /\ listed.noflow = state.noflow /\ listed.high = state.high
          /\ listed.lowSent = ep.lowSent
      BY <3>1, FileSet DEF File
    <3>3. /\ "low" \notin todo'
          /\ \/ ep.lowSent \in {Never, Remind} /\ Mailed("low") /\ state' = [listed EXCEPT !.lowSent = 0]
             \/ /\ ep.lowSent \in {Never, Remind} /\ mail' = "none" /\ state' = listed
                /\ sent' = IF ep.low = Never THEN [sent EXCEPT !["low"] = Never] ELSE sent
             \/ ~ (ep.lowSent \in {Never, Remind}) /\ NotMailed /\ state' = listed
      BY <2>3 DEF LowFlow, Taken, ep
    <3> HIDE DEF listed
    <3>4. CASE Mailed("low") /\ state' = [listed EXCEPT !.lowSent = 0]
      <4>1. state' \in File /\ state'.noflow = state.noflow /\ state'.high = state.high /\ state'.lowSent = 0
        BY <1>2, <3>2, <3>4, FileSet DEF File
      <4>2. /\ sent' \in [Kind -> Ago(Remind)] /\ mail' = "low"
            /\ sent'["noflow"] = sent["noflow"] /\ sent'["high"] = sent["high"] /\ sent'["low"] = 0
        BY <1>2, <3>4 DEF Kind, Mailed
      <4> QED
        BY <1>1, <1>3, <3>3, <4>1, <4>2 DEF Recorded, Kind
    <3>5. CASE mail' = "none" /\ state' = listed /\ ep.low = Never /\ sent' = [sent EXCEPT !["low"] = Never]
      <4>1. /\ sent' \in [Kind -> Ago(Remind)]
            /\ sent'["noflow"] = sent["noflow"] /\ sent'["high"] = sent["high"] /\ sent'["low"] = Never
        BY <1>2, <3>5 DEF Kind
      <4> QED
        BY <1>1, <1>3, <3>2, <3>3, <3>5, <4>1 DEF Recorded
    <3>6. CASE mail' = "none" /\ state' = listed /\ ep = state /\ sent' = sent
      BY <1>1, <1>2, <1>3, <3>2, <3>3, <3>6 DEF Recorded
    <3> QED
      BY <3>1, <3>3, <3>4, <3>5, <3>6 DEF NotMailed
  <2> QED
    BY <2>1, <2>2, <2>3
<1>5. TypeOK'
  BY <1>1, <1>2, <1>4 DEF IInv, TypeOK
<1> QED
  BY <1>1, <1>3, <1>4, <1>5 DEF IInv, AsRead
------------------------------------------------------------------------------
(* A run reads the file, checks, and writes it when something has changed. *)
LEMMA RunStep ==
  ASSUME AlertsAssumption, IInv, Start \/ CheckPOC \/ EndOfRun \/ Truncate \/ Save \/ ReportError
  PROVE  IInv'
<1>1. /\ TypeOK /\ Recorded /\ AsRead /\ NoFile \in File
      /\ file \in File /\ [file EXCEPT !.error = 0] \in File
  BY FileSet DEF IInv, TypeOK
<1>2. sent' = sent /\ alarms' = alarms /\ database' = database /\ stamp' = stamp /\ cuts' = cuts /\ mail' = "none"
  BY DEF Start, CheckPOC, EndOfRun, Truncate, Save, ReportError
<1>3. CASE Start
  BY <1>1, <1>2, <1>3 DEF Start, TypeOK, Recorded, AsRead, IInv, Held, InMemory
<1>4. CASE CheckPOC
  <2>1. alarms \subseteq Kind
    BY <1>1 DEF TypeOK, Found, Kind
  <2> QED
    BY <1>1, <1>2, <1>4, <2>1 DEF CheckPOC, TypeOK, Recorded, AsRead, IInv, Held, InMemory
<1>5. CASE EndOfRun
  BY <1>1, <1>2, <1>5 DEF EndOfRun, Changed, TypeOK, Recorded, AsRead, IInv, Held, InMemory
<1>6. CASE Truncate
  BY <1>1, <1>2, <1>6 DEF Truncate, TypeOK, Recorded, AsRead, IInv, Held, InMemory
<1>7. CASE Save
  BY <1>1, <1>2, <1>7 DEF Save, TypeOK, Recorded, AsRead, IInv, Held, InMemory
<1>8. CASE ReportError
  <2>1. /\ [file EXCEPT !.error = 0].noflow = file.noflow /\ [file EXCEPT !.error = 0].high = file.high
        /\ [file EXCEPT !.error = 0].lowSent = file.lowSent
    BY <1>1 DEF File
  <2> QED
    BY <1>1, <1>2, <1>8, <2>1 DEF ReportError, TypeOK, Recorded, AsRead, IInv, Held, InMemory
<1> QED
  BY <1>3, <1>4, <1>5, <1>6, <1>7, <1>8

(* A run which does not get to its end: what counts is the file. *)
LEMMA BreakStep ==
  ASSUME AlertsAssumption, IInv, Raise \/ Kill \/ PowerCut \/ NotSaved
  PROVE  IInv'
<1>1. /\ TypeOK /\ file \in File /\ NoFile \in File
  BY FileSet DEF IInv, TypeOK
<1>2. Unrecorded(file)
  BY DEF Raise, Kill, PowerCut, NotSaved, Ends
<1>3. /\ pc' \in {"wait", "error", "exit", "report"} /\ file' = file /\ alarms' = alarms /\ stamp' = stamp
      /\ state' = NoFile /\ todo' = {} /\ database' \in BOOLEAN /\ mail' = "none"
      /\ cuts' = cuts \/ (cuts < MaxCuts /\ cuts' = cuts + 1)
  BY <1>1 DEF Raise, Kill, PowerCut, NotSaved, Ends, TypeOK
<1>4. cuts' \in 0 .. MaxCuts
  BY <1>1, <1>3 DEF TypeOK, AlertsAssumption
<1>5. Held' = file
  BY <1>3 DEF Held, InMemory
<1>6. /\ sent' \in [Kind -> Ago(Remind)] /\ Recorded'
  BY <1>1, <1>2, <1>5, UnrecordedIs DEF Recorded
<1> QED
  BY <1>1, <1>3, <1>4, <1>6 DEF IInv, TypeOK, AsRead

(* The report of a failure touches neither the file nor what was sent. *)
LEMMA ReportStep ==
  ASSUME AlertsAssumption, IInv, OnException \/ HeldOff \/ Report \/ Stamp
  PROVE  IInv'
<1>1. /\ pc \in {"exit", "report", "stamp"} /\ pc' \in {"wait", "report", "stamp"}
      /\ UNCHANGED <<alarms, file, todo, state, sent, cuts>>
      /\ database' \in {database, TRUE} /\ stamp' \in {stamp, 0} /\ mail' \in {"none", "error", "failure"}
  BY DEF OnException, HeldOff, Report, Stamp
<1>2. TypeOK /\ Recorded /\ 0 \in Ago(Holdoff)
  BY DEF IInv, AlertsAssumption, Ago, Never
<1>3. TypeOK'
  BY <1>1, <1>2 DEF TypeOK
<1> QED
  BY <1>1, <1>2, <1>3 DEF IInv, Recorded, AsRead, Held, InMemory

LEMMA IInvStep ==
  ASSUME AlertsAssumption, IInv, [Next]_vars
  PROVE  IInv'
<1>1. CASE UNCHANGED vars
  BY <1>1 DEF vars, IInv, TypeOK, Recorded, AsRead, Held
<1> QED
  BY <1>1, WorldStep, AlarmStep, RunStep, BreakStep, ReportStep DEF Next, Watchdog, Failure
------------------------------------------------------------------------------
(* The state file, the copy of a run and the ages keep their types through *)
(* failures, kills and power cuts at any step.                             *)
THEOREM TypeCorrect == AlertsAssumption /\ Spec => []TypeOK
<1> SUFFICES ASSUME AlertsAssumption PROVE Spec => []TypeOK
  OBVIOUS
<1>1. Init => IInv
  BY InitHolds
<1>2. IInv /\ [Next]_vars => IInv'
  BY IInvStep
<1>3. IInv => TypeOK
  BY DEF IInv
<1> QED
  BY <1>1, <1>2, <1>3, PTL DEF Spec

(* The action of NoRepeat. *)
Repeats == \E k \in Kind : mail' = k /\ ~ Mailable(k)

(* No stall, run or episode is mailed about again before its time, however *)
(* runs fail in between, unless one did not live to record its mail        *)
(* (checkPOC, noFlow, highFlow, lowFlow of FlowSensorWatch.py).            *)
THEOREM MailedOnce == AlertsAssumption /\ Spec => NoRepeat
<1> SUFFICES ASSUME AlertsAssumption PROVE Spec => NoRepeat
  OBVIOUS
<1>1. Init => IInv
  BY InitHolds
<1>2. IInv /\ [Next]_vars => IInv'
  BY IInvStep
<1>3. IInv /\ [Next]_vars => [~ Repeats]_vars
  <2> SUFFICES ASSUME IInv, Next, NEW k \in Kind, mail' = k PROVE Mailable(k)
    BY DEF Repeats
  <2>1. (NoFlow /\ k = "noflow") \/ (HighFlow /\ k = "high") \/ (LowFlow /\ k = "low")
    BY DEF Next, Watchdog, Failure, Tick, NewReading, NewRun, Start, CheckPOC, NoFlow, HighFlow, LowFlow,
           EndOfRun, Truncate, Save, Raise, Kill, PowerCut, Ends, NotSaved, ReportError, OnException,
           HeldOff, Report, Stamp, Mailed, NotMailed, MailFails, Kind
  <2>2. pc = "run" /\ Held = state /\ Recorded /\ AsRead
    BY <2>1 DEF NoFlow, HighFlow, LowFlow, Taken, Held, InMemory, IInv
  <2>3. CASE NoFlow /\ k = "noflow"
    <3>1. state.noflow \in {Never, Remind}
      BY <2>3 DEF NoFlow, NoFlowDue, NotMailed, MailFails
    <3> QED
      BY <2>2, <2>3, <3>1 DEF Recorded, Mailable
  <2>4. CASE HighFlow /\ k = "high"
    <3>1. ~ state.high
      BY <2>4 DEF HighFlow, NotMailed, MailFails
    <3> QED
      BY <2>2, <2>4, <3>1 DEF Recorded, Mailable
  <2>5. CASE LowFlow /\ k = "low"
    <3>1. "low" \in todo /\ LowEpisode.lowSent \in {Never, Remind}
      BY <2>5 DEF LowFlow, Taken, NotMailed
    <3>2. state.low = file.low
      BY <2>2, <3>1 DEF AsRead
    <3>3. CASE state.low \in 0 .. Remind - 1
      BY <2>2, <2>5, <3>1, <3>3 DEF Recorded, Mailable, LowEpisode
    <3> QED
      BY <2>5, <3>2, <3>3 DEF Mailable
  <2> QED
    BY <2>1, <2>3, <2>4, <2>5
<1>4. ~ Repeats <=> \A k \in Kind : mail' = k => Mailable(k)
  BY DEF Repeats
<1> QED
  BY <1>1, <1>2, <1>3, <1>4, PTL DEF Spec, NoRepeat
==============================================================================
