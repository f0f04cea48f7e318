-------------------------------- MODULE Alerts --------------------------------
(***************************************************************************)
(* The flow watchdog (FlowSensorWatch.py), which a timer starts every two  *)
(* minutes, and the report of a unit which failed (notifyFailure.py), which*)
(* systemd starts when the watchdog exits with an error or is killed.      *)
(* Each run reads a state file, mails what is new or has to be repeated,   *)
(* and writes the file at its end; in between the mail may be refused, the *)
(* database may go, and the run may be killed at any point.                *)
(*                                                                         *)
(* A recorded key is only ever compared with that of the stall or run going*)
(* on now, so the file keeps no key but whether it is that one, and no time*)
(* but how long ago it was.                                                *)
(***************************************************************************)
EXTENDS Integers

CONSTANTS
  Remind,       \* FLOWWATCH.remindHours
  ErrorRemind,  \* ERROR_REMIND
  Holdoff,      \* --holdoff of notifyFailure.py
  Faults,       \* which of "mail", "error" and "kill" happen
  MaxCuts       \* bound: times the power goes

ASSUME AlertsAssumption ==
  /\ Remind \in Nat \ {0} /\ ErrorRemind \in Nat \ {0} /\ Holdoff \in Nat \ {0}
  /\ Faults \subseteq {"mail", "error", "kill"}
  /\ MaxCuts \in Nat

VARIABLES
  alarms,   \* what checkPOC finds now
  file,     \* the state file
  pc,       \* the next step of the watchdog, or of what reports its failure
  todo,     \* alarms of this run not yet dealt with
  state,    \* its copy of the file
  database, \* it can be reached from a run which failed
  stamp,    \* how long ago the stamp file of the unit was written
  cuts,     \* auxiliary: times the power went
  mail,     \* auxiliary: the kind of mail sent by the last step
  sent      \* auxiliary: how long ago each kind was mailed about this stall, run or episode,
            \* unless the run which mailed it did not live to record it

vars == <<alarms, file, pc, todo, state, database, stamp, cuts, mail, sent>>

Never == -1
Ago(limit) == Never .. limit
Kind == {"noflow", "high", "low"}

(* No flow takes precedence over low flow, which is not high. *)
Found == {{}, {"noflow"}, {"high"}, {"noflow", "high"}, {"low"}}

File == [noflow : Ago(Remind),          \* since this stall was mailed
         high : BOOLEAN,                \* this run has been mailed
         lowSent : Ago(Remind),         \* since this episode was mailed
         low : Ago(Remind),             \* since the latest low run of a zone
         thisRun : BOOLEAN,             \* which is the run going on
         error : Ago(ErrorRemind)]      \* since an error was to be mailed

NoFile == [noflow |-> Never, high |-> FALSE, lowSent |-> Never,
           low |-> Never, thisRun |-> FALSE, error |-> Never]

TypeOK ==
  /\ alarms \in Found
  /\ file \in File /\ state \in File
  /\ pc \in {"wait", "connect", "run", "save", "saving",
             "error", "mark", "marking", "exit", "report", "stamp"}
  /\ todo \in SUBSET Kind /\ (pc # "run" => todo = {})
  /\ database \in BOOLEAN
  /\ stamp \in Ago(Holdoff)
  /\ cuts \in 0 .. MaxCuts
  /\ mail \in Kind \cup {"none", "error", "failure"}
  /\ sent \in [Kind -> Ago(Remind)]

Init ==
  /\ alarms = {}
  /\ file = NoFile /\ state = NoFile /\ pc = "wait" /\ todo = {}
  /\ database = TRUE /\ stamp = Never
  /\ cuts = 0 /\ mail = "none" /\ sent = [k \in Kind |-> Never]
------------------------------------------------------------------------------
(***************************************************************************)
(* The world between two runs.                                             *)
(***************************************************************************)
Older(ago, limit) == IF ago = Never \/ ago = limit THEN ago ELSE ago + 1

Tick ==
  /\ pc = "wait"
  /\ file' = [file EXCEPT !.noflow = Older(@, Remind), !.lowSent = Older(@, Remind),
                          !.low = Older(@, Remind), !.error = Older(@, ErrorRemind)]
  /\ sent' = [k \in Kind |-> IF k = "high" THEN sent[k] ELSE Older(sent[k], Remind)]
  /\ stamp' = Older(stamp, Holdoff)
  /\ mail' = "none"
  /\ UNCHANGED <<alarms, pc, todo, state, database, cuts>>

(* Another reading of the sensor: whatever stalls from now on is a new stall. *)
NewReading ==
  /\ pc = "wait"
  /\ alarms' \in Found
  /\ file' = [file EXCEPT !.noflow = Never]
  /\ sent' = [sent EXCEPT !["noflow"] = Never]
  /\ mail' = "none"
  /\ UNCHANGED <<pc, todo, state, database, stamp, cuts>>

(* Another zone is on, or the same one again; the reading is still the old one. *)
NewRun ==
  /\ pc = "wait"
  /\ alarms' \in {{}, alarms \cap {"noflow"}}
  /\ file' = [file EXCEPT !.high = FALSE, !.thisRun = FALSE]
  /\ sent' = [sent EXCEPT !["high"] = Never]
  /\ mail' = "none"
  /\ UNCHANGED <<pc, todo, state, database, stamp, cuts>>
------------------------------------------------------------------------------
(***************************************************************************)
(* A run of the watchdog.                                                  *)
(***************************************************************************)
Start ==
  /\ pc = "wait"
  /\ pc' = "connect"
  /\ state' = file
  /\ mail' = "none"
  /\ UNCHANGED <<alarms, file, todo, database, stamp, sent, cuts>>

CheckPOC ==
  /\ pc = "connect"
  /\ pc' = "run"
  /\ todo' = alarms
  /\ mail' = "none"
  /\ UNCHANGED <<alarms, file, state, database, stamp, sent, cuts>>

(* sendAlarm: the mail goes out, or is left to the next run. *)
Mailed(kind) ==
  /\ mail' = kind
  /\ sent' = [sent EXCEPT ![kind] = 0]

NotMailed == mail' = "none" /\ UNCHANGED sent

MailFails == "mail" \in Faults /\ NotMailed

Taken(kind) ==
  /\ pc = "run" /\ kind \in todo
  /\ (kind # "noflow" => "noflow" \notin todo)
  /\ todo' = todo \ {kind}
  /\ UNCHANGED <<alarms, file, pc, database, stamp, cuts>>

NoFlowDue == state.noflow \in {Never, Remind}

NoFlow ==
  /\ Taken("noflow")
  /\ \/ NoFlowDue /\ Mailed("noflow") /\ state' = [state EXCEPT !.noflow = 0]
     \/ NoFlowDue /\ MailFails /\ UNCHANGED state
     \/ ~NoFlowDue /\ NotMailed /\ UNCHANGED state

HighFlow ==
  /\ Taken("high")
  /\ \/ ~state.high /\ Mailed("high") /\ state' = [state EXCEPT !.high = TRUE]
     \/ ~state.high /\ MailFails /\ UNCHANGED state
     \/ state.high /\ NotMailed /\ UNCHANGED state

(* Mutant of LowEpisode: an episode lasts no longer than a run. *)
LowEpisodeOfNight ==
  IF state.low = 0
    THEN state
    ELSE [state EXCEPT !.lowSent = Never, !.low = Never, !.thisRun = FALSE]

(* lowEpisode: over once no zone has run low for Remind. *)
LowEpisode ==
  IF state.low \in 0 .. Remind - 1
    THEN state
    ELSE [state EXCEPT !.lowSent = Never, !.low = Never, !.thisRun = FALSE]

(* lowFlow: each new run is recorded, mailed or not. *)
LowFlow ==
  LET ep == LowEpisode
      listed == IF ep.thisRun THEN ep ELSE [ep EXCEPT !.low = 0, !.thisRun = TRUE]
      due == ep.lowSent \in {Never, Remind}
  IN  /\ Taken("low")
      /\ \/ due /\ Mailed("low") /\ state' = [listed EXCEPT !.lowSent = 0]
         \/ /\ due
            /\ "mail" \in Faults
            /\ mail' = "none"
            /\ sent' = IF ep.low = Never THEN [sent EXCEPT !["low"] = Never] ELSE sent
            /\ state' = listed
         \/ ~due /\ NotMailed /\ state' = listed

(* A low-flow mail which is due counts as a change, whether it goes out or not. *)
Changed == state # file \/ ("low" \in alarms /\ state.lowSent \in {Never, Remind})

EndOfRun ==
  /\ pc = "run" /\ todo = {}
  /\ IF Changed
       THEN pc' = "save" /\ UNCHANGED state
       ELSE pc' = "wait" /\ state' = NoFile
  /\ mail' = "none"
  /\ UNCHANGED <<alarms, file, todo, database, stamp, sent, cuts>>

(* saveState empties the file before it writes it; reportError saves as well. *)
Truncate ==
  /\ pc \in {"save", "mark"}
  /\ pc' = IF pc = "save" THEN "saving" ELSE "marking"
  /\ file' = NoFile
  /\ mail' = "none"
  /\ UNCHANGED <<alarms, todo, state, database, stamp, sent, cuts>>

Save ==
  /\ pc \in {"saving", "marking"}
  /\ pc' = IF pc = "saving" THEN "wait" ELSE "exit"
  /\ file' = state /\ state' = NoFile
  /\ mail' = "none"
  /\ UNCHANGED <<alarms, todo, database, stamp, sent, cuts>>

(* A run which does not get to its end leaves mails which are not recorded. *)
Unrecorded(left) ==
  sent' = [noflow |-> left.noflow,
           high |-> IF left.high THEN sent["high"] ELSE Never,
           low |-> IF left.lowSent = sent["low"] THEN sent["low"] ELSE Never]

(* An exception, e.g. no database: nothing of the run is saved. *)
Raise ==
  /\ "error" \in Faults
  /\ pc \in {"connect", "run", "save", "saving"}
  /\ pc' = "error"
  /\ database' \in BOOLEAN
  /\ todo' = {} /\ state' = NoFile
  /\ Unrecorded(file)
  /\ mail' = "none"
  /\ UNCHANGED <<alarms, file, stamp, cuts>>

(* The run is over, whatever it was doing. *)
Ends ==
  /\ todo' = {} /\ state' = NoFile /\ database' = TRUE
  /\ Unrecorded(file)
  /\ mail' = "none"
  /\ UNCHANGED <<alarms, file, stamp>>

(* TimeoutStartSec or the kernel; nothing reports the failure of a report. *)
Kill ==
  /\ "kill" \in Faults
  /\ pc # "wait"
  /\ pc' = IF pc \in {"report", "stamp"} THEN "wait" ELSE "report"
  /\ UNCHANGED cuts
  /\ Ends

PowerCut ==
  /\ cuts < MaxCuts
  /\ cuts' = cuts + 1
  /\ pc # "wait"
  /\ pc' = "wait"
  /\ Ends
------------------------------------------------------------------------------
(***************************************************************************)
(* What becomes of a failure.                                              *)
(***************************************************************************)
(* reportError: recorded first; the same one only once in ErrorRemind. *)
ReportError ==
  /\ pc = "error"
  /\ IF file.error \in {Never, ErrorRemind}
       THEN pc' = "mark" /\ state' = [file EXCEPT !.error = 0]
       ELSE pc' = "report" /\ UNCHANGED state
  /\ mail' = "none"
  /\ UNCHANGED <<alarms, file, todo, database, stamp, sent, cuts>>

(* "better a repeated email than none" *)
NotSaved ==
  /\ "error" \in Faults
  /\ pc \in {"mark", "marking"}
  /\ pc' = "exit"
  /\ state' = NoFile
  /\ Unrecorded(file)
  /\ mail' = "none"
  /\ UNCHANGED <<alarms, file, todo, database, stamp, cuts>>

(* Notify.onException needs the database for its subscribers, and swallows its own errors. *)
OnException ==
  /\ pc = "exit"
  /\ pc' = "report"
  /\ \/ database /\ mail' = "error"
     \/ (~database \/ "mail" \in Faults) /\ mail' = "none"
  /\ UNCHANGED <<alarms, file, todo, state, database, stamp, sent, cuts>>

HeldOff ==
  /\ pc = "report"
  /\ stamp \in 0 .. Holdoff - 1
  /\ pc' = "wait" /\ database' = TRUE
  /\ mail' = "none"
  /\ UNCHANGED <<alarms, file, todo, state, stamp, sent, cuts>>

(* Mutant of Report: subscribers or nobody. *)
ReportToSubscribers ==
  /\ pc = "report"
  /\ stamp \in {Never, Holdoff}
  /\ \/ database /\ mail' = "failure" /\ pc' = "stamp" /\ UNCHANGED database
     \/ (~database \/ "mail" \in Faults) /\ mail' = "none" /\ pc' = "wait" /\ database' = TRUE
  /\ UNCHANGED <<alarms, file, todo, state, stamp, sent, cuts>>

(* notifyFailure: to root when there is no database; no stamp without a mail. *)
Report ==
  /\ pc = "report"
  /\ stamp \in {Never, Holdoff}
  /\ \/ mail' = "failure" /\ pc' = "stamp" /\ UNCHANGED database
     \/ "mail" \in Faults /\ mail' = "none" /\ pc' = "wait" /\ database' = TRUE
  /\ UNCHANGED <<alarms, file, todo, state, stamp, sent, cuts>>

Stamp ==
  /\ pc = "stamp"
  /\ pc' = "wait" /\ database' = TRUE
  /\ stamp' = 0
  /\ mail' = "none"
  /\ UNCHANGED <<alarms, file, todo, state, sent, cuts>>
------------------------------------------------------------------------------
Watchdog == CheckPOC \/ NoFlow \/ HighFlow \/ LowFlow \/ EndOfRun \/ Truncate \/ Save
Failure == ReportError \/ OnException \/ HeldOff \/ Report \/ Stamp

Next ==
  \/ Tick \/ NewReading \/ NewRun
  \/ Start \/ Watchdog \/ Raise \/ Kill \/ PowerCut
  \/ Failure \/ NotSaved

Spec == Init /\ [][Next]_vars

(***************************************************************************)
(* The timer goes on and time passes; a mail is not refused for ever, nor a*)
(* report killed.  A run of the watchdog may fail every time.              *)
(***************************************************************************)
FairSpec ==
  /\ Spec
  /\ SF_vars(Tick) /\ WF_vars(Start) /\ WF_vars(Watchdog \/ Failure)
  /\ SF_vars(NoFlow /\ mail' = "noflow") /\ SF_vars(Report /\ mail' = "failure")
------------------------------------------------------------------------------
(***************************************************************************)
(* A stall is mailed once and again only after Remind, high flow once per  *)
(* run and low flow at most once in Remind of an episode, unless the run   *)
(* which mailed it did not live to record it (FlowSensorWatch.py:45-54).   *)
(* A new episode may be mailed sooner, when the mail of the last was late. *)
(***************************************************************************)
Mailable(k) ==
  \/ sent[k] = Never
  \/ k # "high" /\ sent[k] = Remind
  \/ k = "low" /\ file.low \notin 0 .. Remind - 1

NoRepeat == [][\A k \in Kind : mail' = k => Mailable(k)]_vars

(***************************************************************************)
(* While a sensor stalls mails go out again and again, about the stall or, *)
(* when the watchdog keeps failing, about the watchdog, even without the   *)
(* database, which knows the subscribers (notifyFailure.py, OIFailure@).   *)
(***************************************************************************)
NeverSilent ==
  <>[]("noflow" \in alarms) => []<>(mail \in {"noflow", "error", "failure"})
==============================================================================
