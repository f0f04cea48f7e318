------------------------------- MODULE MCAlerts -------------------------------
(* Three units of time stand for the hours between reminders, two for     *)
(* those between two reports of a failure.                                *)
EXTENDS Alerts
==============================================================================
