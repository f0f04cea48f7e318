------------------------------- MODULE MCLogs -------------------------------
EXTENDS Logs, TLC

(* Three readings of the second table, all within a second and the last   *)
(* two at the same time; the database never accepts the second.  Nothing is *)
(* logged in the first table, so each run has one with nothing to delete.  *)
MCPolicies == <<"errorlog", "sensorlog">>
MCTableOf == (1 :> "sensorlog") @@ (2 :> "sensorlog") @@ (3 :> "sensorlog")
MCTimeOf == (1 :> 0) @@ (2 :> 1) @@ (3 :> 1)
MCRefused == {2}
=============================================================================
