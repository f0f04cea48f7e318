------------------------------- MODULE MCWakeup -------------------------------
(* Two commands, planned up to two ticks ahead. *)
EXTENDS Wakeup
==============================================================================
