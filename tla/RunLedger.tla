------------------------------ MODULE RunLedger ------------------------------
(***************************************************************************)
(* What the action, command and historical tables together promise about   *)
(* one run of one valve, whoever calls the SQL functions and in whatever   *)
(* order: a run is planned, then it is either dropped before it started or *)
(* it ends up in the history; a run which has been turned on is never      *)
(* dropped, never planned again, and never leaves the history.             *)
(*                                                                         *)
(* This is the abstract specification which ActionTable implements.        *)
(***************************************************************************)
CONSTANT Act            \* the ids the action table's sequence may hand out

VARIABLE stage          \* where each run is in its life

Stages == {"unknown", "pending", "running", "history", "dropped"}

(***************************************************************************)
(* The legal moves.  pending to history without running is a refused on,   *)
(* or an off which was confirmed while the on was still outstanding.       *)
(***************************************************************************)
Moves == { <<"unknown", "pending">>,
           <<"pending", "running">>,
           <<"pending", "dropped">>,
           <<"pending", "history">>,
           <<"running", "history">> }

Init == stage = [a \in Act |-> "unknown"]

(* One transaction may move several runs, each along one legal edge. *)
Next ==
  /\ stage' \in [Act -> Stages]
  /\ \A a \in Act : stage'[a] = stage[a] \/ <<stage[a], stage'[a]>> \in Moves

Spec == Init /\ [][Next]_stage
==============================================================================
