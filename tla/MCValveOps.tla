----------------------------- MODULE MCValveOps -----------------------------
EXTENDS ValveOps, TLC

CONSTANTS a1, a2, v1, v2

MCAct == {a1, a2}
MCSymmetry == Permutations({a1, a2})

(* Two runs of one valve. *)
OneValve == {v1}
BothOfOne == (a1 :> v1) @@ (a2 :> v1)

(* A run of each of two valves. *)
TwoValves == {v1, v2}
OneOfEach == (a1 :> v1) @@ (a2 :> v2)
NoMaster == {}

(* The first of two valves is the master valve. *)
OnlyMaster == {v1}
=============================================================================
