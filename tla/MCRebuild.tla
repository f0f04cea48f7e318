------------------------------ MODULE MCRebuild ------------------------------
(* Two runs of a station and one off period of its master valve. *)
EXTENDS Rebuild, TLC

CONSTANTS a1, a2, m1, v1, mv

MCAct == {a1, a2, m1}
MCValve == {v1, mv}
MCValveOf == (a1 :> v1) @@ (a2 :> v1) @@ (m1 :> mv)
MCMaster == {mv}
MCSymmetry == Permutations({a1, a2})
==============================================================================
