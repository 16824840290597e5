------------------------------ MODULE MCTower ------------------------------
(* Instances of TowerLayer for TLC. *)
EXTENDS TowerProps, TLC

CONSTANTS r1, r2, r3
TwoTenants == (r1 :> 0) @@ (r2 :> 0) @@ (r3 :> 1)
=============================================================================
