----------------------------- MODULE MCPacking -----------------------------
(* Instances of Packing for TLC: a list that packs a partly reserved order  *)
(* and a list that packs no order, over the same goods.                     *)
EXTENDS Packing, TLC

CONSTANTS pkg1, pkg2, ord, shirt, main, store

MCPacked == [c \in Lists \X Skus |-> 2]
MCOrderOf == [l \in Lists |-> IF l = pkg2 THEN ord ELSE NoOrder]
MCOrderHeld == [c \in Orders \X Skus \X Warehouses |-> IF c[3] = main THEN 1 ELSE 0]
MCOpening == [c \in Cells |-> IF c[2] = main THEN 3 ELSE 1]
MCShipsFrom == [l \in Lists |-> main]
Interchangeable == Permutations(Tx)
=============================================================================
