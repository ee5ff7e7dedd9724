---------------------------- MODULE MCDocuments ----------------------------
(* Documents on two skus and two warehouses. *)
EXTENDS Documents, TLC

CONSTANTS t1, t2, r1, c1, a, b, w1, w2, x1, x2

MCOpening == [c \in Cells |-> CASE c = <<a, w1>> -> 2 [] c = <<b, w1>> -> 1
                                [] c = <<a, w2>> -> 1 [] OTHER -> 0]
MCReserved == [c \in Cells |-> IF c = <<a, w2>> THEN 1 ELSE 0]
MCQuantities == {[s \in Skus |-> IF s = a THEN 2 ELSE 1],
                 [s \in Skus |-> IF s = a THEN 1 ELSE 0]}
MCDeltas == {-1}

TransferKinds == {"createTransfer", "dispatch", "receive", "cancelTransfer"}

Interchangeable == Permutations({x1, x2})
=============================================================================
