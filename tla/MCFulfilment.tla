---------------------------- MODULE MCFulfilment ----------------------------
(* Instances of Fulfilment for TLC: a two-line order that can only partly   *)
(* be covered from one warehouse, and a rival order for the same goods.    *)
EXTENDS Fulfilment

CONSTANTS big, rival, i1, i2, i3, shirt, cap, main, store

MCItemsOf == [o \in Orders |-> IF o = big THEN <<i1, i2>> ELSE <<i3>>]
MCSkuOf == [i \in Items |-> IF i = i2 THEN cap ELSE shirt]
MCQtyOf == [i \in Items |-> IF i = i1 THEN 2 ELSE 1]
MCOpening == [cell \in Skus \X Warehouses |->
                CASE cell = <<shirt, main>> -> 2
                  [] cell = <<shirt, store>> -> 1
                  [] cell = <<cap, main>> -> 1
                  [] OTHER -> 0]
=============================================================================
