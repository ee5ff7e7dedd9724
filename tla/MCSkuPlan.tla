------------------------------- MODULE MCSkuPlan -------------------------------
(* A style sold in red 38 and 2XL, in red and blue 38, or without variants,   *)
(* and a carton of each kind of cell the floor types.                        *)
EXTENDS SkuPlan

W(scale, text) == [scale |-> scale, text |-> text]
Red == W("", "RED")
S38 == W("", "38")
XL2 == {W("", "2XL")}
MCStyles == {{}, {{Red, S38}, XL2}, {{Red, S38}, {W("", "BLUE"), S38}}}
MCSizes == {S38, W("EU", "38")}
MCColours == {Blank, Red}

Cell(color, size) ==
    [linked |-> TRUE, own |-> None, color |-> color, size |-> size, from |-> 1, to |-> 2, qty |-> 3]
MCCartonLists ==
    {{Cell(Red, S38), Cell(Blank, W("EU", "38"))},
     {[Cell(Red, S38) EXCEPT !.linked = FALSE],
      [Cell(Blank, W("", "XXL")) EXCEPT !.own = [made |-> 1, label |-> XL2], !.to = 0]}}
================================================================================
