--------------------------- MODULE MCStockLedger ---------------------------
(* Instances of StockLedger for TLC: two requests at a time over two       *)
(* levels of one product, the requests being what the endpoints ask for.   *)
EXTENDS StockLedger

CONSTANTS a, b, p

MCProductOf == [l \in Levels |-> p]

Move(l, q, r) == [op |-> "move", lvl |-> l, qty |-> q, res |-> r]
Incoming(l, q) == [op |-> "incoming", lvl |-> l, qty |-> q, res |-> 0]

Receive(l, n) == [lines |-> <<Move(l, n, 0)>>, sync |-> TRUE]
Reserve(ls) == [lines |-> [i \in DOMAIN ls |-> Move(ls[i], 0, 1)], sync |-> FALSE]
Deduct(l) == [lines |-> <<Move(l, -1, -1)>>, sync |-> TRUE]
\* A transfer's dispatch: out of one level, expected at the other.
Dispatch(l, k) == [lines |-> <<Move(l, -1, 0), Incoming(k, 1)>>, sync |-> TRUE]
\* Its receipt: what was expected lands (one unit more than was sent).
Land(k) == [lines |-> <<Move(k, 1, 0), Incoming(k, -2)>>, sync |-> TRUE]

MCRequests == {Receive(a, 2), Reserve(<<a, b>>), Reserve(<<b, a>>), Deduct(a),
               Dispatch(a, b), Land(b)}

ReceiptsOnly == {Receive(a, 1), Receive(b, 1)}
=============================================================================
