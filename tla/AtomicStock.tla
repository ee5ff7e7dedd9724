---------------------------- MODULE AtomicStock ----------------------------
(***************************************************************************)
(* What the stock ledger promises its callers: a request's lines take      *)
(* effect whole, at one instant, against the committed stock, or not at    *)
(* all; and each line leaves the balances it produced in the ledger.       *)
(* The abstract specification StockLedger is shown to implement.           *)
(***************************************************************************)
EXTENDS Integers, Sequences

CONSTANTS Levels, Requests

VARIABLES level, ledger

NoRow == [exists |-> FALSE, onHand |-> 0, reserved |-> 0, incoming |-> 0]

\* A running outcome: whether every line so far was accepted, and the result.
Moved(o, c) ==
    LET onHand == o.level[c.lvl].onHand + c.qty
        reserved == o.level[c.lvl].reserved + c.res
    IN  [ok |-> o.ok /\ 0 <= reserved /\ reserved <= onHand,
         level |-> [o.level EXCEPT ![c.lvl] = [@ EXCEPT !.exists = TRUE,
                                     !.onHand = onHand, !.reserved = reserved]],
         ledger |-> [o.ledger EXCEPT ![c.lvl] =
                      Append(@, [qty |-> c.qty, res |-> c.res,
                                 onHand |-> onHand, reserved |-> reserved])]]

Expected(o, c) ==
    LET incoming == o.level[c.lvl].incoming + c.qty IN
    [o EXCEPT !.level[c.lvl] =
        [@ EXCEPT !.exists = TRUE,
                  !.incoming = IF incoming > 0 THEN incoming ELSE 0]]

Outcome(r) ==
    LET upTo[i \in 0 .. Len(r.lines)] ==
            IF i = 0 THEN [ok |-> TRUE, level |-> level, ledger |-> ledger]
            ELSE LET c == r.lines[i] IN
                 IF c.op = "move" THEN Moved(upTo[i - 1], c)
                 ELSE Expected(upTo[i - 1], c)
    IN  upTo[Len(r.lines)]

Init ==
    /\ level = [l \in Levels |-> NoRow]
    /\ ledger = [l \in Levels |-> <<>>]

Serve(r) ==
    LET o == Outcome(r) IN
    /\ o.ok
    /\ level' = o.level
    /\ ledger' = o.ledger

Next == \E r \in Requests : Serve(r)

Spec == Init /\ [][Next]_<<level, ledger>>
=============================================================================
