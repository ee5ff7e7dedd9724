------------------------------ MODULE Packing ------------------------------
(***************************************************************************)
(* Packing lists as outbound stock documents: hold, release, confirm,      *)
(* reopen and delete (src/src/workflows/packing.controller.ts), with the   *)
(* generic PATCH of CrudService and the courier events that write the same *)
(* row.                                                                    *)
(*                                                                         *)
(* A request is one transaction in two steps.  Read takes what its SELECTs *)
(* see; Act does its locked writes and commits, or throws and leaves       *)
(* nothing.  The stock requests lock the packing_lists row first, so they  *)
(* run one at a time per list; PATCH and ship-events read the row without  *)
(* a lock, and only their UPDATE waits for it.  Levels and the order's     *)
(* reservations are read without a lock by all of them.                    *)
(***************************************************************************)
EXTENDS Integers, FiniteSetsExt, Functions

CONSTANTS
    Lists, Skus, Warehouses, Orders, Tx,
    NoWarehouse, NoOrder,
    Packed,        \* units of a sku in a list's cartons when the model starts
    Contents,      \* units an edit may ask for
    OrderOf,       \* the order a list packs
    OrderHeld,     \* units of <<order, sku, warehouse>> the order reserved
    Opening,       \* on-hand of <<sku, warehouse>>
    ShipsFrom,     \* a list's warehouse when the model starts
    Kinds,         \* the requests the model sends
    MaxRequests    \* bound

Locked == {"hold", "releaseHold", "confirm", "reopen", "remove"}
Unlocked == {"edit", "route", "ship"}
AllKinds == Locked \cup Unlocked

ASSUME PackingAssumption ==
    /\ IsFiniteSet(Lists) /\ IsFiniteSet(Skus) /\ IsFiniteSet(Warehouses) /\ IsFiniteSet(Orders)
    /\ Packed \in [Lists \X Skus -> Nat] /\ Contents \subseteq Nat
    /\ OrderOf \in [Lists -> Orders \cup {NoOrder}] /\ NoOrder \notin Orders
    /\ OrderHeld \in [Orders \X Skus \X Warehouses -> Nat]
    /\ Opening \in [Skus \X Warehouses -> Nat]
    /\ \A s \in Skus, w \in Warehouses :   \* the orders hold what there is
          SumFunction([o \in Orders |-> OrderHeld[<<o, s, w>>]]) <= Opening[<<s, w>>]
    /\ ShipsFrom \in [Lists -> Warehouses \cup {NoWarehouse}]
    /\ NoWarehouse \notin Warehouses
    /\ Kinds \subseteq AllKinds
    /\ MaxRequests \in Nat

VARIABLES
    db,        \* the committed rows, see Rows
    run,       \* each transaction's request and what it read
    begun,     \* requests in flight or committed (bound)
    astray     \* units that requests which lost track of a list let go again

vars == <<db, run, begun, astray>>

Cells == Skus \X Warehouses

Hold == [qty : Nat, fulfilled : Nat, released : Nat,
         status : {"none", "active", "fulfilled", "released"}]
NoHold == [qty |-> 0, fulfilled |-> 0, released |-> 0, status |-> "none"]

\* A packing_lists row; shipNo 0 and ship "none" are SQL nulls.
ListRow == [status : {"draft", "packed", "shipped", "deleted"},
            stock : {"none", "held", "deducted"},
            shipNo : Nat, ship : {"none", "awaiting", "booked", "delivered"},
            wh : Warehouses \cup {NoWarehouse}]

\* `taken` is the net of a list's deduct and adjust movements in the ledger.
Rows == [list : [Lists -> ListRow],
         contents : [Lists \X Skus -> Nat],
         hold : [Lists \X Skus \X Warehouses -> Hold],
         orderHold : [Orders \X Skus \X Warehouses -> Hold],
         level : [Cells -> [onHand : Nat, reserved : Nat]],
         taken : [Lists \X Skus \X Warehouses -> Int]]

\* What a request's unlocked SELECTs return.
Snapshot(d) == [list |-> d.list, level |-> d.level, orderHold |-> d.orderHold]

Idle == [kind |-> "idle"]

Outstanding(h) == h.qty - h.fulfilled - h.released
Available(d, s, w) == d.level[<<s, w>>].onHand - d.level[<<s, w>>].reserved

Lesser(m, n) == IF m < n THEN m ELSE n
Positive(n) == IF n > 0 THEN n ELSE 0

-----------------------------------------------------------------------------
(***************************************************************************)
(* A request's progress through its lines: `seen` is what its SELECTs      *)
(* return, its own writes included, `db` what its writes make of the       *)
(* committed rows; ok falls when applyMovement throws, `moved` rises when  *)
(* syncHold holds or releases something.                                   *)
(***************************************************************************)

Start(seen) == [ok |-> TRUE, moved |-> FALSE, left |-> 0, seen |-> seen, db |-> db]

\* Mutant: applyMovement without its checks.
MovedUnchecked(x, l, s, w, qty, res) ==
    LET new == [onHand |-> x.db.level[<<s, w>>].onHand + qty,
                reserved |-> x.db.level[<<s, w>>].reserved + res]
    IN  [x EXCEPT !.db.level[<<s, w>>] = new, !.seen.level[<<s, w>>] = new,
                  !.db.taken[<<l, s, w>>] = @ - qty]

Moved(x, l, s, w, qty, res) ==
    LET onHand == x.db.level[<<s, w>>].onHand + qty
        reserved == x.db.level[<<s, w>>].reserved + res
        new == [onHand |-> onHand, reserved |-> reserved]
    IN  [x EXCEPT !.ok = @ /\ 0 <= reserved /\ reserved <= onHand,
                  !.db.level[<<s, w>>] = new, !.seen.level[<<s, w>>] = new,
                  !.db.taken[<<l, s, w>>] = @ - qty]

Rejected(x) == [x EXCEPT !.ok = FALSE]

\* The list's active row of a sku, as holdsFor keeps one per sku: of several,
\* the one the query returns last (`pick` stands for the row order).
ActiveAt(x, l, s) == {w \in Warehouses : x.db.hold[<<l, s, w>>].status = "active"}
HoldAt(x, l, s, pick) ==
    IF pick[s] \in ActiveAt(x, l, s) THEN pick[s]
    ELSE CHOOSE w \in ActiveAt(x, l, s) : TRUE

\* What the order behind the list still holds of a sku, at any warehouse.
OrderHolds(x, l, s) ==
    IF OrderOf[l] = NoOrder THEN 0
    ELSE SumFunction([w \in {v \in Warehouses :
                               x.seen.orderHold[<<OrderOf[l], s, v>>].status = "active"} |->
                        Outstanding(x.seen.orderHold[<<OrderOf[l], s, w>>])])

-----------------------------------------------------------------------------
(* syncHold: the holds converge on the document, by the net change only.   *)

UpsertHold(x, l, s, w, qty) ==
    [x EXCEPT !.db.hold[<<l, s, w>>] = [@ EXCEPT !.qty = qty, !.status = "active"]]

HoldLine(x, l, s, pick) ==
    LET w == x.db.list[l].wh
        packed == x.db.contents[<<l, s>>]
        want == packed - Lesser(packed, OrderHolds(x, l, s))
        have == IF ActiveAt(x, l, s) = {} THEN 0
                ELSE x.db.hold[<<l, s, HoldAt(x, l, s, pick)>>].qty
        delta == IF want > have
                 THEN Lesser(want - have, Positive(Available(x.seen, s, w)))
                 ELSE want - have
    IN  IF delta = 0 THEN x
        ELSE [UpsertHold(Moved(x, l, s, w, 0, delta), l, s, w, have + delta)
                EXCEPT !.moved = TRUE]

Released(h, n) == [h EXCEPT !.released = @ + n, !.status = "released"]

\* Gives the outstanding part of the list's hold of a sku back.
ReleaseLine(x, l, s, pick) ==
    LET w == HoldAt(x, l, s, pick)
        free == Outstanding(x.db.hold[<<l, s, w>>])
    IN  IF ActiveAt(x, l, s) = {} \/ free <= 0 THEN x
        ELSE [Moved(x, l, s, w, 0, -free) EXCEPT
                !.db.hold[<<l, s, w>>] = Released(@, free), !.moved = TRUE]

SyncLine(x, l, s, pick) ==
    IF x.db.contents[<<l, s>>] > 0 THEN HoldLine(x, l, s, pick) ELSE ReleaseLine(x, l, s, pick)

SyncHold(x, l, pick) ==
    LET y == FoldSet(LAMBDA s, acc : SyncLine(acc, l, s, pick), x, Skus)
    IN  IF y.moved THEN [y EXCEPT !.db.list[l].stock = "held"] ELSE y

ReleaseAll(x, l, pick) ==
    FoldSet(LAMBDA s, acc : ReleaseLine(acc, l, s, pick), x, Skus)

HoldStock(x, l, pick) ==
    IF x.db.list[l].status # "draft" \/ x.db.list[l].wh = NoWarehouse
    THEN Rejected(x) ELSE SyncHold(x, l, pick)

ReleaseHold(x, l, pick) ==
    [ReleaseAll(x, l, pick) EXCEPT !.db.list[l].stock = "none"]

-----------------------------------------------------------------------------
(* deductPacked: per sku the list's own hold first, then the order's, then *)
(* straight off the shelf - clamped to what is on hand.                    *)

Settled(h, n) ==
    [h EXCEPT !.fulfilled = @ + n,
              !.status = IF h.fulfilled + n + h.released >= h.qty
                         THEN "fulfilled" ELSE "active"]

TakeOwn(x, l, s, pick) ==
    LET row == HoldAt(x, l, s, pick)
        n == Lesser(x.left, Positive(Outstanding(x.db.hold[<<l, s, row>>])))
    IN  IF ActiveAt(x, l, s) = {} \/ n = 0 THEN x
        ELSE [Moved(x, l, s, x.db.list[l].wh, -n, -n) EXCEPT
                !.db.hold[<<l, s, row>>] = Settled(@, n), !.left = @ - n]

\* The order's row is written with absolute values, computed as it was read.
TakeOrder(x, l, s, cell) ==
    LET h == x.seen.orderHold[cell]
        n == Lesser(x.left, Positive(Outstanding(h)))
    IN  IF h.status # "active" \/ n <= 0 THEN x
        ELSE [Moved(x, l, s, x.db.list[l].wh, -n, -n) EXCEPT
                !.db.orderHold[cell] = Settled(h, n), !.left = @ - n]

TakeRest(x, l, s) ==
    IF x.left <= 0 THEN x
    ELSE [Moved(x, l, s, x.db.list[l].wh, -x.left, 0) EXCEPT !.left = 0]

DeductLine(x, l, s, pick) ==
    LET take == Lesser(x.db.contents[<<l, s>>],
                       Positive(x.seen.level[<<s, x.db.list[l].wh>>].onHand))
        line == [x EXCEPT !.left = take]
        rows == {c \in Orders \X {s} \X Warehouses : c[1] = OrderOf[l]}
        own == TakeOwn(line, l, s, pick)
        order == FoldSet(LAMBDA c, acc : TakeOrder(acc, l, s, c), own, rows)
    IN  TakeRest(order, l, s)

DeductPacked(x, l, pick) ==
    IF x.db.list[l].wh = NoWarehouse THEN x
    ELSE FoldSet(LAMBDA s, acc : DeductLine(acc, l, s, pick), x, Skus)

Numbers(d) == {d.list[l].shipNo : l \in {m \in Lists : d.list[m].status # "deleted"}}

Signed(row, next) ==
    [row EXCEPT !.status = "packed", !.stock = "deducted",
                !.shipNo = IF @ = 0 THEN next ELSE @,
                !.ship = IF @ = "none" THEN "awaiting" ELSE @]

\* Mutant: no stock gate.
ConfirmUngated(x, l, pick) ==
    [DeductPacked(x, l, pick) EXCEPT
        !.db.list[l] = Signed(@, 1 + Max(Numbers(x.seen)))]

Confirm(x, l, pick) ==
    LET y == IF x.db.list[l].stock = "deducted" THEN x ELSE DeductPacked(x, l, pick)
    IN  [y EXCEPT !.db.list[l] = Signed(@, 1 + Max(Numbers(x.seen)))]

-----------------------------------------------------------------------------
(* reopen and remove put what the ledger says was taken back where it was. *)

PutBack(x, l) ==
    FoldSet(LAMBDA c, acc : Moved(acc, l, c[1], c[2], acc.db.taken[<<l, c[1], c[2]>>], 0),
            x, {c \in Cells : x.db.taken[<<l, c[1], c[2]>>] > 0})

ZeroHolds(x, l) ==
    [x EXCEPT !.db.hold = [c \in DOMAIN @ |->
        IF c[1] # l \/ @[c].status = "none" THEN @[c]
        ELSE [NoHold EXCEPT !.status = "active"]]]

\* Mutant: the goods come back, and are not held again.
ReopenUnheld(x, l, pick) ==
    LET list == x.db.list[l]
        back == IF list.stock = "deducted" THEN PutBack(x, l) ELSE x
    IN  IF list.ship \notin {"none", "awaiting"} THEN Rejected(x)
        ELSE [ZeroHolds(back, l) EXCEPT !.db.list[l].status = "draft",
                                        !.db.list[l].stock = "none"]

Reopen(x, l, pick) ==
    LET list == x.db.list[l]
        back == IF list.stock = "deducted" THEN PutBack(x, l) ELSE x
        draft == [ZeroHolds(back, l) EXCEPT !.db.list[l].status = "draft",
                                            !.db.list[l].stock = "none"]
    IN  IF list.ship \notin {"none", "awaiting"} THEN Rejected(x)
        ELSE IF list.wh = NoWarehouse THEN draft
        ELSE SyncHold(draft, l, pick)

\* Mutant: deleting a list releases its holds and forgets what it deducted.
RemoveUnreturned(x, l, pick) ==
    [ReleaseAll(x, l, pick) EXCEPT
        !.db.list[l].status = "deleted",
        !.db.hold = [c \in DOMAIN @ |-> IF c[1] = l THEN NoHold ELSE @[c]]]

Remove(x, l, pick) ==
    LET y == IF x.db.list[l].stock = "deducted" THEN PutBack(x, l)
             ELSE ReleaseAll(x, l, pick)
    IN  [y EXCEPT !.db.list[l].status = "deleted",
                  !.db.hold = [c \in DOMAIN @ |-> IF c[1] = l THEN NoHold ELSE @[c]]]

-----------------------------------------------------------------------------
(* The requests that do not lock: CrudService.update of the cartons or of  *)
(* the header, and the courier's events.                                   *)

Exists(x, l) == x.db.list[l].status # "deleted"

\* Frozen once the row that was read is not a draft.
Edit(x, l, arg) ==
    IF x.seen.list[l].status # "draft" \/ ~Exists(x, l) THEN Rejected(x)
    ELSE [x EXCEPT !.db.contents = [c \in DOMAIN @ |-> IF c[1] = l THEN arg[c[2]]
                                                      ELSE @[c]]]

Route(x, l, w) ==
    IF ~Exists(x, l) THEN Rejected(x) ELSE [x EXCEPT !.db.list[l].wh = w]

\* Writes back the status it read, unless the goods were delivered.
AddShipEvent(x, l, event) ==
    IF ~Exists(x, l) THEN Rejected(x)
    ELSE [x EXCEPT !.db.list[l].ship = event,
                   !.db.list[l].status = IF event = "delivered" THEN "shipped"
                                         ELSE x.seen.list[l].status]

Inputs(kind) ==
    CASE kind = "edit"  -> [Skus -> Contents]
      [] kind = "route" -> Warehouses
      [] kind = "ship"  -> {"awaiting", "booked", "delivered"}
      [] OTHER          -> [Skus -> Warehouses]   \* the row order, see HoldAt

Outcome(kind, x, l, arg) ==
    CASE kind = "hold"        -> HoldStock(x, l, arg)
      [] kind = "releaseHold" -> ReleaseHold(x, l, arg)
      [] kind = "confirm"     -> Confirm(x, l, arg)
      [] kind = "reopen"      -> Reopen(x, l, arg)
      [] kind = "remove"      -> Remove(x, l, arg)
      [] kind = "edit"        -> Edit(x, l, arg)
      [] kind = "route"       -> Route(x, l, arg)
      [] kind = "ship"        -> AddShipEvent(x, l, arg)

-----------------------------------------------------------------------------
ReservedBy(d, s, w) ==
    SumFunction([o \in Orders |-> Outstanding(d.orderHold[<<o, s, w>>])])

Init ==
    /\ db = [list |-> [l \in Lists |-> [status |-> "draft", stock |-> "none", shipNo |-> 0,
                                       ship |-> "none", wh |-> ShipsFrom[l]]],
             contents |-> Packed,
             hold |-> [c \in Lists \X Skus \X Warehouses |-> NoHold],
             orderHold |-> [c \in Orders \X Skus \X Warehouses |->
                IF OrderHeld[c] = 0 THEN NoHold
                ELSE [NoHold EXCEPT !.qty = OrderHeld[c], !.status = "active"]],
             level |-> [c \in Cells |->
                [onHand |-> Opening[c],
                 reserved |-> SumFunction([o \in Orders |-> OrderHeld[<<o, c[1], c[2]>>]])]],
             taken |-> [c \in Lists \X Skus \X Warehouses |-> 0]]
    /\ run = [t \in Tx |-> Idle]
    /\ begun = 0
    /\ astray = [c \in Lists \X Skus |-> 0]

InFlight(l) == {t \in Tx : run[t] # Idle /\ run[t].list = l}

LockHeld(l) == \E t \in InFlight(l) : run[t].kind \in Locked

Read(t, kind, l) ==
    /\ run[t] = Idle /\ begun < MaxRequests
    /\ db.list[l].status # "deleted"   \* a deleted id answers 404
    /\ kind \in Locked => ~LockHeld(l)
    /\ begun' = begun + 1
    /\ run' = [run EXCEPT ![t] = [kind |-> kind, list |-> l, seen |-> Snapshot(db)]]
    /\ UNCHANGED <<db, astray>>

\* A request loses track of its list: a hold is released although the goods
\* are gone, or the status the request saw is no longer the list's.
LosesTrack(r, l) ==
    \/ r.kind = "releaseHold" /\ db.list[l].stock = "deducted"
    \/ r.kind \in {"edit", "ship"} /\ r.seen.list[l].status # db.list[l].status

PutsAllBack(r, l) == r.kind \in {"reopen", "remove"} /\ db.list[l].stock = "deducted"

\* History: the cartons as they were each time, until all is put back.
Astray(r, l) ==
    [c \in DOMAIN astray |->
        IF c[1] # l THEN astray[c]
        ELSE IF PutsAllBack(r, l) THEN 0
        ELSE IF LosesTrack(r, l) THEN astray[c] + db.contents[c]
        ELSE astray[c]]

Act(t) ==
    /\ run[t] # Idle
    /\ run[t].kind \in Unlocked => ~LockHeld(run[t].list)
    /\ \E arg \in Inputs(run[t].kind) :
          LET x == Outcome(run[t].kind, Start(run[t].seen), run[t].list, arg) IN
          IF x.ok
          THEN db' = x.db /\ astray' = Astray(run[t], run[t].list) /\ UNCHANGED begun
          ELSE UNCHANGED <<db, astray>> /\ begun' = begun - 1
    /\ run' = [run EXCEPT ![t] = Idle]

\* The process dies, or the database aborts the transaction.
Abort(t) ==
    /\ run[t] # Idle
    /\ run' = [run EXCEPT ![t] = Idle]
    /\ begun' = begun - 1
    /\ UNCHANGED <<db, astray>>

Next ==
    \E t \in Tx :
        \/ \E kind \in Kinds, l \in Lists : Read(t, kind, l)
        \/ Act(t)
        \/ Abort(t)

Spec == Init /\ [][Next]_vars

-----------------------------------------------------------------------------
(* Properties                                                              *)

\* Types; on-hand and reserved stay non-negative and reserved covered.
TypeOK ==
    /\ db \in Rows
    /\ \A c \in Cells : db.level[c].reserved <= db.level[c].onHand
    /\ \A t \in Tx : run[t] = Idle \/ run[t].kind \in Kinds
    /\ begun \in 0 .. MaxRequests

TakenUnits(d, l, s) == SumFunction([w \in Warehouses |-> d.taken[<<l, s, w>>]])

\* Goods are off the shelf only for a list that exists, says so, and is no
\* longer a draft: whatever holds, confirms, reopens, edits and deletions did
\* before, none leaves goods gone that no document accounts for.  The
\* exception is what a release-hold on a signed list, or a PATCH or courier's
\* event that overlapped a confirm or reopen, made lose track of.
OffShelfIsDeducted ==
    \A l \in Lists, s \in Skus :
        TakenUnits(db, l, s) # 0 /\ astray[<<l, s>>] = 0 =>
            /\ db.list[l].stock = "deducted"
            /\ db.list[l].status \in {"packed", "shipped"}

\* Stock moves once per signed document: a list never has more units off the
\* shelf than its cartons say, over any sequence of confirms and reopens;
\* each time it is lost track of, what its cartons then said may leave once
\* more, and no more than that.
TakenAtMostContents ==
    \A l \in Lists, s \in Skus :
        TakenUnits(db, l, s) <= db.contents[<<l, s>>] + astray[<<l, s>>]

Reopened(l) == db.list[l].status = "packed" /\ db'.list[l].status = "draft"

\* Reopening a list that packs no order does not make goods available to
\* others where it ships from: what comes back to the shelf is held again,
\* but for units that had left more often than the cartons say.
ReopenKeepsHeld ==
    [][\A l \in Lists, s \in Skus :
          Reopened(l) /\ OrderOf[l] = NoOrder /\ db.list[l].wh # NoWarehouse =>
             Available(db', s, db.list[l].wh)
                <= Available(db, s, db.list[l].wh) + astray[<<l, s>>]]_vars

\* What the source says of a signed document: its stock moves once.
MovesOnce ==
    \A l \in Lists, s \in Skus : TakenUnits(db, l, s) <= db.contents[<<l, s>>]

\* What the confirm endpoint and deductPacked say: signing is never blocked by
\* short stock.
ConfirmNeverBlocked ==
    \A t \in Tx : run[t] # Idle /\ run[t].kind = "confirm" =>
        \A pick \in [Skus -> Warehouses] :
            Confirm(Start(run[t].seen), run[t].list, pick).ok

\* What the release-hold endpoint and stock_state say: a list whose state is
\* none holds nothing, so with every list there only the orders' reservations
\* are left in `reserved`.
NoneHoldsNothing ==
    (\A l \in Lists : db.list[l].stock = "none") =>
        \A s \in Skus, w \in Warehouses :
            db.level[<<s, w>>].reserved = ReservedBy(db, s, w)
=============================================================================
