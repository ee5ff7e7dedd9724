----------------------------- MODULE Fulfilment -----------------------------
(***************************************************************************)
(* The order half of the stock lifecycle: FulfilmentService                *)
(* (src/src/inventory/fulfilment.service.ts) and the requests that call    *)
(* it - CrudService create / update / remove on orders, the reserve,       *)
(* release and deduct endpoints, and the expiry job.                       *)
(*                                                                         *)
(* A request is one transaction in two steps: Read takes what its plain    *)
(* SELECTs see (order, items, reservations, availability), Act does the    *)
(* locked writes and commits.  Between the two, other requests commit.     *)
(* Writes to a level are read again under its row lock (StockLedger), so   *)
(* Act applies movements to the committed level; a request that throws     *)
(* leaves nothing.  All the reads of a request are taken at its Read.      *)
(* Nothing keeps two requests for one order apart.                         *)
(***************************************************************************)
EXTENDS Integers, Sequences, SequencesExt

CONSTANTS
    Orders, Items, Skus, Warehouses, Tx,
    NoWarehouse,
    Central,         \* the central warehouse: preferred, and the default
    ItemsOf,         \* an order's lines, in order
    SkuOf, QtyOf,    \* what a line asks for
    Opening,         \* on-hand of <<sku, warehouse>> when the model starts
    Kinds,           \* the requests the model sends
    MaxRequests, MaxRestocks   \* bounds

AllKinds == {"create", "reserve", "reservePartial", "release", "deduct",
             "cancel", "reinstate", "rewrite", "remove"}

ASSUME ConstantsAssumption ==
    /\ IsFiniteSet(Orders) /\ IsFiniteSet(Items) /\ IsFiniteSet(Tx)
    /\ IsFiniteSet(Skus) /\ IsFiniteSet(Warehouses)
    /\ ItemsOf \in [Orders -> Seq(Items)]
    /\ \A o \in Orders : IsInjective(ItemsOf[o])   \* a line belongs to one order, once
    /\ \A o, p \in Orders : o # p => Range(ItemsOf[o]) \cap Range(ItemsOf[p]) = {}
    /\ SkuOf \in [Items -> Skus] /\ QtyOf \in [Items -> Nat \ {0}]
    /\ Opening \in [Skus \X Warehouses -> Nat]
    /\ Central \in Warehouses /\ NoWarehouse \notin Warehouses
    /\ Kinds \subseteq AllKinds
    /\ MaxRequests \in Nat /\ MaxRestocks \in Nat

VARIABLES
    db,        \* the committed rows, see Rows
    run,       \* each transaction's request and what it read
    orphaned,  \* history: reserved units whose reservation row was cascaded away
    torn,      \* history: orders a request wrote when its reads of them were stale
    received,  \* history: units restocked
    begun      \* requests started (bound)

vars == <<db, run, orphaned, torn, received, begun>>

OrderStates == {"none", "open", "cancelled", "deleted"}

Hold == [qty : Nat, fulfilled : Nat, released : Nat,
         status : {"none", "active", "fulfilled", "released"}]
NoHold == [qty |-> 0, fulfilled |-> 0, released |-> 0, status |-> "none"]

\* order rows, order_items' ids and warehouse_id, reservations, levels, and the
\* units each order's deduct movements took.
Rows == [order : [Orders -> OrderStates],
         lineId : [Items -> Nat],
         shelf : [Items -> Warehouses \cup {NoWarehouse}],
         hold : [Items \X Warehouses -> Hold],
         level : [Skus \X Warehouses -> [onHand : Int, reserved : Int]],
         shipped : [Orders -> Nat]]

Idle == [kind |-> "idle"]

MyItems(o) == Range(ItemsOf[o])
MyHolds(o) == MyItems(o) \X Warehouses

Outstanding(h) == h.qty - h.fulfilled - h.released

Available(d, s, w) == d.level[<<s, w>>].onHand - d.level[<<s, w>>].reserved

Lesser(m, n) == IF m < n THEN m ELSE n

\* pickWarehouse: the central one if it covers qty, else the deepest that does.
Covering(d, s, qty) == {w \in Warehouses : Available(d, s, w) >= qty}
Pick(d, s, qty) ==
    IF Central \in Covering(d, s, qty) THEN {Central}
    ELSE {w \in Covering(d, s, qty) :
            \A v \in Covering(d, s, qty) : Available(d, s, w) >= Available(d, s, v)}

\* ... falling back to defaultWarehouse.
PickOrDefault(d, s, qty) ==
    IF Pick(d, s, qty) = {} THEN Central ELSE CHOOSE w \in Pick(d, s, qty) : TRUE

-----------------------------------------------------------------------------
(***************************************************************************)
(* A request's progress through its lines.  `seen` is what its SELECTs     *)
(* return (its own writes included), `db` what its writes make of the      *)
(* committed rows; ok falls when something throws, short when a line       *)
(* cannot be covered.                                                      *)
(***************************************************************************)

Start(seen) == [ok |-> TRUE, short |-> FALSE, left |-> 0, seen |-> seen, db |-> db]

\* Mutant: applyMovement without its checks.
MovedUnchecked(x, s, w, qty, res) ==
    LET new == [onHand |-> x.db.level[<<s, w>>].onHand + qty,
                reserved |-> x.db.level[<<s, w>>].reserved + res]
    IN  [x EXCEPT !.db.level[<<s, w>>] = new, !.seen.level[<<s, w>>] = new]

\* applyMovement on the locked level; `seen` follows the request's own write.
Moved(x, s, w, qty, res) ==
    LET onHand == x.db.level[<<s, w>>].onHand + qty
        reserved == x.db.level[<<s, w>>].reserved + res
        new == [onHand |-> onHand, reserved |-> reserved]
    IN  [x EXCEPT !.ok = @ /\ 0 <= reserved /\ reserved <= onHand,
                  !.db.level[<<s, w>>] = new,
                  !.seen.level[<<s, w>>] = new]

\* A reservation that was read is still there: it goes with its order item.
Remains(x, i, w) ==
    x.db.hold[<<i, w>>].status # "none" /\ x.db.lineId[i] = x.seen.lineId[i]

\* Settling a reservation: absolute values computed from the row as read.
Fulfilled(x, i, w, n, status) ==
    [x EXCEPT !.db.hold[<<i, w>>] =
                IF Remains(x, i, w) THEN [@ EXCEPT !.fulfilled = n, !.status = status]
                ELSE @,   \* the UPDATE finds nothing
              !.seen.hold[<<i, w>>] = [@ EXCEPT !.fulfilled = n, !.status = status]]

Released(x, i, w, n) ==
    [x EXCEPT !.db.hold[<<i, w>>] =
                IF Remains(x, i, w) THEN [@ EXCEPT !.released = n, !.status = "released"]
                ELSE @,
              !.seen.hold[<<i, w>>] = [@ EXCEPT !.released = n, !.status = "released"]]

\* Unique per item and warehouse, and refers to an item that must exist.
Inserted(x, i, w, take) ==
    LET new == [NoHold EXCEPT !.qty = take, !.status = "active"] IN
    [x EXCEPT !.ok = @ /\ x.db.hold[<<i, w>>] = NoHold
                       /\ x.db.lineId[i] = x.seen.lineId[i],
              !.db.hold[<<i, w>>] = new,   !.seen.hold[<<i, w>>] = new,
              !.db.shelf[i] = w,       !.seen.shelf[i] = w]

-----------------------------------------------------------------------------
(* reserveOrder, line by line.                                             *)

ReserveLine(x, i, partial) ==
    LET s == SkuOf[i]
        w == IF x.seen.shelf[i] # NoWarehouse THEN x.seen.shelf[i]
             ELSE PickOrDefault(x.seen, s, QtyOf[i])
        here == Available(x.seen, s, w)
        take == IF partial THEN Lesser(QtyOf[i], here) ELSE QtyOf[i]
        noted == [x EXCEPT !.short = @ \/ here < QtyOf[i]]
    IN  CASE here < QtyOf[i] /\ ~partial -> noted
          [] take <= 0 -> noted
          [] x.seen.hold[<<i, w>>].status # "none" -> noted
          [] OTHER -> Inserted(Moved(noted, s, w, 0, take), i, w, take)

\* Mutant: lines that cannot be covered are skipped instead of refused.
ReserveOrderLenient(x, o, partial) ==
    FoldLeft(LAMBDA acc, i : ReserveLine(acc, i, partial), x, ItemsOf[o])

ReserveOrder(x, o, partial) ==
    LET y == FoldLeft(LAMBDA acc, i : ReserveLine(acc, i, partial), x, ItemsOf[o])
    IN  [y EXCEPT !.ok = @ /\ (partial \/ ~y.short)]

-----------------------------------------------------------------------------
(* releaseOrder: every active reservation of the order, as read.           *)

Active(d, cell) == d.hold[cell].status = "active" /\ Outstanding(d.hold[cell]) > 0

\* Mutant: the level is released, the reservation is not settled.
ReleaseHoldUnsettled(x, cell) ==
    Moved(x, SkuOf[cell[1]], cell[2], 0, -Outstanding(x.seen.hold[cell]))

ReleaseHold(x, cell) ==
    LET i == cell[1]
        w == cell[2]
        h == x.seen.hold[cell]
    IN  Released(Moved(x, SkuOf[i], w, 0, -Outstanding(h)), i, w,
                 h.released + Outstanding(h))

ReleaseOrder(x, o) ==
    FoldSet(LAMBDA cell, acc : ReleaseHold(acc, cell), x,
            {cell \in MyHolds(o) : Active(x.seen, cell)})

-----------------------------------------------------------------------------
(* deduct, one line per order item: the order's active holds of the sku    *)
(* first, wherever they are, then straight off on-hand.                    *)

TakeHold(x, cell, o) ==
    LET i == cell[1]
        w == cell[2]
        h == x.seen.hold[cell]
        take == Lesser(Outstanding(h), x.left)
        fulfilled == h.fulfilled + take
        closed == IF fulfilled + h.released >= h.qty THEN "fulfilled" ELSE "active"
        moved == Moved(x, SkuOf[i], w, -take, -take)
    IN  IF take <= 0 THEN x
        ELSE [Fulfilled(moved, i, w, fulfilled, closed) EXCEPT
                !.left = @ - take, !.db.shipped[o] = @ + take]

TakeRest(x, s, o) ==
    IF x.left <= 0 THEN x
    ELSE [Moved(x, s, PickOrDefault(x.seen, s, x.left), -x.left, 0) EXCEPT
            !.left = 0, !.db.shipped[o] = @ + x.left]

DeductLine(x, i, o) ==
    LET s == SkuOf[i]
        open == {cell \in MyHolds(o) : Active(x.seen, cell) /\ SkuOf[cell[1]] = s}
        line == [x EXCEPT !.left = QtyOf[i]]
        held == FoldSet(LAMBDA cell, acc : TakeHold(acc, cell, o), line, open)
    IN  TakeRest(held, s, o)

\* Mutant: no alreadyProcessed check.
DeductAgain(x, o) ==
    FoldLeft(LAMBDA acc, i : DeductLine(acc, i, o), x, ItemsOf[o])

\* The deduct endpoint asks alreadyProcessed first.
Deduct(x, o) ==
    IF x.seen.shipped[o] > 0 THEN x
    ELSE FoldLeft(LAMBDA acc, i : DeductLine(acc, i, o), x, ItemsOf[o])

-----------------------------------------------------------------------------
(***************************************************************************)
(* The requests.  CrudService.update keys the stock effect off the         *)
(* transition from the status it read; remove and a rewrite of the items   *)
(* delete order items, and their reservations cascade with them.           *)
(***************************************************************************)

Rejected(x) == [x EXCEPT !.ok = FALSE]

Create(x, o) ==
    IF x.db.order[o] # "none" THEN Rejected(x)
    ELSE ReserveOrder([x EXCEPT !.db.order[o] = "open"], o, FALSE)

Exists(d, o) == d.order[o] \in {"open", "cancelled"}

Reserve(x, o, partial) ==
    IF Exists(x.seen, o) /\ Exists(x.db, o) THEN ReserveOrder(x, o, partial)
    ELSE Rejected(x)

SetStatus(x, o, status) ==
    IF ~Exists(x.db, o) THEN Rejected(x)
    ELSE [x EXCEPT !.db.order[o] = status]

\* Mutant: a cancellation only writes the status.
CancelHolding(x, o) == SetStatus(x, o, "cancelled")

Cancel(x, o) ==
    LET y == SetStatus(x, o, "cancelled") IN
    IF y.ok /\ x.seen.order[o] = "open" THEN ReleaseOrder(y, o) ELSE y

Reinstate(x, o) ==
    LET y == SetStatus(x, o, "open") IN
    IF y.ok /\ x.seen.order[o] = "cancelled" THEN ReserveOrder(y, o, FALSE) ELSE y

CascadeHolds(x, o) ==
    [x EXCEPT !.db.hold = [cell \in DOMAIN @ |-> IF cell[1] \in MyItems(o)
                                                THEN NoHold ELSE @[cell]]]

Rewrite(x, o) ==
    IF ~Exists(x.db, o) THEN Rejected(x)
    ELSE [CascadeHolds(x, o) EXCEPT   \* new items, with new ids
            !.db.lineId = [i \in Items |-> IF i \in MyItems(o) THEN @[i] + 1 ELSE @[i]],
            !.db.shelf = [i \in Items |-> IF i \in MyItems(o) THEN NoWarehouse ELSE @[i]]]

RemoveOrder(x, o) ==
    IF ~Exists(x.db, o) THEN Rejected(x)
    ELSE [CascadeHolds(x, o) EXCEPT !.db.order[o] = "deleted"]

Outcome(kind, x, o) ==
    CASE kind = "create"         -> Create(x, o)
      [] kind = "reserve"        -> Reserve(x, o, FALSE)
      [] kind = "reservePartial" -> Reserve(x, o, TRUE)
      [] kind = "release"        -> ReleaseOrder(x, o)
      [] kind = "deduct"         -> Deduct(x, o)
      [] kind = "cancel"         -> Cancel(x, o)
      [] kind = "reinstate"      -> Reinstate(x, o)
      [] kind = "rewrite"        -> Rewrite(x, o)
      [] kind = "remove"         -> RemoveOrder(x, o)

-----------------------------------------------------------------------------
Init ==
    /\ db = [order |-> [o \in Orders |-> "none"],
             lineId |-> [i \in Items |-> 0],
             shelf |-> [i \in Items |-> NoWarehouse],
             hold |-> [cell \in Items \X Warehouses |-> NoHold],
             level |-> [cell \in Skus \X Warehouses |->
                          [onHand |-> Opening[cell], reserved |-> 0]],
             shipped |-> [o \in Orders |-> 0]]
    /\ run = [t \in Tx |-> Idle]
    /\ orphaned = [cell \in Skus \X Warehouses |-> 0]
    /\ torn = {}
    /\ received = 0
    /\ begun = 0

Read(t, kind, o) ==
    /\ run[t] = Idle /\ begun < MaxRequests
    /\ kind = "create" <=> db.order[o] = "none"   \* ids exist once created
    /\ kind = "create" => \A u \in Tx : run[u] # Idle => run[u].order # o
    /\ begun' = begun + 1
    /\ run' = [run EXCEPT ![t] = [kind |-> kind, order |-> o, seen |-> db]]
    /\ UNCHANGED <<db, orphaned, torn, received>>

\* Outstanding units of the reservation rows of d at a level.
HeldUnits(d, s, w) ==
    SumFunction([i \in {j \in Items : SkuOf[j] = s /\ d.hold[<<j, w>>].status = "active"} |->
                   Outstanding(d.hold[<<i, w>>])])

\* Active holds whose row a commit deletes.
Cascaded(new, s, w) ==
    SumFunction([i \in {j \in Items : /\ SkuOf[j] = s /\ new.hold[<<j, w>>] = NoHold
                                      /\ db.hold[<<j, w>>].status = "active"} |->
                   Outstanding(db.hold[<<i, w>>])])

\* What a request read of its order is still so.
UpToDate(r) ==
    /\ r.seen.order[r.order] = db.order[r.order]
    /\ r.seen.shipped[r.order] = db.shipped[r.order]
    /\ \A i \in MyItems(r.order) : r.seen.lineId[i] = db.lineId[i]
    /\ \A cell \in MyHolds(r.order) : r.seen.hold[cell] = db.hold[cell]

Act(t) ==
    /\ run[t] # Idle
    /\ LET x == Outcome(run[t].kind, Start(run[t].seen), run[t].order) IN
       IF x.ok
       THEN /\ db' = x.db
            /\ orphaned' = [cell \in Skus \X Warehouses |->
                              orphaned[cell] + Cascaded(x.db, cell[1], cell[2])]
            /\ torn' = IF UpToDate(run[t]) THEN torn ELSE torn \cup {run[t].order}
       ELSE UNCHANGED <<db, orphaned, torn>>
    /\ run' = [run EXCEPT ![t] = Idle]
    /\ UNCHANGED <<received, begun>>

\* The process dies, or a deadlock victim is chosen: nothing is written.
Abort(t) ==
    /\ run[t] # Idle
    /\ run' = [run EXCEPT ![t] = Idle]
    /\ UNCHANGED <<db, orphaned, torn, received, begun>>

\* A goods receipt puts one unit on a shelf.
Restock(s, w) ==
    /\ received < MaxRestocks
    /\ received' = received + 1
    /\ db' = [db EXCEPT !.level[<<s, w>>].onHand = @ + 1]
    /\ UNCHANGED <<run, orphaned, torn, begun>>

Next ==
    \/ \E t \in Tx :
          \/ \E kind \in Kinds, o \in Orders : Read(t, kind, o)
          \/ Act(t)
          \/ Abort(t)
    \/ \E s \in Skus, w \in Warehouses : Restock(s, w)

Spec == Init /\ [][Next]_vars

-----------------------------------------------------------------------------
(* Properties                                                              *)

\* Types; on-hand and reserved are non-negative and reserved is covered.
TypeOK ==
    /\ db \in Rows
    /\ \A cell \in Skus \X Warehouses :
          db.level[cell].reserved \in 0 .. db.level[cell].onHand
    /\ \A t \in Tx : run[t] = Idle \/ run[t].seen \in Rows
    /\ orphaned \in [Skus \X Warehouses -> Int] /\ torn \subseteq Orders
    /\ received \in Nat /\ begun \in Nat

LevelMatches(s, w) ==
    db.level[<<s, w>>].reserved = HeldUnits(db, s, w) + orphaned[<<s, w>>]

\* reserved is the sum of what the active reservations still hold, plus what
\* deletes cascaded away: two tables that every hold, release, deduction and
\* cancellation must move together, whatever overlaps.  Excused are the skus of
\* an order that a request wrote although another had changed its rows since
\* they were read: the code locks no order.
ReservedMatchesHolds ==
    \A s \in Skus, w \in Warehouses :
        (\A o \in torn : \A i \in MyItems(o) : SkuOf[i] # s) => LevelMatches(s, w)

\* What two releases of one order that overlap break (release_race.cfg).
EveryLevelMatches == \A s \in Skus, w \in Warehouses : LevelMatches(s, w)

FullyHeld(d, i) == \E w \in Warehouses : Outstanding(d.hold[<<i, w>>]) = QtyOf[i]

\* There is no moment where an order exists but its stock is not held: the
\* commit that creates it holds every line in full (the oversell guard of
\* CrudService.create).
PlacedMeansHeld ==
    [][\A o \in Orders : db.order[o] = "none" /\ db'.order[o] = "open" =>
          \A i \in MyItems(o) : FullyHeld(db', i)]_vars

\* What a cancellation cannot know of: it read the order as cancelled already,
\* or the hold was made, or its line replaced, after it looked.
Overlooked(r, cell) ==
    \/ r.seen.order[r.order] # "open"
    \/ ~Active(r.seen, cell)
    \/ r.seen.lineId[cell[1]] # db.lineId[cell[1]]

\* A cancellation leaves the order holding nothing, at any warehouse, but for
\* what another request for the order held while it ran.
CancelFreesEverything ==
    [][\A t \in Tx : LET r == run[t] IN
          /\ r # Idle /\ run'[t] = Idle
          /\ db.order[r.order] = "open" /\ db'.order[r.order] = "cancelled"
          => \A cell \in MyHolds(r.order) : Active(db', cell) => Overlooked(r, cell)]_vars

Units(o) == SumFunction([i \in MyItems(o) |-> QtyOf[i]])

\* Placing, releasing or cancelling holds goods and never consumes them: what
\* left the shelves is what the orders' deductions took.  An order's lines are
\* deducted once, however often it is asked for; when retries overlap, once by
\* each connection at most, and never again after those have ended.
GoodsLeaveOnceShipped ==
    /\ SumFunction([cell \in Skus \X Warehouses |-> db.level[cell].onHand])
         = SumFunction(Opening) + received - SumFunction(db.shipped)
    /\ \A o \in Orders :
          db.shipped[o] <= IF o \in torn THEN Units(o) * Cardinality(Tx) ELSE Units(o)

\* What the comment in CrudService.update says of a reinstated order: the hold
\* is put back, or the request fails.
ReinstatedMeansHeld ==
    [][\A o \in Orders : db.order[o] = "cancelled" /\ db'.order[o] = "open" =>
          \A i \in MyItems(o) : FullyHeld(db', i)]_vars
=============================================================================
