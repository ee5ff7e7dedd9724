------------------------- MODULE Fulfilment_proofs -------------------------
(***************************************************************************)
(* Proofs about Fulfilment: what the statements of a request - a hold per  *)
(* line, a release or a deduction per row, each one movement of a level    *)
(* and one settled row - leave of levels, reservations and shipments, for  *)
(* any orders, lines, warehouses and interleaving of requests, those for   *)
(* one order included.                                                     *)
(*                                                                         *)
(* Each loop is followed once with two things kept.  Touches holds of any  *)
(* request: it stays with its order's rows and levels, and what left the   *)
(* shelves is what it shipped.  Keeps holds of a request whose order is as *)
(* it read it: levels and rows moved alike.                                *)
(***************************************************************************)
EXTENDS Fulfilment, FoldFacts

Cells == Skus \X Warehouses
Grid == Items \X Warehouses

\* What a request's progress is made of.
Progress == [ok : BOOLEAN, short : BOOLEAN, left : Int, seen : Rows, db : Rows]

\* y is x but for the level of s at w.
Shifts(x, y, s, w, q, r) ==
    LET l == x.db.level[<<s, w>>]
        n == [onHand |-> l.onHand + q, reserved |-> l.reserved + r] IN
    /\ y \in Progress
    /\ y.ok = (x.ok /\ 0 <= n.reserved /\ n.reserved <= n.onHand)
    /\ y.short = x.short /\ y.left = x.left
    /\ y.db.level = [x.db.level EXCEPT ![<<s, w>>] = n]
    /\ y.db.order = x.db.order /\ y.db.hold = x.db.hold /\ y.db.shipped = x.db.shipped
    /\ y.db.lineId = x.db.lineId
    /\ y.seen.hold = x.seen.hold /\ y.seen.lineId = x.seen.lineId

\* y is x but for the reservation of i at w: g as committed, k as read.
Writes(x, y, i, w, g, k) ==
    /\ y \in Progress /\ g \in Hold /\ k \in Hold
    /\ y.ok => x.ok
    /\ y.short = x.short /\ y.left = x.left
    /\ y.db.hold = [x.db.hold EXCEPT ![<<i, w>>] = g]
    /\ y.seen.hold = [x.seen.hold EXCEPT ![<<i, w>>] = k]
    /\ y.db.order = x.db.order /\ y.db.level = x.db.level /\ y.db.shipped = x.db.shipped
    /\ y.db.lineId = x.db.lineId /\ y.seen.lineId = x.seen.lineId

\* A movement shifts one level.
LEMMA MovedIs ==
    ASSUME NEW x \in Progress, NEW s \in Skus, NEW w \in Warehouses,
           NEW q \in Int, NEW r \in Int
    PROVE  Shifts(x, Moved(x, s, w, q, r), s, w, q, r)
<1> DEFINE l == x.db.level[<<s, w>>]
           n == [onHand |-> l.onHand + q, reserved |-> l.reserved + r]
           ok == x.ok /\ 0 <= n.reserved /\ n.reserved <= n.onHand
           y == [x EXCEPT !.ok = ok, !.db.level[<<s, w>>] = n, !.seen.level[<<s, w>>] = n]
<1>1. l \in [onHand : Int, reserved : Int] /\ n \in [onHand : Int, reserved : Int]
  BY DEF Progress, Rows
<1>2. Moved(x, s, w, q, r) = y
  BY DEF Moved
<1>3. ok \in BOOLEAN
  OBVIOUS
<1> HIDE DEF n, l, ok
<1>4. y \in Progress
  BY <1>1, <1>3 DEF Progress, Rows
<1>5. y.ok = ok /\ y.short = x.short /\ y.left = x.left
  BY DEF Progress
<1>6. y.db = [x.db EXCEPT !.level[<<s, w>>] = n]
  BY DEF Progress, Rows
<1>7. y.seen = [x.seen EXCEPT !.level[<<s, w>>] = n]
  BY DEF Progress, Rows
<1> HIDE DEF y
<1>8. /\ y.db.level = [x.db.level EXCEPT ![<<s, w>>] = n]
      /\ y.db.order = x.db.order /\ y.db.hold = x.db.hold /\ y.db.shipped = x.db.shipped
      /\ y.db.lineId = x.db.lineId
  BY <1>6 DEF Progress, Rows
<1>9. y.seen.hold = x.seen.hold /\ y.seen.lineId = x.seen.lineId
  BY <1>7 DEF Progress, Rows
<1> QED
  BY <1>2, <1>4, <1>5, <1>8, <1>9 DEF n, l, ok, Shifts

\* A record whose fields are known.
LEMMA HoldIs ==
    ASSUME NEW q, NEW f, NEW r, NEW st,
           NEW h \in [qty : {q}, fulfilled : {f}, released : {r}, status : {st}]
    PROVE  h = [qty |-> q, fulfilled |-> f, released |-> r, status |-> st]
OBVIOUS

\* A row that is fulfilled, released or new.
FulfilledRow(h, n, st) == [qty |-> h.qty, fulfilled |-> n, released |-> h.released, status |-> st]
ReleasedRow(h, n) == [qty |-> h.qty, fulfilled |-> h.fulfilled, released |-> n,
                      status |-> "released"]
NewRow(n) == [qty |-> n, fulfilled |-> 0, released |-> 0, status |-> "active"]

LEMMA FulfilledRowIs ==
    ASSUME NEW h \in Hold, NEW n \in Nat, NEW st \in {"active", "fulfilled", "released"}
    PROVE  /\ [h EXCEPT !.fulfilled = n, !.status = st] = FulfilledRow(h, n, st)
           /\ FulfilledRow(h, n, st) \in Hold
<1> DEFINE k == [h EXCEPT !.fulfilled = n, !.status = st]
<1>1. k \in [qty : {h.qty}, fulfilled : {n}, released : {h.released}, status : {st}]
  BY DEF Hold
<1> HIDE DEF k
<1>2. k = FulfilledRow(h, n, st)
  BY <1>1, HoldIs DEF FulfilledRow
<1>3. FulfilledRow(h, n, st) \in Hold
  BY DEF Hold, FulfilledRow
<1> QED
  BY <1>2, <1>3 DEF k

LEMMA ReleasedRowIs ==
    ASSUME NEW h \in Hold, NEW n \in Nat
    PROVE  /\ [h EXCEPT !.released = n, !.status = "released"] = ReleasedRow(h, n)
           /\ ReleasedRow(h, n) \in Hold
<1> DEFINE k == [h EXCEPT !.released = n, !.status = "released"]
<1>1. k \in [qty : {h.qty}, fulfilled : {h.fulfilled}, released : {n}, status : {"released"}]
  BY DEF Hold
<1> HIDE DEF k
<1>2. k = ReleasedRow(h, n)
  BY <1>1, HoldIs DEF ReleasedRow
<1>3. ReleasedRow(h, n) \in Hold
  BY DEF Hold, ReleasedRow
<1> QED
  BY <1>2, <1>3 DEF k

\* One row is written, in the committed rows and in those read.
Row(x, i, w, g, k) == [x EXCEPT !.db.hold[<<i, w>>] = g, !.seen.hold[<<i, w>>] = k]

LEMMA RowIs ==
    ASSUME NEW x \in Progress, NEW i \in Items, NEW w \in Warehouses,
           NEW g \in Hold, NEW k \in Hold
    PROVE  Writes(x, Row(x, i, w, g, k), i, w, g, k)
<1> DEFINE c == <<i, w>>
           y == [x EXCEPT !.db.hold[c] = g, !.seen.hold[c] = k]
<1> HIDE DEF c
<1>1. y \in Progress
  BY DEF Progress, Rows, c
<1>2. y.ok = x.ok /\ y.short = x.short /\ y.left = x.left
  BY DEF Progress
<1>3. y.db = [x.db EXCEPT !.hold[c] = g]
  BY DEF Progress, Rows
<1>4. y.seen = [x.seen EXCEPT !.hold[c] = k]
  BY DEF Progress, Rows
<1> HIDE DEF y
<1>5. /\ y.db.hold = [x.db.hold EXCEPT ![c] = g]
      /\ y.db.order = x.db.order /\ y.db.level = x.db.level /\ y.db.shipped = x.db.shipped
      /\ y.db.lineId = x.db.lineId
  BY <1>3 DEF Progress, Rows
<1>6. y.seen.hold = [x.seen.hold EXCEPT ![c] = k] /\ y.seen.lineId = x.seen.lineId
  BY <1>4 DEF Progress, Rows
<1>7. Writes(x, y, i, w, g, k)
  BY <1>1, <1>2, <1>5, <1>6 DEF Writes, c
<1> QED
  BY <1>7 DEF y, c, Row

\* What settling leaves of the committed row: nothing is written when the row
\* that was read is gone.
Settles(x, i, w, row) == IF Remains(x, i, w) THEN row ELSE x.db.hold[<<i, w>>]

LEMMA FulfilledIs ==
    ASSUME NEW x \in Progress, NEW i \in Items, NEW w \in Warehouses,
           NEW n \in Nat, NEW st \in {"active", "fulfilled", "released"}
    PROVE  LET y == Fulfilled(x, i, w, n, st)
               c == <<i, w>> IN
           /\ Writes(x, y, i, w, Settles(x, i, w, FulfilledRow(x.db.hold[c], n, st)),
                                 FulfilledRow(x.seen.hold[c], n, st))
           /\ y.ok = x.ok
<1> DEFINE c == <<i, w>>
           g == Settles(x, i, w, FulfilledRow(x.db.hold[c], n, st))
           k == FulfilledRow(x.seen.hold[c], n, st)
           y == [x EXCEPT !.db.hold[c] = g, !.seen.hold[c] = k]
<1>1. x.db.hold[c] \in Hold /\ x.seen.hold[c] \in Hold
  BY DEF Progress, Rows
<1>2. /\ [x.db.hold[c] EXCEPT !.fulfilled = n, !.status = st] = FulfilledRow(x.db.hold[c], n, st)
      /\ [x.seen.hold[c] EXCEPT !.fulfilled = n, !.status = st] = k
      /\ FulfilledRow(x.db.hold[c], n, st) \in Hold /\ k \in Hold
  <2>1. \A h \in Hold : /\ [h EXCEPT !.fulfilled = n, !.status = st] = FulfilledRow(h, n, st)
                       /\ FulfilledRow(h, n, st) \in Hold
    BY FulfilledRowIs
  <2> QED
    BY <1>1, <2>1
<1>3. g \in Hold
  BY <1>1, <1>2 DEF Settles
<1>4. g = IF Remains(x, i, w) THEN [x.db.hold[c] EXCEPT !.fulfilled = n, !.status = st]
          ELSE x.db.hold[c]
  BY <1>2 DEF Settles
<1>5. Fulfilled(x, i, w, n, st)
        = [x EXCEPT !.db.hold[c] = IF Remains(x, i, w)
                                   THEN [x.db.hold[c] EXCEPT !.fulfilled = n, !.status = st]
                                   ELSE x.db.hold[c],
                    !.seen.hold[c] = [x.seen.hold[c] EXCEPT !.fulfilled = n, !.status = st]]
  BY DEF Fulfilled
<1> HIDE DEF g, k
<1>6. Fulfilled(x, i, w, n, st) = y
  BY <1>2, <1>4, <1>5
<1>7. y.ok = x.ok
  BY DEF Progress
<1>8. Writes(x, y, i, w, g, k)
  <2>1. y = Row(x, i, w, g, k)
    BY DEF Row
  <2> HIDE DEF y
  <2>2. Writes(x, Row(x, i, w, g, k), i, w, g, k)
    BY <1>2, <1>3, RowIs
  <2> QED
    BY <2>1, <2>2
<1> QED
  BY <1>6, <1>7, <1>8 DEF g, k

LEMMA ReleasedIs ==
    ASSUME NEW x \in Progress, NEW i \in Items, NEW w \in Warehouses, NEW n \in Nat
    PROVE  LET y == Released(x, i, w, n)
               c == <<i, w>> IN
           /\ Writes(x, y, i, w, Settles(x, i, w, ReleasedRow(x.db.hold[c], n)),
                                 ReleasedRow(x.seen.hold[c], n))
           /\ y.ok = x.ok
<1> DEFINE c == <<i, w>>
           g == Settles(x, i, w, ReleasedRow(x.db.hold[c], n))
           k == ReleasedRow(x.seen.hold[c], n)
           y == [x EXCEPT !.db.hold[c] = g, !.seen.hold[c] = k]
<1>1. x.db.hold[c] \in Hold /\ x.seen.hold[c] \in Hold
  BY DEF Progress, Rows
<1>2. /\ [x.db.hold[c] EXCEPT !.released = n, !.status = "released"] = ReleasedRow(x.db.hold[c], n)
      /\ [x.seen.hold[c] EXCEPT !.released = n, !.status = "released"] = k
      /\ ReleasedRow(x.db.hold[c], n) \in Hold /\ k \in Hold
  BY <1>1, ReleasedRowIs
<1>3. g \in Hold
  BY <1>1, <1>2 DEF Settles
<1>4. g = IF Remains(x, i, w) THEN [x.db.hold[c] EXCEPT !.released = n, !.status = "released"]
          ELSE x.db.hold[c]
  BY <1>2 DEF Settles
<1>5. Released(x, i, w, n)
        = [x EXCEPT !.db.hold[c] = IF Remains(x, i, w)
                                   THEN [x.db.hold[c] EXCEPT !.released = n, !.status = "released"]
                                   ELSE x.db.hold[c],
                    !.seen.hold[c] = [x.seen.hold[c] EXCEPT !.released = n, !.status = "released"]]
  BY DEF Released
<1> HIDE DEF g, k
<1>6. Released(x, i, w, n) = y
  BY <1>2, <1>4, <1>5
<1>7. y.ok = x.ok
  BY DEF Progress
<1>8. Writes(x, y, i, w, g, k)
  <2>1. y = Row(x, i, w, g, k)
    BY DEF Row
  <2> HIDE DEF y
  <2>2. Writes(x, Row(x, i, w, g, k), i, w, g, k)
    BY <1>2, <1>3, RowIs
  <2> QED
    BY <2>1, <2>2
<1> QED
  BY <1>6, <1>7, <1>8 DEF g, k

\* An insert writes one row.
LEMMA InsertedIs ==
    ASSUME NEW x \in Progress, NEW i \in Items, NEW w \in Warehouses, NEW take \in Nat
    PROVE  Writes(x, Inserted(x, i, w, take), i, w, NewRow(take), NewRow(take))
<1> DEFINE c == <<i, w>>
           g == NewRow(take)
           ok == x.ok /\ x.db.hold[c] = NoHold /\ x.db.lineId[i] = x.seen.lineId[i]
           y == [x EXCEPT !.ok = ok, !.db.hold[c] = g, !.seen.hold[c] = g,
                          !.db.shelf[i] = w, !.seen.shelf[i] = w]
<1>1. g \in Hold /\ c \in Items \X Warehouses
  BY DEF Hold, NewRow
<1>2. [NoHold EXCEPT !.qty = take, !.status = "active"] = g
  <2> DEFINE k == [NoHold EXCEPT !.qty = take, !.status = "active"]
  <2>1. NoHold \in [qty : {0}, fulfilled : {0}, released : {0}, status : {"none"}]
    BY DEF NoHold
  <2>2. k \in [qty : {take}, fulfilled : {0}, released : {0}, status : {"active"}]
    <3> HIDE DEF g
    <3> QED
      BY <2>1
  <2> HIDE DEF k
  <2>3. k = g
    BY <2>2, HoldIs DEF NewRow
  <2> QED
    BY <2>3 DEF k
<1> HIDE DEF g
<1>3. Inserted(x, i, w, take) = y
  BY <1>2 DEF Inserted
<1>4. ok \in BOOLEAN /\ (ok => x.ok)
  BY DEF Progress
<1> HIDE DEF c, ok
<1>5. y \in Progress
  BY <1>1, <1>4 DEF Progress, Rows
<1>6. y.ok = ok /\ y.short = x.short /\ y.left = x.left
  BY DEF Progress
<1>7. y.db = [x.db EXCEPT !.hold[c] = g, !.shelf[i] = w]
  BY DEF Progress, Rows
<1>8. y.seen = [x.seen EXCEPT !.hold[c] = g, !.shelf[i] = w]
  BY DEF Progress, Rows
<1> HIDE DEF y
<1>9. /\ y.db.hold = [x.db.hold EXCEPT ![c] = g]
      /\ y.db.order = x.db.order
      /\ y.db.level = x.db.level /\ y.db.shipped = x.db.shipped
      /\ y.db.lineId = x.db.lineId
  BY <1>7 DEF Progress, Rows
<1>10. y.seen.hold = [x.seen.hold EXCEPT ![c] = g] /\ y.seen.lineId = x.seen.lineId
  BY <1>8 DEF Progress, Rows
<1>11. Writes(x, y, i, w, g, g)
  BY <1>1, <1>4, <1>5, <1>6, <1>9, <1>10 DEF Writes, c
<1> QED
  BY <1>3, <1>11 DEF g

-----------------------------------------------------------------------------
(***************************************************************************)
(* What a request's loops keep.                                            *)
(***************************************************************************)

\* A reservation row settles at most what it holds, and has a status.
Sound == {h \in Hold : h.fulfilled + h.released <= h.qty /\ (h.status = "none" => h = NoHold)}

\* What a row still holds, and what the rows hold of a level.
Weight(h) == IF h.status = "active" THEN Outstanding(h) ELSE 0
Share(d, c) == [i \in Items |-> IF SkuOf[i] = c[1] THEN Weight(d.hold[<<i, c[2]>>]) ELSE 0]
HeldAt(d, c) == Sum(Share(d, c), Items)

OnShelves(d) == Sum([c \in Cells |-> d.level[c].onHand], Cells)
Taken(d) == Sum(d.shipped, Orders)

Covered(d) == \A c \in Cells : d.level[c].reserved \in 0 .. d.level[c].onHand

\* The levels no line of o is about.
Elsewhere(o) == {c \in Cells : \A i \in MyItems(o) : SkuOf[i] # c[1]}

\* A request for o got from x to y: it has written rows of o only, its lines
\* and the orders are what they were, and what left the shelves is what it
\* shipped.
Touches(x, y, o) ==
    /\ y \in Progress
    /\ y.db.order = x.db.order /\ y.db.lineId = x.db.lineId
    /\ y.seen.lineId = x.seen.lineId
    /\ \A cell \in Grid \ MyHolds(o) : y.db.hold[cell] = x.db.hold[cell]
    /\ \A c \in Elsewhere(o) : y.db.level[c] = x.db.level[c]
    /\ \A p \in Orders \ {o} : y.db.shipped[p] = x.db.shipped[p]
    /\ OnShelves(y.db) + Taken(y.db) = OnShelves(x.db) + Taken(x.db)
    /\ y.ok => x.ok /\ (Covered(x.db) => Covered(y.db))

\* A request for o that has got as far as x read the rows of o as they are,
\* its own writes included; each level's reserved moved as the rows that hold
\* it did.
Keeps(x, o) ==
    /\ x \in Progress
    /\ \A i \in MyItems(o) : x.seen.lineId[i] = x.db.lineId[i]
    /\ \A cell \in MyHolds(o) :
          /\ x.seen.hold[cell] = x.db.hold[cell] /\ x.db.hold[cell] \in Sound
          /\ db.hold[cell].status # "none" => x.db.hold[cell].status # "none"
    /\ \A c \in Cells : x.db.level[c].reserved - HeldAt(x.db, c)
                          = db.level[c].reserved - HeldAt(db, c)

\* One write of a loop: the level of line i at w moves by q on hand and r
\* reserved, the row of the line there becomes g, and k for who wrote it.
Advance(x, y, o, i, w, q, r, g, k) ==
    LET c == <<SkuOf[i], w>>
        l == x.db.level[c]
        n == [onHand |-> l.onHand + q, reserved |-> l.reserved + r]
    IN  /\ y \in Progress /\ g \in Hold /\ k \in Hold
        /\ y.ok => (x.ok /\ 0 <= n.reserved /\ n.reserved <= n.onHand)
        /\ y.db.level = [x.db.level EXCEPT ![c] = n]
        /\ y.db.hold = [x.db.hold EXCEPT ![<<i, w>>] = g]
        /\ y.seen.hold = [x.seen.hold EXCEPT ![<<i, w>>] = k]
        /\ y.db.order = x.db.order /\ y.db.lineId = x.db.lineId
        /\ y.seen.lineId = x.seen.lineId
        /\ y.db.shipped = [x.db.shipped EXCEPT ![o] = @ - q]

\* The sets the sums range over.
LEMMA Finite ==
    /\ IsFiniteSet(Orders) /\ IsFiniteSet(Items) /\ IsFiniteSet(Cells) /\ IsFiniteSet(Grid)
    /\ \A o \in Orders : MyItems(o) \in SUBSET Items /\ IsFiniteSet(MyHolds(o))
                         /\ MyHolds(o) \in SUBSET Grid
<1>1. IsFiniteSet(Orders) /\ IsFiniteSet(Items) /\ IsFiniteSet(Skus) /\ IsFiniteSet(Warehouses)
  BY ConstantsAssumption
<1>2. IsFiniteSet(Cells) /\ IsFiniteSet(Grid)
  BY <1>1, FS_Product DEF Cells, Grid
<1>3. ASSUME NEW o \in Orders PROVE MyItems(o) \in SUBSET Items
  BY ConstantsAssumption DEF MyItems, Range
<1>4. ASSUME NEW o \in Orders PROVE MyHolds(o) \in SUBSET Grid
  BY <1>3 DEF MyHolds, Grid
<1> QED
  BY <1>1, <1>2, <1>3, <1>4, FS_Subset

\* What a row holds is a number; a sound one holds no less than nothing.
LEMMA WeightType == \A h \in Hold : Weight(h) \in Int
BY DEF Weight, Outstanding, Hold

LEMMA SoundWeight == \A h \in Sound : h \in Hold /\ Weight(h) \in Nat /\ Outstanding(h) \in Nat
BY DEF Weight, Outstanding, Hold, Sound

LEMMA NothingIsSound == NoHold \in Sound /\ Weight(NoHold) = 0
BY DEF NoHold, Sound, Hold, Weight

\* What the rows hold of a level is a sum of integers.
LEMMA ShareType ==
    ASSUME NEW d \in Rows, NEW c \in Cells
    PROVE  Share(d, c) \in [Items -> Int] /\ HeldAt(d, c) \in Int
<1>1. Share(d, c) \in [Items -> Int]
  <2>1. ASSUME NEW i \in Items PROVE Weight(d.hold[<<i, c[2]>>]) \in Int
    BY WeightType DEF Rows, Cells
  <2> QED
    BY <2>1 DEF Share
<1> QED
  BY <1>1, Finite, SumType DEF HeldAt

\* One row changed.
LEMMA HeldMoves ==
    ASSUME NEW d \in Rows, NEW e \in Rows, NEW i \in Items, NEW w \in Warehouses, NEW h \in Hold,
           e.hold = [d.hold EXCEPT ![<<i, w>>] = h], NEW c \in Cells
    PROVE  HeldAt(e, c) = HeldAt(d, c) + (IF c = <<SkuOf[i], w>>
                                         THEN Weight(h) - Weight(d.hold[<<i, w>>]) ELSE 0)
<1> DEFINE F == Share(d, c)
           G == Share(e, c)
<1>1. c = <<c[1], c[2]>> /\ c[1] \in Skus /\ c[2] \in Warehouses
  BY DEF Cells
<1>2. F \in [Items -> Int] /\ G \in [Items -> Int]
  BY ShareType
<1>3. ASSUME NEW j \in Items, j # i PROVE G[j] = F[j]
  <2>1. e.hold[<<j, c[2]>>] = d.hold[<<j, c[2]>>]
    BY <1>1, <1>3 DEF Rows
  <2> QED
    BY <2>1 DEF Share
<1>4. c = <<SkuOf[i], w>> => G[i] = Weight(h) /\ F[i] = Weight(d.hold[<<i, w>>])
  <2>1. e.hold[<<i, w>>] = h
    BY DEF Rows
  <2> QED
    BY <2>1 DEF Share
<1>5. c # <<SkuOf[i], w>> => G[i] = F[i]
  <2> SUFFICES ASSUME c # <<SkuOf[i], w>> PROVE G[i] = F[i]
    OBVIOUS
  <2>1. CASE SkuOf[i] # c[1]
    BY <2>1 DEF Share
  <2>2. CASE c[2] # w
    <3>1. e.hold[<<i, c[2]>>] = d.hold[<<i, c[2]>>]
      BY <1>1, <2>2 DEF Rows
    <3> QED
      BY <3>1 DEF Share
  <2> QED
    BY <1>1, <2>1, <2>2
<1> HIDE DEF F, G
<1>6. Sum(G, Items) = Sum(F, Items) + G[i] - F[i]
  BY <1>2, <1>3, Finite, SumChange
<1>7. Sum(F, Items) \in Int /\ F[i] \in Int /\ G[i] \in Int
  BY <1>2, Finite, SumType
<1> QED
  BY <1>4, <1>5, <1>6, <1>7 DEF HeldAt, F, G

\* What Touches says of two steps it says of both.
LEMMA TouchesSelf == ASSUME NEW x \in Progress, NEW o PROVE Touches(x, x, o)
BY DEF Touches

LEMMA TouchesMore ==
    ASSUME NEW x, NEW y, NEW z, NEW o, Touches(x, y, o), Touches(y, z, o)
    PROVE  Touches(x, z, o)
BY DEF Touches

\* What is noted beside the rows changes nothing of what the loops keep.
LEMMA SameRows ==
    ASSUME NEW o, NEW x \in Progress, NEW y \in Progress,
           y.db = x.db, y.seen = x.seen, y.ok => x.ok
    PROVE  Touches(x, y, o) /\ (Keeps(x, o) => Keeps(y, o))
BY DEF Touches, Keeps

\* One write touches its order's rows.
LEMMA AdvanceTouches ==
    ASSUME NEW o \in Orders, NEW x \in Progress, NEW i \in MyItems(o), NEW w \in Warehouses,
           NEW q \in Int, NEW r \in Int, NEW g, NEW h, NEW y,
           Advance(x, y, o, i, w, q, r, g, h)
    PROVE  Touches(x, y, o)
<1> DEFINE c == <<SkuOf[i], w>>
           cell == <<i, w>>
           l == x.db.level[c]
           n == [onHand |-> l.onHand + q, reserved |-> l.reserved + r]
<1>1. i \in Items /\ SkuOf[i] \in Skus /\ c \in Cells /\ cell \in Grid /\ cell \in MyHolds(o)
  BY Finite, ConstantsAssumption DEF Cells, Grid, MyHolds
<1>2. x.db \in Rows /\ y \in Progress /\ y.db \in Rows
  BY DEF Advance, Progress
<1>3. /\ y.ok => (x.ok /\ 0 <= n.reserved /\ n.reserved <= n.onHand)
      /\ y.db.level = [x.db.level EXCEPT ![c] = n]
      /\ y.db.hold = [x.db.hold EXCEPT ![cell] = g]
      /\ y.db.order = x.db.order /\ y.db.lineId = x.db.lineId
      /\ y.seen.lineId = x.seen.lineId
      /\ y.db.shipped = [x.db.shipped EXCEPT ![o] = @ - q]
  BY DEF Advance
<1>5. l.onHand \in Int /\ l.reserved \in Int
  BY <1>1, <1>2 DEF Rows, Cells
<1>6. y.db.level[c] = n /\ \A e \in Cells \ {c} : y.db.level[e] = x.db.level[e]
  BY <1>1, <1>2, <1>3 DEF Rows, Cells
<1>9. \A e \in Grid \ MyHolds(o) : y.db.hold[e] = x.db.hold[e]
  <2>1. \A e \in Grid \ {cell} : y.db.hold[e] = x.db.hold[e]
    BY <1>1, <1>2, <1>3 DEF Rows, Grid
  <2> QED
    BY <1>1, <2>1
<1>10. \A e \in Elsewhere(o) : y.db.level[e] = x.db.level[e]
  BY <1>1, <1>6 DEF Elsewhere
<1>13. \A p \in Orders \ {o} : y.db.shipped[p] = x.db.shipped[p]
  BY <1>2, <1>3 DEF Rows
<1>14. OnShelves(y.db) = OnShelves(x.db) + q
  <2> DEFINE f == [e \in Cells |-> x.db.level[e].onHand]
             k == [e \in Cells |-> y.db.level[e].onHand]
  <2>1. \A e \in Cells : f[e] \in Int
    BY <1>2 DEF Rows, Cells
  <2>2. f[c] = l.onHand /\ k[c] = l.onHand + q
    BY <1>1, <1>6
  <2>3. \A e \in Cells \ {c} : k[e] = f[e]
    BY <1>6
  <2>6. k[c] \in Int /\ c \in Cells /\ IsFiniteSet(Cells)
    BY <1>1, <1>5, <2>2, Finite
  <2> HIDE DEF f, k, c, l, n, cell
  <2>4. Sum(k, Cells) = Sum(f, Cells) + k[c] - f[c]
    BY ONLY <2>1, <2>3, <2>6, SumChange
  <2>5. Sum(f, Cells) \in Int
    BY <2>1, Finite, SumType
  <2> QED
    BY <1>5, <2>2, <2>4, <2>5 DEF OnShelves, f, k
<1>15. Taken(y.db) = Taken(x.db) - q
  <2> DEFINE f == x.db.shipped
             k == y.db.shipped
  <2>1. f \in [Orders -> Nat] /\ k \in [Orders -> Nat] /\ k = [f EXCEPT ![o] = f[o] - q]
    BY <1>2, <1>3 DEF Rows
  <2> HIDE DEF f, k
  <2>4. /\ IsFiniteSet(Orders) /\ \A p \in Orders : f[p] \in Int
        /\ k[o] \in Int /\ \A p \in Orders \ {o} : k[p] = f[p]
    BY <2>1, Finite
  <2>2. Sum(k, Orders) = Sum(f, Orders) + k[o] - f[o]
    BY ONLY <2>4, o \in Orders, SumChange
  <2>3. Sum(f, Orders) \in Int
    BY <2>1, Finite, SumType
  <2> QED
    BY <2>1, <2>2, <2>3 DEF Taken, f, k
<1>16. OnShelves(x.db) \in Int /\ Taken(x.db) \in Int
  <2>1. \A e \in Cells : [d \in Cells |-> x.db.level[d].onHand][e] \in Int
    BY <1>2 DEF Rows, Cells
  <2>2. \A p \in Orders : x.db.shipped[p] \in Int
    BY <1>2 DEF Rows
  <2> QED
    BY <2>1, <2>2, Finite, SumType DEF OnShelves, Taken
<1>17. OnShelves(y.db) + Taken(y.db) = OnShelves(x.db) + Taken(x.db)
  BY <1>14, <1>15, <1>16
<1>18. y.ok => x.ok /\ (Covered(x.db) => Covered(y.db))
  <2> SUFFICES ASSUME y.ok, Covered(x.db), NEW e \in Cells
               PROVE  y.db.level[e].reserved \in 0 .. y.db.level[e].onHand
    BY <1>3 DEF Covered
  <2>1. 0 <= n.reserved /\ n.reserved <= n.onHand
    BY <1>3
  <2>2. n.reserved \in Int /\ n.onHand \in Int
    BY <1>5
  <2>3. CASE e = c
    <3> HIDE DEF n
    <3> QED
      BY <1>6, <2>1, <2>2, <2>3
  <2>4. CASE e # c
    BY <1>6, <2>4 DEF Covered
  <2> QED
    BY <2>3, <2>4
<1> QED
  BY <1>2, <1>3, <1>9, <1>10, <1>13, <1>17, <1>18 DEF Touches

\* One write of what was read keeps levels and rows together.
LEMMA AdvanceKeeps ==
    ASSUME NEW o \in Orders, NEW x, Keeps(x, o), db \in Rows,
           NEW i \in MyItems(o), NEW w \in Warehouses, NEW q \in Int, NEW r \in Int,
           NEW g \in Sound, NEW y, Advance(x, y, o, i, w, q, r, g, g),
           r = Weight(g) - Weight(x.db.hold[<<i, w>>]),
           x.db.hold[<<i, w>>].status # "none" => g.status # "none"
    PROVE  Keeps(y, o)
<1> DEFINE c == <<SkuOf[i], w>>
           cell == <<i, w>>
           l == x.db.level[c]
           n == [onHand |-> l.onHand + q, reserved |-> l.reserved + r]
<1>1. i \in Items /\ SkuOf[i] \in Skus /\ c \in Cells /\ cell \in Grid /\ cell \in MyHolds(o)
  BY Finite, ConstantsAssumption DEF Cells, Grid, MyHolds
<1>2. /\ x \in Progress /\ x.db \in Rows /\ x.seen \in Rows
      /\ y \in Progress /\ y.db \in Rows /\ y.seen \in Rows
  BY DEF Keeps, Advance, Progress
<1>3. /\ y.db.level = [x.db.level EXCEPT ![c] = n]
      /\ y.db.hold = [x.db.hold EXCEPT ![cell] = g]
      /\ y.seen.hold = [x.seen.hold EXCEPT ![cell] = g]
      /\ y.db.lineId = x.db.lineId /\ y.seen.lineId = x.seen.lineId
      /\ g \in Hold
  BY DEF Advance
<1>5. l.onHand \in Int /\ l.reserved \in Int
  BY <1>1, <1>2 DEF Rows, Cells
<1>6. y.db.level[c] = n /\ \A e \in Cells \ {c} : y.db.level[e] = x.db.level[e]
  BY <1>1, <1>2, <1>3 DEF Rows, Cells
<1>7. /\ y.db.hold[cell] = g /\ y.seen.hold[cell] = g
      /\ \A e \in Grid \ {cell} : y.db.hold[e] = x.db.hold[e] /\ y.seen.hold[e] = x.seen.hold[e]
  BY <1>1, <1>2, <1>3 DEF Rows, Grid
<1>8. \A e \in MyHolds(o) : /\ y.seen.hold[e] = y.db.hold[e] /\ y.db.hold[e] \in Sound
                            /\ db.hold[e].status # "none" => y.db.hold[e].status # "none"
  <2> TAKE e \in MyHolds(o)
  <2>1. e \in Grid
    BY Finite
  <2>2. CASE e = cell
    BY <1>7, <2>2 DEF Keeps
  <2>3. CASE e # cell
    BY <1>7, <2>1, <2>3 DEF Keeps
  <2> QED
    BY <2>2, <2>3
<1>12. \A e \in Cells : y.db.level[e].reserved - HeldAt(y.db, e)
                          = db.level[e].reserved - HeldAt(db, e)
  <2> TAKE e \in Cells
  <2>1. HeldAt(y.db, e) = HeldAt(x.db, e) + (IF e = c THEN r ELSE 0)
    <3>1. y.db.hold = [x.db.hold EXCEPT ![<<i, w>>] = g]
      BY <1>3
    <3>2. HeldAt(y.db, e) = HeldAt(x.db, e) + (IF e = <<SkuOf[i], w>>
                                         THEN Weight(g) - Weight(x.db.hold[<<i, w>>]) ELSE 0)
      BY ONLY <1>1, <1>2, <1>3, <3>1, e \in Cells, w \in Warehouses, HeldMoves
    <3> QED
      BY <3>2
  <2>2. y.db.level[e].reserved = x.db.level[e].reserved + (IF e = c THEN r ELSE 0)
    <3>1. CASE e = c
      BY <1>5, <1>6, <3>1
    <3>2. CASE e # c
      <4>1. x.db.level[e].reserved \in Int
        BY <1>2 DEF Rows, Cells
      <4> QED
        BY <1>6, <3>2, <4>1
    <3> QED
      BY <3>1, <3>2
  <2>3. x.db.level[e].reserved - HeldAt(x.db, e) = db.level[e].reserved - HeldAt(db, e)
    BY DEF Keeps
  <2>4. HeldAt(x.db, e) \in Int /\ x.db.level[e].reserved \in Int
    <3>1. HeldAt(x.db, e) \in Int
      BY <1>2, ShareType
    <3>2. x.db.level[e].reserved \in Int
      BY <1>2 DEF Rows, Cells
    <3> QED
      BY <3>1, <3>2
  <2> HIDE DEF c
  <2> QED
    BY <2>1, <2>2, <2>3, <2>4
<1>13. \A j \in MyItems(o) : y.seen.lineId[j] = y.db.lineId[j]
  BY <1>3 DEF Keeps
<1> QED
  BY <1>2, <1>8, <1>12, <1>13 DEF Keeps

-----------------------------------------------------------------------------
(***************************************************************************)
(* releaseOrder.  Here and below f says whether the request's order is as  *)
(* it read it.                                                             *)
(***************************************************************************)

\* The release of what z read, once the cells G are released.
Releasing(f, o, z, G) ==
    {x \in Progress :
        /\ Touches(z, x, o) /\ (f => Keeps(x, o)) /\ x.db.shipped = z.db.shipped
        /\ \A cell \in G : x.db.lineId[cell[1]] = x.seen.lineId[cell[1]] =>
                              x.db.hold[cell].status # "active"
        /\ \A cell \in MyHolds(o) \ G : x.seen.hold[cell] = z.seen.hold[cell]}

\* A reservation that was read as held is released in full, if it is there.
LEMMA ReleaseHoldStep ==
    ASSUME NEW f \in BOOLEAN, NEW o \in Orders, NEW z, db \in Rows, NEW G \in SUBSET MyHolds(o),
           NEW cell \in G, Active(z.seen, cell), NEW x \in Releasing(f, o, z, G \ {cell})
    PROVE  ReleaseHold(x, cell) \in Releasing(f, o, z, G)
<1> DEFINE i == cell[1]
           w == cell[2]
           h == x.seen.hold[cell]
           d == x.db.hold[cell]
           out == Outstanding(h)
           u == h.released + out
           m == Moved(x, SkuOf[i], w, 0, -out)
           y == Released(m, i, w, u)
           g == Settles(m, i, w, ReleasedRow(d, u))
           k == ReleasedRow(h, u)
           c == <<SkuOf[i], w>>
<1>1. /\ x \in Progress /\ Touches(z, x, o) /\ (f => Keeps(x, o)) /\ x.db.shipped = z.db.shipped
      /\ \A e \in G \ {cell} : x.db.lineId[e[1]] = x.seen.lineId[e[1]] =>
                                  x.db.hold[e].status # "active"
      /\ \A e \in MyHolds(o) \ (G \ {cell}) : x.seen.hold[e] = z.seen.hold[e]
  BY DEF Releasing
<1>2. /\ cell \in MyHolds(o) /\ cell \in Grid /\ i \in MyItems(o) /\ i \in Items
      /\ w \in Warehouses /\ cell = <<i, w>> /\ SkuOf[i] \in Skus /\ c \in Cells
  <2>1. cell \in MyHolds(o) /\ cell \in Grid
    BY Finite
  <2>2. i \in MyItems(o) /\ w \in Warehouses /\ cell = <<i, w>>
    BY <2>1 DEF MyHolds
  <2>3. i \in Items /\ SkuOf[i] \in Skus
    BY <2>2, Finite, ConstantsAssumption
  <2>4. c \in Cells
    BY <2>2, <2>3 DEF Cells
  <2> QED
    BY <2>1, <2>2, <2>3, <2>4
<1>3. h \in Hold /\ d \in Hold /\ h.status = "active" /\ out > 0
  <2>1. h = z.seen.hold[cell]
    BY <1>1, <1>2
  <2>2. h \in Hold /\ d \in Hold
    BY <1>1, <1>2 DEF Progress, Rows, Grid
  <2> QED
    BY <2>1, <2>2 DEF Active
<1>4. out \in Nat /\ u \in Nat /\ Weight(h) = out
  <2>1. out \in Int /\ h.released \in Nat
    BY <1>3 DEF Outstanding, Hold
  <2> HIDE DEF out
  <2>2. Weight(h) = out
    BY <1>3 DEF Weight, out
  <2> QED
    BY <1>3, <2>1, <2>2
<1>5. ReleaseHold(x, cell) = y
  BY DEF ReleaseHold
<1> HIDE DEF out, u
<1>6. Shifts(x, m, SkuOf[i], w, 0, -out)
  BY <1>1, <1>2, <1>4, MovedIs
<1> HIDE DEF m
<1>7. /\ m \in Progress /\ m.seen.hold[<<i, w>>] = h /\ m.db.hold[<<i, w>>] = d
      /\ m.db.lineId = x.db.lineId /\ m.seen.lineId = x.seen.lineId
  BY <1>2, <1>6 DEF Shifts
<1>8. Writes(m, y, i, w, g, k) /\ y.ok = m.ok
  <2> HIDE DEF h, d, y, g, k, i, w
  <2>1. LET v == Released(m, i, w, u)
            e == <<i, w>> IN
        /\ Writes(m, v, i, w, Settles(m, i, w, ReleasedRow(m.db.hold[e], u)),
                              ReleasedRow(m.seen.hold[e], u))
        /\ v.ok = m.ok
    BY <1>2, <1>4, <1>7, ReleasedIs
  <2> QED
    BY <1>7, <2>1 DEF y, g, k
<1>9. Remains(m, i, w) <=> d.status # "none" /\ x.db.lineId[i] = x.seen.lineId[i]
  BY <1>7 DEF Remains
<1>10. g = IF Remains(m, i, w) THEN ReleasedRow(d, u) ELSE d
  BY <1>7 DEF Settles
<1>11. Advance(x, y, o, i, w, 0, -out, g, k)
  <2> DEFINE l == x.db.level[c]
             n == [onHand |-> l.onHand + 0, reserved |-> l.reserved + (-out)]
  <2>1. y.ok => (x.ok /\ 0 <= n.reserved /\ n.reserved <= n.onHand)
    BY <1>6, <1>8 DEF Shifts
  <2>2. m.db.level = [x.db.level EXCEPT ![c] = n]
    BY <1>6 DEF Shifts
  <2>3. [x.db.shipped EXCEPT ![o] = @ - 0] = x.db.shipped
    BY <1>1 DEF Progress, Rows
  <2> HIDE DEF y, g, h, i, w, k
  <2>4. y \in Progress /\ y.db.level = [x.db.level EXCEPT ![c] = n] /\ g \in Hold /\ k \in Hold
    BY <1>8, <2>2 DEF Writes
  <2>5. /\ y.db.hold = [x.db.hold EXCEPT ![<<i, w>>] = g]
        /\ y.seen.hold = [x.seen.hold EXCEPT ![<<i, w>>] = k]
        /\ y.db.order = x.db.order /\ y.db.lineId = x.db.lineId
        /\ y.seen.lineId = x.seen.lineId
        /\ y.db.shipped = [x.db.shipped EXCEPT ![o] = @ - 0]
    BY <1>6, <1>8, <2>3 DEF Shifts, Writes
  <2> HIDE DEF n, c, l
  <2>6. n = [onHand |-> x.db.level[c].onHand + 0, reserved |-> x.db.level[c].reserved + (-out)]
    BY DEF n, l
  <2> QED
    BY <2>1, <2>4, <2>5, <2>6 DEF Advance, c
<1>12. Touches(z, y, o)
  <2>1. -out \in Int /\ 0 \in Int
    BY <1>4
  <2> HIDE DEF y, g, k, i, w
  <2>2. Touches(x, y, o)
    BY <1>1, <1>2, <1>11, <2>1, AdvanceTouches
  <2> QED
    BY <1>1, <2>2, TouchesMore
<1>13. f => Keeps(y, o)
  <2> SUFFICES ASSUME f PROVE Keeps(y, o)
    OBVIOUS
  <2>1. Keeps(x, o)
    BY <1>1
  <2>2. h = d /\ d \in Sound /\ x.db.lineId[i] = x.seen.lineId[i]
    BY <1>2, <2>1 DEF Keeps
  <2>3. g = k /\ g = ReleasedRow(h, u)
    BY <1>3, <1>9, <1>10, <2>2
  <2>4. g \in Sound /\ Weight(g) = 0 /\ g.status # "none"
    <3>1. h.fulfilled + (h.released + out) <= h.qty
      <4> HIDE DEF h
      <4> QED
        BY <1>3 DEF Outstanding, Hold, out
    <3>2. k \in Hold
      <4> HIDE DEF k, y, g
      <4> QED
        BY <1>8 DEF Writes
    <3>3. k.fulfilled = h.fulfilled /\ k.released = u /\ k.qty = h.qty /\ k.status = "released"
      BY DEF ReleasedRow
    <3> HIDE DEF k, h, g
    <3> QED
      BY <2>3, <3>1, <3>2, <3>3 DEF Sound, Weight, u
  <2>5. -out = Weight(g) - Weight(x.db.hold[<<i, w>>])
    <3>1. x.db.hold[<<i, w>>] = h
      BY <1>2, <2>2
    <3> HIDE DEF g, h
    <3> QED
      BY <1>4, <2>4, <3>1
  <2>6. Advance(x, y, o, i, w, 0, -out, g, g)
    <3> HIDE DEF g, k, y
    <3> QED
      BY <1>11, <2>3
  <2>7. -out \in Int /\ 0 \in Int
    BY <1>4
  <2> DEFINE r == -out
  <2> HIDE DEF y, g, k, h, d, i, w, r
  <2>8. r \in Int /\ r = Weight(g) - Weight(x.db.hold[<<i, w>>]) /\ Advance(x, y, o, i, w, 0, r, g, g)
    BY <2>5, <2>6, <2>7 DEF r
  <2> QED
    BY <1>2, <2>1, <2>4, <2>7, <2>8, AdvanceKeeps
<1>14. y.db.shipped = z.db.shipped
  BY <1>1, <1>6, <1>8 DEF Shifts, Writes
<1>15. ASSUME NEW e \in G, y.db.lineId[e[1]] = y.seen.lineId[e[1]]
       PROVE  y.db.hold[e].status # "active"
  <2>1. y.db.hold = [x.db.hold EXCEPT ![cell] = g] /\ e \in Grid /\ x.db.hold \in [Grid -> Hold]
    BY <1>1, <1>2, <1>6, <1>8, Finite DEF Shifts, Writes, Progress, Rows, Grid
  <2>2. x.db.lineId[e[1]] = x.seen.lineId[e[1]]
    BY <1>6, <1>8, <1>15 DEF Shifts, Writes
  <2>3. CASE e = cell
    <3>1. g.status # "active"
      <4>1. CASE d.status = "none"
        <5> HIDE DEF d
        <5> QED
          BY <1>9, <1>10, <4>1
      <4>2. CASE d.status # "none"
        <5>1. g = ReleasedRow(d, u)
          BY <1>9, <1>10, <2>2, <2>3, <4>2
        <5> HIDE DEF g
        <5> QED
          BY <5>1 DEF ReleasedRow
      <4> QED
        BY <4>1, <4>2
    <3> HIDE DEF g, y
    <3> QED
      BY <2>1, <2>3, <3>1
  <2>4. CASE e # cell
    <3> HIDE DEF g, y
    <3> QED
      BY <1>1, <2>1, <2>2, <2>4
  <2> QED
    BY <2>3, <2>4
<1>16. \A e \in MyHolds(o) \ G : y.seen.hold[e] = z.seen.hold[e]
  <2> TAKE e \in MyHolds(o) \ G
  <2>1. y.seen.hold = [x.seen.hold EXCEPT ![cell] = k] /\ e \in Grid /\ x.seen.hold \in [Grid -> Hold]
    BY <1>1, <1>2, <1>6, <1>8, Finite DEF Shifts, Writes, Progress, Rows, Grid
  <2> HIDE DEF y, k
  <2> QED
    BY <1>1, <2>1
<1> HIDE DEF y, g, k, h, d
<1>17. y \in Progress
  BY <1>8 DEF Writes
<1>18. y \in Releasing(f, o, z, G)
  BY <1>12, <1>13, <1>14, <1>15, <1>16, <1>17 DEF Releasing
<1> QED
  BY <1>5, <1>18

\* The whole loop: every reservation of the order that was read as held, and
\* whose line is still the same, is released, at every warehouse.
LEMMA ReleaseKeeps ==
    ASSUME NEW f \in BOOLEAN, NEW o \in Orders, NEW z \in Progress, db \in Rows, f => Keeps(z, o)
    PROVE  LET y == ReleaseOrder(z, o) IN
           /\ Touches(z, y, o) /\ (f => Keeps(y, o)) /\ y.db.shipped = z.db.shipped
           /\ \A cell \in MyHolds(o) :
                Active(z.seen, cell) /\ z.db.lineId[cell[1]] = z.seen.lineId[cell[1]] =>
                   ~Active(y.db, cell)
<1> DEFINE S == {cell \in MyHolds(o) : Active(z.seen, cell)}
           F == [p \in S \X Progress |-> ReleaseHold(p[2], p[1])]
           C == [s \in SUBSET S |-> Picked(s)]
           J == [s \in SUBSET S |-> Releasing(f, o, z, s)]
           Rule(h) == [s \in SUBSET S |-> IF s = {} THEN z
                          ELSE ReleaseHold(h[s \ {Picked(s)}], Picked(s))]
           h == CHOOSE h : h = Rule(h)
           y == h[S]
<1>1. IsFiniteSet(S) /\ S \in SUBSET MyHolds(o)
  BY Finite, FS_Subset
<1>2. \A s \in SUBSET S : s # {} => C[s] \in s /\ C[s] = Picked(s)
  BY DEF Picked
<1>3. z \in J[{}]
  BY TouchesSelf DEF Releasing
<1>4. ASSUME NEW s \in SUBSET S, s # {}, NEW v \in J[s \ {C[s]}]
      PROVE  /\ F[<<C[s], v>>] = ReleaseHold(v, Picked(s))
             /\ ReleaseHold(v, Picked(s)) \in J[s]
  <2>1. C[s] \in s /\ C[s] \in S /\ C[s] = Picked(s) /\ s \ {C[s]} \in SUBSET S
    BY <1>2, <1>4
  <2>2. v \in Releasing(f, o, z, s \ {Picked(s)}) /\ v \in Progress
    BY <1>4, <2>1 DEF Releasing
  <2>3. ReleaseHold(v, Picked(s)) \in Releasing(f, o, z, s)
    BY <2>1, <2>2, ReleaseHoldStep
  <2> QED
    BY <2>1, <2>2, <2>3
<1>5. ReleaseOrder(z, o) = y
  BY DEF ReleaseOrder, FoldSet, MapThenFoldSet, Picked
<1> HIDE DEF S, F, C, J, Rule
<1>6. PICK g : Follows(g, S, z, F, C) /\ \A s \in SUBSET S : g[s] \in J[s]
  <2>1. \A s \in SUBSET S : s # {} => \A v \in J[s \ {C[s]}] : F[<<C[s], v>>] \in J[s]
    BY <1>4
  <2>2. \A s \in SUBSET S : s # {} => C[s] \in s
    BY <1>2
  <2> QED
    BY ONLY <1>1, <1>3, <2>1, <2>2, FoldMeets
<1>7. g = Rule(g)
  <2>1. \A s \in SUBSET S : s # {} => F[<<C[s], g[s \ {C[s]}]>>] = ReleaseHold(g[s \ {Picked(s)}], Picked(s))
    BY <1>2, <1>4, <1>6
  <2>2. g = [s \in SUBSET S |-> IF s = {} THEN z ELSE F[<<C[s], g[s \ {C[s]}]>>]]
    BY <1>6 DEF Follows
  <2> QED
    BY <2>1, <2>2 DEF Rule
<1>8. h = Rule(h)
  BY <1>7
<1> HIDE DEF h
<1>9. h[{}] = z /\ \A s \in SUBSET S : s # {} => h[s] = ReleaseHold(h[s \ {Picked(s)}], Picked(s))
  BY <1>8 DEF Rule
<1>10. h[{}] \in J[{}]
  BY <1>3, <1>9
<1>11. ASSUME NEW s \in SUBSET S, s # {}, h[s \ {C[s]}] \in J[s \ {C[s]}]
       PROVE  h[s] \in J[s]
  <2>1. ReleaseHold(h[s \ {C[s]}], Picked(s)) \in J[s]
    BY <1>4, <1>11
  <2> QED
    BY <1>2, <1>9, <1>11, <2>1
<1>12. y \in Releasing(f, o, z, S)
  <2>2. \A s \in SUBSET S : s # {} => C[s] \in s
    BY <1>2
  <2>1. h[S] \in J[S]
    BY ONLY <1>1, <2>2, <1>10, <1>11, FoldKeeps
  <2> QED
    BY <2>1 DEF J
<1> HIDE DEF y
<1>13. ASSUME NEW cell \in MyHolds(o), Active(z.seen, cell),
              z.db.lineId[cell[1]] = z.seen.lineId[cell[1]]
       PROVE  ~Active(y.db, cell)
  <2>1. cell \in S
    BY <1>13 DEF S
  <2>2. y.db.lineId[cell[1]] = y.seen.lineId[cell[1]]
    BY <1>12, <1>13 DEF Releasing, Touches
  <2> QED
    BY <1>12, <2>1, <2>2 DEF Releasing, Active
<1> QED
  BY <1>5, <1>12, <1>13 DEF Releasing

-----------------------------------------------------------------------------
(***************************************************************************)
(* reserveOrder.                                                           *)
(***************************************************************************)

\* Whatever is available, a warehouse is found.
LEMMA PickIsWarehouse == \A d, s, n : PickOrDefault(d, s, n) \in Warehouses
<1> TAKE d, s, n
<1>1. Pick(d, s, n) \in SUBSET Warehouses
  BY ConstantsAssumption DEF Pick, Covering
<1> QED
  BY <1>1, ConstantsAssumption DEF PickOrDefault

\* The reservation of the lines G of o; b when none of its lines held anything
\* and each must be held in full.
Reserving(f, o, z, b, G) ==
    {x \in Progress :
        /\ Touches(z, x, o) /\ (f => Keeps(x, o)) /\ x.db.shipped = z.db.shipped
        /\ b => \A j \in G : x.short \/ FullyHeld(x.db, ItemsOf[o][j])
        /\ b => \A j \in DOMAIN ItemsOf[o] \ G, v \in Warehouses :
                    x.seen.hold[<<ItemsOf[o][j], v>>] = NoHold}

\* A line is reserved where its row is free, or noted.
LEMMA ReserveLineStep ==
    ASSUME NEW f \in BOOLEAN, NEW o \in Orders, NEW z, NEW b \in BOOLEAN,
           NEW partial \in BOOLEAN, b => ~partial,
           db \in Rows, NEW G \in SUBSET DOMAIN ItemsOf[o], NEW j \in G,
           NEW x \in Reserving(f, o, z, b, G \ {j})
    PROVE  ReserveLine(x, ItemsOf[o][j], partial) \in Reserving(f, o, z, b, G)
<1> DEFINE i == ItemsOf[o][j]
           s == SkuOf[i]
           w == IF x.seen.shelf[i] # NoWarehouse THEN x.seen.shelf[i]
                ELSE PickOrDefault(x.seen, s, QtyOf[i])
           here == Available(x.seen, s, w)
           take == IF partial THEN Lesser(QtyOf[i], here) ELSE QtyOf[i]
           noted == [x EXCEPT !.short = @ \/ here < QtyOf[i]]
           m == Moved(noted, s, w, 0, take)
           y == Inserted(m, i, w, take)
           g == NewRow(take)
           cell == <<i, w>>
           c == <<s, w>>
           l == noted.db.level[c]
           n == [onHand |-> l.onHand + 0, reserved |-> l.reserved + take]
           v == ReserveLine(x, i, partial)
           skip == \/ here < QtyOf[i] /\ ~partial
                   \/ take <= 0
                   \/ x.seen.hold[cell].status # "none"
<1>1. /\ x \in Progress /\ Touches(z, x, o) /\ (f => Keeps(x, o)) /\ x.db.shipped = z.db.shipped
      /\ b => \A p \in G \ {j} : x.short \/ FullyHeld(x.db, ItemsOf[o][p])
      /\ b => \A p \in DOMAIN ItemsOf[o] \ (G \ {j}), e \in Warehouses :
                    x.seen.hold[<<ItemsOf[o][p], e>>] = NoHold
  BY DEF Reserving
<1>2. i \in MyItems(o) /\ i \in Items /\ s \in Skus /\ QtyOf[i] \in Nat \ {0}
  <2>1. i \in MyItems(o)
    BY DEF MyItems, Range
  <2> HIDE DEF i
  <2> QED
    BY <2>1, Finite, ConstantsAssumption
<1>3. w \in Warehouses
  <2>1. x.seen.shelf[i] \in Warehouses \cup {NoWarehouse}
    BY <1>1, <1>2 DEF Progress, Rows
  <2> QED
    BY <2>1, PickIsWarehouse
<1>4. c \in Cells /\ cell \in Grid /\ cell \in MyHolds(o)
  BY <1>2, <1>3 DEF Cells, Grid, MyHolds
<1> HIDE DEF i, s, w
<1>5. here \in Int /\ take \in Int
  <2>1. x.seen.level[<<s, w>>] \in [onHand : Int, reserved : Int]
    BY <1>1, <1>2, <1>3 DEF Progress, Rows
  <2>2. here \in Int
    BY <2>1 DEF Available
  <2> HIDE DEF here
  <2> QED
    BY <1>2, <2>2 DEF Lesser
<1> HIDE DEF here, take
<1>6. /\ noted \in Progress /\ noted.db = x.db /\ noted.seen = x.seen /\ noted.ok = x.ok
      /\ noted.short = (x.short \/ here < QtyOf[i])
  BY <1>1 DEF Progress
<1> HIDE DEF noted
<1>7. Touches(z, noted, o) /\ (f => Keeps(noted, o))
  <2>1. Touches(x, noted, o) /\ (Keeps(x, o) => Keeps(noted, o))
    BY <1>1, <1>6, SameRows
  <2> QED
    BY <1>1, <2>1, TouchesMore
\* What its row was, when none of them held anything.
<1>8. b => /\ take = QtyOf[i] /\ ~(take <= 0)
           /\ x.seen.hold[cell].status = "none"
  <2> SUFFICES ASSUME b PROVE /\ take = QtyOf[i] /\ ~(take <= 0)
                              /\ x.seen.hold[cell].status = "none"
    OBVIOUS
  <2>1. take = QtyOf[i]
    BY DEF take
  <2>2. x.seen.hold[cell] = NoHold
    BY <1>1, <1>3 DEF i
  <2> QED
    BY <1>2, <2>1, <2>2 DEF NoHold
<1>9. CASE skip
  <2>1. v = noted
    BY <1>9 DEF ReserveLine, noted, take, here, w, s, i
  <2>2. b => noted.short
    BY <1>6, <1>8, <1>9
  <2>3. \A p \in DOMAIN ItemsOf[o] \ G : p \in DOMAIN ItemsOf[o] \ (G \ {j})
    OBVIOUS
  <2> HIDE DEF v
  <2> QED
    BY <1>1, <1>6, <1>7, <2>1, <2>2, <2>3 DEF Reserving, v, i
<1>10. CASE ~skip
  <2>1. v = y
    BY <1>10 DEF ReserveLine, noted, take, here, w, s, i
  <2>2. take \in Nat /\ take > 0 /\ x.seen.hold[cell].status = "none"
    BY <1>5, <1>10
  <2> HIDE DEF v
  <2>4. Shifts(noted, m, s, w, 0, take)
    BY <1>2, <1>3, <1>5, <1>6, MovedIs
  <2> HIDE DEF m
  <2>5. m \in Progress
    BY <2>4 DEF Shifts
  <2>6. Writes(m, y, i, w, g, g)
    BY <1>2, <1>3, <2>2, <2>5, InsertedIs
  <2> HIDE DEF y
  <2>8. g \in Hold /\ g \in Sound /\ Weight(g) = take /\ Outstanding(g) = take /\ g.status # "none"
    <3>1. g \in Hold
      BY <2>6 DEF Writes
    <3>2. Outstanding(g) = take
      BY <2>2 DEF Outstanding, NewRow
    <3> QED
      BY <2>2, <3>1, <3>2 DEF Sound, Weight, NewRow
  <2> HIDE DEF g
  <2>9. Advance(noted, y, o, i, w, 0, take, g, g)
    <3>1. y.ok => (noted.ok /\ 0 <= n.reserved /\ n.reserved <= n.onHand)
      BY <2>4, <2>6 DEF Shifts, Writes
    <3>2. y \in Progress /\ y.db.level = [noted.db.level EXCEPT ![c] = n]
      BY <2>4, <2>6 DEF Shifts, Writes
    <3>3. [noted.db.shipped EXCEPT ![o] = @ - 0] = noted.db.shipped
      <4>1. noted.db.shipped \in [Orders -> Nat]
        BY <1>6 DEF Progress, Rows
      <4> DEFINE e == noted.db.shipped
      <4> HIDE DEF e
      <4>2. e \in [Orders -> Nat] => [e EXCEPT ![o] = e[o] - 0] = e
        OBVIOUS
      <4> QED
        BY <4>1, <4>2 DEF e
    <3>4. /\ y.db.hold = [noted.db.hold EXCEPT ![<<i, w>>] = g]
          /\ y.seen.hold = [noted.seen.hold EXCEPT ![<<i, w>>] = g]
          /\ y.db.order = noted.db.order /\ y.db.lineId = noted.db.lineId
          /\ y.seen.lineId = noted.seen.lineId
          /\ y.db.shipped = [noted.db.shipped EXCEPT ![o] = @ - 0]
      BY <2>4, <2>6, <3>3 DEF Shifts, Writes
    <3>7. n = [onHand |-> noted.db.level[c].onHand + 0,
               reserved |-> noted.db.level[c].reserved + take]
      OBVIOUS
    <3> HIDE DEF n, c, l
    <3> QED
      BY <2>8, <3>1, <3>2, <3>4, <3>7 DEF Advance, c, s
  <2>10. Touches(z, y, o)
    <3>1. Touches(noted, y, o)
      BY <1>2, <1>3, <1>5, <1>6, <2>9, 0 \in Int, AdvanceTouches
    <3> QED
      BY <1>7, <3>1, TouchesMore
  <2>16. f => Keeps(y, o)
    <3> SUFFICES ASSUME f PROVE Keeps(y, o)
      OBVIOUS
    <3>1. x.db.hold[cell] = NoHold
      <4>1. Keeps(x, o)
        BY <1>1
      <4>2. x.seen.hold[cell] = x.db.hold[cell] /\ x.db.hold[cell] \in Sound
        BY <1>4, <4>1 DEF Keeps
      <4> QED
        BY <2>2, <4>2 DEF Sound
    <3>2. take = Weight(g) - Weight(noted.db.hold[<<i, w>>])
      BY <1>5, <1>6, <2>8, <3>1, NothingIsSound
    <3> QED
      BY <1>2, <1>3, <1>5, <1>7, <2>8, <2>9, <3>2, 0 \in Int, AdvanceKeeps
  <2>11. y \in Progress /\ y.db.shipped = z.db.shipped /\ y.short = noted.short
    BY <1>1, <1>6, <2>4, <2>6 DEF Shifts, Writes
  <2>12. /\ y.db.hold = [x.db.hold EXCEPT ![cell] = g] /\ y.seen.hold = [x.seen.hold EXCEPT ![cell] = g]
         /\ x.db.hold \in [Grid -> Hold] /\ x.seen.hold \in [Grid -> Hold]
    BY <1>1, <1>6, <2>4, <2>6 DEF Shifts, Writes, Progress, Rows, Grid
  <2>13. ASSUME NEW p \in DOMAIN ItemsOf[o], p # j, NEW u \in Warehouses
         PROVE  LET e == <<ItemsOf[o][p], u>> IN
                y.db.hold[e] = x.db.hold[e] /\ y.seen.hold[e] = x.seen.hold[e]
    <3>1. ItemsOf[o][p] # i /\ ItemsOf[o][p] \in Items
      <4>1. IsInjective(ItemsOf[o]) /\ ItemsOf[o] \in Seq(Items)
        BY ConstantsAssumption
      <4>2. j \in DOMAIN ItemsOf[o]
        OBVIOUS
      <4> QED
        BY <2>13, <4>1, <4>2 DEF IsInjective, i
    <3>2. <<ItemsOf[o][p], u>> \in Grid /\ <<ItemsOf[o][p], u>> # cell
      BY <3>1 DEF Grid
    <3> QED
      BY <2>12, <3>2
  <2>14. b => \A p \in G : y.short \/ FullyHeld(y.db, ItemsOf[o][p])
    <3> SUFFICES ASSUME b, NEW p \in G, ~y.short PROVE FullyHeld(y.db, ItemsOf[o][p])
      OBVIOUS
    <3>1. CASE p = j
      <4>1. y.db.hold[<<i, w>>] = g
        BY <1>4, <2>12
      <4>2. Outstanding(y.db.hold[<<i, w>>]) = QtyOf[i]
        BY <1>8, <2>8, <4>1
      <4> QED
        BY <1>3, <3>1, <4>2 DEF FullyHeld, i
    <3>2. CASE p # j
      <4>1. ~x.short
        BY <1>1, <1>6, <2>11 DEF Progress
      <4>2. FullyHeld(x.db, ItemsOf[o][p])
        BY <1>1, <3>2, <4>1
      <4> QED
        BY <2>13, <3>2, <4>2 DEF FullyHeld
    <3> QED
      BY <3>1, <3>2
  <2>15. b => \A p \in DOMAIN ItemsOf[o] \ G, u \in Warehouses :
                 y.seen.hold[<<ItemsOf[o][p], u>>] = NoHold
    BY <1>1, <2>13
  <2> QED
    BY <2>1, <2>10, <2>11, <2>14, <2>15, <2>16 DEF Reserving, v, i
<1> QED
  BY <1>9, <1>10 DEF v, i

\* The whole loop: an order that held nothing and is fully reserved holds
\* every line.
LEMMA ReserveKeeps ==
    ASSUME NEW f \in BOOLEAN, NEW o \in Orders, NEW b \in BOOLEAN, NEW partial \in BOOLEAN,
           b => ~partial, NEW z \in Progress, db \in Rows, f => Keeps(z, o),
           b => \A cell \in MyHolds(o) : z.seen.hold[cell] = NoHold
    PROVE  LET r == ReserveOrder(z, o, partial) IN
           /\ Touches(z, r, o) /\ (f => Keeps(r, o)) /\ r.db.shipped = z.db.shipped
           /\ b /\ r.ok => \A i \in MyItems(o) : FullyHeld(r.db, i)
<1> DEFINE q == ItemsOf[o]
           S == DOMAIN q
           Line(x, j) == ReserveLine(x, q[j], partial)
           F == [p \in S \X Progress |-> Line(p[2], p[1])]
           C == [s \in SUBSET S |-> Max(s)]
           J == [s \in SUBSET S |-> Reserving(f, o, z, b, s)]
           Rule(h) == [s \in SUBSET S |-> IF s = {} THEN z
                          ELSE Line(h[s \ {Max(s)}], Max(s))]
           h == CHOOSE h : h = Rule(h)
           y == h[S]
           r == ReserveOrder(z, o, partial)
<1>1. IsFiniteSet(S) /\ \A j \in S : q[j] \in MyItems(o)
  <2>1. q \in Seq(Items)
    BY ConstantsAssumption
  <2>2. S = 1 .. Len(q) /\ Len(q) \in Nat
    BY <2>1
  <2>3. IsFiniteSet(1 .. Len(q))
    BY <2>2, FS_Interval
  <2>4. \A j \in S : q[j] \in MyItems(o)
    BY DEF MyItems, Range
  <2> QED
    BY <2>2, <2>3, <2>4
<1>2. \A s \in SUBSET S : s # {} => C[s] \in s /\ C[s] = Max(s)
  <2>1. q \in Seq(Items)
    BY ConstantsAssumption
  <2>2. S = 1 .. Len(q) /\ Len(q) \in Nat
    BY <2>1
  <2> HIDE DEF S
  <2> QED
    BY <2>2, MaxIsIn
<1>3. z \in J[{}]
  <2>1. Touches(z, z, o)
    BY TouchesSelf
  <2>2. b => \A j \in S, v \in Warehouses : z.seen.hold[<<q[j], v>>] = NoHold
    BY <1>1 DEF MyHolds
  <2>3. z \in Reserving(f, o, z, b, {})
    BY <2>1, <2>2 DEF Reserving
  <2> QED
    BY <2>3
<1>4. ASSUME NEW s \in SUBSET S, s # {}, NEW v \in J[s \ {C[s]}]
      PROVE  /\ F[<<C[s], v>>] = Line(v, Max(s))
             /\ Line(v, Max(s)) \in J[s]
  <2>1. C[s] \in s /\ C[s] \in S /\ C[s] = Max(s) /\ s \ {C[s]} \in SUBSET S
    BY <1>2, <1>4
  <2>2. v \in Reserving(f, o, z, b, s \ {Max(s)}) /\ v \in Progress
    BY <1>4, <2>1 DEF Reserving
  <2>3. Line(v, Max(s)) \in Reserving(f, o, z, b, s)
    BY <2>1, <2>2, ReserveLineStep
  <2> QED
    BY <2>1, <2>2, <2>3
<1>5. r = [y EXCEPT !.ok = @ /\ (partial \/ ~y.short)]
  BY DEF ReserveOrder, FoldLeft, MapThenFoldSet
<1> HIDE DEF S, F, C, J, Rule, Line
<1>6. PICK g : Follows(g, S, z, F, C) /\ \A s \in SUBSET S : g[s] \in J[s]
  <2>1. \A s \in SUBSET S : s # {} => \A v \in J[s \ {C[s]}] : F[<<C[s], v>>] \in J[s]
    BY <1>4
  <2>2. \A s \in SUBSET S : s # {} => C[s] \in s
    BY <1>2
  <2> QED
    BY ONLY <1>1, <1>3, <2>1, <2>2, FoldMeets
<1>7. g = Rule(g)
  <2>1. \A s \in SUBSET S : s # {} => F[<<C[s], g[s \ {C[s]}]>>] = Line(g[s \ {Max(s)}], Max(s))
    BY <1>2, <1>4, <1>6
  <2>2. g = [s \in SUBSET S |-> IF s = {} THEN z ELSE F[<<C[s], g[s \ {C[s]}]>>]]
    BY <1>6 DEF Follows
  <2> QED
    BY <2>1, <2>2 DEF Rule
<1>8. h = Rule(h)
  BY <1>7
<1> HIDE DEF h
<1>9. h[{}] = z /\ \A s \in SUBSET S : s # {} => h[s] = Line(h[s \ {Max(s)}], Max(s))
  BY <1>8 DEF Rule
<1>10. h[{}] \in J[{}]
  BY <1>3, <1>9
<1>11. ASSUME NEW s \in SUBSET S, s # {}, h[s \ {C[s]}] \in J[s \ {C[s]}]
       PROVE  h[s] \in J[s]
  <2>1. Line(h[s \ {C[s]}], Max(s)) \in J[s]
    BY <1>4, <1>11
  <2> QED
    BY <1>2, <1>9, <1>11, <2>1
<1>12. y \in Reserving(f, o, z, b, S)
  <2>2. \A s \in SUBSET S : s # {} => C[s] \in s
    BY <1>2
  <2>1. h[S] \in J[S]
    BY ONLY <1>1, <2>2, <1>10, <1>11, FoldKeeps
  <2> QED
    BY <2>1 DEF J
<1> HIDE DEF y, r
<1>13. /\ y \in Progress /\ Touches(z, y, o) /\ (f => Keeps(y, o)) /\ y.db.shipped = z.db.shipped
       /\ b => \A j \in S : y.short \/ FullyHeld(y.db, q[j])
  BY <1>12 DEF Reserving
<1>14. r \in Progress /\ r.db = y.db /\ r.seen = y.seen /\ r.ok = (y.ok /\ (partial \/ ~y.short))
  BY <1>5, <1>13 DEF Progress
<1>15. Touches(z, r, o) /\ (f => Keeps(r, o))
  <2>1. Touches(y, r, o) /\ (Keeps(y, o) => Keeps(r, o))
    BY <1>13, <1>14, SameRows
  <2> QED
    BY <1>13, <2>1, TouchesMore
<1>16. b /\ r.ok => \A i \in MyItems(o) : FullyHeld(r.db, i)
  <2> SUFFICES ASSUME b, r.ok, NEW i \in MyItems(o) PROVE FullyHeld(r.db, i)
    OBVIOUS
  <2>1. ~partial /\ ~y.short
    BY <1>14
  <2>2. PICK j \in S : i = q[j]
    BY DEF MyItems, Range, S
  <2> QED
    BY <1>13, <1>14, <2>1, <2>2
<1> QED
  BY <1>13, <1>14, <1>15, <1>16 DEF r

-----------------------------------------------------------------------------
(***************************************************************************)
(* deduct.                                                                 *)
(***************************************************************************)

\* y is x but for what is left of its line and what o has shipped.
Ships(x, y, o, n, k) ==
    /\ y \in Progress /\ y.ok = x.ok /\ y.left = n
    /\ y.db.shipped = [x.db.shipped EXCEPT ![o] = k]
    /\ y.db.order = x.db.order /\ y.db.hold = x.db.hold /\ y.db.level = x.db.level
    /\ y.db.lineId = x.db.lineId
    /\ y.seen = x.seen

\* A deduction is counted.
LEMMA ShippedIs ==
    ASSUME NEW o \in Orders, NEW x \in Progress, NEW n \in Int, NEW k \in Nat
    PROVE  Ships(x, [x EXCEPT !.left = n, !.db.shipped[o] = k], o, n, k)
<1> DEFINE y == [x EXCEPT !.left = n, !.db.shipped[o] = k]
<1>1. y \in Progress
  BY DEF Progress, Rows
<1>2. y.ok = x.ok /\ y.left = n /\ y.seen = x.seen
  BY DEF Progress
<1>3. y.db = [x.db EXCEPT !.shipped[o] = k]
  BY DEF Progress, Rows
<1> HIDE DEF y
<1>4. /\ y.db.shipped = [x.db.shipped EXCEPT ![o] = k]
      /\ y.db.order = x.db.order /\ y.db.hold = x.db.hold /\ y.db.level = x.db.level
      /\ y.db.lineId = x.db.lineId
  BY <1>3 DEF Progress, Rows
<1> QED
  BY <1>1, <1>2, <1>4 DEF Ships, y

\* The deduction of a line of z from the holds G of its sku.
Taking(f, o, z, G) ==
    {x \in Progress :
        /\ Touches(z, x, o) /\ (f => Keeps(x, o)) /\ x.left \in Nat
        /\ x.db.shipped[o] + x.left = z.db.shipped[o] + z.left
        /\ \A cell \in MyHolds(o) \ G : x.seen.hold[cell] = z.seen.hold[cell]}

\* A hold gives what it has, or what is left to take.
LEMMA TakeHoldStep ==
    ASSUME NEW f \in BOOLEAN, NEW o \in Orders, NEW z, db \in Rows, NEW G \in SUBSET MyHolds(o),
           NEW cell \in G, Active(z.seen, cell), NEW x \in Taking(f, o, z, G \ {cell})
    PROVE  TakeHold(x, cell, o) \in Taking(f, o, z, G)
<1> DEFINE i == cell[1]
           w == cell[2]
           h == x.seen.hold[cell]
           d == x.db.hold[cell]
           take == Lesser(Outstanding(h), x.left)
           u == h.fulfilled + take
           closed == IF u + h.released >= h.qty THEN "fulfilled" ELSE "active"
           m == Moved(x, SkuOf[i], w, -take, -take)
           e == Fulfilled(m, i, w, u, closed)
           y == [e EXCEPT !.left = @ - take, !.db.shipped[o] = @ + take]
           g == Settles(m, i, w, FulfilledRow(d, u, closed))
           k == FulfilledRow(h, u, closed)
           c == <<SkuOf[i], w>>
           v == TakeHold(x, cell, o)
<1>1. /\ x \in Progress /\ Touches(z, x, o) /\ (f => Keeps(x, o)) /\ x.left \in Nat
      /\ x.db.shipped[o] + x.left = z.db.shipped[o] + z.left
      /\ \A p \in MyHolds(o) \ (G \ {cell}) : x.seen.hold[p] = z.seen.hold[p]
  BY DEF Taking
<1>2. /\ cell \in MyHolds(o) /\ cell \in Grid /\ i \in MyItems(o) /\ i \in Items
      /\ w \in Warehouses /\ cell = <<i, w>> /\ SkuOf[i] \in Skus /\ c \in Cells
  <2>1. cell \in MyHolds(o) /\ cell \in Grid
    BY Finite
  <2>2. i \in MyItems(o) /\ w \in Warehouses /\ cell = <<i, w>>
    BY <2>1 DEF MyHolds
  <2>3. i \in Items /\ SkuOf[i] \in Skus
    BY <2>2, Finite, ConstantsAssumption
  <2>4. c \in Cells
    BY <2>2, <2>3 DEF Cells
  <2> QED
    BY <2>1, <2>2, <2>3, <2>4
<1>3. h \in Hold /\ d \in Hold /\ h.status = "active" /\ Outstanding(h) > 0
  <2>1. h = z.seen.hold[cell]
    BY <1>1, <1>2
  <2>2. h \in Hold /\ d \in Hold
    BY <1>1, <1>2 DEF Progress, Rows, Grid
  <2> QED
    BY <2>1, <2>2 DEF Active
<1>4. Outstanding(h) \in Nat /\ Weight(h) = Outstanding(h)
  <2>1. Outstanding(h) \in Int
    BY <1>3 DEF Outstanding, Hold
  <2>2. Weight(h) = Outstanding(h)
    BY <1>3 DEF Weight
  <2> HIDE DEF h
  <2> QED
    BY <1>3, <2>1, <2>2
<1>5. take \in Nat /\ take <= Outstanding(h) /\ take <= x.left
  <2> HIDE DEF h
  <2> QED
    BY <1>1, <1>4 DEF Lesser
<1>6. v = IF take <= 0 THEN x ELSE y
  BY DEF TakeHold
<1> HIDE DEF v
<1>7. CASE take <= 0
  BY <1>1, <1>6, <1>7 DEF Taking, v
<1>8. CASE ~(take <= 0)
  <2>1. Shifts(x, m, SkuOf[i], w, -take, -take)
    <3>1. -take \in Int
      BY <1>5
    <3> HIDE DEF take, i, w
    <3> QED
      BY <1>1, <1>2, <3>1, MovedIs
  <2>2. /\ u \in Nat /\ h.released \in Nat /\ h.qty \in Nat
        /\ closed \in {"active", "fulfilled", "released"}
    <3> HIDE DEF take, h
    <3> QED
      BY <1>3, <1>5 DEF Hold
  <2> HIDE DEF m
  <2>10. /\ m \in Progress /\ m.seen.hold[<<i, w>>] = h /\ m.db.hold[<<i, w>>] = d
         /\ m.db.lineId = x.db.lineId /\ m.seen.lineId = x.seen.lineId
    BY <1>2, <2>1 DEF Shifts
  <2>3. Writes(m, e, i, w, g, k) /\ e.ok = m.ok
    <3> HIDE DEF h, d, i, w, u, closed, e, g, k
    <3>1. LET b == Fulfilled(m, i, w, u, closed)
              a == <<i, w>> IN
          /\ Writes(m, b, i, w, Settles(m, i, w, FulfilledRow(m.db.hold[a], u, closed)),
                                FulfilledRow(m.seen.hold[a], u, closed))
          /\ b.ok = m.ok
      BY <1>2, <2>2, <2>10, FulfilledIs
    <3> QED
      BY <2>10, <3>1 DEF e, g, k
  <2>11. Remains(m, i, w) <=> d.status # "none" /\ x.db.lineId[i] = x.seen.lineId[i]
    BY <2>10 DEF Remains
  <2>12. g = IF Remains(m, i, w) THEN FulfilledRow(d, u, closed) ELSE d
    BY <2>10 DEF Settles
  <2>4. Ships(e, y, o, x.left - take, x.db.shipped[o] + take)
    <3>1. e \in Progress /\ e.left = x.left /\ e.db.shipped = x.db.shipped
      <4> HIDE DEF e, g, k, take, i, w
      <4> QED
        BY <2>1, <2>3 DEF Shifts, Writes
    <3>2. x.left - take \in Int /\ x.db.shipped[o] + take \in Nat
      <4>1. x.db.shipped[o] \in Nat
        BY <1>1 DEF Progress, Rows
      <4> HIDE DEF take
      <4> QED
        BY <1>1, <1>5, <4>1
    <3>3. y = [e EXCEPT !.left = e.left - take, !.db.shipped[o] = e.db.shipped[o] + take]
      OBVIOUS
    <3> HIDE DEF e, y, take
    <3>4. y = [e EXCEPT !.left = x.left - take, !.db.shipped[o] = x.db.shipped[o] + take]
      BY <3>1, <3>3
    <3> QED
      BY <3>1, <3>2, <3>4, ShippedIs
  <2>6. Advance(x, y, o, i, w, -take, -take, g, k)
    <3> DEFINE l == x.db.level[c]
               n == [onHand |-> l.onHand + (-take), reserved |-> l.reserved + (-take)]
    <3>1. y.ok => (x.ok /\ 0 <= n.reserved /\ n.reserved <= n.onHand)
      <4>1. m.ok = (x.ok /\ 0 <= n.reserved /\ n.reserved <= n.onHand)
        BY <2>1 DEF Shifts
      <4>2. y.ok = m.ok
        <5> HIDE DEF e, y, g, k
        <5> QED
          BY <2>3, <2>4 DEF Ships
      <4> QED
        BY <4>1, <4>2
    <3>2. m.db.level = [x.db.level EXCEPT ![c] = n]
      BY <2>1 DEF Shifts
    <3> HIDE DEF e, y, g, h, k, take, i, w
    <3>3. y \in Progress /\ y.db.level = [x.db.level EXCEPT ![c] = n] /\ g \in Hold /\ k \in Hold
      BY <2>3, <2>4, <3>2 DEF Writes, Ships
    <3>4. /\ y.db.hold = [x.db.hold EXCEPT ![<<i, w>>] = g]
          /\ y.seen.hold = [x.seen.hold EXCEPT ![<<i, w>>] = k]
          /\ y.db.order = x.db.order /\ y.db.lineId = x.db.lineId
          /\ y.seen.lineId = x.seen.lineId
          /\ y.db.shipped = [x.db.shipped EXCEPT ![o] = x.db.shipped[o] + take]
      BY <2>1, <2>3, <2>4 DEF Shifts, Writes, Ships
    <3>5. x.db.shipped[o] + take = x.db.shipped[o] - (-take)
      <4>1. x.db.shipped[o] \in Nat
        BY <1>1 DEF Progress, Rows
      <4> QED
        BY <1>5, <4>1
    <3>6. y.db.shipped = [x.db.shipped EXCEPT ![o] = @ - (-take)]
      BY <3>4, <3>5
    <3> HIDE DEF n, c, l
    <3>7. n = [onHand |-> x.db.level[c].onHand + (-take),
               reserved |-> x.db.level[c].reserved + (-take)]
      BY DEF n, l
    <3> QED
      BY <3>1, <3>3, <3>4, <3>6, <3>7 DEF Advance, c
  <2>7. Touches(z, y, o)
    <3> DEFINE q == -take
    <3>1. q \in Int
      BY <1>5
    <3> HIDE DEF y, g, k, i, w, take, q
    <3>2. Advance(x, y, o, i, w, q, q, g, k)
      BY <2>6 DEF q
    <3>3. Touches(x, y, o)
      BY <1>1, <1>2, <3>1, <3>2, AdvanceTouches
    <3> QED
      BY <1>1, <3>3, TouchesMore
  <2>13. f => Keeps(y, o)
    <3> SUFFICES ASSUME f PROVE Keeps(y, o)
      OBVIOUS
    <3>1. Keeps(x, o)
      BY <1>1
    <3>2. h = d /\ d \in Sound /\ x.db.lineId[i] = x.seen.lineId[i]
      BY <1>2, <3>1 DEF Keeps
    <3>3. g = k /\ g = FulfilledRow(h, u, closed)
      BY <1>3, <2>11, <2>12, <3>2
    <3>4. g \in Sound /\ g.status # "none" /\ Weight(g) = Weight(h) - take
      <4>1. k \in Hold
        <5> HIDE DEF k, y, g, e
        <5> QED
          BY <2>3 DEF Writes
      <4>2. k.fulfilled = u /\ k.released = h.released /\ k.qty = h.qty /\ k.status = closed
        BY DEF FulfilledRow
      <4>3. u = h.fulfilled + take
        OBVIOUS
      <4>4. closed = IF u + h.released >= h.qty THEN "fulfilled" ELSE "active"
        OBVIOUS
      <4>5. h.fulfilled \in Nat /\ h.released \in Nat /\ h.qty \in Nat
        BY <1>3 DEF Hold
      <4> HIDE DEF g, k, u, closed, take, h
      <4>6. u + h.released <= h.qty /\ h.qty - u - h.released = Outstanding(h) - take
        BY <1>5, <4>3, <4>5 DEF Outstanding
      <4>7. Outstanding(k) = Outstanding(h) - take
        BY <4>2, <4>6 DEF Outstanding
      <4>8. Weight(k) = Outstanding(h) - take
        <5>1. CASE u + h.released >= h.qty
          <6>1. Outstanding(h) - take = 0
            BY <2>2, <4>5, <4>6, <5>1
          <6> QED
            BY <4>2, <4>4, <5>1, <6>1 DEF Weight
        <5>2. CASE ~(u + h.released >= h.qty)
          BY <4>2, <4>4, <4>7, <5>2 DEF Weight
        <5> QED
          BY <5>1, <5>2
      <4> QED
        BY <1>4, <2>2, <3>3, <4>1, <4>2, <4>6, <4>8 DEF Sound
    <3> DEFINE q == -take
    <3>5. q \in Int
      BY <1>5
    <3>6. x.db.hold[<<i, w>>] = h
      BY <1>2, <3>2
    <3> HIDE DEF y, g, k, h, d, i, w, take, q
    <3>7. Advance(x, y, o, i, w, q, q, g, g)
      BY <2>6, <3>3 DEF q
    <3>8. q = Weight(g) - Weight(x.db.hold[<<i, w>>])
      BY <1>4, <1>5, <3>4, <3>6 DEF q
    <3> QED
      BY <1>2, <3>1, <3>4, <3>5, <3>7, <3>8, AdvanceKeeps
  <2>8. y \in Progress /\ y.left \in Nat /\ y.db.shipped[o] + y.left = z.db.shipped[o] + z.left
    <3> HIDE DEF e, y, take, g, k
    <3>2. x.db.shipped \in [Orders -> Nat] /\ e.db.shipped = x.db.shipped
      BY <1>1, <2>1, <2>3 DEF Progress, Rows, Shifts, Writes
    <3>3. y \in Progress /\ y.left = x.left - take /\ y.db.shipped[o] = x.db.shipped[o] + take
      BY <2>4, <3>2 DEF Ships
    <3> QED
      BY <1>1, <1>5, <3>2, <3>3
  <2>9. \A p \in MyHolds(o) \ G : y.seen.hold[p] = z.seen.hold[p]
    <3> TAKE p \in MyHolds(o) \ G
    <3> HIDE DEF y, g, k, e
    <3>1. y.seen.hold = [x.seen.hold EXCEPT ![cell] = k] /\ p \in Grid /\ x.seen.hold \in [Grid -> Hold]
      BY <1>1, <1>2, <2>1, <2>3, <2>4, Finite DEF Shifts, Writes, Ships, Progress, Rows, Grid
    <3> QED
      BY <1>1, <3>1
  <2> HIDE DEF y
  <2> QED
    BY <1>6, <1>8, <2>7, <2>8, <2>9, <2>13 DEF Taking, v
<1> QED
  BY <1>7, <1>8 DEF v

\* What the holds do not cover is taken off the warehouse a pick finds.
LEMMA TakeRestStep ==
    ASSUME NEW f \in BOOLEAN, NEW o \in Orders, db \in Rows, NEW x \in Progress, f => Keeps(x, o),
           x.left \in Nat, NEW i \in MyItems(o)
    PROVE  LET y == TakeRest(x, SkuOf[i], o) IN
           /\ Touches(x, y, o) /\ (f => Keeps(y, o))
           /\ y.db.shipped[o] = x.db.shipped[o] + x.left
<1> DEFINE s == SkuOf[i]
           w == PickOrDefault(x.seen, s, x.left)
           q == x.left
           m == Moved(x, s, w, -q, 0)
           y == [m EXCEPT !.left = 0, !.db.shipped[o] = @ + q]
           g == x.db.hold[<<i, w>>]
           k == x.seen.hold[<<i, w>>]
           c == <<s, w>>
           r == TakeRest(x, s, o)
<1>1. i \in Items /\ s \in Skus /\ w \in Warehouses /\ c \in Cells /\ <<i, w>> \in Grid
      /\ <<i, w>> \in MyHolds(o)
  <2>1. i \in Items /\ s \in Skus
    BY Finite, ConstantsAssumption
  <2>2. w \in Warehouses
    BY PickIsWarehouse
  <2> QED
    BY <2>1, <2>2 DEF Cells, Grid, MyHolds
<1>2. x.db.shipped \in [Orders -> Nat] /\ x.db.hold \in [Grid -> Hold] /\ x.seen.hold \in [Grid -> Hold]
  BY DEF Progress, Rows, Grid
<1>3. r = IF q <= 0 THEN x ELSE y
  BY DEF TakeRest
<1> HIDE DEF r
<1>4. CASE q <= 0
  <2>1. q = 0
    BY <1>4
  <2>2. Touches(x, x, o)
    BY TouchesSelf
  <2> QED
    BY <1>2, <1>3, <1>4, <2>1, <2>2 DEF r
<1>5. CASE ~(q <= 0)
  <2> DEFINE u == -q
  <2>0. u \in Int /\ u = -q
    OBVIOUS
  <2>1. Shifts(x, m, s, w, u, 0)
    <3> HIDE DEF q, w, s, u
    <3>2. Shifts(x, Moved(x, s, w, u, 0), s, w, u, 0)
      BY <1>1, <2>0, MovedIs
    <3> QED
      BY <3>2 DEF u
  <2>2. Ships(m, y, o, 0, x.db.shipped[o] + q)
    <3>1. m \in Progress /\ m.db.shipped = x.db.shipped
      BY <2>1 DEF Shifts
    <3>2. x.db.shipped[o] + q \in Nat
      BY <1>2
    <3>3. y = [m EXCEPT !.left = 0, !.db.shipped[o] = m.db.shipped[o] + q]
      OBVIOUS
    <3> HIDE DEF m, y, q
    <3>4. y = [m EXCEPT !.left = 0, !.db.shipped[o] = x.db.shipped[o] + q]
      BY <3>1, <3>3
    <3> QED
      BY <3>1, <3>2, <3>4, 0 \in Int, ShippedIs
  <2>3. g \in Hold /\ k \in Hold
    BY <1>1, <1>2
  <2>4. Advance(x, y, o, i, w, u, 0, g, k)
    <3> DEFINE l == x.db.level[c]
               n == [onHand |-> l.onHand + u, reserved |-> l.reserved + 0]
    <3>1. y.ok => (x.ok /\ 0 <= n.reserved /\ n.reserved <= n.onHand)
      <4>1. m.ok = (x.ok /\ 0 <= n.reserved /\ n.reserved <= n.onHand)
        BY <2>1 DEF Shifts
      <4> HIDE DEF m, y, n
      <4> QED
        BY <2>2, <4>1 DEF Ships
    <3>2. m.db.level = [x.db.level EXCEPT ![c] = n]
      BY <2>1 DEF Shifts
    <3> HIDE DEF m, y, w, s, q, u
    <3>3. y \in Progress /\ y.db.level = [x.db.level EXCEPT ![c] = n]
      BY <2>2, <3>2 DEF Ships
    <3>4. [x.db.hold EXCEPT ![<<i, w>>] = g] = x.db.hold /\ [x.seen.hold EXCEPT ![<<i, w>>] = k] = x.seen.hold
      BY <1>1, <1>2 DEF g, k
    <3> HIDE DEF g, k
    <3>5. /\ y.db.hold = [x.db.hold EXCEPT ![<<i, w>>] = g]
          /\ y.seen.hold = [x.seen.hold EXCEPT ![<<i, w>>] = k]
          /\ y.db.order = x.db.order /\ y.db.lineId = x.db.lineId
          /\ y.seen.lineId = x.seen.lineId
          /\ y.db.shipped = [x.db.shipped EXCEPT ![o] = x.db.shipped[o] + q]
      BY <2>1, <2>2, <3>4 DEF Shifts, Ships
    <3>6. x.db.shipped[o] + q = x.db.shipped[o] - u
      <4>1. q \in Nat
        BY DEF q
      <4> QED
        BY <1>2, <2>0, <4>1
    <3>7. y.db.shipped = [x.db.shipped EXCEPT ![o] = @ - u]
      BY <3>5, <3>6
    <3>9. n = [onHand |-> x.db.level[c].onHand + u, reserved |-> x.db.level[c].reserved + 0]
      OBVIOUS
    <3> HIDE DEF n, c, l
    <3> QED
      BY <2>3, <3>1, <3>3, <3>5, <3>7, <3>9 DEF Advance, c, s
  <2>5. Touches(x, y, o)
    <3> HIDE DEF y, w, s, g, k, u, q
    <3> QED
      BY <1>1, <2>0, <2>4, 0 \in Int, AdvanceTouches
  <2>7. f => Keeps(y, o)
    <3> SUFFICES ASSUME f PROVE Keeps(y, o)
      OBVIOUS
    <3>1. Keeps(x, o)
      OBVIOUS
    <3>2. g \in Sound /\ k = g
      BY <1>1, <3>1 DEF Keeps
    <3>3. 0 = Weight(g) - Weight(x.db.hold[<<i, w>>])
      <4>1. Weight(g) \in Int
        BY <3>2, SoundWeight
      <4> DEFINE a == Weight(g)
      <4>2. Weight(x.db.hold[<<i, w>>]) = a
        OBVIOUS
      <4> HIDE DEF a
      <4>3. a \in Int
        BY <4>1 DEF a
      <4> QED
        BY <4>2, <4>3 DEF a
    <3>4. Advance(x, y, o, i, w, u, 0, g, g)
      <4> HIDE DEF y, w, s, g, k, u, q
      <4> QED
        BY <2>4, <3>2
    <3>5. x.db.hold[<<i, w>>].status # "none" => g.status # "none"
      OBVIOUS
    <3> HIDE DEF y, w, s, g, k, u, q
    <3> QED
      BY <1>1, <2>0, <3>1, <3>2, <3>3, <3>4, <3>5, 0 \in Int, AdvanceKeeps
  <2>6. y.db.shipped[o] = x.db.shipped[o] + q
    <3>1. m.db.shipped = x.db.shipped
      BY <2>1 DEF Shifts
    <3> HIDE DEF m, y, q
    <3> QED
      BY <1>2, <2>2, <3>1 DEF Ships
  <2> HIDE DEF y
  <2> QED
    BY <1>3, <1>5, <2>5, <2>6, <2>7 DEF r
<1> QED
  BY <1>4, <1>5 DEF r

\* A line takes what it asks for, of its order's holds first.
LEMMA DeductLineKeeps ==
    ASSUME NEW f \in BOOLEAN, NEW o \in Orders, db \in Rows, NEW x \in Progress,
           f => Keeps(x, o), NEW i \in MyItems(o)
    PROVE  LET y == DeductLine(x, i, o) IN
           /\ Touches(x, y, o) /\ (f => Keeps(y, o))
           /\ y.db.shipped[o] = x.db.shipped[o] + QtyOf[i]
<1> DEFINE S == {cell \in MyHolds(o) : Active(x.seen, cell) /\ SkuOf[cell[1]] = SkuOf[i]}
           z == [x EXCEPT !.left = QtyOf[i]]
           F == [p \in S \X Progress |-> TakeHold(p[2], p[1], o)]
           C == [s \in SUBSET S |-> Picked(s)]
           J == [s \in SUBSET S |-> Taking(f, o, z, s)]
           Rule(h) == [s \in SUBSET S |-> IF s = {} THEN z
                          ELSE TakeHold(h[s \ {Picked(s)}], Picked(s), o)]
           h == CHOOSE h : h = Rule(h)
           y == h[S]
<1>1. IsFiniteSet(S) /\ S \in SUBSET MyHolds(o)
  BY Finite, FS_Subset
<1>2. \A s \in SUBSET S : s # {} => C[s] \in s /\ C[s] = Picked(s)
  BY DEF Picked
<1>0. /\ QtyOf[i] \in Nat /\ z \in Progress /\ z.left = QtyOf[i]
      /\ z.db = x.db /\ z.seen = x.seen /\ z.ok = x.ok
  <2>1. QtyOf[i] \in Nat
    BY Finite, ConstantsAssumption
  <2> QED
    BY <2>1 DEF Progress
<1> HIDE DEF z
<1>3. z \in J[{}]
  <2>1. f => Keeps(z, o)
    BY <1>0, SameRows
  <2>2. Touches(z, z, o)
    BY <1>0, TouchesSelf
  <2> QED
    BY <1>0, <2>1, <2>2 DEF Taking
<1>4. ASSUME NEW s \in SUBSET S, s # {}, NEW v \in J[s \ {C[s]}]
      PROVE  /\ F[<<C[s], v>>] = TakeHold(v, Picked(s), o)
             /\ TakeHold(v, Picked(s), o) \in J[s]
  <2>1. C[s] \in s /\ C[s] \in S /\ C[s] = Picked(s) /\ s \ {C[s]} \in SUBSET S
    BY <1>2, <1>4
  <2>2. v \in Taking(f, o, z, s \ {Picked(s)}) /\ v \in Progress
    BY <1>4, <2>1 DEF Taking
  <2>3. Active(z.seen, Picked(s))
    BY <1>0, <2>1
  <2>4. TakeHold(v, Picked(s), o) \in Taking(f, o, z, s)
    BY <2>1, <2>2, <2>3, TakeHoldStep
  <2> QED
    BY <2>1, <2>2, <2>4
<1>5. DeductLine(x, i, o) = TakeRest(y, SkuOf[i], o)
  BY DEF DeductLine, FoldSet, MapThenFoldSet, Picked, z
<1> HIDE DEF S, F, C, J, Rule
<1>6. PICK g : Follows(g, S, z, F, C) /\ \A s \in SUBSET S : g[s] \in J[s]
  <2>1. \A s \in SUBSET S : s # {} => \A v \in J[s \ {C[s]}] : F[<<C[s], v>>] \in J[s]
    BY <1>4
  <2>2. \A s \in SUBSET S : s # {} => C[s] \in s
    BY <1>2
  <2> QED
    BY ONLY <1>1, <1>3, <2>1, <2>2, FoldMeets
<1>7. g = Rule(g)
  <2>1. \A s \in SUBSET S : s # {} => F[<<C[s], g[s \ {C[s]}]>>] = TakeHold(g[s \ {Picked(s)}], Picked(s), o)
    BY <1>2, <1>4, <1>6
  <2>2. g = [s \in SUBSET S |-> IF s = {} THEN z ELSE F[<<C[s], g[s \ {C[s]}]>>]]
    BY <1>6 DEF Follows
  <2> QED
    BY <2>1, <2>2 DEF Rule
<1>8. h = Rule(h)
  BY <1>7
<1> HIDE DEF h
<1>9. h[{}] = z /\ \A s \in SUBSET S : s # {} => h[s] = TakeHold(h[s \ {Picked(s)}], Picked(s), o)
  BY <1>8 DEF Rule
<1>10. h[{}] \in J[{}]
  BY <1>3, <1>9
<1>11. ASSUME NEW s \in SUBSET S, s # {}, h[s \ {C[s]}] \in J[s \ {C[s]}]
       PROVE  h[s] \in J[s]
  <2>1. TakeHold(h[s \ {C[s]}], Picked(s), o) \in J[s]
    BY <1>4, <1>11
  <2> QED
    BY <1>2, <1>9, <1>11, <2>1
<1>12. y \in Taking(f, o, z, S)
  <2>2. \A s \in SUBSET S : s # {} => C[s] \in s
    BY <1>2
  <2>1. h[S] \in J[S]
    BY ONLY <1>1, <2>2, <1>10, <1>11, FoldKeeps
  <2> QED
    BY <2>1 DEF J
<1> HIDE DEF y
<1>13. /\ y \in Progress /\ Touches(z, y, o) /\ (f => Keeps(y, o)) /\ y.left \in Nat
       /\ y.db.shipped[o] + y.left = x.db.shipped[o] + QtyOf[i]
  BY <1>0, <1>12 DEF Taking
<1> DEFINE u == TakeRest(y, SkuOf[i], o)
<1>14. Touches(y, u, o) /\ (f => Keeps(u, o)) /\ u.db.shipped[o] = y.db.shipped[o] + y.left
  BY <1>13, TakeRestStep
<1>15. Touches(x, u, o)
  <2>1. Touches(x, z, o)
    BY <1>0, SameRows
  <2> QED
    BY <1>13, <1>14, <2>1, TouchesMore
<1> QED
  BY <1>5, <1>13, <1>14, <1>15

\* What the lines of o ask for in all.
Ordered(o) == Sum(QtyOf, MyItems(o))

\* The deduction of the lines G of o.
Lines(o, G) == {ItemsOf[o][j] : j \in G}
Deducting(f, o, z, G) ==
    {x \in Progress : /\ Touches(z, x, o) /\ (f => Keeps(x, o))
                      /\ x.db.shipped[o] <= z.db.shipped[o] + Sum(QtyOf, Lines(o, G))}

\* A line takes what it asks for.
LEMMA DeductLineStep ==
    ASSUME NEW f \in BOOLEAN, NEW o \in Orders, NEW z \in Progress, db \in Rows,
           NEW G \in SUBSET DOMAIN ItemsOf[o], NEW j \in G, NEW x \in Deducting(f, o, z, G \ {j})
    PROVE  DeductLine(x, ItemsOf[o][j], o) \in Deducting(f, o, z, G)
<1> DEFINE i == ItemsOf[o][j]
           y == DeductLine(x, i, o)
           T == Lines(o, G \ {j})
<1>1. /\ Touches(z, x, o) /\ (f => Keeps(x, o)) /\ x \in Progress
      /\ x.db.shipped[o] <= z.db.shipped[o] + Sum(QtyOf, T)
      /\ x.db.shipped[o] \in Nat /\ z.db.shipped[o] \in Nat
  BY DEF Deducting, Progress, Rows
<1>2. i \in MyItems(o) /\ T \in SUBSET Items /\ i \in Items
  <2>1. \A k \in DOMAIN ItemsOf[o] : ItemsOf[o][k] \in MyItems(o)
    BY DEF MyItems, Range
  <2> QED
    BY <2>1, Finite DEF Lines
<1>3. Lines(o, G) = T \cup {i} /\ i \notin T
  <2>1. \A k \in DOMAIN ItemsOf[o] : ItemsOf[o][k] = ItemsOf[o][j] => k = j
    BY ConstantsAssumption DEF IsInjective
  <2> QED
    BY <2>1 DEF Lines
<1>4. IsFiniteSet(T) /\ QtyOf \in [Items -> Nat \ {0}]
  BY <1>2, Finite, FS_Subset, ConstantsAssumption
<1> HIDE DEF i, T
<1>5. \A k \in T : QtyOf[k] \in Int
  BY <1>2, <1>4
<1>6. Sum(QtyOf, T \cup {i}) = QtyOf[i] + Sum(QtyOf, T) /\ Sum(QtyOf, T) \in Int /\ QtyOf[i] \in Nat
  BY <1>2, <1>3, <1>4, <1>5, SumAdd, SumType
<1>7. /\ Touches(x, y, o) /\ (f => Keeps(y, o))
      /\ y.db.shipped[o] = x.db.shipped[o] + QtyOf[i]
  BY <1>1, <1>2, DeductLineKeeps
<1> HIDE DEF y
<1>8. y \in Progress /\ y.db.shipped[o] <= z.db.shipped[o] + Sum(QtyOf, Lines(o, G))
  BY <1>1, <1>3, <1>6, <1>7 DEF Touches
<1>9. Touches(z, y, o)
  BY <1>1, <1>7, TouchesMore
<1> QED
  BY <1>7, <1>8, <1>9 DEF Deducting, y, i

\* The whole loop: no more is shipped than the lines ask for, and nothing by a
\* request that read of an earlier deduction.
LEMMA DeductKeeps ==
    ASSUME NEW f \in BOOLEAN, NEW o \in Orders, NEW z \in Progress, db \in Rows, f => Keeps(z, o)
    PROVE  LET v == Deduct(z, o) IN
           /\ Touches(z, v, o) /\ (f => Keeps(v, o))
           /\ v.db.shipped[o] <= z.db.shipped[o]
                                   + (IF z.seen.shipped[o] > 0 THEN 0 ELSE Ordered(o))
<1> DEFINE q == ItemsOf[o]
           S == DOMAIN q
           Line(x, j) == DeductLine(x, q[j], o)
           F == [p \in S \X Progress |-> Line(p[2], p[1])]
           C == [s \in SUBSET S |-> Max(s)]
           J == [s \in SUBSET S |-> Deducting(f, o, z, s)]
           Rule(h) == [s \in SUBSET S |-> IF s = {} THEN z
                          ELSE Line(h[s \ {Max(s)}], Max(s))]
           h == CHOOSE h : h = Rule(h)
           y == h[S]
<1>0. SUFFICES ASSUME ~(z.seen.shipped[o] > 0)
               PROVE  /\ Touches(z, y, o) /\ (f => Keeps(y, o))
                      /\ y.db.shipped[o] <= z.db.shipped[o] + Ordered(o)
  <2>1. Deduct(z, o) = IF z.seen.shipped[o] > 0 THEN z ELSE y
    BY DEF Deduct, FoldLeft, MapThenFoldSet
  <2>2. Touches(z, z, o) /\ z.db.shipped[o] \in Nat
    BY TouchesSelf DEF Progress, Rows
  <2> HIDE DEF y
  <2> QED
    BY <2>1, <2>2
<1>1. IsFiniteSet(S)
  <2>1. q \in Seq(Items)
    BY ConstantsAssumption
  <2>2. S = 1 .. Len(q) /\ Len(q) \in Nat
    BY <2>1
  <2> QED
    BY <2>2, FS_Interval
<1>2. \A s \in SUBSET S : s # {} => C[s] \in s /\ C[s] = Max(s)
  <2>1. q \in Seq(Items)
    BY ConstantsAssumption
  <2>2. S = 1 .. Len(q) /\ Len(q) \in Nat
    BY <2>1
  <2> HIDE DEF S
  <2> QED
    BY <2>2, MaxIsIn
<1>3. z \in J[{}]
  <2>1. Touches(z, z, o) /\ z.db.shipped[o] \in Nat
    BY TouchesSelf DEF Progress, Rows
  <2>3. Sum(QtyOf, Lines(o, {})) = 0
    <3>1. Lines(o, {}) = {}
      BY DEF Lines
    <3> QED
      BY <3>1, SumEmpty
  <2>4. z \in Deducting(f, o, z, {})
    BY <2>1, <2>3 DEF Deducting
  <2> QED
    BY <2>4
<1>4. ASSUME NEW s \in SUBSET S, s # {}, NEW v \in J[s \ {C[s]}]
      PROVE  /\ F[<<C[s], v>>] = Line(v, Max(s))
             /\ Line(v, Max(s)) \in J[s]
  <2>1. C[s] \in s /\ C[s] \in S /\ C[s] = Max(s) /\ s \ {C[s]} \in SUBSET S
    BY <1>2, <1>4
  <2>2. v \in Deducting(f, o, z, s \ {Max(s)}) /\ v \in Progress
    BY <1>4, <2>1 DEF Deducting
  <2>3. Line(v, Max(s)) \in Deducting(f, o, z, s)
    BY <2>1, <2>2, DeductLineStep
  <2> QED
    BY <2>1, <2>2, <2>3
<1> HIDE DEF S, F, C, J, Rule, Line
<1>6. PICK g : Follows(g, S, z, F, C) /\ \A s \in SUBSET S : g[s] \in J[s]
  <2>1. \A s \in SUBSET S : s # {} => \A v \in J[s \ {C[s]}] : F[<<C[s], v>>] \in J[s]
    BY <1>4
  <2>2. \A s \in SUBSET S : s # {} => C[s] \in s
    BY <1>2
  <2> QED
    BY ONLY <1>1, <1>3, <2>1, <2>2, FoldMeets
<1>7. g = Rule(g)
  <2>1. \A s \in SUBSET S : s # {} => F[<<C[s], g[s \ {C[s]}]>>] = Line(g[s \ {Max(s)}], Max(s))
    BY <1>2, <1>4, <1>6
  <2>2. g = [s \in SUBSET S |-> IF s = {} THEN z ELSE F[<<C[s], g[s \ {C[s]}]>>]]
    BY <1>6 DEF Follows
  <2> QED
    BY <2>1, <2>2 DEF Rule
<1>8. h = Rule(h)
  BY <1>7
<1> HIDE DEF h
<1>9. h[{}] = z /\ \A s \in SUBSET S : s # {} => h[s] = Line(h[s \ {Max(s)}], Max(s))
  BY <1>8 DEF Rule
<1>10. h[{}] \in J[{}]
  BY <1>3, <1>9
<1>11. ASSUME NEW s \in SUBSET S, s # {}, h[s \ {C[s]}] \in J[s \ {C[s]}]
       PROVE  h[s] \in J[s]
  <2>1. Line(h[s \ {C[s]}], Max(s)) \in J[s]
    BY <1>4, <1>11
  <2> QED
    BY <1>2, <1>9, <1>11, <2>1
<1>12. y \in Deducting(f, o, z, S)
  <2>2. \A s \in SUBSET S : s # {} => C[s] \in s
    BY <1>2
  <2>1. h[S] \in J[S]
    BY ONLY <1>1, <2>2, <1>10, <1>11, FoldKeeps
  <2> QED
    BY <2>1 DEF J
<1> HIDE DEF y
<1>13. Lines(o, S) = MyItems(o)
  BY DEF Lines, MyItems, Range, S
<1> QED
  BY <1>12, <1>13 DEF Deducting, Ordered

-----------------------------------------------------------------------------
(***************************************************************************)
(* The rows a commit deletes, and the units that are orphaned with them.   *)
(***************************************************************************)
Lost(new, c) ==
    [i \in Items |-> IF /\ SkuOf[i] = c[1] /\ new.hold[<<i, c[2]>>] = NoHold
                        /\ db.hold[<<i, c[2]>>].status = "active"
                     THEN Outstanding(db.hold[<<i, c[2]>>]) ELSE 0]

\* The units a commit orphans, as a sum over the lines.
LEMMA CascadedIs ==
    ASSUME db \in Rows, NEW new, NEW c \in Cells
    PROVE  /\ Cascaded(new, c[1], c[2]) = Sum(Lost(new, c), Items)
           /\ Lost(new, c) \in [Items -> Int]
           /\ Cascaded(new, c[1], c[2]) \in Int
<1> DEFINE w == c[2]
           T == {j \in Items : /\ SkuOf[j] = c[1] /\ new.hold[<<j, w>>] = NoHold
                               /\ db.hold[<<j, w>>].status = "active"}
           f == [i \in T |-> Outstanding(db.hold[<<i, w>>])]
           g == Lost(new, c)
<1>1. \A i \in Items : Outstanding(db.hold[<<i, w>>]) \in Int
  <2> TAKE i \in Items
  <2>1. db.hold[<<i, w>>] \in Hold
    BY DEF Rows, Cells
  <2> QED
    BY <2>1 DEF Outstanding, Hold
<1>2. g \in [Items -> Int]
  BY <1>1 DEF Lost
<1>3. Cascaded(new, c[1], c[2]) = Sum(f, T)
  <2>1. Cascaded(new, c[1], c[2]) = SumFunction(f)
    BY DEF Cascaded
  <2>2. DOMAIN f = T
    OBVIOUS
  <2> HIDE DEF f, T
  <2> QED
    BY <2>1, <2>2, SumFunctionIs
<1>4. T \in SUBSET Items
  OBVIOUS
<1>5. \A i \in T : f[i] \in Int /\ g[i] = f[i]
  BY <1>1 DEF Lost
<1>6. \A i \in Items \ T : g[i] = 0
  BY DEF Lost
<1> HIDE DEF f, T, g
<1>7. Sum(f, T) = Sum(g, Items)
  BY ONLY <1>4, <1>5, <1>6, Finite, SumPart
<1>8. Sum(g, Items) \in Int
  BY <1>2, Finite, SumType
<1> QED
  BY <1>2, <1>3, <1>7, <1>8 DEF g

\* Where no active row is deleted nothing is orphaned.
LEMMA NoneLost ==
    ASSUME db \in Rows, NEW new, NEW c \in Cells,
           \A i \in Items : SkuOf[i] = c[1] /\ new.hold[<<i, c[2]>>] = NoHold =>
                               db.hold[<<i, c[2]>>].status # "active"
    PROVE  Cascaded(new, c[1], c[2]) = 0
<1> DEFINE g == Lost(new, c)
           f == [i \in {} |-> 0]
<1>1. \A i \in Items : g[i] = 0
  BY DEF Lost
<1> HIDE DEF g, f
<1>2. Sum(f, {}) = Sum(g, Items)
  <2>1. /\ {} \in SUBSET Items /\ \A i \in {} : f[i] \in Int /\ g[i] = f[i]
        /\ \A i \in Items \ {} : g[i] = 0
    BY <1>1
  <2> QED
    BY ONLY <2>1, Finite, SumPart
<1> QED
  BY <1>2, SumEmpty, CascadedIs DEF g

\* What a cascade takes off the rows is what it orphans.
LEMMA CascadeLoses ==
    ASSUME db \in Rows, NEW o \in Orders, NEW new \in Rows,
           \A cell \in Grid : new.hold[cell] = IF cell[1] \in MyItems(o) THEN NoHold
                                               ELSE db.hold[cell],
           NEW c \in Cells
    PROVE  HeldAt(db, c) = HeldAt(new, c) + Cascaded(new, c[1], c[2])
<1> DEFINE f == Share(new, c)
           g == Lost(new, c)
           h == Share(db, c)
<1>1. f \in [Items -> Int] /\ h \in [Items -> Int] /\ g \in [Items -> Int]
  BY ShareType, CascadedIs
<1>2. ASSUME NEW i \in Items PROVE h[i] = f[i] + g[i]
  <2> DEFINE cell == <<i, c[2]>>
  <2>1. cell \in Grid /\ cell[1] = i
    BY DEF Cells, Grid
  <2>2. db.hold[cell] \in Hold /\ Weight(db.hold[cell]) \in Int
    BY <2>1, WeightType DEF Rows, Grid
  <2>3. new.hold[cell] = IF i \in MyItems(o) THEN NoHold ELSE db.hold[cell]
    BY <2>1
  <2>4. db.hold[cell].status = "active" => db.hold[cell] # NoHold
    BY DEF NoHold
  <2>5. f[i] = (IF SkuOf[i] = c[1] THEN Weight(new.hold[cell]) ELSE 0)
        /\ h[i] = (IF SkuOf[i] = c[1] THEN Weight(db.hold[cell]) ELSE 0)
    BY DEF Share
  <2>6. g[i] = IF SkuOf[i] = c[1] /\ new.hold[cell] = NoHold /\ db.hold[cell].status = "active"
               THEN Outstanding(db.hold[cell]) ELSE 0
    BY DEF Lost
  <2>7. Weight(db.hold[cell]) = IF db.hold[cell].status = "active"
                                THEN Outstanding(db.hold[cell]) ELSE 0
    BY DEF Weight
  <2> HIDE DEF cell, f, g, h
  <2>8. CASE i \in MyItems(o)
    BY <2>2, <2>3, <2>5, <2>6, <2>7, <2>8, NothingIsSound
  <2>9. CASE i \notin MyItems(o)
    BY <2>2, <2>3, <2>4, <2>5, <2>6, <2>9
  <2> QED
    BY <2>8, <2>9
<1> HIDE DEF f, g, h
<1>3. Sum(h, Items) = Sum(f, Items) + Sum(g, Items)
  <2>1. \A i \in Items : f[i] \in Int /\ g[i] \in Int /\ h[i] = f[i] + g[i]
    BY <1>1, <1>2
  <2> QED
    BY ONLY <2>1, Finite, SumPlus
<1> QED
  BY <1>3, CascadedIs DEF HeldAt, f, g, h

-----------------------------------------------------------------------------
(***************************************************************************)
(* What a request leaves when it commits: Leaves, whatever else happened   *)
(* since it read; Delivers too if its order is as it read it.              *)
(***************************************************************************)
Standing == db \in Rows /\ Covered(db)

Request == [kind : Kinds, order : Orders, seen : Rows]

\* A deduct that found nothing deducted yet.
Fires(r) == r.kind = "deduct" /\ ~(r.seen.shipped[r.order] > 0)

\* Only the request that creates an order comes before its row.
Asked(r) == r.kind # "create" => db.order[r.order] # "none"

\* The rows of an order that no stale request has written.
Tidy(o) ==
    /\ \A cell \in MyHolds(o) : db.hold[cell] \in Sound
    /\ db.order[o] = "none" => \A cell \in MyHolds(o) : db.hold[cell] = NoHold
    /\ db.shipped[o] <= Ordered(o)

Leaves(x, r) ==
    LET o == r.order IN
    /\ x.db \in Rows /\ Covered(x.db)
    /\ \A cell \in Grid \ MyHolds(o) : x.db.hold[cell] = db.hold[cell]
    /\ \A i \in Items \ MyItems(o) : x.db.lineId[i] = db.lineId[i]
    /\ \A p \in Orders \ {o} : /\ x.db.order[p] = db.order[p]
                               /\ x.db.shipped[p] = db.shipped[p]
    /\ \A c \in Elsewhere(o) : x.db.level[c] = db.level[c]
    /\ OnShelves(x.db) + Taken(x.db) = OnShelves(db) + Taken(db)
    /\ x.db.order[o] # "none"
    /\ x.db.shipped[o] <= db.shipped[o] + (IF Fires(r) THEN Ordered(o) ELSE 0)
    /\ db.order[o] = "open" /\ x.db.order[o] = "cancelled" =>
          \A cell \in MyHolds(o) : Active(x.db, cell) => Overlooked(r, cell)

Delivers(x, o) ==
    /\ \A cell \in MyHolds(o) : x.db.hold[cell] \in Sound
    /\ \A c \in Cells : x.db.level[c].reserved - HeldAt(x.db, c)
                          = db.level[c].reserved - HeldAt(db, c) + Cascaded(x.db, c[1], c[2])
    /\ x.db.shipped[o] <= Ordered(o)
    /\ db.order[o] = "none" /\ x.db.order[o] = "open" =>
          \A i \in MyItems(o) : FullyHeld(x.db, i)

\* A request that has written nothing yet but its order's status.
Begins(x, r) ==
    /\ x \in Progress /\ x.ok /\ x.seen = r.seen
    /\ x.db.hold = db.hold /\ x.db.level = db.level
    /\ x.db.shipped = db.shipped /\ x.db.lineId = db.lineId
    /\ \A p \in Orders \ {r.order} : x.db.order[p] = db.order[p]
    /\ x.db.order[r.order] # "none"

\* Before it writes.
LEMMA StartIs ==
    ASSUME Standing, NEW r \in Request
    PROVE  LET z == Start(r.seen) IN
           z \in Progress /\ z.ok = TRUE /\ z.seen = r.seen /\ z.db = db
BY DEF Start, Progress, Request, Standing

LEMMA StartBegins ==
    ASSUME Standing, NEW r \in Request, db.order[r.order] # "none"
    PROVE  LET z == Start(r.seen) IN Begins(z, r) /\ z.db.order = db.order
<1> DEFINE z == Start(r.seen)
<1>1. z \in Progress /\ z.ok = TRUE /\ z.seen = r.seen /\ z.db = db
  BY StartIs
<1> HIDE DEF z
<1>2. Begins(z, r) /\ z.db.order = db.order
  BY <1>1 DEF Begins
<1> QED
  BY <1>2 DEF z

\* A status is written.
Marked(x, o, status) == [x EXCEPT !.db.order[o] = status]

LEMMA MarkBegins ==
    ASSUME Standing, NEW r \in Request, NEW status \in OrderStates \ {"none"}
    PROVE  LET y == Marked(Start(r.seen), r.order, status) IN
           Begins(y, r) /\ y.db.order[r.order] = status
<1> DEFINE z == Start(r.seen)
           o == r.order
           y == Marked(z, o, status)
<1>1. z \in Progress /\ z.ok = TRUE /\ z.seen = r.seen /\ z.db = db /\ db \in Rows /\ o \in Orders
  BY StartIs DEF Standing, Request
<1> HIDE DEF z, o
<1>2. y \in Progress
  BY <1>1 DEF Progress, Rows, Marked
<1>3. y.ok = z.ok /\ y.seen = z.seen /\ y.db = [z.db EXCEPT !.order[o] = status]
  BY <1>1 DEF Progress, Rows, Marked
<1> HIDE DEF y
<1>4. /\ y.db.order = [db.order EXCEPT ![o] = status] /\ y.db.hold = db.hold
      /\ y.db.level = db.level /\ y.db.shipped = db.shipped /\ y.db.lineId = db.lineId
  BY <1>1, <1>3 DEF Rows
<1>5. y.db.order[o] = status /\ \A p \in Orders \ {o} : y.db.order[p] = db.order[p]
  BY <1>1, <1>4 DEF Rows
<1>6. Begins(y, r)
  BY <1>1, <1>2, <1>3, <1>4, <1>5 DEF Begins, o
<1> QED
  BY <1>5, <1>6 DEF y, z, o

\* What was read is what is there.
LEMMA BeginsKeeps ==
    ASSUME NEW r \in Request, NEW x, Begins(x, r), UpToDate(r), Tidy(r.order)
    PROVE  Keeps(x, r.order)
<1>1. \A c \in Cells : HeldAt(x.db, c) = HeldAt(db, c)
  BY DEF HeldAt, Share, Begins
<1> QED
  BY <1>1 DEF Keeps, Begins, UpToDate, Tidy

\* What the loops touch is what the request leaves.
LEMMA BegunLeaves ==
    ASSUME Standing, NEW r \in Request, NEW z, Begins(z, r), NEW x, Touches(z, x, r.order), x.ok,
           x.db.shipped[r.order] <= db.shipped[r.order] + (IF Fires(r) THEN Ordered(r.order) ELSE 0),
           db.order[r.order] = "open" /\ x.db.order[r.order] = "cancelled" =>
              \A cell \in MyHolds(r.order) : Active(x.db, cell) => Overlooked(r, cell)
    PROVE  Leaves(x, r)
<1> DEFINE o == r.order
<1>1. /\ x \in Progress /\ x.db \in Rows /\ x.db.order = z.db.order
      /\ x.db.lineId = z.db.lineId
      /\ \A cell \in Grid \ MyHolds(o) : x.db.hold[cell] = z.db.hold[cell]
      /\ \A c \in Elsewhere(o) : x.db.level[c] = z.db.level[c]
      /\ \A p \in Orders \ {o} : x.db.shipped[p] = z.db.shipped[p]
      /\ OnShelves(x.db) + Taken(x.db) = OnShelves(z.db) + Taken(z.db)
      /\ Covered(z.db) => Covered(x.db)
  BY DEF Touches, Progress
<1>2. /\ z.db.hold = db.hold /\ z.db.level = db.level
      /\ z.db.shipped = db.shipped /\ z.db.lineId = db.lineId
      /\ \A p \in Orders \ {o} : z.db.order[p] = db.order[p]
      /\ z.db.order[o] # "none"
  BY DEF Begins
<1>3. OnShelves(z.db) = OnShelves(db) /\ Taken(z.db) = Taken(db) /\ Covered(z.db)
  BY <1>2 DEF OnShelves, Taken, Covered, Standing
<1> QED
  BY <1>1, <1>2, <1>3 DEF Leaves

LEMMA BegunDelivers ==
    ASSUME Standing, NEW r \in Request, NEW z, Begins(z, r), NEW x, Touches(z, x, r.order),
           Keeps(x, r.order), x.db.shipped[r.order] <= Ordered(r.order),
           db.order[r.order] = "none" /\ x.db.order[r.order] = "open" =>
              \A i \in MyItems(r.order) : FullyHeld(x.db, i)
    PROVE  Delivers(x, r.order)
<1> DEFINE o == r.order
<1>1. ASSUME NEW c \in Cells
      PROVE  x.db.level[c].reserved - HeldAt(x.db, c)
                 = db.level[c].reserved - HeldAt(db, c) + Cascaded(x.db, c[1], c[2])
  <2>1. ASSUME NEW i \in Items, x.db.hold[<<i, c[2]>>] = NoHold
        PROVE  db.hold[<<i, c[2]>>].status # "active"
    <3> DEFINE cell == <<i, c[2]>>
    <3>1. cell \in Grid
      BY DEF Cells, Grid
    <3>2. NoHold.status = "none"
      BY DEF NoHold
    <3> HIDE DEF cell
    <3>5. x.db.hold[cell] = NoHold
      BY <2>1 DEF cell
    <3>3. CASE cell \in MyHolds(o)
      BY <3>2, <3>3, <3>5 DEF Keeps, cell
    <3>4. CASE cell \notin MyHolds(o)
      <4>1. x.db.hold[cell] = z.db.hold[cell]
        BY <3>1, <3>4 DEF Touches
      <4>2. x.db.hold[cell] = db.hold[cell]
        BY <4>1 DEF Begins
      <4> QED
        BY <3>2, <3>5, <4>2 DEF cell
    <3> QED
      BY <3>3, <3>4
  <2>2. Cascaded(x.db, c[1], c[2]) = 0
    BY <2>1, NoneLost DEF Standing
  <2>3. db.level[c].reserved \in Int /\ HeldAt(db, c) \in Int
    BY ShareType DEF Rows, Cells, Standing
  <2>4. x.db.level[c].reserved - HeldAt(x.db, c) = db.level[c].reserved - HeldAt(db, c)
    BY DEF Keeps
  <2> QED
    BY <2>2, <2>3, <2>4
<1> QED
  BY <1>1 DEF Keeps, Delivers

\* Each kind of request, from what its loops keep: f, that its order is as
\* it read it.
LEMMA CreateLeaves ==
    ASSUME Standing, NEW r \in Request, r.kind = "create", db.order[r.order] = "none",
           UpToDate(r), Tidy(r.order), Create(Start(r.seen), r.order).ok
    PROVE  LET v == Create(Start(r.seen), r.order) IN Leaves(v, r) /\ Delivers(v, r.order)
<1> DEFINE o == r.order
           z == Start(r.seen)
           x == Marked(z, o, "open")
           y == ReserveOrder(x, o, FALSE)
<1>1. o \in Orders /\ db.order[o] = "none" /\ db \in Rows
  BY DEF Request, Standing
<1>2. z.db = db
  BY StartIs
<1>3. Create(z, o) = y
  BY <1>1, <1>2 DEF Create, Marked
<1> HIDE DEF z
<1>4. Begins(x, r) /\ x.db.order[o] = "open"
  BY MarkBegins DEF OrderStates, z
<1>5. Keeps(x, o) /\ x \in Progress /\ x.db.shipped = db.shipped
  BY <1>4, BeginsKeeps DEF Begins
<1> HIDE DEF x
<1>6. \A cell \in MyHolds(o) : x.seen.hold[cell] = NoHold
  BY <1>1, <1>4 DEF Begins, UpToDate, Tidy
<1>7. /\ Touches(x, y, o) /\ Keeps(y, o) /\ y.db.shipped = db.shipped
      /\ y.ok => \A i \in MyItems(o) : FullyHeld(y.db, i)
  <2> DEFINE f == TRUE
             b == TRUE
             partial == FALSE
  <2>1. /\ f \in BOOLEAN /\ b \in BOOLEAN /\ partial \in BOOLEAN /\ (b => ~partial)
        /\ (f => Keeps(x, o)) /\ (b => \A cell \in MyHolds(o) : x.seen.hold[cell] = NoHold)
    BY <1>5, <1>6
  <2> HIDE DEF f, b, partial
  <2>2. LET q == ReserveOrder(x, o, partial) IN
        /\ Touches(x, q, o) /\ (f => Keeps(q, o)) /\ q.db.shipped = x.db.shipped
        /\ b /\ q.ok => \A i \in MyItems(o) : FullyHeld(q.db, i)
    BY <1>1, <1>5, <2>1, ReserveKeeps
  <2> QED
    BY <1>5, <2>2 DEF f, b, partial
<1>8. y.ok
  BY <1>3 DEF z
<1> HIDE DEF y
<1>9. y.db.shipped[o] = db.shipped[o] /\ db.shipped[o] \in Nat /\ ~Fires(r)
  BY <1>1, <1>7 DEF Rows, Fires
<1>10. Leaves(y, r)
  <2>1. y.db.shipped[o] <= db.shipped[o] + (IF Fires(r) THEN Ordered(o) ELSE 0)
    BY <1>9
  <2> QED
    BY <1>1, <1>4, <1>7, <1>8, <2>1, BegunLeaves DEF o
<1>11. Delivers(y, o)
  <2>1. y.db.shipped[o] <= Ordered(o)
    BY <1>9 DEF Tidy
  <2> QED
    BY <1>4, <1>7, <1>8, <2>1, BegunDelivers DEF o
<1> QED
  BY <1>3, <1>10, <1>11 DEF z

\* A request that ships nothing and whose order is not new.
LEMMA QuietLeaves ==
    ASSUME Standing, NEW r \in Request, db.order[r.order] # "none",
           NEW f \in BOOLEAN, f => UpToDate(r) /\ Tidy(r.order),
           NEW z, Begins(z, r), NEW y, Touches(z, y, r.order), f => Keeps(y, r.order),
           y.db.shipped = db.shipped, y.ok,
           db.order[r.order] = "open" /\ y.db.order[r.order] = "cancelled" =>
              \A cell \in MyHolds(r.order) : Active(y.db, cell) => Overlooked(r, cell)
    PROVE  Leaves(y, r) /\ (f => Delivers(y, r.order))
<1> DEFINE o == r.order
<1>1. o \in Orders /\ Ordered(o) \in Nat
  <2>1. o \in Orders
    BY DEF Request
  <2>2. MyItems(o) \in SUBSET Items /\ IsFiniteSet(MyItems(o))
    BY <2>1, Finite, FS_Subset
  <2>3. \A i \in MyItems(o) : QtyOf[i] \in Nat
    BY <2>2, ConstantsAssumption
  <2> QED
    BY <2>1, <2>2, <2>3, SumNat DEF Ordered
<1>2. db.shipped[o] \in Nat
  BY <1>1 DEF Standing, Rows
<1>3. Leaves(y, r)
  <2>1. y.db.shipped[o] <= db.shipped[o] + (IF Fires(r) THEN Ordered(o) ELSE 0)
    BY <1>1, <1>2
  <2> QED
    BY <2>1, BegunLeaves DEF o
<1>4. f => Delivers(y, o)
  <2>1. f => y.db.shipped[o] <= Ordered(o)
    BY DEF Tidy
  <2> QED
    BY <2>1, BegunDelivers DEF o
<1> QED
  BY <1>3, <1>4

LEMMA ReserveLeaves ==
    ASSUME Standing, NEW r \in Request, db.order[r.order] # "none",
           NEW f \in BOOLEAN, f => UpToDate(r) /\ Tidy(r.order), NEW partial \in BOOLEAN,
           Reserve(Start(r.seen), r.order, partial).ok
    PROVE  LET v == Reserve(Start(r.seen), r.order, partial) IN
           Leaves(v, r) /\ (f => Delivers(v, r.order))
<1> DEFINE o == r.order
           z == Start(r.seen)
           y == ReserveOrder(z, o, partial)
<1>1. o \in Orders /\ db \in Rows
  BY DEF Request, Standing
<1>2. Begins(z, r) /\ z \in Progress /\ z.db.shipped = db.shipped /\ z.db.order = db.order
  BY StartBegins DEF Begins
<1>3. f => Keeps(z, o)
  BY <1>2, BeginsKeeps
<1>4. Reserve(z, o, partial) = y
  <2>1. ~Rejected(z).ok
    BY <1>2 DEF Rejected, Progress
  <2> HIDE DEF z, y
  <2>2. Reserve(z, o, partial).ok
    BY DEF z
  <2> QED
    BY <2>1, <2>2 DEF Reserve, y
<1>5. y.ok
  BY <1>4
<1> HIDE DEF z
<1>6. Touches(z, y, o) /\ (f => Keeps(y, o)) /\ y.db.shipped = db.shipped
  <2> DEFINE b == FALSE
  <2>1. b \in BOOLEAN /\ (b => ~partial)
        /\ (b => \A cell \in MyHolds(o) : z.seen.hold[cell] = NoHold)
    OBVIOUS
  <2> HIDE DEF b
  <2> QED
    BY <1>1, <1>2, <1>3, <2>1, ReserveKeeps
<1> HIDE DEF y
<1>7. y.db.order = db.order
  BY <1>2, <1>6 DEF Touches
<1>8. Leaves(y, r) /\ (f => Delivers(y, o))
  <2>1. ~(db.order[o] = "open" /\ y.db.order[o] = "cancelled")
    BY <1>7
  <2> QED
    BY <1>2, <1>5, <1>6, <2>1, QuietLeaves
<1> QED
  BY <1>4, <1>8 DEF z

LEMMA ReleaseLeaves ==
    ASSUME Standing, NEW r \in Request, db.order[r.order] # "none",
           NEW f \in BOOLEAN, f => UpToDate(r) /\ Tidy(r.order),
           ReleaseOrder(Start(r.seen), r.order).ok
    PROVE  LET v == ReleaseOrder(Start(r.seen), r.order) IN
           Leaves(v, r) /\ (f => Delivers(v, r.order))
<1> DEFINE o == r.order
           z == Start(r.seen)
           y == ReleaseOrder(z, o)
<1>1. o \in Orders /\ db \in Rows
  BY DEF Request, Standing
<1>2. Begins(z, r) /\ z \in Progress /\ z.db.shipped = db.shipped /\ z.db.order = db.order
  BY StartBegins DEF Begins
<1>3. f => Keeps(z, o)
  BY <1>2, BeginsKeeps
<1>5. y.ok
  OBVIOUS
<1> HIDE DEF z
<1>6. Touches(z, y, o) /\ (f => Keeps(y, o)) /\ y.db.shipped = db.shipped
  BY <1>1, <1>2, <1>3, ReleaseKeeps
<1> HIDE DEF y
<1>7. y.db.order = db.order
  BY <1>2, <1>6 DEF Touches
<1>8. Leaves(y, r) /\ (f => Delivers(y, o))
  <2>1. ~(db.order[o] = "open" /\ y.db.order[o] = "cancelled")
    BY <1>7
  <2> QED
    BY <1>2, <1>5, <1>6, <2>1, QuietLeaves
<1> QED
  BY <1>8 DEF y, z

LEMMA DeductLeaves ==
    ASSUME Standing, NEW r \in Request, r.kind = "deduct", db.order[r.order] # "none",
           NEW f \in BOOLEAN, f => UpToDate(r) /\ Tidy(r.order),
           Deduct(Start(r.seen), r.order).ok
    PROVE  LET v == Deduct(Start(r.seen), r.order) IN
           Leaves(v, r) /\ (f => Delivers(v, r.order))
<1> DEFINE o == r.order
           z == Start(r.seen)
           y == Deduct(z, o)
<1>1. o \in Orders /\ db \in Rows
  BY DEF Request, Standing
<1>2. /\ Begins(z, r) /\ z \in Progress /\ z.db.shipped = db.shipped
      /\ z.db.order = db.order /\ z.seen = r.seen
  BY StartBegins DEF Begins
<1>3. f => Keeps(z, o)
  BY <1>2, BeginsKeeps
<1>5. y.ok
  OBVIOUS
<1> HIDE DEF z
<1>6. /\ Touches(z, y, o) /\ (f => Keeps(y, o))
      /\ y.db.shipped[o] <= z.db.shipped[o] + (IF z.seen.shipped[o] > 0 THEN 0 ELSE Ordered(o))
  BY <1>1, <1>2, <1>3, DeductKeeps
<1> HIDE DEF y
<1>7. y.db.order = db.order /\ ~(db.order[o] = "open" /\ y.db.order[o] = "cancelled")
  BY <1>2, <1>6 DEF Touches
<1>8. Leaves(y, r)
  <2>1. y.db.shipped[o] <= db.shipped[o] + (IF Fires(r) THEN Ordered(o) ELSE 0)
    BY <1>2, <1>6 DEF Fires
  <2> QED
    BY <1>2, <1>5, <1>6, <1>7, <2>1, BegunLeaves DEF o
<1>9. f => Delivers(y, o)
  <2> SUFFICES ASSUME f PROVE Delivers(y, o)
    OBVIOUS
  <2>1. db.shipped[o] = r.seen.shipped[o] /\ db.shipped[o] <= Ordered(o) /\ db.shipped[o] \in Nat
    BY <1>1 DEF UpToDate, Tidy, Rows
  <2>2. Ordered(o) \in Int
    <3>1. MyItems(o) \in SUBSET Items /\ IsFiniteSet(MyItems(o))
      BY <1>1, Finite, FS_Subset
    <3>2. \A i \in MyItems(o) : QtyOf[i] \in Nat
      BY <3>1, ConstantsAssumption
    <3> QED
      BY <3>1, <3>2, SumNat DEF Ordered
  <2>3. y.db.shipped[o] \in Int
    BY <1>1, <1>6 DEF Touches, Progress, Rows
  <2>4. y.db.shipped[o] <= Ordered(o)
    BY <1>2, <1>6, <2>1, <2>2, <2>3
  <2> QED
    BY <1>2, <1>6, <1>7, <2>4, BegunDelivers DEF o
<1> QED
  BY <1>8, <1>9 DEF y, z

\* A rejected request leaves nothing.
LEMMA RejectedFails == \A x \in Progress : ~Rejected(x).ok
BY DEF Rejected, Progress

LEMMA CancelLeaves ==
    ASSUME Standing, NEW r \in Request, db.order[r.order] # "none",
           NEW f \in BOOLEAN, f => UpToDate(r) /\ Tidy(r.order),
           Cancel(Start(r.seen), r.order).ok
    PROVE  LET v == Cancel(Start(r.seen), r.order) IN
           Leaves(v, r) /\ (f => Delivers(v, r.order))
<1> DEFINE o == r.order
           z == Start(r.seen)
           x == Marked(z, o, "cancelled")
           y == ReleaseOrder(x, o)
           v == Cancel(z, o)
<1>1. o \in Orders /\ db \in Rows
  BY DEF Request, Standing
<1>2. z \in Progress /\ z.seen = r.seen
  BY StartIs
<1>3. Begins(x, r) /\ x \in Progress /\ x.db.shipped = db.shipped /\ x.ok
  BY MarkBegins DEF OrderStates, Begins
<1>4. x.db.lineId = db.lineId /\ x.seen = r.seen
  BY <1>3 DEF Begins
<1>5. v.ok
  OBVIOUS
<1> HIDE DEF z
<1>6. SetStatus(z, o, "cancelled") = IF ~Exists(z.db, o) THEN Rejected(z) ELSE x
  BY DEF SetStatus, Marked
<1>7. v = IF SetStatus(z, o, "cancelled").ok /\ z.seen.order[o] = "open"
          THEN ReleaseOrder(SetStatus(z, o, "cancelled"), o) ELSE SetStatus(z, o, "cancelled")
  BY DEF Cancel
<1> HIDE DEF x, v
<1>8. v = IF z.seen.order[o] = "open" THEN y ELSE x
  <2>1. CASE Exists(z.db, o)
    BY <1>3, <1>6, <1>7, <2>1
  <2>2. CASE ~Exists(z.db, o)
    BY <1>2, <1>5, <1>6, <1>7, <2>2, RejectedFails
  <2> QED
    BY <2>1, <2>2
<1>9. f => Keeps(x, o)
  BY <1>3, BeginsKeeps
<1>10. /\ Touches(x, y, o) /\ (f => Keeps(y, o)) /\ y.db.shipped = db.shipped
       /\ \A cell \in MyHolds(o) :
             Active(x.seen, cell) /\ x.db.lineId[cell[1]] = x.seen.lineId[cell[1]] =>
                ~Active(y.db, cell)
  <2>1. LET q == ReleaseOrder(x, o) IN
       /\ Touches(x, q, o) /\ (f => Keeps(q, o)) /\ q.db.shipped = x.db.shipped
       /\ \A cell \in MyHolds(o) :
             Active(x.seen, cell) /\ x.db.lineId[cell[1]] = x.seen.lineId[cell[1]] =>
                ~Active(q.db, cell)
    BY <1>1, <1>3, <1>9, ReleaseKeeps
  <2> QED
    BY <1>3, <2>1
<1> HIDE DEF y
<1>11. CASE z.seen.order[o] = "open"
  <2>1. v = y /\ y.ok
    BY <1>5, <1>8, <1>11
  <2>2. \A cell \in MyHolds(o) : Active(y.db, cell) => Overlooked(r, cell)
    BY <1>4, <1>10 DEF Overlooked
  <2>3. Leaves(y, r) /\ (f => Delivers(y, o))
    BY <1>3, <1>10, <2>1, <2>2, QuietLeaves
  <2> QED
    BY <2>1, <2>3 DEF v, z
<1>12. CASE z.seen.order[o] # "open"
  <2>1. v = x
    BY <1>8, <1>12
  <2>2. \A cell \in MyHolds(o) : Active(x.db, cell) => Overlooked(r, cell)
    BY <1>2, <1>12 DEF Overlooked
  <2>3. Touches(x, x, o)
    BY <1>3, TouchesSelf
  <2>4. Leaves(x, r) /\ (f => Delivers(x, o))
    BY <1>3, <1>9, <2>2, <2>3, QuietLeaves
  <2> QED
    BY <2>1, <2>4 DEF v, z
<1> QED
  BY <1>11, <1>12

LEMMA ReinstateLeaves ==
    ASSUME Standing, NEW r \in Request, db.order[r.order] # "none",
           NEW f \in BOOLEAN, f => UpToDate(r) /\ Tidy(r.order),
           Reinstate(Start(r.seen), r.order).ok
    PROVE  LET v == Reinstate(Start(r.seen), r.order) IN
           Leaves(v, r) /\ (f => Delivers(v, r.order))
<1> DEFINE o == r.order
           z == Start(r.seen)
           x == Marked(z, o, "open")
           y == ReserveOrder(x, o, FALSE)
           v == Reinstate(z, o)
<1>1. o \in Orders /\ db \in Rows
  BY DEF Request, Standing
<1>2. z \in Progress /\ z.seen = r.seen
  BY StartIs
<1>3. Begins(x, r) /\ x \in Progress /\ x.db.shipped = db.shipped /\ x.ok /\ x.db.order[o] = "open"
  BY MarkBegins DEF OrderStates, Begins
<1>5. v.ok
  OBVIOUS
<1> HIDE DEF z
<1>6. SetStatus(z, o, "open") = IF ~Exists(z.db, o) THEN Rejected(z) ELSE x
  BY DEF SetStatus, Marked
<1>7. v = IF SetStatus(z, o, "open").ok /\ z.seen.order[o] = "cancelled"
          THEN ReserveOrder(SetStatus(z, o, "open"), o, FALSE) ELSE SetStatus(z, o, "open")
  BY DEF Reinstate
<1> HIDE DEF x, v
<1>8. v = IF z.seen.order[o] = "cancelled" THEN y ELSE x
  <2>1. CASE Exists(z.db, o)
    BY <1>3, <1>6, <1>7, <2>1
  <2>2. CASE ~Exists(z.db, o)
    BY <1>2, <1>5, <1>6, <1>7, <2>2, RejectedFails
  <2> QED
    BY <2>1, <2>2
<1>9. f => Keeps(x, o)
  BY <1>3, BeginsKeeps
<1>10. Touches(x, y, o) /\ (f => Keeps(y, o)) /\ y.db.shipped = db.shipped
  <2> DEFINE b == FALSE
             partial == FALSE
  <2>1. b \in BOOLEAN /\ partial \in BOOLEAN /\ (b => ~partial)
        /\ (b => \A cell \in MyHolds(o) : x.seen.hold[cell] = NoHold)
    OBVIOUS
  <2> HIDE DEF b, partial
  <2>2. LET q == ReserveOrder(x, o, partial) IN
        Touches(x, q, o) /\ (f => Keeps(q, o)) /\ q.db.shipped = x.db.shipped
    BY <1>1, <1>3, <1>9, <2>1, ReserveKeeps
  <2> QED
    BY <1>3, <2>2 DEF partial
<1>11. Touches(x, x, o)
  BY <1>3, TouchesSelf
<1> HIDE DEF y
<1>12. Touches(x, v, o) /\ (f => Keeps(v, o)) /\ v.db.shipped = db.shipped
  BY <1>3, <1>8, <1>9, <1>10, <1>11
<1>13. ~(db.order[o] = "open" /\ v.db.order[o] = "cancelled")
  <2>1. v.db.order = x.db.order
    BY <1>12 DEF Touches
  <2> QED
    BY <1>3, <2>1
<1>14. Leaves(v, r) /\ (f => Delivers(v, o))
  BY <1>3, <1>5, <1>12, <1>13, QuietLeaves
<1> QED
  BY <1>14 DEF v, z

\* What a cascade leaves of the rows.
LEMMA CascadeHoldsIs ==
    ASSUME NEW x \in Progress, NEW o \in Orders
    PROVE  LET y == CascadeHolds(x, o) IN
           /\ y \in Progress /\ y.ok = x.ok
           /\ y.db.level = x.db.level /\ y.db.shipped = x.db.shipped /\ y.db.order = x.db.order
           /\ y.db.lineId = x.db.lineId
           /\ \A cell \in Grid : y.db.hold[cell] = IF cell[1] \in MyItems(o) THEN NoHold
                                                   ELSE x.db.hold[cell]
<1> DEFINE H == [cell \in DOMAIN x.db.hold |-> IF cell[1] \in MyItems(o) THEN NoHold
                                              ELSE x.db.hold[cell]]
           y == [x EXCEPT !.db.hold = H]
<1>1. H \in [Items \X Warehouses -> Hold]
  BY DEF Progress, Rows, NoHold, Hold
<1>2. \A cell \in Grid : H[cell] = IF cell[1] \in MyItems(o) THEN NoHold ELSE x.db.hold[cell]
  BY DEF Progress, Rows, Grid
<1>3. CascadeHolds(x, o) = y
  BY DEF CascadeHolds
<1> HIDE DEF H
<1>4. y \in Progress
  BY <1>1 DEF Progress, Rows
<1>5. y.ok = x.ok /\ y.db = [x.db EXCEPT !.hold = H]
  BY DEF Progress, Rows
<1> HIDE DEF y
<1>6. /\ y.db.hold = H /\ y.db.level = x.db.level /\ y.db.shipped = x.db.shipped
      /\ y.db.order = x.db.order /\ y.db.lineId = x.db.lineId
  BY <1>5 DEF Progress, Rows
<1> QED
  BY <1>2, <1>3, <1>4, <1>5, <1>6

\* The rows of o are deleted.
LEMMA CascadeLeaves ==
    ASSUME Standing, NEW r \in Request, db.order[r.order] # "none",
           NEW f \in BOOLEAN, f => UpToDate(r) /\ Tidy(r.order),
           NEW x, x.db \in Rows, x.db.level = db.level, x.db.shipped = db.shipped,
           \A i \in Items \ MyItems(r.order) : x.db.lineId[i] = db.lineId[i],
           \A cell \in Grid : x.db.hold[cell] = IF cell[1] \in MyItems(r.order) THEN NoHold
                                                ELSE db.hold[cell],
           \A p \in Orders \ {r.order} : x.db.order[p] = db.order[p],
           x.db.order[r.order] \in {db.order[r.order], "deleted"}
    PROVE  Leaves(x, r) /\ (f => Delivers(x, r.order))
<1> DEFINE o == r.order
           n == x.db
<1>1. Covered(n) /\ OnShelves(n) = OnShelves(db) /\ Taken(n) = Taken(db)
  BY DEF Covered, OnShelves, Taken, Standing
<1>2. /\ \A cell \in MyHolds(o) : n.hold[cell] = NoHold
      /\ \A cell \in Grid \ MyHolds(o) : n.hold[cell] = db.hold[cell]
  BY Finite DEF Grid, MyHolds, Request
<1>3. o \in Orders /\ db \in Rows /\ Ordered(o) \in Nat /\ db.shipped[o] \in Nat
  <2>1. o \in Orders /\ db \in Rows
    BY DEF Request, Standing
  <2>2. MyItems(o) \in SUBSET Items /\ IsFiniteSet(MyItems(o))
    BY <2>1, Finite, FS_Subset
  <2>3. \A i \in MyItems(o) : QtyOf[i] \in Nat
    BY <2>2, ConstantsAssumption
  <2>4. Sum(QtyOf, MyItems(o)) \in Nat
    BY <2>2, <2>3, SumNat
  <2> QED
    BY <2>1, <2>4 DEF Ordered, Rows
<1>4. /\ n.order[o] # "none" /\ (db.order[o] = "open" => n.order[o] # "cancelled")
      /\ n.order[o] = "open" => db.order[o] = "open"
  OBVIOUS
<1>5. Leaves(x, r)
  <2>1. n.shipped[o] <= db.shipped[o] + (IF Fires(r) THEN Ordered(o) ELSE 0)
    BY <1>3
  <2> QED
    BY <1>1, <1>2, <1>4, <2>1 DEF Leaves
<1>6. ASSUME NEW c \in Cells
      PROVE  n.level[c].reserved - HeldAt(n, c)
               = db.level[c].reserved - HeldAt(db, c) + Cascaded(n, c[1], c[2])
  <2>1. n \in Rows /\ \A cell \in Grid : n.hold[cell] = IF cell[1] \in MyItems(o) THEN NoHold
                                                ELSE db.hold[cell]
    OBVIOUS
  <2>2. n.level[c].reserved = db.level[c].reserved
    OBVIOUS
  <2> HIDE DEF n, o
  <2>3. HeldAt(db, c) = HeldAt(n, c) + Cascaded(n, c[1], c[2])
    BY <1>3, <2>1, CascadeLoses
  <2>4. db.level[c].reserved \in Int /\ HeldAt(db, c) \in Int /\ HeldAt(n, c) \in Int
    BY <1>3, <2>1, ShareType DEF Rows, Cells
  <2>5. Cascaded(n, c[1], c[2]) \in Int
    BY <1>3, CascadedIs
  <2> QED
    BY <2>2, <2>3, <2>4, <2>5
<1>7. f => Delivers(x, o)
  <2>1. \A c \in Cells : x.db.level[c].reserved - HeldAt(x.db, c)
               = db.level[c].reserved - HeldAt(db, c) + Cascaded(x.db, c[1], c[2])
    BY <1>6
  <2>2. \A cell \in MyHolds(o) : x.db.hold[cell] \in Sound
    BY <1>2, NothingIsSound
  <2>3. f => x.db.shipped[o] <= Ordered(o)
    BY DEF Tidy
  <2> QED
    BY <1>4, <2>1, <2>2, <2>3 DEF Delivers
<1> QED
  BY <1>5, <1>7

LEMMA RewriteLeaves ==
    ASSUME Standing, NEW r \in Request, db.order[r.order] # "none",
           NEW f \in BOOLEAN, f => UpToDate(r) /\ Tidy(r.order),
           Rewrite(Start(r.seen), r.order).ok
    PROVE  LET v == Rewrite(Start(r.seen), r.order) IN
           Leaves(v, r) /\ (f => Delivers(v, r.order))
<1> DEFINE o == r.order
           z == Start(r.seen)
           x == CascadeHolds(z, o)
           L == [i \in Items |-> IF i \in MyItems(o) THEN x.db.lineId[i] + 1 ELSE x.db.lineId[i]]
           B == [i \in Items |-> IF i \in MyItems(o) THEN NoWarehouse ELSE x.db.shelf[i]]
           y == [x EXCEPT !.db.lineId = L, !.db.shelf = B]
           v == Rewrite(z, o)
<1>1. o \in Orders /\ db \in Rows
  BY DEF Request, Standing
<1>2. z.db = db /\ z \in Progress
  BY StartIs
<1>3. v.ok
  OBVIOUS
<1>4. v = IF ~Exists(z.db, o) THEN Rejected(z) ELSE y
  BY DEF Rewrite
<1> HIDE DEF z, v
<1>5. /\ x \in Progress /\ x.db.lineId = db.lineId
      /\ x.db.level = db.level /\ x.db.shipped = db.shipped /\ x.db.order = db.order
      /\ \A cell \in Grid : x.db.hold[cell] = IF cell[1] \in MyItems(o) THEN NoHold
                                              ELSE db.hold[cell]
  BY <1>1, <1>2, CascadeHoldsIs
<1> HIDE DEF x
<1>6. B \in [Items -> Warehouses \cup {NoWarehouse}] /\ L \in [Items -> Nat]
  BY <1>5 DEF Progress, Rows
<1>7. \A i \in Items \ MyItems(o) : L[i] = db.lineId[i]
  BY <1>5
<1> HIDE DEF B, L
<1>8. y \in Progress /\ y.db = [x.db EXCEPT !.lineId = L, !.shelf = B]
  BY <1>5, <1>6 DEF Progress, Rows
<1> HIDE DEF y
<1>9. /\ y.db \in Rows /\ y.db.level = x.db.level /\ y.db.shipped = x.db.shipped
      /\ y.db.order = x.db.order /\ y.db.hold = x.db.hold /\ y.db.lineId = L
  BY <1>5, <1>8 DEF Progress, Rows
<1>10. Leaves(y, r) /\ (f => Delivers(y, o))
  BY <1>5, <1>7, <1>9, CascadeLeaves
<1> QED
  BY <1>2, <1>3, <1>4, <1>10, RejectedFails DEF v, z

LEMMA RemoveLeaves ==
    ASSUME Standing, NEW r \in Request, db.order[r.order] # "none",
           NEW f \in BOOLEAN, f => UpToDate(r) /\ Tidy(r.order),
           RemoveOrder(Start(r.seen), r.order).ok
    PROVE  LET v == RemoveOrder(Start(r.seen), r.order) IN
           Leaves(v, r) /\ (f => Delivers(v, r.order))
<1> DEFINE o == r.order
           z == Start(r.seen)
           x == CascadeHolds(z, o)
           y == [x EXCEPT !.db.order[o] = "deleted"]
           v == RemoveOrder(z, o)
<1>1. o \in Orders /\ db \in Rows
  BY DEF Request, Standing
<1>2. z.db = db /\ z \in Progress
  BY StartIs
<1>3. v.ok
  OBVIOUS
<1>4. v = IF ~Exists(z.db, o) THEN Rejected(z) ELSE y
  BY DEF RemoveOrder
<1> HIDE DEF z, v
<1>5. /\ x \in Progress /\ x.db.lineId = db.lineId
      /\ x.db.level = db.level /\ x.db.shipped = db.shipped /\ x.db.order = db.order
      /\ \A cell \in Grid : x.db.hold[cell] = IF cell[1] \in MyItems(o) THEN NoHold
                                              ELSE db.hold[cell]
  BY <1>1, <1>2, CascadeHoldsIs
<1> HIDE DEF x
<1>7. y \in Progress /\ y.db = [x.db EXCEPT !.order[o] = "deleted"]
  BY <1>1, <1>5 DEF Progress, Rows, OrderStates
<1> HIDE DEF y
<1>8. /\ y.db \in Rows /\ y.db.level = db.level /\ y.db.shipped = db.shipped
      /\ y.db.hold = x.db.hold /\ y.db.lineId = db.lineId
      /\ y.db.order[o] = "deleted" /\ \A p \in Orders \ {o} : y.db.order[p] = db.order[p]
  <2>1. y.db \in Rows /\ x.db \in Rows
    BY <1>5, <1>7 DEF Progress
  <2>2. y.db.order = [x.db.order EXCEPT ![o] = "deleted"] /\ x.db.order \in [Orders -> OrderStates]
    BY <1>7, <2>1 DEF Rows
  <2>3. /\ y.db.level = x.db.level /\ y.db.shipped = x.db.shipped
        /\ y.db.hold = x.db.hold /\ y.db.lineId = x.db.lineId
    BY <1>7, <2>1 DEF Rows
  <2> QED
    BY <1>1, <1>5, <2>1, <2>2, <2>3
<1>9. Leaves(y, r) /\ (f => Delivers(y, o))
  BY <1>5, <1>8, CascadeLeaves
<1> QED
  BY <1>2, <1>3, <1>4, <1>9, RejectedFails DEF v, z

\* Whatever the request, a commit leaves what it should.
LEMMA OutcomeLeaves ==
    ASSUME Standing, NEW r \in Request, Asked(r),
           r.kind = "create" => UpToDate(r) /\ Tidy(r.order) /\ db.order[r.order] = "none",
           NEW f \in BOOLEAN, f => UpToDate(r) /\ Tidy(r.order),
           Outcome(r.kind, Start(r.seen), r.order).ok
    PROVE  LET v == Outcome(r.kind, Start(r.seen), r.order) IN
           Leaves(v, r) /\ (f => Delivers(v, r.order))
<1> DEFINE z == Start(r.seen)
           o == r.order
           v == Outcome(r.kind, z, o)
           Good == Leaves(v, r) /\ (f => Delivers(v, o))
<1>1. /\ r.kind \in AllKinds /\ v.ok
      /\ r.kind # "create" => db.order[r.order] # "none"
  BY ConstantsAssumption DEF Request, Asked
<1> HIDE DEF z
<1>2. /\ r.kind = "create" => v = Create(z, o)
      /\ r.kind = "reserve" => v = Reserve(z, o, FALSE)
      /\ r.kind = "reservePartial" => v = Reserve(z, o, TRUE)
      /\ r.kind = "release" => v = ReleaseOrder(z, o)
      /\ r.kind = "deduct" => v = Deduct(z, o)
      /\ r.kind = "cancel" => v = Cancel(z, o)
      /\ r.kind = "reinstate" => v = Reinstate(z, o)
      /\ r.kind = "rewrite" => v = Rewrite(z, o)
      /\ r.kind = "remove" => v = RemoveOrder(z, o)
  BY DEF Outcome
<1> HIDE DEF v
<1>3. r.kind = "create" => Good
  BY <1>1, <1>2, CreateLeaves DEF z
<1>4. r.kind = "reserve" => Good
  BY <1>1, <1>2, ReserveLeaves DEF z
<1>5. r.kind = "reservePartial" => Good
  BY <1>1, <1>2, ReserveLeaves DEF z
<1>6. r.kind = "release" => Good
  BY <1>1, <1>2, ReleaseLeaves DEF z
<1>7. r.kind = "deduct" => Good
  BY <1>1, <1>2, DeductLeaves DEF z
<1>8. r.kind = "cancel" => Good
  BY <1>1, <1>2, CancelLeaves DEF z
<1>9. r.kind = "reinstate" => Good
  BY <1>1, <1>2, ReinstateLeaves DEF z
<1>10. r.kind = "rewrite" => Good
  BY <1>1, <1>2, RewriteLeaves DEF z
<1>11. r.kind = "remove" => Good
  BY <1>1, <1>2, RemoveLeaves DEF z
<1>12. Good
  BY <1>1, <1>3, <1>4, <1>5, <1>6, <1>7, <1>8, <1>9, <1>10, <1>11 DEF AllKinds
<1> QED
  BY <1>12 DEF v, z

-----------------------------------------------------------------------------
(***************************************************************************)
(* The inductive invariant.                                                *)
(***************************************************************************)
Busy == {t \in Tx : run[t] # Idle}

Types ==
    /\ Standing
    /\ run \in [Tx -> Request \cup {Idle}]
    /\ orphaned \in [Cells -> Int] /\ torn \in SUBSET Orders
    /\ received \in Nat /\ begun \in Nat

\* The request that creates an order is alone on it, and nothing is there yet.
Alone(t) ==
    /\ UpToDate(run[t]) /\ db.order[run[t].order] = "none"
    /\ \A u \in Busy \ {t} : run[u].order # run[t].order

Placed ==
    /\ \A t \in Busy : Asked(run[t]) /\ (run[t].kind = "create" => Alone(t))
    /\ \A o \in torn : db.order[o] # "none"

Tidied == \A o \in Orders \ torn : Tidy(o)

\* The levels no torn order has a line of.
Calm(c) == \A o \in torn : c \in Elsewhere(o)

Balanced == \A c \in Cells : Calm(c) => db.level[c].reserved = HeldAt(db, c) + orphaned[c]
Accounted == OnShelves(db) + Taken(db) = Sum(Opening, Cells) + received

\* The deductions of an order that may still ship it.
Firing(o) == {t \in Busy : run[t].order = o /\ Fires(run[t])}

Bounded ==
    \A o \in Orders : db.shipped[o] + Ordered(o) * Cardinality(Firing(o))
                        <= Ordered(o) * Cardinality(Tx)

IInv == Types /\ Placed /\ Tidied /\ Balanced /\ Accounted /\ Bounded

\* What a busy transaction is asked.
LEMMA BusyAsks == Types => \A t \in Busy : t \in Tx /\ run[t] \in Request
BY DEF Types, Busy

LEMMA RequestIsNotIdle == \A r \in Request : r # Idle
<1> TAKE r \in Request
<1>1. r.kind # "idle"
  BY ConstantsAssumption DEF Request, AllKinds
<1>2. Idle.kind = "idle"
  BY DEF Idle
<1> QED
  BY <1>1, <1>2

LEMMA OrderedType == \A o \in Orders : Ordered(o) \in Nat
<1> TAKE o \in Orders
<1>1. MyItems(o) \in SUBSET Items /\ IsFiniteSet(MyItems(o))
  BY Finite, FS_Subset
<1>2. \A i \in MyItems(o) : QtyOf[i] \in Nat
  BY <1>1, ConstantsAssumption
<1> QED
  BY <1>1, <1>2, SumNat DEF Ordered

\* The arithmetic of the bound on shipments.
LEMMA Times ==
    /\ \A n, k \in Nat : n * k \in Nat /\ n * (k + 1) = n * k + n
    /\ \A n, k, m \in Nat : k <= m => n * k <= n * m
<1>1. \A n, k \in Nat : n * k \in Nat /\ n * (k + 1) = n * k + n
  OBVIOUS
<1>2. ASSUME NEW n \in Nat, NEW k \in Nat, NEW m \in Nat, k <= m PROVE n * k <= n * m
  <2>1. m - k \in Nat /\ n * m = n * k + n * (m - k)
    BY <1>2
  <2>2. n * (m - k) \in Nat /\ n * k \in Nat
    BY <1>1, <2>1
  <2> QED
    BY <2>1, <2>2
<1> QED
  BY <1>1, <1>2

LEMMA FiringType ==
    \A o \in Orders : IsFiniteSet(Firing(o)) /\ Cardinality(Firing(o)) \in Nat
<1> TAKE o \in Orders
<1>1. Firing(o) \in SUBSET Tx /\ IsFiniteSet(Tx)
  BY ConstantsAssumption DEF Firing, Busy
<1>2. IsFiniteSet(Firing(o))
  BY <1>1, FS_Subset
<1> QED
  BY <1>2, FS_CardinalityType

\* Nothing is held or shipped when the model starts.
LEMMA InitHolds == Init => IInv
<1> SUFFICES ASSUME Init PROVE IInv
  OBVIOUS
<1>1. /\ db.order = [o \in Orders |-> "none"]
      /\ db.lineId = [i \in Items |-> 0]
      /\ db.shelf = [i \in Items |-> NoWarehouse]
      /\ db.hold = [cell \in Items \X Warehouses |-> NoHold]
      /\ db.level = [cell \in Skus \X Warehouses |-> [onHand |-> Opening[cell], reserved |-> 0]]
      /\ db.shipped = [o \in Orders |-> 0]
  BY DEF Init
<1>2. Opening \in [Cells -> Nat]
  BY ConstantsAssumption DEF Cells
<1>3. db \in Rows
  <2>1. /\ db.order \in [Orders -> OrderStates]
        /\ db.lineId \in [Items -> Nat]
        /\ db.shelf \in [Items -> Warehouses \cup {NoWarehouse}]
        /\ db.shipped \in [Orders -> Nat]
    BY <1>1 DEF OrderStates
  <2>2. db.hold \in [Items \X Warehouses -> Hold]
    BY <1>1, NothingIsSound DEF Sound
  <2>3. db.level \in [Skus \X Warehouses -> [onHand : Int, reserved : Int]]
    BY <1>1, <1>2 DEF Cells
  <2>4. db = [order |-> db.order, lineId |-> db.lineId, shelf |-> db.shelf, hold |-> db.hold,
              level |-> db.level, shipped |-> db.shipped]
    BY DEF Init
  <2> QED
    BY <2>1, <2>2, <2>3, <2>4 DEF Rows
<1>4. Covered(db)
  BY <1>1, <1>2 DEF Covered, Cells
<1>5. Types /\ torn = {} /\ Busy = {}
  BY <1>3, <1>4 DEF Init, Types, Cells, Standing, Busy
<1>6. Tidied
  <2> SUFFICES ASSUME NEW o \in Orders PROVE Tidy(o)
    BY DEF Tidied
  <2>1. \A cell \in MyHolds(o) : db.hold[cell] = NoHold
    BY <1>1, Finite DEF Grid
  <2>2. db.shipped[o] = 0 /\ Ordered(o) \in Nat
    BY <1>1, OrderedType
  <2> QED
    BY <2>1, <2>2, NothingIsSound DEF Tidy
<1>7. Placed
  BY <1>5 DEF Placed
<1>8. Bounded
  <2> SUFFICES ASSUME NEW o \in Orders
               PROVE  db.shipped[o] + Ordered(o) * Cardinality(Firing(o))
                        <= Ordered(o) * Cardinality(Tx)
    BY DEF Bounded
  <2>1. Firing(o) = {} /\ Cardinality({}) = 0
    BY <1>5, FS_EmptySet DEF Firing
  <2>2. db.shipped[o] = 0 /\ Ordered(o) \in Nat
    BY <1>1, OrderedType
  <2>3. Cardinality(Tx) \in Nat
    BY ConstantsAssumption, FS_CardinalityType
  <2>4. Ordered(o) * Cardinality(Tx) \in Nat /\ Ordered(o) * 0 = 0
    BY <2>2, <2>3, Times
  <2> QED
    BY <2>1, <2>2, <2>4
<1>9. Balanced
  <2> SUFFICES ASSUME NEW c \in Cells
               PROVE  db.level[c].reserved = HeldAt(db, c) + orphaned[c]
    BY DEF Balanced
  <2>1. db.level[c].reserved = 0 /\ orphaned[c] = 0
    BY <1>1 DEF Init, Cells
  <2> DEFINE f == [i \in {} |-> 0]
             g == Share(db, c)
  <2>2. \A i \in Items : g[i] = 0
    <3> TAKE i \in Items
    <3>1. db.hold[<<i, c[2]>>] = NoHold
      BY <1>1 DEF Cells
    <3> QED
      BY <3>1, NothingIsSound DEF Share
  <2> HIDE DEF f, g
  <2>3. /\ {} \in SUBSET Items /\ \A i \in {} : f[i] \in Int /\ g[i] = f[i]
        /\ \A i \in Items \ {} : g[i] = 0
    BY <2>2
  <2>4. Sum(f, {}) = Sum(g, Items)
    BY ONLY <2>3, Finite, SumPart
  <2>5. HeldAt(db, c) = 0
    BY <2>4, SumEmpty DEF HeldAt, g
  <2> QED
    BY <2>1, <2>5
<1>10. Accounted
  <2> DEFINE f == [c \in Cells |-> db.level[c].onHand]
             g == db.shipped
             z == [o \in {} |-> 0]
  <2>1. \A c \in Cells : Opening[c] \in Int /\ f[c] = Opening[c]
    BY <1>1, <1>2 DEF Cells
  <2>2. \A o \in Orders : g[o] = 0
    BY <1>1
  <2> HIDE DEF f, g, z
  <2>3. Sum(f, Cells) = Sum(Opening, Cells) /\ Sum(Opening, Cells) \in Int
    BY <2>1, Finite, SumSame, SumType
  <2>4. /\ {} \in SUBSET Orders /\ \A o \in {} : z[o] \in Int /\ g[o] = z[o]
        /\ \A o \in Orders \ {} : g[o] = 0
    BY <2>2
  <2>5. Sum(z, {}) = Sum(g, Orders)
    BY ONLY <2>4, Finite, SumPart
  <2>6. Sum(g, Orders) = 0
    BY <2>5, SumEmpty
  <2> QED
    BY <2>3, <2>6 DEF Init, Accounted, OnShelves, Taken, f, g
<1> QED
  BY <1>5, <1>6, <1>7, <1>8, <1>9, <1>10 DEF IInv

\* A read: what it takes is what there is.
LEMMA ReadHolds ==
    ASSUME IInv, NEW t \in Tx, NEW kind \in Kinds, NEW o \in Orders, Read(t, kind, o)
    PROVE  IInv'
<1> DEFINE r == [kind |-> kind, order |-> o, seen |-> db]
<1>1. /\ run[t] = Idle /\ run' = [run EXCEPT ![t] = r]
      /\ kind = "create" => \A u \in Tx : run[u] # Idle => run[u].order # o
      /\ kind = "create" <=> db.order[o] = "none"
      /\ begun' = begun + 1 /\ db' = db /\ orphaned' = orphaned
      /\ torn' = torn /\ received' = received
  BY DEF Read
<1>2. r \in Request /\ r # Idle /\ r.order = o /\ r.kind = kind /\ r.seen = db
  BY RequestIsNotIdle DEF Request, IInv, Types, Standing
<1> HIDE DEF r
<1>3. run'[t] = r /\ \A u \in Tx \ {t} : run'[u] = run[u]
  BY <1>1 DEF IInv, Types
<1>4. Types'
  <2>1. begun' \in Nat /\ run' \in [Tx -> Request \cup {Idle}]
    BY <1>1, <1>2 DEF IInv, Types
  <2> QED
    BY <1>1, <2>1 DEF IInv, Types, Standing, Covered
<1>5. Tidied' /\ Balanced' /\ Accounted'
  BY <1>1 DEF IInv, Tidied, Tidy, Balanced, Accounted, Calm
<1>6. Placed'
  <2>1. \A p \in torn' : db'.order[p] # "none"
    BY <1>1 DEF IInv, Placed
  <2> SUFFICES ASSUME NEW u \in Tx, run'[u] # Idle
               PROVE  /\ Asked(run[u])'
                      /\ run'[u].kind = "create" => Alone(u)'
    BY <2>1 DEF Placed, Busy
  <2>2. CASE u = t
    <3>1. Asked(run[u])'
      BY <1>1, <1>2, <1>3, <2>2 DEF Asked
    <3>2. ASSUME kind = "create" PROVE Alone(u)'
      <4>1. UpToDate(run[u])' /\ db'.order[run'[u].order] = "none"
        BY <1>1, <1>2, <1>3, <2>2, <3>2 DEF UpToDate
      <4>2. ASSUME NEW v \in Tx, v # u, run'[v] # Idle PROVE run'[v].order # run'[u].order
        BY <1>1, <1>2, <1>3, <2>2, <3>2, <4>2
      <4> QED
        BY <4>1, <4>2 DEF Alone, Busy
    <3> QED
      BY <1>2, <1>3, <2>2, <3>1, <3>2
  <2>3. CASE u # t
    <3>1. run'[u] = run[u] /\ u \in Busy
      BY <1>3, <2>3 DEF Busy
    <3>2. Asked(run[u])'
      BY <1>1, <3>1 DEF Asked, IInv, Placed
    <3>3. ASSUME run[u].kind = "create" PROVE Alone(u)'
      <4>1. Alone(u)
        BY <3>1, <3>3 DEF IInv, Placed
      <4>2. UpToDate(run[u])' /\ db'.order[run'[u].order] = "none"
        BY <1>1, <3>1, <4>1 DEF UpToDate, Alone
      <4>3. ASSUME NEW v \in Tx, v # u, run'[v] # Idle PROVE run'[v].order # run'[u].order
        <5>1. CASE v = t
          <6>1. run'[v].order = o
            BY <1>2, <1>3, <5>1
          <6>2. db.order[run[u].order] = "none"
            BY <4>1 DEF Alone
          <6>3. run[u] # Idle
            BY <3>1 DEF Busy
          <6> QED
            BY <1>1, <3>1, <6>1, <6>2, <6>3
        <5>2. CASE v # t
          BY <1>3, <3>1, <4>1, <4>3, <5>2 DEF Alone, Busy
        <5> QED
          BY <5>1, <5>2
      <4> QED
        BY <4>2, <4>3 DEF Alone, Busy
    <3> QED
      BY <3>1, <3>2, <3>3
  <2> QED
    BY <2>2, <2>3
<1>7. Bounded'
  <2> SUFFICES ASSUME NEW p \in Orders
               PROVE  db.shipped[p] + Ordered(p) * Cardinality(Firing(p)')
                        <= Ordered(p) * Cardinality(Tx)
    BY <1>1 DEF Bounded
  <2>1. db.shipped[p] + Ordered(p) * Cardinality(Firing(p)) <= Ordered(p) * Cardinality(Tx)
    BY DEF IInv, Bounded
  <2>2. CASE p = o /\ Fires(r)
    <3>1. db.shipped[p] = 0
      <4>1. db.shipped[p] \in Nat /\ ~(db.shipped[p] > 0)
        BY <1>2, <2>2 DEF Fires, IInv, Types, Standing, Rows
      <4> QED
        BY <4>1
    <3>2. Firing(p)' \in SUBSET Tx /\ IsFiniteSet(Tx)
      BY ConstantsAssumption DEF Firing, Busy
    <3>3. Cardinality(Firing(p)') <= Cardinality(Tx) /\ Cardinality(Tx) \in Nat
          /\ Cardinality(Firing(p)') \in Nat
      BY <3>2, FS_Subset, FS_CardinalityType
    <3>4. Ordered(p) * Cardinality(Firing(p)') <= Ordered(p) * Cardinality(Tx)
          /\ Ordered(p) * Cardinality(Firing(p)') \in Nat
      BY <3>3, OrderedType, Times
    <3> QED
      BY <3>1, <3>4
  <2>3. CASE ~(p = o /\ Fires(r))
    <3>1. Firing(p)' = Firing(p)
      <4>1. t \notin Firing(p)
        BY <1>1 DEF Firing, Busy
      <4>2. t \notin Firing(p)'
        BY <1>2, <1>3, <2>3 DEF Firing, Fires
      <4>3. \A u \in Tx \ {t} : u \in Firing(p)' <=> u \in Firing(p)
        BY <1>3 DEF Firing, Busy, Fires
      <4>4. Firing(p)' \in SUBSET Tx /\ Firing(p) \in SUBSET Tx
        BY DEF Firing, Busy
      <4> QED
        BY <4>1, <4>2, <4>3, <4>4
    <3> QED
      BY <2>1, <3>1
  <2> QED
    BY <2>2, <2>3
<1> QED
  BY <1>4, <1>5, <1>6, <1>7 DEF IInv

\* Two orders share no line and no reservation.
LEMMA Others ==
    ASSUME NEW o \in Orders, NEW p \in Orders, o # p
    PROVE  /\ MyHolds(p) \in SUBSET (Grid \ MyHolds(o))
           /\ MyItems(p) \in SUBSET (Items \ MyItems(o))
<1>1. MyItems(o) \cap MyItems(p) = {}
  BY ConstantsAssumption DEF MyItems
<1> QED
  BY <1>1, Finite DEF MyHolds

\* When a request ends, its deduction has shipped or never will.
LEMMA FiringEnds ==
    ASSUME Types, NEW t \in Busy, run' = [run EXCEPT ![t] = Idle], NEW p \in Orders
    PROVE  Cardinality(Firing(p)) = Cardinality(Firing(p)')
                                      + (IF run[t].order = p /\ Fires(run[t]) THEN 1 ELSE 0)
<1>1. run'[t] = Idle /\ \A u \in Tx \ {t} : run'[u] = run[u]
  BY DEF Types, Busy
<1>2. Firing(p)' = Firing(p) \ {t}
  <2>1. t \notin Firing(p)'
    BY <1>1 DEF Firing, Busy
  <2>2. \A u \in Tx \ {t} : u \in Firing(p)' <=> u \in Firing(p)
    BY <1>1 DEF Firing, Busy, Fires
  <2>3. Firing(p)' \in SUBSET Tx /\ Firing(p) \in SUBSET Tx
    BY DEF Firing, Busy
  <2> QED
    BY <2>1, <2>2, <2>3
<1>3. t \in Firing(p) <=> run[t].order = p /\ Fires(run[t])
  BY DEF Firing
<1>4. IsFiniteSet(Firing(p)) /\ Cardinality(Firing(p)) \in Nat
  BY FiringType
<1>5. CASE t \in Firing(p)
  <2>1. Cardinality(Firing(p) \ {t}) = Cardinality(Firing(p)) - 1
    BY <1>4, <1>5, FS_RemoveElement
  <2> QED
    BY <1>2, <1>3, <1>4, <1>5, <2>1
<1>6. CASE t \notin Firing(p)
  <2>1. Firing(p)' = Firing(p)
    BY <1>2, <1>6
  <2>2. Cardinality(Firing(p)') = Cardinality(Firing(p)) /\ Cardinality(Firing(p)) \in Nat
    BY <1>4, <2>1
  <2> QED
    BY <1>3, <1>6, <2>2
<1> QED
  BY <1>5, <1>6

\* A level that an order has no line of, when its rows are written.
LEMMA ElsewhereStays ==
    ASSUME db \in Rows, NEW r \in Request, NEW x, Leaves(x, r), NEW c \in Elsewhere(r.order)
    PROVE  /\ c \in Cells /\ x.db.level[c] = db.level[c] /\ HeldAt(x.db, c) = HeldAt(db, c)
           /\ Cascaded(x.db, c[1], c[2]) = 0
<1> DEFINE o == r.order
<1>1. c \in Cells /\ \A i \in MyItems(o) : SkuOf[i] # c[1]
  BY DEF Elsewhere
<1>2. ASSUME NEW i \in Items, SkuOf[i] = c[1]
      PROVE  x.db.hold[<<i, c[2]>>] = db.hold[<<i, c[2]>>]
  <2> DEFINE cell == <<i, c[2]>>
  <2>1. cell \in Grid /\ cell[1] = i
    BY <1>1 DEF Cells, Grid
  <2>2. cell \notin MyHolds(o)
    BY <1>1, <1>2 DEF MyHolds
  <2> HIDE DEF cell
  <2>3. x.db.hold[cell] = db.hold[cell]
    BY <2>1, <2>2 DEF Leaves
  <2> QED
    BY <2>3 DEF cell
<1>3. HeldAt(x.db, c) = HeldAt(db, c)
  <2>1. Share(x.db, c) = Share(db, c)
    BY <1>2 DEF Share
  <2> QED
    BY <2>1 DEF HeldAt
<1>4. Cascaded(x.db, c[1], c[2]) = 0
  <2>1. \A i \in Items : SkuOf[i] = c[1] /\ x.db.hold[<<i, c[2]>>] = NoHold =>
                            db.hold[<<i, c[2]>>].status # "active"
    BY <1>2 DEF NoHold
  <2> QED
    BY <1>1, <2>1, NoneLost
<1> QED
  BY <1>1, <1>3, <1>4 DEF Leaves

\* A commit: what a request leaves, applied.
Fresh(r) == UpToDate(r) /\ r.order \notin torn

LEMMA CommitHolds ==
    ASSUME IInv, NEW t \in Busy, NEW x, Leaves(x, run[t]),
           Fresh(run[t]) => Delivers(x, run[t].order),
           db' = x.db, run' = [run EXCEPT ![t] = Idle], received' = received, begun' = begun,
           torn' = IF UpToDate(run[t]) THEN torn ELSE torn \cup {run[t].order},
           orphaned' = [cell \in Skus \X Warehouses |->
                          orphaned[cell] + Cascaded(x.db, cell[1], cell[2])]
    PROVE  IInv'
<1> DEFINE r == run[t]
           o == r.order
<1>1. Types /\ Standing /\ t \in Tx /\ r \in Request /\ o \in Orders /\ db \in Rows
  BY BusyAsks DEF IInv, Request, Types, Standing
<1>2. run'[t] = Idle /\ \A u \in Tx \ {t} : run'[u] = run[u]
  BY <1>1 DEF Types
<1>3. /\ torn \in SUBSET torn' /\ torn' \in SUBSET (torn \cup {o})
      /\ o \notin torn' <=> Fresh(r)
  BY DEF Fresh
<1> HIDE DEF r
<1>4. Standing'
  BY DEF Leaves, Standing, Covered
<1>5. \A c \in Cells : Cascaded(x.db, c[1], c[2]) \in Int
  BY <1>1, CascadedIs
<1>6. \A c \in Cells : orphaned'[c] = orphaned[c] + Cascaded(x.db, c[1], c[2])
  BY DEF Cells
<1>7. Types'
  <2>1. orphaned' \in [Cells -> Int]
    <3>1. orphaned' = [c \in Cells |-> orphaned[c] + Cascaded(x.db, c[1], c[2])]
      BY DEF Cells
    <3> QED
      BY <1>1, <1>5, <3>1 DEF Types
  <2>2. run' \in [Tx -> Request \cup {Idle}]
    BY <1>1 DEF Types
  <2>3. torn' \in SUBSET Orders
    BY <1>1, <1>3 DEF Types
  <2> QED
    BY <1>1, <1>4, <2>1, <2>2, <2>3 DEF Types
<1>8. db'.order[o] # "none"
  BY DEF Leaves, r
<1>9. ASSUME NEW p \in Orders, p # o
      PROVE  /\ db'.order[p] = db.order[p] /\ db'.shipped[p] = db.shipped[p]
             /\ \A i \in MyItems(p) : db'.lineId[i] = db.lineId[i]
             /\ \A cell \in MyHolds(p) : db'.hold[cell] = db.hold[cell]
  <2>1. /\ MyHolds(p) \in SUBSET (Grid \ MyHolds(o))
        /\ MyItems(p) \in SUBSET (Items \ MyItems(o))
    BY <1>1, <1>9, Others
  <2> QED
    BY <1>9, <2>1 DEF Leaves, r
<1>10. Placed'
  <2>1. ASSUME NEW p \in torn' PROVE db'.order[p] # "none"
    <3>1. CASE p = o
      BY <1>8, <3>1
    <3>2. CASE p # o
      <4>1. p \in torn /\ p \in Orders
        BY <1>1, <1>3, <3>2 DEF Types
      <4> QED
        BY <1>9, <3>2, <4>1 DEF IInv, Placed
    <3> QED
      BY <3>1, <3>2
  <2> SUFFICES ASSUME NEW u \in Tx, run'[u] # Idle
               PROVE  /\ Asked(run[u])'
                      /\ run'[u].kind = "create" => Alone(u)'
    BY <2>1 DEF Placed, Busy
  <2> DEFINE q == run[u]
             p == q.order
  <2>2. u # t /\ run'[u] = q /\ u \in Busy
    BY <1>2 DEF Busy
  <2>3. q \in Request /\ p \in Orders
    BY <1>1, <2>2, BusyAsks DEF Request
  <2>4. Asked(q) /\ (q.kind = "create" => Alone(u))
    BY <2>2 DEF IInv, Placed
  <2> HIDE DEF q, o
  <2>5. Asked(q)'
    <3>1. CASE p = o
      BY <1>8, <2>2, <3>1 DEF Asked, q
    <3>2. CASE p # o
      BY <1>9, <2>2, <2>3, <2>4, <3>2 DEF Asked, q
    <3> QED
      BY <3>1, <3>2
  <2>6. ASSUME q.kind = "create" PROVE Alone(u)'
    <3>1. Alone(u)
      BY <2>4, <2>6
    <3>2. p # o
      BY <2>2, <3>1 DEF Alone, q, o, r
    <3>3. /\ db'.order[p] = db.order[p] /\ db'.shipped[p] = db.shipped[p]
          /\ \A i \in MyItems(p) : db'.lineId[i] = db.lineId[i]
          /\ \A cell \in MyHolds(p) : db'.hold[cell] = db.hold[cell]
      BY <1>9, <2>3, <3>2
    <3>4. /\ q.seen.order[p] = db.order[p] /\ q.seen.shipped[p] = db.shipped[p]
          /\ \A i \in MyItems(p) : q.seen.lineId[i] = db.lineId[i]
          /\ \A cell \in MyHolds(p) : q.seen.hold[cell] = db.hold[cell]
          /\ db.order[p] = "none"
      BY <3>1 DEF Alone, UpToDate, q
    <3>5. /\ q.seen.order[p] = db'.order[p] /\ q.seen.shipped[p] = db'.shipped[p]
          /\ \A i \in MyItems(p) : q.seen.lineId[i] = db'.lineId[i]
          /\ \A cell \in MyHolds(p) : q.seen.hold[cell] = db'.hold[cell]
          /\ db'.order[p] = "none"
      BY <3>3, <3>4
    <3>6. UpToDate(run[u])' /\ db'.order[run'[u].order] = "none"
      BY <2>2, <3>5 DEF UpToDate, q
    <3>7. ASSUME NEW v \in Tx, v # u, run'[v] # Idle PROVE run'[v].order # run'[u].order
      BY <1>2, <2>2, <3>1, <3>7 DEF Alone, Busy, q
    <3> QED
      BY <3>6, <3>7 DEF Alone, Busy
  <2> QED
    BY <2>2, <2>5, <2>6 DEF q
<1>11. Tidied'
  <2> SUFFICES ASSUME NEW p \in Orders, p \notin torn' PROVE Tidy(p)'
    BY DEF Tidied
  <2>1. CASE p = o
    <3>1. Delivers(x, o)
      BY <1>3, <2>1 DEF r
    <3> QED
      BY <1>8, <2>1, <3>1 DEF Delivers, Tidy
  <2>2. CASE p # o
    <3>1. Tidy(p)
      BY <1>3 DEF IInv, Tidied
    <3> HIDE DEF o
    <3>2. /\ db'.order[p] = db.order[p] /\ db'.shipped[p] = db.shipped[p]
          /\ \A cell \in MyHolds(p) : db'.hold[cell] = db.hold[cell]
      BY <1>9, <2>2
    <3> QED
      BY <3>1, <3>2 DEF Tidy
  <2> QED
    BY <2>1, <2>2
<1>12. Balanced'
  <2> SUFFICES ASSUME NEW c \in Cells, Calm(c)'
               PROVE  x.db.level[c].reserved = HeldAt(x.db, c) + orphaned'[c]
    BY DEF Balanced
  <2>1. db.level[c].reserved = HeldAt(db, c) + orphaned[c]
    BY <1>3 DEF IInv, Balanced, Calm
  <2>2. orphaned'[c] = orphaned[c] + Cascaded(x.db, c[1], c[2]) /\ Cascaded(x.db, c[1], c[2]) \in Int
    BY <1>5, <1>6
  <2>3. db.level[c].reserved \in Int /\ HeldAt(db, c) \in Int /\ orphaned[c] \in Int
    BY <1>1, ShareType DEF Rows, Cells, Types
  <2>4. x.db \in Rows
    BY DEF Leaves
  <2>5. x.db.level[c].reserved \in Int /\ HeldAt(x.db, c) \in Int
    BY <2>4, ShareType DEF Rows, Cells
  <2>6. CASE o \in torn'
    <3>1. c \in Elsewhere(o)
      BY <2>6 DEF Calm
    <3>2. /\ x.db.level[c] = db.level[c] /\ HeldAt(x.db, c) = HeldAt(db, c)
          /\ Cascaded(x.db, c[1], c[2]) = 0
      BY <1>1, <3>1, ElsewhereStays DEF r
    <3> QED
      BY <2>1, <2>2, <2>3, <3>2
  <2>7. CASE o \notin torn'
    <3>1. Delivers(x, o)
      BY <1>3, <2>7 DEF r
    <3>2. x.db.level[c].reserved - HeldAt(x.db, c)
          = db.level[c].reserved - HeldAt(db, c) + Cascaded(x.db, c[1], c[2])
      BY <3>1 DEF Delivers
    <3> QED
      BY ONLY <2>1, <2>2, <2>3, <2>5, <3>2
  <2> QED
    BY <2>6, <2>7
<1>13. Accounted'
  BY DEF IInv, Accounted, Leaves
<1>14. Bounded'
  <2> SUFFICES ASSUME NEW p \in Orders
               PROVE  db'.shipped[p] + Ordered(p) * Cardinality(Firing(p)')
                        <= Ordered(p) * Cardinality(Tx)
    BY DEF Bounded
  <2> DEFINE k == Cardinality(Firing(p))
             m == Cardinality(Firing(p)')
             n == Ordered(p)
  <2>1. db.shipped[p] + n * k <= n * Cardinality(Tx)
    BY DEF IInv, Bounded
  <2>2. k = m + (IF r.order = p /\ Fires(r) THEN 1 ELSE 0)
    BY <1>1, FiringEnds DEF r
  <2>3. k \in Nat /\ n \in Nat /\ db.shipped[p] \in Nat /\ db'.shipped[p] \in Nat
    BY <1>1, <1>4, FiringType, OrderedType DEF Rows, Standing
  <2>4. db'.shipped[p] <= db.shipped[p] + (IF r.order = p /\ Fires(r) THEN n ELSE 0)
    <3>1. CASE p = o
      BY <3>1 DEF Leaves, r
    <3>2. CASE p # o
      BY <1>9, <2>3, <3>2
    <3> QED
      BY <3>1, <3>2
  <2>5. m \in Nat
    <3>1. IsFiniteSet(Firing(p)')
      <4>1. Firing(p)' \in SUBSET Tx /\ IsFiniteSet(Tx)
        BY ConstantsAssumption DEF Firing, Busy
      <4> QED
        BY <4>1, FS_Subset
    <3> QED
      BY <3>1, FS_CardinalityType
  <2>6. n * (m + 1) = n * m + n /\ n * m \in Nat /\ n * Cardinality(Tx) \in Nat
    <3>1. Cardinality(Tx) \in Nat
      BY ConstantsAssumption, FS_CardinalityType
    <3> QED
      BY <2>3, <2>5, <3>1, Times
  <2> DEFINE T == n * Cardinality(Tx)
             nm == n * m
             nk == n * k
  <2>7. nk = nm + (IF r.order = p /\ Fires(r) THEN n ELSE 0)
    <3>1. CASE r.order = p /\ Fires(r)
      BY <2>2, <2>6, <3>1
    <3>2. CASE ~(r.order = p /\ Fires(r))
      BY <2>2, <2>5, <2>6, <3>2
    <3> QED
      BY <3>1, <3>2
  <2>8. nm \in Nat /\ T \in Nat
    BY <2>6
  <2>9. db.shipped[p] + nk <= T
    BY <2>1
  <2> HIDE DEF T, nm, nk, k, m, n
  <2>10. db'.shipped[p] + nm <= T
    BY <2>3, <2>4, <2>7, <2>8, <2>9
  <2> QED
    BY <2>10 DEF T, nm, m, n
<1> QED
  BY <1>7, <1>10, <1>11, <1>12, <1>13, <1>14 DEF IInv

\* A request ends without a trace.
LEMMA EndHolds ==
    ASSUME IInv, NEW t \in Busy, run' = [run EXCEPT ![t] = Idle],
           UNCHANGED <<db, orphaned, torn, received, begun>>
    PROVE  IInv'
<1>1. Types /\ t \in Tx
  BY BusyAsks DEF IInv
<1>2. run'[t] = Idle /\ \A u \in Tx \ {t} : run'[u] = run[u]
  BY <1>1 DEF Types
<1>3. Types'
  <2>1. run' \in [Tx -> Request \cup {Idle}]
    BY <1>1 DEF Types
  <2> QED
    BY <1>1, <2>1 DEF Types, Standing, Covered
<1>4. Tidied' /\ Balanced' /\ Accounted'
  BY DEF IInv, Tidied, Tidy, Balanced, Accounted, Calm
<1>5. Placed'
  <2>1. \A p \in torn' : db'.order[p] # "none"
    BY DEF IInv, Placed
  <2> SUFFICES ASSUME NEW u \in Tx, run'[u] # Idle
               PROVE  /\ Asked(run[u])'
                      /\ run'[u].kind = "create" => Alone(u)'
    BY <2>1 DEF Placed, Busy
  <2>2. u # t /\ run'[u] = run[u] /\ u \in Busy
    BY <1>2 DEF Busy
  <2>3. Asked(run[u])'
    BY <2>2 DEF Asked, IInv, Placed
  <2>4. ASSUME run[u].kind = "create" PROVE Alone(u)'
    <3>1. Alone(u)
      BY <2>2, <2>4 DEF IInv, Placed
    <3>2. UpToDate(run[u])' /\ db'.order[run'[u].order] = "none"
      BY <2>2, <3>1 DEF UpToDate, Alone
    <3>3. ASSUME NEW v \in Tx, v # u, run'[v] # Idle PROVE run'[v].order # run'[u].order
      BY <1>2, <2>2, <3>1, <3>3 DEF Alone, Busy
    <3> QED
      BY <3>2, <3>3 DEF Alone, Busy
  <2> QED
    BY <2>2, <2>3, <2>4
<1>6. Bounded'
  <2> SUFFICES ASSUME NEW p \in Orders
               PROVE  db.shipped[p] + Ordered(p) * Cardinality(Firing(p)')
                        <= Ordered(p) * Cardinality(Tx)
    BY DEF Bounded
  <2> DEFINE k == Cardinality(Firing(p))
             m == Cardinality(Firing(p)')
             n == Ordered(p)
  <2>1. db.shipped[p] + n * k <= n * Cardinality(Tx)
    BY DEF IInv, Bounded
  <2>2. k = m + (IF run[t].order = p /\ Fires(run[t]) THEN 1 ELSE 0)
    BY <1>1, FiringEnds
  <2>3. k \in Nat /\ n \in Nat /\ db.shipped[p] \in Nat
    BY <1>1, FiringType, OrderedType DEF Rows, Standing, Types
  <2>4. m \in Nat
    <3>1. IsFiniteSet(Firing(p)')
      <4>1. Firing(p)' \in SUBSET Tx /\ IsFiniteSet(Tx)
        BY ConstantsAssumption DEF Firing, Busy
      <4> QED
        BY <4>1, FS_Subset
    <3> QED
      BY <3>1, FS_CardinalityType
  <2>5. n * m <= n * k /\ n * m \in Nat /\ n * k \in Nat /\ n * Cardinality(Tx) \in Nat
    <3>1. Cardinality(Tx) \in Nat /\ m <= k
      BY <2>2, <2>3, <2>4, ConstantsAssumption, FS_CardinalityType
    <3> HIDE DEF k, m, n
    <3> QED
      BY <2>3, <2>4, <3>1, Times
  <2> QED
    BY <2>1, <2>3, <2>5
<1> QED
  BY <1>3, <1>4, <1>5, <1>6 DEF IInv

\* A receipt: one unit more, on the shelf and in the count of them.  It
\* changes none of the rows a request is compared by.
LEMMA RestockHolds ==
    ASSUME IInv, NEW s \in Skus, NEW w \in Warehouses, Restock(s, w)
    PROVE  IInv'
<1> DEFINE c == <<s, w>>
           l == db.level[c]
           n == [l EXCEPT !.onHand = l.onHand + 1]
<1>1. /\ db' = [db EXCEPT !.level[c] = n] /\ received' = received + 1
      /\ run' = run /\ orphaned' = orphaned /\ torn' = torn /\ begun' = begun
  BY DEF Restock
<1>2. Types /\ Standing /\ db \in Rows /\ c \in Cells
  BY DEF IInv, Types, Standing, Cells
<1>3. l \in [onHand : Int, reserved : Int] /\ l.reserved \in 0 .. l.onHand
  BY <1>2 DEF Rows, Cells, Standing, Covered
<1> HIDE DEF l
<1>4. n \in [onHand : Int, reserved : Int] /\ n.onHand = l.onHand + 1 /\ n.reserved = l.reserved
  BY <1>3
<1> HIDE DEF n
<1>5. /\ db' \in Rows /\ db'.lineId = db.lineId
      /\ db'.level = [db.level EXCEPT ![c] = n] /\ db'.order = db.order
      /\ db'.hold = db.hold /\ db'.shipped = db.shipped
  BY <1>1, <1>2, <1>4 DEF Rows, Cells
<1>6. db'.level[c] = n /\ \A e \in Cells \ {c} : db'.level[e] = db.level[e]
  BY <1>2, <1>5 DEF Rows, Cells
<1>7. Covered(db')
  <2> SUFFICES ASSUME NEW e \in Cells
               PROVE  db'.level[e].reserved \in 0 .. db'.level[e].onHand
    BY DEF Covered
  <2>1. CASE e = c
    BY <1>3, <1>4, <1>6, <2>1
  <2>2. CASE e # c
    BY <1>2, <1>6, <2>2 DEF Standing, Covered
  <2> QED
    BY <2>1, <2>2
<1>8. Standing'
  BY <1>5, <1>7 DEF Standing, Covered
<1>9. Types'
  BY <1>1, <1>2, <1>8 DEF Types
<1>10. Placed' /\ Tidied' /\ Bounded'
  <2>1. ASSUME NEW t \in Busy PROVE UpToDate(run[t])' <=> UpToDate(run[t])
    BY <1>1, <1>5 DEF UpToDate
  <2>2. Busy' = Busy
    BY <1>1 DEF Busy
  <2>3. Placed'
    BY <1>1, <1>5, <2>1, <2>2 DEF IInv, Placed, Asked, Alone
  <2>4. Tidied' /\ Bounded'
    BY <1>1, <1>5, <2>2 DEF IInv, Tidied, Tidy, Bounded, Firing, Fires
  <2> QED
    BY <2>3, <2>4
<1>11. Balanced'
  <2> SUFFICES ASSUME NEW e \in Cells, Calm(e)
               PROVE  db'.level[e].reserved = HeldAt(db', e) + orphaned[e]
    BY <1>1 DEF Balanced, Calm
  <2>1. db'.level[e].reserved = db.level[e].reserved
    BY <1>4, <1>6 DEF l
  <2>2. HeldAt(db', e) = HeldAt(db, e)
    BY <1>5 DEF HeldAt, Share
  <2> QED
    BY <2>1, <2>2 DEF IInv, Balanced
<1>12. Accounted'
  <2> DEFINE f == [e \in Cells |-> db.level[e].onHand]
             g == [e \in Cells |-> db'.level[e].onHand]
  <2>1. \A e \in Cells : f[e] \in Int
    BY <1>2 DEF Rows, Cells
  <2>2. f[c] = l.onHand /\ g[c] = l.onHand + 1 /\ l.onHand \in Int
    BY <1>2, <1>3, <1>4, <1>6 DEF l
  <2>3. \A e \in Cells \ {c} : g[e] = f[e]
    BY <1>6
  <2> HIDE DEF f, g, c
  <2>4. g[c] \in Int
    BY <2>2
  <2>5. Sum(g, Cells) = Sum(f, Cells) + g[c] - f[c]
    BY ONLY <1>2, <2>1, <2>3, <2>4, Finite, SumChange
  <2>6. Sum(f, Cells) \in Int
    BY <2>1, Finite, SumType
  <2>7. Taken(db') = Taken(db) /\ Taken(db) \in Int
    <3>1. \A o \in Orders : db.shipped[o] \in Int
      BY <1>2 DEF Rows
    <3> QED
      BY <1>5, <3>1, Finite, SumType DEF Taken
  <2>8. Sum(f, Cells) + Taken(db) = Sum(Opening, Cells) + received
    BY DEF IInv, Accounted, OnShelves, f
  <2>9. Sum(Opening, Cells) \in Int /\ received \in Nat
    <3>1. \A e \in Cells : Opening[e] \in Int
      BY ConstantsAssumption DEF Cells
    <3> QED
      BY <1>2, <3>1, Finite, SumType DEF Types
  <2>10. OnShelves(db') = Sum(g, Cells)
    BY DEF OnShelves, g
  <2>11. OnShelves(db') + Taken(db') = Sum(Opening, Cells) + received'
    BY <1>1, <2>2, <2>5, <2>6, <2>7, <2>8, <2>9, <2>10
  <2> QED
    BY <2>11 DEF Accounted
<1> QED
  BY <1>9, <1>10, <1>11, <1>12 DEF IInv

\* A request that is acted upon commits what it leaves, or nothing.
LEMMA ActIs ==
    ASSUME IInv, NEW t \in Tx, Act(t)
    PROVE  /\ t \in Busy /\ run' = [run EXCEPT ![t] = Idle]
           /\ received' = received /\ begun' = begun
           /\ \/ db' = db /\ orphaned' = orphaned /\ torn' = torn
              \/ \E x : /\ Leaves(x, run[t]) /\ db' = x.db
                        /\ Fresh(run[t]) => Delivers(x, run[t].order)
                        /\ run[t].kind = "create" => Fresh(run[t])
                        /\ torn' = IF UpToDate(run[t]) THEN torn
                                   ELSE torn \cup {run[t].order}
                        /\ orphaned' = [cell \in Skus \X Warehouses |->
                                          orphaned[cell] + Cascaded(x.db, cell[1], cell[2])]
<1> DEFINE x == Outcome(run[t].kind, Start(run[t].seen), run[t].order)
           r == run[t]
           f == Fresh(r)
<1>1. /\ t \in Busy /\ run' = [run EXCEPT ![t] = Idle]
      /\ received' = received /\ begun' = begun
  BY DEF Act, Busy
<1>2. r \in Request /\ Standing /\ Asked(r)
  BY <1>1, BusyAsks DEF IInv, Types, Placed
<1>3. IF x.ok THEN /\ db' = x.db
                   /\ torn' = IF UpToDate(run[t]) THEN torn ELSE torn \cup {run[t].order}
                   /\ orphaned' = [cell \in Skus \X Warehouses |->
                                     orphaned[cell] + Cascaded(x.db, cell[1], cell[2])]
      ELSE db' = db /\ orphaned' = orphaned /\ torn' = torn
  BY DEF Act
<1>4. f \in BOOLEAN /\ (f => UpToDate(r) /\ Tidy(r.order))
  <2>1. f \in BOOLEAN
    BY DEF Fresh, UpToDate
  <2>2. r.order \in Orders
    BY <1>2 DEF Request
  <2>3. f => Tidy(r.order)
    BY <2>2 DEF Fresh, IInv, Tidied
  <2> QED
    BY <2>1, <2>3 DEF Fresh
<1>5. r.kind = "create" => f /\ UpToDate(r) /\ Tidy(r.order) /\ db.order[r.order] = "none"
  <2> SUFFICES ASSUME r.kind = "create"
               PROVE  f /\ UpToDate(r) /\ Tidy(r.order) /\ db.order[r.order] = "none"
    OBVIOUS
  <2>1. UpToDate(r) /\ db.order[r.order] = "none"
    BY <1>1 DEF IInv, Placed, Alone
  <2>2. r.order \notin torn
    BY <2>1 DEF IInv, Placed
  <2>3. f
    BY <2>1, <2>2 DEF Fresh
  <2> QED
    BY <1>4, <2>1, <2>3
<1>6. x.ok => Leaves(x, r) /\ (f => Delivers(x, r.order))
  <2> HIDE DEF f, r
  <2>1. Outcome(r.kind, Start(r.seen), r.order).ok =>
          LET v == Outcome(r.kind, Start(r.seen), r.order) IN
          Leaves(v, r) /\ (f => Delivers(v, r.order))
    BY <1>2, <1>4, <1>5, OutcomeLeaves
  <2> QED
    BY <2>1 DEF r
<1> HIDE DEF x
<1> QED
  BY <1>1, <1>3, <1>5, <1>6

\* Every step.
LEMMA NextHolds == ASSUME IInv, [Next]_vars PROVE IInv'
<1>1. CASE \E t \in Tx, kind \in Kinds, o \in Orders : Read(t, kind, o)
  BY <1>1, ReadHolds
<1>2. ASSUME NEW t \in Tx, Act(t) PROVE IInv'
  <2>1. /\ t \in Busy /\ run' = [run EXCEPT ![t] = Idle]
        /\ received' = received /\ begun' = begun
    BY <1>2, ActIs
  <2>2. CASE db' = db /\ orphaned' = orphaned /\ torn' = torn
    BY <2>1, <2>2, EndHolds
  <2>3. ASSUME NEW x, Leaves(x, run[t]), db' = x.db,
               Fresh(run[t]) => Delivers(x, run[t].order),
               torn' = IF UpToDate(run[t]) THEN torn ELSE torn \cup {run[t].order},
               orphaned' = [cell \in Skus \X Warehouses |->
                              orphaned[cell] + Cascaded(x.db, cell[1], cell[2])]
        PROVE  IInv'
    BY <2>1, <2>3, CommitHolds
  <2> QED
    BY <1>2, <2>2, <2>3, ActIs
<1>3. ASSUME NEW t \in Tx, Abort(t) PROVE IInv'
  <2>1. t \in Busy
    BY <1>3 DEF Abort, Busy
  <2> QED
    BY <1>3, <2>1, EndHolds DEF Abort
<1>4. CASE \E s \in Skus, w \in Warehouses : Restock(s, w)
  BY <1>4, RestockHolds
<1>5. CASE UNCHANGED vars
  <2>1. /\ db' = db /\ run' = run /\ orphaned' = orphaned /\ torn' = torn
        /\ received' = received /\ begun' = begun
    BY <1>5 DEF vars
  <2>2. Types' /\ Balanced' /\ Accounted' /\ Tidied'
    BY <2>1 DEF IInv, Types, Standing, Covered, Balanced, Calm, Accounted, Tidied, Tidy
  <2>3. Placed' /\ Bounded'
    <3>1. ASSUME NEW t \in Busy PROVE Alone(t)' <=> Alone(t)
      BY <2>1 DEF Alone, UpToDate, Busy
    <3>2. Busy' = Busy
      BY <2>1 DEF Busy
    <3> QED
      BY <2>1, <3>1, <3>2 DEF IInv, Placed, Asked, Bounded, Firing, Fires
  <2> QED
    BY <2>2, <2>3 DEF IInv
<1> QED
  BY <1>1, <1>2, <1>3, <1>4, <1>5 DEF Next


-----------------------------------------------------------------------------
(***************************************************************************)
(* The theorems.                                                           *)
(***************************************************************************)

\* The inductive invariant, whichever requests overlap.
THEOREM Inductive == Spec => []IInv
<1>1. Init => IInv
  BY InitHolds
<1>2. IInv /\ [Next]_vars => IInv'
  BY NextHolds
<1> QED
  BY <1>1, <1>2, PTL DEF Spec

\* Types, and no level goes negative or promises more than it has, for any
\* orders, lines, warehouses and any requests, each read before others commit.
THEOREM TypeCorrect == Spec => []TypeOK
<1>1. IInv => TypeOK
  <2> SUFFICES ASSUME IInv PROVE TypeOK
    OBVIOUS
  <2>1. Types
    BY DEF IInv
  <2>2. ASSUME NEW t \in Tx PROVE run[t] = Idle \/ run[t].seen \in Rows
    BY <2>1 DEF Types, Request
  <2> QED
    BY <2>1, <2>2 DEF TypeOK, Types, Standing, Covered, Cells
<1> QED
  BY <1>1, Inductive, PTL

\* The units a level's rows hold, as the requests add them up.
LEMMA HeldUnitsIs ==
    ASSUME db \in Rows, NEW s \in Skus, NEW w \in Warehouses
    PROVE  HeldUnits(db, s, w) = HeldAt(db, <<s, w>>)
<1> DEFINE T == {j \in Items : SkuOf[j] = s /\ db.hold[<<j, w>>].status = "active"}
           f == [i \in T |-> Outstanding(db.hold[<<i, w>>])]
           g == Share(db, <<s, w>>)
<1>1. \A i \in Items : Outstanding(db.hold[<<i, w>>]) \in Int
  <2> TAKE i \in Items
  <2>1. db.hold[<<i, w>>] \in Hold
    BY DEF Rows
  <2> QED
    BY <2>1 DEF Outstanding, Hold
<1>2. HeldUnits(db, s, w) = Sum(f, T)
  <2>1. HeldUnits(db, s, w) = SumFunction(f)
    BY DEF HeldUnits
  <2>2. DOMAIN f = T
    OBVIOUS
  <2> HIDE DEF f, T
  <2> QED
    BY <2>1, <2>2, SumFunctionIs
<1>3. T \in SUBSET Items
  OBVIOUS
<1>4. \A i \in T : f[i] \in Int /\ g[i] = f[i]
  BY <1>1 DEF Share, Weight
<1>5. \A i \in Items \ T : g[i] = 0
  BY DEF Share, Weight
<1> HIDE DEF f, T, g
<1>6. Sum(f, T) = Sum(g, Items)
  BY ONLY <1>3, <1>4, <1>5, Finite, SumPart
<1> QED
  BY <1>2, <1>6 DEF g, HeldAt

\* A level's reserved units are what the active reservations of its lines
\* still hold and what deleted orders left behind, whichever requests
\* overlapped - but for the skus of an order that a request wrote after its
\* rows had changed under it.
THEOREM ReservedIsHeld == Spec => []ReservedMatchesHolds
<1>1. IInv => ReservedMatchesHolds
  <2> SUFFICES ASSUME IInv, NEW s \in Skus, NEW w \in Warehouses,
                      \A o \in torn : \A i \in MyItems(o) : SkuOf[i] # s
               PROVE  LevelMatches(s, w)
    BY DEF ReservedMatchesHolds
  <2>1. HeldUnits(db, s, w) = HeldAt(db, <<s, w>>)
    BY HeldUnitsIs DEF IInv, Types, Standing
  <2>2. <<s, w>> \in Cells
    BY DEF Cells
  <2>3. Calm(<<s, w>>)
    BY <2>2 DEF Calm, Elsewhere
  <2>4. db.level[<<s, w>>].reserved = HeldAt(db, <<s, w>>) + orphaned[<<s, w>>]
    BY <2>2, <2>3 DEF IInv, Balanced
  <2> QED
    BY <2>1, <2>4 DEF LevelMatches
<1> QED
  BY <1>1, Inductive, PTL

\* What an order's lines ask for, as the property adds them up.
LEMMA OrderedIs == ASSUME NEW o \in Orders PROVE Units(o) = Ordered(o)
<1> DEFINE f == [i \in MyItems(o) |-> QtyOf[i]]
<1>1. MyItems(o) \in SUBSET Items /\ IsFiniteSet(MyItems(o))
  BY Finite, FS_Subset
<1>2. SumFunction(f) = Sum(f, MyItems(o))
  <2>1. DOMAIN f = MyItems(o)
    OBVIOUS
  <2> HIDE DEF f
  <2> QED
    BY <2>1, SumFunctionIs
<1>3. \A i \in MyItems(o) : QtyOf[i] \in Int /\ f[i] = QtyOf[i]
  BY <1>1, ConstantsAssumption
<1> HIDE DEF f
<1>4. Sum(f, MyItems(o)) = Sum(QtyOf, MyItems(o))
  BY ONLY <1>1, <1>3, SumSame
<1> QED
  BY <1>2, <1>4 DEF Ordered, Units, f

\* No goods leave the shelves but by a deduction, and an order's deductions
\* take what its lines ask for once - or, when requests for it overlapped, at
\* most once for each connection that can carry a request.
THEOREM GoodsLeaveOnce == Spec => []GoodsLeaveOnceShipped
<1>1. IInv => GoodsLeaveOnceShipped
  <2> SUFFICES ASSUME IInv PROVE GoodsLeaveOnceShipped
    OBVIOUS
  <2> DEFINE f == [cell \in Skus \X Warehouses |-> db.level[cell].onHand]
  <2>1. Types /\ db \in Rows
    BY DEF IInv, Types, Standing
  <2>2. SumFunction(f) = OnShelves(db)
    <3>1. f = [c \in Cells |-> db.level[c].onHand] /\ DOMAIN f = Cells
      BY DEF Cells
    <3> HIDE DEF f
    <3> QED
      BY <3>1, SumFunctionIs DEF OnShelves
  <2>3. SumFunction(Opening) = Sum(Opening, Cells) /\ SumFunction(db.shipped) = Taken(db)
    <3>1. DOMAIN Opening = Cells /\ DOMAIN db.shipped = Orders
      BY <2>1, ConstantsAssumption DEF Rows, Cells
    <3> QED
      BY <3>1, SumFunctionIs DEF Taken
  <2>4. OnShelves(db) + Taken(db) = Sum(Opening, Cells) + received
    BY DEF IInv, Accounted
  <2>5. OnShelves(db) \in Int /\ Taken(db) \in Int
    <3>1. \A c \in Cells : [e \in Cells |-> db.level[e].onHand][c] \in Int
      BY <2>1 DEF Rows, Cells
    <3>2. \A o \in Orders : db.shipped[o] \in Int
      BY <2>1 DEF Rows
    <3> QED
      BY <3>1, <3>2, Finite, SumType DEF OnShelves, Taken
  <2>6. Sum(Opening, Cells) \in Int /\ received \in Int
    <3>1. \A c \in Cells : Opening[c] \in Int
      BY ConstantsAssumption DEF Cells
    <3> QED
      BY <2>1, <3>1, Finite, SumType DEF Types
  <2>7. ASSUME NEW o \in Orders
        PROVE  db.shipped[o] <= IF o \in torn THEN Units(o) * Cardinality(Tx) ELSE Units(o)
    <3>1. Units(o) = Ordered(o)
      BY OrderedIs
    <3>2. CASE o \notin torn
      BY <3>1, <3>2 DEF IInv, Tidied, Tidy
    <3>3. CASE o \in torn
      <4>1. db.shipped[o] + Ordered(o) * Cardinality(Firing(o)) <= Ordered(o) * Cardinality(Tx)
        BY DEF IInv, Bounded
      <4>2. db.shipped[o] \in Nat /\ Ordered(o) * Cardinality(Firing(o)) \in Nat
            /\ Ordered(o) * Cardinality(Tx) \in Nat
        <5>1. Cardinality(Tx) \in Nat
          BY ConstantsAssumption, FS_CardinalityType
        <5> QED
          BY <2>1, <5>1, FiringType, OrderedType, Times DEF Rows
      <4>3. db.shipped[o] <= Ordered(o) * Cardinality(Tx)
        BY <4>1, <4>2
      <4> QED
        BY <3>1, <3>3, <4>3
    <3> QED
      BY <3>2, <3>3
  <2> HIDE DEF f
  <2>8. SumFunction(f) = SumFunction(Opening) + received - SumFunction(db.shipped)
    BY <2>2, <2>3, <2>4, <2>5, <2>6
  <2> QED
    BY <2>7, <2>8 DEF GoodsLeaveOnceShipped, f
<1> QED
  BY <1>1, Inductive, PTL

\* A transaction that commits rows: what it leaves, and that it alone ends.
Commits(t, x) ==
    /\ run' = [run EXCEPT ![t] = Idle] /\ db' = x.db /\ Leaves(x, run[t])
    /\ Fresh(run[t]) => Delivers(x, run[t].order)
    /\ run[t].kind = "create" => Fresh(run[t])

\* An order's row changes only in a commit of a request for it.
LEMMA OrdersChangeByCommit ==
    ASSUME IInv, Next, NEW o \in Orders, db'.order[o] # db.order[o]
    PROVE  \E t \in Busy : run[t].order = o /\ \E x : Commits(t, x)
<1>1. CASE \E t \in Tx, kind \in Kinds, p \in Orders : Read(t, kind, p)
  BY <1>1 DEF Read
<1>2. ASSUME NEW t \in Tx, Act(t)
      PROVE  \E u \in Busy : run[u].order = o /\ \E x : Commits(u, x)
  <2>1. t \in Busy /\ run' = [run EXCEPT ![t] = Idle] /\ db' # db
    BY <1>2, ActIs
  <2>2. PICK x : /\ Leaves(x, run[t]) /\ db' = x.db
                 /\ Fresh(run[t]) => Delivers(x, run[t].order)
                 /\ run[t].kind = "create" => Fresh(run[t])
    BY <1>2, <2>1, ActIs
  <2>3. Commits(t, x)
    BY <2>1, <2>2 DEF Commits
  <2>4. o = run[t].order
    BY <2>2 DEF Leaves
  <2> QED
    BY <2>1, <2>3, <2>4
<1>3. CASE \E t \in Tx : Abort(t)
  BY <1>3 DEF Abort
<1>4. ASSUME NEW s \in Skus, NEW w \in Warehouses, Restock(s, w) PROVE FALSE
  BY <1>4 DEF Restock, IInv, Types, Standing, Rows
<1> QED
  BY <1>1, <1>2, <1>3, <1>4 DEF Next

\* The commit that places an order holds every line of it in full, whatever
\* took stock between its reads and its writes.
THEOREM PlacedHolds == Spec => PlacedMeansHeld
<1>1. ASSUME IInv, [Next]_vars
      PROVE  [\A o \in Orders : db.order[o] = "none" /\ db'.order[o] = "open" =>
                 \A i \in MyItems(o) : FullyHeld(db', i)]_vars
  <2> SUFFICES ASSUME Next, NEW o \in Orders, db.order[o] = "none", db'.order[o] = "open"
               PROVE  \A i \in MyItems(o) : FullyHeld(db', i)
    BY <1>1
  <2>1. PICK t \in Busy : run[t].order = o /\ \E x : Commits(t, x)
    BY <1>1, OrdersChangeByCommit
  <2>2. PICK x : Commits(t, x)
    BY <2>1
  <2>3. run[t].kind = "create"
    BY <1>1, <2>1 DEF IInv, Placed, Asked
  <2>4. Delivers(x, o) /\ db' = x.db
    BY <2>1, <2>2, <2>3 DEF Commits
  <2> QED
    BY <2>4 DEF Delivers
<1> QED
  BY <1>1, Inductive, PTL DEF Spec, PlacedMeansHeld

\* The commit that cancels an order leaves it holding, at any warehouse, only
\* what the cancellation could not know of: a hold made, or a line replaced,
\* after it had read the order.
THEOREM CancelFrees == Spec => CancelFreesEverything
<1>1. ASSUME IInv, [Next]_vars
      PROVE  [\A t \in Tx : LET r == run[t] IN
                /\ r # Idle /\ run'[t] = Idle
                /\ db.order[r.order] = "open" /\ db'.order[r.order] = "cancelled"
                => \A cell \in MyHolds(r.order) : Active(db', cell) => Overlooked(r, cell)]_vars
  <2> SUFFICES ASSUME Next, NEW t \in Tx, run[t] # Idle, run'[t] = Idle,
                      db.order[run[t].order] = "open", db'.order[run[t].order] = "cancelled"
               PROVE  \A cell \in MyHolds(run[t].order) :
                         Active(db', cell) => Overlooked(run[t], cell)
    BY <1>1
  <2>1. t \in Busy /\ run[t].order \in Orders /\ run \in [Tx -> Request \cup {Idle}]
    BY <1>1, BusyAsks DEF Busy, IInv, Types, Request
  <2>2. PICK u \in Busy : \E x : Commits(u, x)
    BY <1>1, <2>1, OrdersChangeByCommit
  <2>3. PICK x : Commits(u, x)
    BY <2>2
  <2>4. u = t
    BY <2>1, <2>3 DEF Commits, Busy
  <2> QED
    BY <2>3, <2>4 DEF Commits, Leaves
<1> QED
  BY <1>1, Inductive, PTL DEF Spec, CancelFreesEverything
=============================================================================
