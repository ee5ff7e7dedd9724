--------------------------- MODULE Packing_proofs ---------------------------
(***************************************************************************)
(* Proofs about Packing, for any lists, orders, skus, warehouses, contents *)
(* and number of requests, whatever overlaps: what is off the shelf is     *)
(* bounded by the document and by what requests that lost track of it let  *)
(* go again.  And about SkuPlan, how a list's cells find their SKUs, for   *)
(* any styles, lists and interleaving.                                     *)
(***************************************************************************)
EXTENDS Packing, SkuPlan, FoldFacts

Triples == Lists \X Skus \X Warehouses
Orders3 == Orders \X Skus \X Warehouses

\* The rows while a request is at work: a level may be anything until it is
\* checked.
Drafted == [list : [Lists -> ListRow],
            contents : [Lists \X Skus -> Nat],
            hold : [Triples -> Hold],
            orderHold : [Orders3 -> Hold],
            level : [Cells -> [onHand : Int, reserved : Int]],
            taken : [Triples -> Int]]
Seen == [list : [Lists -> ListRow],
         level : [Cells -> [onHand : Int, reserved : Int]],
         orderHold : [Orders3 -> Hold]]
Progress == [ok : BOOLEAN, moved : BOOLEAN, left : Int, seen : Seen, db : Drafted]

Covered(d) == \A c \in Cells : d.level[c].reserved \in 0 .. d.level[c].onHand

\* y is x but for the level of s at w, and what l took of it.
Turn(x, y, l, s, w, q, r) ==
    LET c == <<s, w>>
        n == [onHand |-> x.db.level[c].onHand + q, reserved |-> x.db.level[c].reserved + r]
    IN  /\ y \in Progress
        /\ y.ok = (x.ok /\ 0 <= n.reserved /\ n.reserved <= n.onHand)
        /\ y.db.level = [x.db.level EXCEPT ![c] = n]
        /\ y.seen.level = [x.seen.level EXCEPT ![c] = n]
        /\ y.db.taken = [x.db.taken EXCEPT ![<<l, s, w>>] = x.db.taken[<<l, s, w>>] - q]
        /\ y.db.list = x.db.list /\ y.db.contents = x.db.contents
        /\ y.seen.list = x.seen.list
        /\ \A e \in Triples : e[1] # l \/ e[2] # s => y.db.hold[e] = x.db.hold[e]

\* y is x but for l's reservations of s, for the orders', and for what is noted
\* beside the rows.
Dress(x, y, l, s) ==
    /\ y \in Progress
    /\ y.ok = x.ok /\ y.seen = x.seen
    /\ y.db.level = x.db.level /\ y.db.taken = x.db.taken
    /\ y.db.list = x.db.list /\ y.db.contents = x.db.contents
    /\ \A e \in Triples : e[1] # l \/ e[2] # s => y.db.hold[e] = x.db.hold[e]

\* A movement turns one level.
LEMMA MovedIs ==
    ASSUME NEW x \in Progress, NEW l \in Lists, NEW s \in Skus, NEW w \in Warehouses,
           NEW q \in Int, NEW r \in Int
    PROVE  LET y == Moved(x, l, s, w, q, r) IN
           /\ Turn(x, y, l, s, w, q, r) /\ y.left = x.left
           /\ y.db.hold = x.db.hold /\ y.db.orderHold = x.db.orderHold
           /\ y.seen.orderHold = x.seen.orderHold
<1> DEFINE c == <<s, w>>
           b == x.db.level[c]
           n == [onHand |-> b.onHand + q, reserved |-> b.reserved + r]
           ok == x.ok /\ 0 <= n.reserved /\ n.reserved <= n.onHand
           e == <<l, s, w>>
           k == x.db.taken[e] - q
           y == [x EXCEPT !.ok = ok, !.db.level[c] = n, !.seen.level[c] = n, !.db.taken[e] = k]
<1>1. c \in Cells /\ e \in Triples
  BY DEF Cells, Triples
<1>2. b \in [onHand : Int, reserved : Int] /\ k \in Int
  BY <1>1 DEF Progress, Drafted
<1>3. n \in [onHand : Int, reserved : Int]
  BY <1>2
<1>4. Moved(x, l, s, w, q, r) = y
  BY DEF Moved
<1>5. ok \in BOOLEAN
  OBVIOUS
<1> HIDE DEF n, b, ok, c, e, k
<1>6. y \in Progress
  BY <1>1, <1>2, <1>3, <1>5 DEF Progress, Drafted, Seen
<1>7. y.ok = ok /\ y.left = x.left
  BY DEF Progress
<1>8. y.db = [x.db EXCEPT !.level[c] = n, !.taken[e] = k]
  BY DEF Progress
<1>9. y.seen = [x.seen EXCEPT !.level[c] = n]
  BY DEF Progress
<1> HIDE DEF y
<1>10. /\ y.db.level = [x.db.level EXCEPT ![c] = n] /\ y.db.taken = [x.db.taken EXCEPT ![e] = k]
       /\ y.db.list = x.db.list /\ y.db.contents = x.db.contents
       /\ y.db.hold = x.db.hold /\ y.db.orderHold = x.db.orderHold
  BY <1>8 DEF Progress, Drafted
<1>11. /\ y.seen.level = [x.seen.level EXCEPT ![c] = n]
       /\ y.seen.list = x.seen.list /\ y.seen.orderHold = x.seen.orderHold
  BY <1>9 DEF Progress, Seen
<1> QED
  BY <1>4, <1>6, <1>7, <1>10, <1>11 DEF n, b, ok, c, e, k, Turn

\* What is written next to a movement does not undo it.
LEMMA TurnDressed ==
    ASSUME NEW x, NEW m, NEW y, NEW l, NEW s, NEW w, NEW q, NEW r,
           Turn(x, m, l, s, w, q, r), Dress(m, y, l, s)
    PROVE  Turn(x, y, l, s, w, q, r)
BY DEF Turn, Dress

\* The writes next to it: a reservation, noted or with what is left to take; an
\* order's reservation.
LEMMA HoldWritten ==
    ASSUME NEW m \in Progress, NEW l \in Lists, NEW s \in Skus, NEW w \in Warehouses,
           NEW g \in Hold
    PROVE  LET y == [m EXCEPT !.db.hold[<<l, s, w>>] = g, !.moved = TRUE] IN
           Dress(m, y, l, s) /\ y.db.hold = [m.db.hold EXCEPT ![<<l, s, w>>] = g]
<1> DEFINE c == <<l, s, w>>
           y == [m EXCEPT !.db.hold[c] = g, !.moved = TRUE]
<1>1. c \in Triples /\ \A e \in Triples : e[1] # l \/ e[2] # s => e # c
  BY DEF Triples
<1> HIDE DEF c
<1>2. y \in Progress
  BY <1>1 DEF Progress, Drafted
<1>3. y.ok = m.ok /\ y.seen = m.seen /\ y.db = [m.db EXCEPT !.hold[c] = g]
  BY DEF Progress
<1> HIDE DEF y
<1>4. /\ y.db.hold = [m.db.hold EXCEPT ![c] = g] /\ y.db.level = m.db.level
      /\ y.db.taken = m.db.taken /\ y.db.list = m.db.list /\ y.db.contents = m.db.contents
  BY <1>3 DEF Progress, Drafted
<1>5. \A e \in Triples : e # c => y.db.hold[e] = m.db.hold[e]
  BY <1>4 DEF Progress, Drafted
<1>6. Dress(m, y, l, s)
  BY <1>1, <1>2, <1>3, <1>4, <1>5 DEF Dress
<1> QED
  BY <1>4, <1>6 DEF y, c

WroteHold(m, y, c, g, n) == y = [m EXCEPT !.db.hold[c] = g, !.left = n]
WroteOrder(m, y, c, g, n) == y = [m EXCEPT !.db.orderHold[c] = g, !.left = n]

LEMMA HoldTaken ==
    ASSUME NEW m \in Progress, NEW l \in Lists, NEW s \in Skus, NEW w \in Warehouses,
           NEW g \in Hold, NEW n \in Int,
           NEW y, WroteHold(m, y, <<l, s, w>>, g, n)
    PROVE  Dress(m, y, l, s) /\ y.left = n
<1> DEFINE c == <<l, s, w>>
           z == [m EXCEPT !.db.hold[c] = g, !.left = n]
<1>0. y = z
  BY DEF WroteHold
<1>1. c \in Triples /\ \A e \in Triples : e[1] # l \/ e[2] # s => e # c
  BY DEF Triples
<1> HIDE DEF c
<1>2. z \in Progress
  BY <1>1 DEF Progress, Drafted
<1>3. z.ok = m.ok /\ z.left = n /\ z.seen = m.seen /\ z.db = [m.db EXCEPT !.hold[c] = g]
  BY DEF Progress
<1> HIDE DEF z
<1>4. /\ z.db.hold = [m.db.hold EXCEPT ![c] = g] /\ z.db.level = m.db.level
      /\ z.db.taken = m.db.taken /\ z.db.list = m.db.list /\ z.db.contents = m.db.contents
  BY <1>3 DEF Progress, Drafted
<1>5. \A e \in Triples : e # c => z.db.hold[e] = m.db.hold[e]
  BY <1>4 DEF Progress, Drafted
<1>6. Dress(m, z, l, s)
  BY <1>1, <1>2, <1>3, <1>4, <1>5 DEF Dress
<1> QED
  BY <1>0, <1>3, <1>6 DEF c

LEMMA OrderHoldTaken ==
    ASSUME NEW m \in Progress, NEW l, NEW s, NEW c \in Orders3, NEW g \in Hold, NEW n \in Int,
           NEW y, WroteOrder(m, y, c, g, n)
    PROVE  Dress(m, y, l, s) /\ y.left = n
<1> DEFINE z == [m EXCEPT !.db.orderHold[c] = g, !.left = n]
<1>0. y = z
  BY DEF WroteOrder
<1>2. z \in Progress
  BY DEF Progress, Drafted
<1>3. /\ z.ok = m.ok /\ z.left = n /\ z.seen = m.seen
      /\ z.db = [m.db EXCEPT !.orderHold[c] = g]
  BY DEF Progress
<1> HIDE DEF z
<1>4. /\ z.db.hold = m.db.hold /\ z.db.level = m.db.level
      /\ z.db.taken = m.db.taken /\ z.db.list = m.db.list /\ z.db.contents = m.db.contents
  BY <1>3 DEF Progress, Drafted
<1>6. Dress(m, z, l, s)
  BY <1>2, <1>3, <1>4 DEF Dress
<1> QED
  BY <1>0, <1>3, <1>6

\* Nothing left to take, or something.
LEMMA LeftWritten ==
    ASSUME NEW m \in Progress, NEW l, NEW s, NEW n \in Int
    PROVE  LET y == [m EXCEPT !.left = n] IN Dress(m, y, l, s) /\ y.left = n
<1> DEFINE y == [m EXCEPT !.left = n]
<1>2. y \in Progress
  BY DEF Progress
<1>3. y.ok = m.ok /\ y.left = n /\ y.seen = m.seen /\ y.db = m.db
  BY DEF Progress
<1> QED
  BY <1>2, <1>3 DEF Dress


-----------------------------------------------------------------------------
(***************************************************************************)
(* What movements of one list keep.                                        *)
(***************************************************************************)
Moves(x, y, l) ==
    /\ y \in Progress
    /\ y.db.list = x.db.list /\ y.db.contents = x.db.contents
    /\ y.seen.list = x.seen.list
    /\ \A e \in Triples : e[1] # l => y.db.taken[e] = x.db.taken[e]
    /\ y.ok => x.ok
    /\ y.ok /\ Covered(x.db) => Covered(y.db)

LEMMA MovesNot == ASSUME NEW x \in Progress, NEW l PROVE Moves(x, x, l)
BY DEF Moves

LEMMA MovesOn ==
    ASSUME NEW x, NEW y, NEW z, NEW l, Moves(x, y, l), Moves(y, z, l)
    PROVE  Moves(x, z, l)
BY DEF Moves

LEMMA TurnMoves ==
    ASSUME NEW x \in Progress, NEW y, NEW l \in Lists, NEW s \in Skus, NEW w \in Warehouses,
           NEW q \in Int, NEW r \in Int, Turn(x, y, l, s, w, q, r)
    PROVE  /\ Moves(x, y, l)
           /\ y.db.taken[<<l, s, w>>] = x.db.taken[<<l, s, w>>] - q
           /\ \A e \in Triples : e # <<l, s, w>> => y.db.taken[e] = x.db.taken[e]
<1> DEFINE c == <<s, w>>
           e == <<l, s, w>>
           b == x.db.level[c]
           n == [onHand |-> b.onHand + q, reserved |-> b.reserved + r]
<1>1. /\ y \in Progress
      /\ y.ok = (x.ok /\ 0 <= n.reserved /\ n.reserved <= n.onHand)
      /\ y.db.level = [x.db.level EXCEPT ![c] = n]
      /\ y.db.taken = [x.db.taken EXCEPT ![e] = x.db.taken[e] - q]
      /\ y.db.list = x.db.list /\ y.db.contents = x.db.contents
      /\ y.seen.list = x.seen.list
  BY DEF Turn
<1>2. c \in Cells /\ e \in Triples
  BY DEF Cells, Triples
<1>3. b \in [onHand : Int, reserved : Int]
  BY <1>2 DEF Progress, Drafted
<1>4. n.onHand \in Int /\ n.reserved \in Int
  BY <1>3
<1>5. /\ y.db.level[c] = n /\ \A d \in Cells : d # c => y.db.level[d] = x.db.level[d]
      /\ y.db.taken[e] = x.db.taken[e] - q
      /\ \A d \in Triples : d # e => y.db.taken[d] = x.db.taken[d]
  <2> HIDE DEF n, c, e
  <2>1. DOMAIN x.db.level = Cells /\ DOMAIN x.db.taken = Triples
    BY DEF Progress, Drafted
  <2> QED
    BY <1>1, <1>2, <2>1
<1>6. \A d \in Triples : d[1] # l => d # e
  BY DEF Triples
<1> HIDE DEF c, e, b, n
<1>7. y.ok /\ Covered(x.db) => Covered(y.db)
  <2> SUFFICES ASSUME y.ok, Covered(x.db), NEW d \in Cells
               PROVE  y.db.level[d].reserved \in 0 .. y.db.level[d].onHand
    BY DEF Covered
  <2>3. 0 <= n.reserved /\ n.reserved <= n.onHand
    BY <1>1
  <2>1. CASE d = c
    BY <1>4, <1>5, <2>1, <2>3
  <2>2. CASE d # c
    BY <1>5, <2>2 DEF Covered
  <2> QED
    BY <2>1, <2>2
<1>8. Moves(x, y, l)
  BY <1>1, <1>5, <1>6, <1>7 DEF Moves
<1> QED
  BY <1>5, <1>8 DEF e

-----------------------------------------------------------------------------
(***************************************************************************)
(* The lines of syncHold and of a release.                                 *)
(***************************************************************************)
LEMMA RowAtIs ==
    ASSUME NEW x, NEW l, NEW s \in Skus, NEW pick \in [Skus -> Warehouses],
           ActiveAt(x, l, s) # {}
    PROVE  HoldAt(x, l, s, pick) \in ActiveAt(x, l, s) /\ HoldAt(x, l, s, pick) \in Warehouses
<1>1. ActiveAt(x, l, s) \in SUBSET Warehouses
  BY DEF ActiveAt
<1>2. HoldAt(x, l, s, pick) \in ActiveAt(x, l, s)
  BY DEF HoldAt
<1> QED
  BY <1>1, <1>2

LEMMA ReleaseLineIs ==
    ASSUME NEW x \in Progress, NEW l \in Lists, NEW s \in Skus, NEW pick \in [Skus -> Warehouses]
    PROVE  LET y == ReleaseLine(x, l, s, pick) IN
           y = x \/ \E w \in Warehouses, r \in Int : Turn(x, y, l, s, w, 0, r)
<1> DEFINE w == HoldAt(x, l, s, pick)
           c == <<l, s, w>>
           free == Outstanding(x.db.hold[c])
           res == -free
           m == Moved(x, l, s, w, 0, res)
           h == m.db.hold[c]
           g == Released(h, free)
           y == [m EXCEPT !.db.hold[c] = g, !.moved = TRUE]
<1>1. ReleaseLine(x, l, s, pick) = IF ActiveAt(x, l, s) = {} \/ free <= 0 THEN x ELSE y
  BY DEF ReleaseLine
<1> HIDE DEF y
<1> SUFFICES ASSUME ActiveAt(x, l, s) # {}, ~(free <= 0)
             PROVE  w \in Warehouses /\ \E r \in Int : Turn(x, y, l, s, w, 0, r)
  BY <1>1
<1>2. w \in Warehouses
  BY RowAtIs
<1>3. c \in Triples /\ x.db.hold[c] \in Hold
  <2> HIDE DEF w
  <2> QED
    BY <1>2 DEF Triples, Progress, Drafted
<1>4. free \in Nat /\ res \in Int
  <2> HIDE DEF c
  <2> QED
    BY <1>3 DEF Outstanding, Hold
<1> HIDE DEF free, res
<1>6. Turn(x, m, l, s, w, 0, res) /\ m.db.hold = x.db.hold /\ m \in Progress
  <2>1. 0 \in Int
    OBVIOUS
  <2>2. Turn(x, m, l, s, w, 0, res) /\ m.db.hold = x.db.hold
    BY <1>2, <1>4, <2>1, MovedIs
  <2> QED
    BY <2>2 DEF Turn
<1> HIDE DEF m
<1>7. g \in Hold
  <2>1. h \in Hold
    BY <1>3, <1>6
  <2> HIDE DEF h
  <2>2. h.released + free \in Nat
    BY <1>4, <2>1 DEF Hold
  <2> QED
    BY <2>1, <2>2 DEF Hold, Released
<1> HIDE DEF h, g
<1>8. Dress(m, y, l, s)
  BY <1>2, <1>6, <1>7, HoldWritten DEF c, y
<1>9. Turn(x, y, l, s, w, 0, res)
  BY ONLY <1>6, <1>8, TurnDressed
<1> QED
  BY <1>2, <1>4, <1>9

\* What a list needs of its own, and what it may get.
LEMMA HoldLineIs ==
    ASSUME NEW x \in Progress, NEW l \in Lists, NEW s \in Skus, NEW pick \in [Skus -> Warehouses],
           x.db.list[l].wh \in Warehouses
    PROVE  LET y == HoldLine(x, l, s, pick)
               w == x.db.list[l].wh
               packed == x.db.contents[<<l, s>>]
               take == Lesser(packed, Positive(Available(x.seen, s, w)))
           IN  /\ y = x \/ \E r \in Int : Turn(x, y, l, s, w, 0, r)
               /\ /\ OrderOf[l] = NoOrder /\ packed > 0
                  /\ \A v \in Warehouses : x.db.hold[<<l, s, v>>].status = "active" =>
                                              x.db.hold[<<l, s, v>>].qty = 0
                  => \/ y = x /\ take = 0
                     \/ Turn(x, y, l, s, w, 0, take)
<1> DEFINE w == x.db.list[l].wh
           packed == x.db.contents[<<l, s>>]
           free == Positive(Available(x.seen, s, w))
           holds == OrderHolds(x, l, s)
           want == packed - Lesser(packed, holds)
           have == IF ActiveAt(x, l, s) = {} THEN 0
                   ELSE x.db.hold[<<l, s, HoldAt(x, l, s, pick)>>].qty
           delta == IF want > have THEN Lesser(want - have, free) ELSE want - have
           c == <<l, s, w>>
           m == Moved(x, l, s, w, 0, delta)
           h == m.db.hold[c]
           g == [h EXCEPT !.qty = have + delta, !.status = "active"]
           y == [m EXCEPT !.db.hold[c] = g, !.moved = TRUE]
<1>1. HoldLine(x, l, s, pick) = IF delta = 0 THEN x ELSE y
  BY DEF HoldLine, UpsertHold
<1>2. packed \in Nat
  BY DEF Progress, Drafted
<1>3. free \in Nat
  <2>1. x.seen.level[<<s, w>>] \in [onHand : Int, reserved : Int]
    BY DEF Progress, Seen, Cells
  <2>2. Available(x.seen, s, w) \in Int
    BY <2>1 DEF Available
  <2> HIDE DEF w
  <2> QED
    BY <2>2 DEF Positive
<1>4. holds \in Int
  <2> DEFINE o == OrderOf[l]
             T == {v \in Warehouses : x.seen.orderHold[<<o, s, v>>].status = "active"}
             f == [v \in T |-> Outstanding(x.seen.orderHold[<<o, s, v>>])]
  <2>1. holds = IF o = NoOrder THEN 0 ELSE SumFunction(f)
    BY DEF OrderHolds
  <2>2. CASE o # NoOrder
    <3>1. o \in Orders
      BY <2>2, PackingAssumption
    <3>2. \A v \in Warehouses : x.seen.orderHold[<<o, s, v>>] \in Hold
      BY <3>1 DEF Progress, Seen, Orders3
    <3>3. \A v \in T : f[v] \in Int
      BY <3>2 DEF Outstanding, Hold
    <3>4. T \in SUBSET Warehouses /\ DOMAIN f = T
      OBVIOUS
    <3>5. IsFiniteSet(T)
      BY <3>4, PackingAssumption, FS_Subset
    <3> HIDE DEF T, f
    <3>6. SumFunction(f) \in Int
      BY <3>3, <3>4, <3>5, SumFunctionIs, SumType
    <3> QED
      BY <2>1, <2>2, <3>6
  <2> HIDE DEF holds
  <2> QED
    BY <2>1, <2>2
<1>5. have \in Nat
  <2>1. CASE ActiveAt(x, l, s) # {}
    <3>1. HoldAt(x, l, s, pick) \in Warehouses
      BY <2>1, RowAtIs
    <3>2. x.db.hold[<<l, s, HoldAt(x, l, s, pick)>>] \in Hold
      BY <3>1 DEF Progress, Drafted, Triples
    <3> QED
      BY <2>1, <3>2 DEF Hold
  <2> QED
    BY <2>1
<1>6. /\ OrderOf[l] = NoOrder /\ packed > 0
      /\ \A v \in Warehouses : x.db.hold[<<l, s, v>>].status = "active" =>
                                  x.db.hold[<<l, s, v>>].qty = 0
      => holds = 0 /\ have = 0
  <2> SUFFICES ASSUME OrderOf[l] = NoOrder,
                      \A v \in Warehouses : x.db.hold[<<l, s, v>>].status = "active" =>
                                               x.db.hold[<<l, s, v>>].qty = 0
               PROVE  holds = 0 /\ have = 0
    OBVIOUS
  <2>1. holds = 0
    BY DEF OrderHolds
  <2>2. CASE ActiveAt(x, l, s) # {}
    <3> DEFINE v == HoldAt(x, l, s, pick)
    <3>1. v \in ActiveAt(x, l, s) /\ v \in Warehouses
      BY <2>2, RowAtIs
    <3> HIDE DEF v
    <3>2. x.db.hold[<<l, s, v>>].status = "active"
      BY <3>1 DEF ActiveAt
    <3> QED
      BY <2>1, <2>2, <3>1, <3>2 DEF v
  <2> QED
    BY <2>1, <2>2
<1> HIDE DEF packed, free, holds, have
<1>7. want \in Nat
  BY <1>2, <1>4 DEF Lesser
<1>8. delta \in Int /\ have + delta \in Nat
  BY <1>3, <1>5, <1>7 DEF Lesser
<1>9. holds = 0 /\ have = 0 => delta = Lesser(packed, free)
  BY <1>2, <1>3 DEF Lesser
<1> HIDE DEF delta, want
<1>10. Turn(x, m, l, s, w, 0, delta) /\ m.db.hold = x.db.hold /\ m \in Progress
  <2>1. 0 \in Int
    OBVIOUS
  <2>2. Turn(x, m, l, s, w, 0, delta) /\ m.db.hold = x.db.hold
    BY <1>8, <2>1, MovedIs
  <2> QED
    BY <2>2 DEF Turn
<1>11. x.db.hold[c] \in Hold
  BY DEF Progress, Drafted, Triples
<1> HIDE DEF m
<1>12. g \in Hold
  <2>1. h \in Hold
    BY <1>10, <1>11
  <2> HIDE DEF h
  <2> QED
    BY <1>8, <2>1 DEF Hold
<1> HIDE DEF h, g
<1>13. Dress(m, y, l, s)
  <2> HIDE DEF w
  <2> QED
    BY <1>10, <1>12, HoldWritten DEF c, w
<1> HIDE DEF y
<1>14. Turn(x, y, l, s, w, 0, delta)
  BY ONLY <1>10, <1>13, TurnDressed
<1>15. CASE delta = 0
  BY <1>1, <1>6, <1>9, <1>15 DEF packed, free
<1>16. CASE delta # 0
  BY <1>1, <1>6, <1>8, <1>9, <1>14, <1>16 DEF packed, free
<1> QED
  BY <1>15, <1>16


-----------------------------------------------------------------------------
(***************************************************************************)
(* deductPacked's three steps each take some of what is left of a line.    *)
(***************************************************************************)
Took(x, y, l, s, w) ==
    /\ Moves(x, y, l) /\ y.left \in Nat
    /\ y.left + y.db.taken[<<l, s, w>>] = x.left + x.db.taken[<<l, s, w>>]
    /\ x.db.taken[<<l, s, w>>] <= y.db.taken[<<l, s, w>>]
    /\ \A e \in Triples : e # <<l, s, w>> => y.db.taken[e] = x.db.taken[e]

LEMMA TookNone ==
    ASSUME NEW x \in Progress, x.left \in Nat, NEW l \in Lists, NEW s \in Skus, NEW w \in Warehouses
    PROVE  Took(x, x, l, s, w)
<1>1. x.db.taken[<<l, s, w>>] \in Int
  BY DEF Progress, Drafted, Triples
<1> QED
  BY <1>1, MovesNot DEF Took

LEMMA TookOn ==
    ASSUME NEW x \in Progress, NEW y \in Progress, NEW z \in Progress,
           NEW l \in Lists, NEW s \in Skus, NEW w \in Warehouses,
           Took(x, y, l, s, w), Took(y, z, l, s, w)
    PROVE  Took(x, z, l, s, w)
<1> DEFINE a == x.db.taken[<<l, s, w>>]
           b == y.db.taken[<<l, s, w>>]
           c == z.db.taken[<<l, s, w>>]
<1>1. a \in Int /\ b \in Int /\ c \in Int
  BY DEF Progress, Drafted, Triples
<1>2. Moves(x, y, l) /\ Moves(y, z, l)
  BY DEF Took
<1>3. Moves(x, z, l)
  BY ONLY <1>2, MovesOn
<1>4. z.left \in Nat /\ y.left + b = x.left + a /\ z.left + c = y.left + b /\ a <= b /\ b <= c
  BY DEF Took
<1>5. \A e \in Triples : e # <<l, s, w>> => z.db.taken[e] = x.db.taken[e]
  BY DEF Took
<1> HIDE DEF a, b, c
<1>6. z.left + c = x.left + a /\ a <= c
  BY <1>1, <1>4
<1> QED
  BY <1>3, <1>4, <1>5, <1>6 DEF Took, a, c

LEMMA TurnTook ==
    ASSUME NEW x \in Progress, x.left \in Nat, NEW y, NEW l \in Lists, NEW s \in Skus,
           NEW w \in Warehouses, NEW n \in Nat, n <= x.left, NEW q \in Int, q = -n,
           NEW r \in Int, Turn(x, y, l, s, w, q, r), y.left = x.left - n
    PROVE  Took(x, y, l, s, w)
<1>1. x.db.taken[<<l, s, w>>] \in Int
  BY DEF Progress, Drafted, Triples
<1>2. /\ Moves(x, y, l)
      /\ y.db.taken[<<l, s, w>>] = x.db.taken[<<l, s, w>>] - q
      /\ \A e \in Triples : e # <<l, s, w>> => y.db.taken[e] = x.db.taken[e]
  <2>1. /\ x \in Progress /\ l \in Lists /\ s \in Skus /\ w \in Warehouses
        /\ q \in Int /\ r \in Int /\ Turn(x, y, l, s, w, q, r)
    OBVIOUS
  <2> QED
    BY ONLY <2>1, TurnMoves, ZenonT(60)
<1> QED
  BY <1>1, <1>2 DEF Took

LEMMA SettledIs ==
    ASSUME NEW h \in Hold, NEW n \in Nat
    PROVE  Settled(h, n) \in Hold
<1> DEFINE k == h.fulfilled + n
           z == IF k + h.released >= h.qty THEN "fulfilled" ELSE "active"
<1>1. k \in Nat /\ z \in {"none", "active", "fulfilled", "released"}
  BY DEF Hold
<1>2. Settled(h, n) = [h EXCEPT !.fulfilled = k, !.status = z]
  BY DEF Settled
<1> HIDE DEF k, z
<1> QED
  BY <1>1, <1>2 DEF Hold

LEMMA TakeOwnTook ==
    ASSUME NEW x \in Progress, x.left \in Nat, NEW l \in Lists, NEW s \in Skus,
           NEW pick \in [Skus -> Warehouses], x.db.list[l].wh \in Warehouses
    PROVE  Took(x, TakeOwn(x, l, s, pick), l, s, x.db.list[l].wh)
<1> DEFINE w == x.db.list[l].wh
           v == HoldAt(x, l, s, pick)
           n == Lesser(x.left, Positive(Outstanding(x.db.hold[<<l, s, v>>])))
           q == -n
           m == Moved(x, l, s, w, q, q)
           h == m.db.hold[<<l, s, v>>]
           g == Settled(h, n)
           k == m.left - n
           y == [m EXCEPT !.db.hold[<<l, s, v>>] = g, !.left = k]
<1>1. TakeOwn(x, l, s, pick) = IF ActiveAt(x, l, s) = {} \/ n = 0 THEN x ELSE y
  BY DEF TakeOwn
<1>2. CASE ActiveAt(x, l, s) = {} \/ n = 0
  BY <1>1, <1>2, TookNone
<1>3. CASE ~(ActiveAt(x, l, s) = {} \/ n = 0)
  <2>1. v \in Warehouses
    BY <1>3, RowAtIs
  <2> HIDE DEF v
  <2>2. x.db.hold[<<l, s, v>>] \in Hold
    BY <2>1 DEF Progress, Drafted, Triples
  <2>3. n \in Nat /\ n <= x.left /\ q \in Int
    BY <2>2 DEF Outstanding, Hold, Lesser, Positive
  <2>4. q = -n
    OBVIOUS
  <2> HIDE DEF n, q
  <2>5. Turn(x, m, l, s, w, q, q) /\ m.db.hold = x.db.hold /\ m.left = x.left
    BY <2>3, MovedIs
  <2>6. m \in Progress
    BY <2>5 DEF Turn
  <2> HIDE DEF m
  <2>7. g \in Hold
    BY <2>2, <2>3, <2>5, SettledIs
  <2>8. k = x.left - n /\ k \in Int
    BY <2>3, <2>5
  <2> HIDE DEF h, g, k
  <2>9. Dress(m, y, l, s) /\ y.left = k
    <3>1. l \in Lists /\ s \in Skus /\ WroteHold(m, y, <<l, s, v>>, g, k)
      BY DEF WroteHold
    <3> HIDE DEF y
    <3> QED
      BY ONLY <2>1, <2>6, <2>7, <2>8, <3>1, HoldTaken
  <2> HIDE DEF y
  <2>10. Turn(x, y, l, s, w, q, q)
    BY ONLY <2>5, <2>9, TurnDressed
  <2>11. Took(x, y, l, s, w)
    BY <2>3, <2>4, <2>8, <2>9, <2>10, TurnTook
  <2> QED
    BY <1>1, <1>3, <2>11 DEF w
<1> QED
  BY <1>2, <1>3

LEMMA TakeOrderTook ==
    ASSUME NEW x \in Progress, x.left \in Nat, NEW l \in Lists, NEW s \in Skus,
           NEW c \in Orders3, x.db.list[l].wh \in Warehouses
    PROVE  Took(x, TakeOrder(x, l, s, c), l, s, x.db.list[l].wh)
<1> DEFINE w == x.db.list[l].wh
           h == x.seen.orderHold[c]
           n == Lesser(x.left, Positive(Outstanding(h)))
           q == -n
           m == Moved(x, l, s, w, q, q)
           g == Settled(h, n)
           k == m.left - n
           y == [m EXCEPT !.db.orderHold[c] = g, !.left = k]
<1>1. TakeOrder(x, l, s, c) = IF h.status # "active" \/ n <= 0 THEN x ELSE y
  BY DEF TakeOrder
<1>2. CASE h.status # "active" \/ n <= 0
  BY <1>1, <1>2, TookNone
<1>3. CASE ~(h.status # "active" \/ n <= 0)
  <2>2. h \in Hold
    BY DEF Progress, Seen
  <2> HIDE DEF h
  <2>3. n \in Nat /\ n <= x.left /\ q \in Int
    BY <2>2 DEF Outstanding, Hold, Lesser, Positive
  <2>4. q = -n
    OBVIOUS
  <2> HIDE DEF n, q
  <2>5. Turn(x, m, l, s, w, q, q) /\ m.left = x.left
    BY <2>3, MovedIs
  <2>6. m \in Progress
    BY <2>5 DEF Turn
  <2> HIDE DEF m
  <2>7. g \in Hold
    BY <2>2, <2>3, SettledIs
  <2>8. k = x.left - n /\ k \in Int
    BY <2>3, <2>5
  <2> HIDE DEF g, k
  <2>9. Dress(m, y, l, s) /\ y.left = k
    <3>1. c \in Orders3 /\ WroteOrder(m, y, c, g, k)
      BY DEF WroteOrder
    <3> HIDE DEF y
    <3> QED
      BY ONLY <2>6, <2>7, <2>8, <3>1, OrderHoldTaken
  <2> HIDE DEF y
  <2>10. Turn(x, y, l, s, w, q, q)
    BY ONLY <2>5, <2>9, TurnDressed
  <2>11. Took(x, y, l, s, w)
    BY <2>3, <2>4, <2>8, <2>9, <2>10, TurnTook
  <2> QED
    BY <1>1, <1>3, <2>11 DEF w
<1> QED
  BY <1>2, <1>3

LEMMA TakeRestTook ==
    ASSUME NEW x \in Progress, x.left \in Nat, NEW l \in Lists, NEW s \in Skus,
           x.db.list[l].wh \in Warehouses
    PROVE  LET y == TakeRest(x, l, s) IN Took(x, y, l, s, x.db.list[l].wh) /\ y.left = 0
<1> DEFINE w == x.db.list[l].wh
           n == x.left
           q == -n
           m == Moved(x, l, s, w, q, 0)
           y == [m EXCEPT !.left = 0]
<1>1. TakeRest(x, l, s) = IF n <= 0 THEN x ELSE y
  BY DEF TakeRest
<1>2. CASE n <= 0
  BY <1>1, <1>2, TookNone
<1>3. CASE ~(n <= 0)
  <2>3. n \in Nat /\ n <= x.left /\ q \in Int /\ 0 \in Int
    OBVIOUS
  <2>4. q = -n /\ 0 = x.left - n
    OBVIOUS
  <2> HIDE DEF q
  <2>5. Turn(x, m, l, s, w, q, 0)
    BY <2>3, MovedIs
  <2>6. m \in Progress
    BY <2>5 DEF Turn
  <2> HIDE DEF m
  <2>9. Dress(m, y, l, s) /\ y.left = 0
    BY <2>3, <2>6, LeftWritten
  <2> HIDE DEF y
  <2>10. Turn(x, y, l, s, w, q, 0)
    BY ONLY <2>5, <2>9, TurnDressed
  <2> HIDE DEF n
  <2>11. Took(x, y, l, s, w)
    BY <2>3, <2>4, <2>9, <2>10, TurnTook
  <2> QED
    BY <1>1, <1>3, <2>9, <2>11 DEF w
<1> QED
  BY <1>2, <1>3


-----------------------------------------------------------------------------
(***************************************************************************)
(* deductPacked takes a line from the list's own hold, the order's and the *)
(* shelf, in all no more than the cartons hold.                            *)
(***************************************************************************)
LEMMA TriplesFinite ==
    ASSUME NEW A, NEW B, NEW E, IsFiniteSet(A), IsFiniteSet(B), IsFiniteSet(E)
    PROVE  IsFiniteSet(A \X B \X E)
<1> DEFINE P == (A \X B) \X E
           T == A \X B \X E
           f == [p \in P |-> <<p[1][1], p[1][2], p[2]>>]
<1>1. IsFiniteSet(P)
  BY FS_Product
<1>2. f \in [P -> T]
  OBVIOUS
<1>3. ASSUME NEW c \in T PROVE \E p \in P : f[p] = c
  <2>1. c[1] \in A /\ c[2] \in B /\ c[3] \in E /\ c = <<c[1], c[2], c[3]>>
    OBVIOUS
  <2> DEFINE p == <<<<c[1], c[2]>>, c[3]>>
  <2>2. p \in P /\ f[p] = <<c[1], c[2], c[3]>>
    BY <2>1
  <2> QED
    BY <2>1, <2>2
<1> HIDE DEF P, T, f
<1>4. f \in Surjection(P, T)
  BY <1>2, <1>3 DEF Surjection
<1>5. IsFiniteSet(T)
  BY <1>1, <1>4, FS_Surjection
<1> QED
  BY <1>5 DEF T

Finite == IsFiniteSet(Skus) /\ IsFiniteSet(Warehouses) /\ IsFiniteSet(Cells)

LEMMA AllFinite == Finite
<1>1. IsFiniteSet(Skus) /\ IsFiniteSet(Warehouses)
  BY PackingAssumption
<1> QED
  BY <1>1, FS_Product DEF Finite, Cells

OrderTaking(x, l, s) == {v \in Progress : Took(x, v, l, s, x.db.list[l].wh)}

LEMMA TakeOrderStep ==
    ASSUME NEW x \in Progress, NEW l \in Lists, NEW s \in Skus, NEW c \in Orders3,
           x.db.list[l].wh \in Warehouses, NEW v \in OrderTaking(x, l, s)
    PROVE  TakeOrder(v, l, s, c) \in OrderTaking(x, l, s)
<1> DEFINE w == x.db.list[l].wh
           y == TakeOrder(v, l, s, c)
<1>1. v \in Progress /\ Took(x, v, l, s, w) /\ v.left \in Nat /\ v.db.list[l].wh = w
  BY DEF OrderTaking, Took, Moves
<1>2. Took(v, y, l, s, w)
  <2>1. v.db.list[l].wh \in Warehouses
    BY <1>1
  <2>2. Took(v, y, l, s, v.db.list[l].wh)
    BY <1>1, <2>1, TakeOrderTook
  <2> QED
    BY <1>1, <2>2
<1>3. y \in Progress
  BY <1>2 DEF Took, Moves
<1>4. l \in Lists /\ s \in Skus /\ w \in Warehouses /\ x \in Progress
  OBVIOUS
<1> HIDE DEF w, y
<1>5. Took(x, y, l, s, w)
  BY ONLY <1>1, <1>2, <1>3, <1>4, TookOn
<1> QED
  BY <1>3, <1>5 DEF OrderTaking, w, y

OrderRows(l, s) == {c \in Orders \X {s} \X Warehouses : c[1] = OrderOf[l]}

LEMMA TakeOrdersTook ==
    ASSUME NEW x \in Progress, x.left \in Nat, NEW l \in Lists, NEW s \in Skus,
           x.db.list[l].wh \in Warehouses
    PROVE  FoldSet(LAMBDA c, acc : TakeOrder(acc, l, s, c), x, OrderRows(l, s))
               \in OrderTaking(x, l, s)
<1> DEFINE S == OrderRows(l, s)
           F == [p \in S \X Progress |-> TakeOrder(p[2], l, s, p[1])]
           C == [T \in SUBSET S |-> Picked(T)]
           J == [T \in SUBSET S |-> OrderTaking(x, l, s)]
           Rule(h) == [T \in SUBSET S |-> IF T = {} THEN x
                          ELSE TakeOrder(h[T \ {Picked(T)}], l, s, Picked(T))]
           h == CHOOSE h : h = Rule(h)
           y == h[S]
<1>1. IsFiniteSet(S) /\ S \in SUBSET Orders3
  <2>1. IsFiniteSet(Orders) /\ IsFiniteSet({s}) /\ IsFiniteSet(Warehouses)
    BY PackingAssumption, FS_Singleton
  <2>2. IsFiniteSet(Orders \X {s} \X Warehouses)
    BY <2>1, TriplesFinite
  <2> QED
    BY <2>2, FS_Subset DEF OrderRows, Orders3
<1>2. \A T \in SUBSET S : T # {} => C[T] \in T /\ C[T] = Picked(T)
  BY DEF Picked
<1>3. x \in J[{}]
  BY TookNone DEF OrderTaking
<1>4. ASSUME NEW T \in SUBSET S, T # {}, NEW v \in J[T \ {C[T]}]
      PROVE  /\ F[<<C[T], v>>] = TakeOrder(v, l, s, Picked(T))
             /\ TakeOrder(v, l, s, Picked(T)) \in J[T]
  <2>1. C[T] \in S /\ C[T] = Picked(T) /\ T \ {C[T]} \in SUBSET S /\ C[T] \in Orders3
    BY <1>1, <1>2, <1>4
  <2>2. v \in OrderTaking(x, l, s) /\ v \in Progress
    BY <1>4, <2>1 DEF OrderTaking
  <2>3. TakeOrder(v, l, s, Picked(T)) \in OrderTaking(x, l, s)
    BY <2>1, <2>2, TakeOrderStep
  <2> QED
    BY <2>1, <2>2, <2>3
<1>5. FoldSet(LAMBDA c, acc : TakeOrder(acc, l, s, c), x, OrderRows(l, s)) = y
  BY DEF FoldSet, MapThenFoldSet, Picked
<1> HIDE DEF S, F, C, J, Rule
<1>6. PICK g : Follows(g, S, x, F, C) /\ \A T \in SUBSET S : g[T] \in J[T]
  <2>1. \A T \in SUBSET S : T # {} => \A v \in J[T \ {C[T]}] : F[<<C[T], v>>] \in J[T]
    BY <1>4
  <2>2. \A T \in SUBSET S : T # {} => C[T] \in T
    BY <1>2
  <2> QED
    BY ONLY <1>1, <1>3, <2>1, <2>2, FoldMeets
<1>7. g = Rule(g)
  <2>1. \A T \in SUBSET S : T # {} =>
            F[<<C[T], g[T \ {C[T]}]>>] = TakeOrder(g[T \ {Picked(T)}], l, s, Picked(T))
    BY <1>2, <1>4, <1>6
  <2>2. g = [T \in SUBSET S |-> IF T = {} THEN x ELSE F[<<C[T], g[T \ {C[T]}]>>]]
    BY <1>6 DEF Follows
  <2> QED
    BY <2>1, <2>2 DEF Rule
<1>8. h = Rule(h)
  BY <1>7
<1> HIDE DEF h
<1>9. h[{}] = x /\ \A T \in SUBSET S : T # {} =>
                       h[T] = TakeOrder(h[T \ {Picked(T)}], l, s, Picked(T))
  BY <1>8 DEF Rule
<1>10. h[{}] \in J[{}]
  BY <1>3, <1>9
<1>11. ASSUME NEW T \in SUBSET S, T # {}, h[T \ {C[T]}] \in J[T \ {C[T]}]
       PROVE  h[T] \in J[T]
  <2>1. TakeOrder(h[T \ {C[T]}], l, s, Picked(T)) \in J[T]
    BY <1>4, <1>11
  <2> QED
    BY <1>2, <1>9, <1>11, <2>1
<1>12. y \in OrderTaking(x, l, s)
  <2>2. \A T \in SUBSET S : T # {} => C[T] \in T
    BY <1>2
  <2>1. h[S] \in J[S]
    BY ONLY <1>1, <2>2, <1>10, <1>11, FoldKeeps
  <2> QED
    BY <2>1 DEF J
<1> QED
  BY <1>5, <1>12


NoneTaken(x, l) == \A s \in Skus, w \in Warehouses : x.db.taken[<<l, s, w>>] = 0

\* The skus of D have been taken off the shelf.
Deducting(x, l, D) ==
    {v \in Progress :
        /\ Moves(x, v, l)
        /\ \A s \in Skus, w \in Warehouses :
              IF s \in D /\ w = x.db.list[l].wh
              THEN v.db.taken[<<l, s, w>>] - x.db.taken[<<l, s, w>>]
                      \in 0 .. x.db.contents[<<l, s>>]
              ELSE v.db.taken[<<l, s, w>>] = x.db.taken[<<l, s, w>>]}

LEMMA DeductLineTook ==
    ASSUME NEW x \in Progress, NEW l \in Lists, NEW s \in Skus,
           NEW pick \in [Skus -> Warehouses], x.db.list[l].wh \in Warehouses
    PROVE  LET y == DeductLine(x, l, s, pick) IN
           /\ y \in Progress /\ Moves(x, y, l)
           /\ y.db.taken[<<l, s, x.db.list[l].wh>>] - x.db.taken[<<l, s, x.db.list[l].wh>>]
                 \in 0 .. x.db.contents[<<l, s>>]
           /\ \A e \in Triples : e # <<l, s, x.db.list[l].wh>> => y.db.taken[e] = x.db.taken[e]
<1> DEFINE w == x.db.list[l].wh
           k == <<l, s, w>>
           packed == x.db.contents[<<l, s>>]
           hand == x.seen.level[<<s, w>>].onHand
           take == Lesser(packed, Positive(hand))
           line == [x EXCEPT !.left = take]
           own == TakeOwn(line, l, s, pick)
           order == FoldSet(LAMBDA c, acc : TakeOrder(acc, l, s, c), own, OrderRows(l, s))
           y == TakeRest(order, l, s)
<1>1. DeductLine(x, l, s, pick) = y
  BY DEF DeductLine, OrderRows
<1>2. packed \in Nat /\ hand \in Int
  BY DEF Progress, Drafted, Seen, Cells
<1> HIDE DEF packed, hand
<1>3. take \in 0 .. packed
  BY <1>2 DEF Lesser, Positive
<1> HIDE DEF take
<1>4. Dress(x, line, l, s) /\ line.left = take
  <2>1. take \in Int
    BY <1>2, <1>3
  <2> QED
    BY <2>1, LeftWritten
<1> HIDE DEF line
<1>5. /\ line \in Progress /\ line.left \in Nat /\ line.db.list[l].wh = w
      /\ line.db.taken = x.db.taken /\ Moves(x, line, l)
  <2>1. /\ line \in Progress /\ line.left \in Nat /\ line.db.list[l].wh = w
        /\ line.db.taken = x.db.taken
    BY <1>2, <1>3, <1>4 DEF Dress
  <2>2. Moves(x, line, l)
    BY <1>4 DEF Dress, Moves, Covered
  <2> QED
    BY <2>1, <2>2
<1>6. Took(line, own, l, s, w)
  BY <1>5, TakeOwnTook
<1> HIDE DEF own
<1>7. own \in Progress /\ own.left \in Nat /\ own.db.list[l].wh = w
  BY <1>5, <1>6 DEF Took, Moves
<1>8. order \in Progress /\ Took(own, order, l, s, w)
  BY <1>7, TakeOrdersTook DEF OrderTaking
<1> HIDE DEF order
<1>9. order.left \in Nat /\ order.db.list[l].wh = w
  BY <1>7, <1>8 DEF Took, Moves
<1>10. Took(order, y, l, s, w) /\ y.left = 0
  BY <1>8, <1>9, TakeRestTook
<1> HIDE DEF y
<1>11. Took(line, y, l, s, w) /\ y \in Progress
  <2>1. y \in Progress
    BY <1>10 DEF Took, Moves
  <2>2. l \in Lists /\ s \in Skus /\ w \in Warehouses
    OBVIOUS
  <2> HIDE DEF w
  <2>3. Took(line, order, l, s, w)
    BY ONLY <1>5, <1>6, <1>7, <1>8, <2>2, TookOn
  <2>4. Took(line, y, l, s, w)
    BY ONLY <1>5, <1>8, <1>10, <2>1, <2>2, <2>3, TookOn
  <2> QED
    BY <2>1, <2>4
<1>12. y.db.taken[k] - x.db.taken[k] = take
  <2>1. y.db.taken[k] \in Int /\ x.db.taken[k] \in Int
    BY <1>11 DEF Progress, Drafted, Triples
  <2>2. y.left + y.db.taken[k] = line.left + line.db.taken[k]
    BY <1>11 DEF Took
  <2>3. line.db.taken[k] = x.db.taken[k]
    BY <1>5
  <2> HIDE DEF k
  <2> QED
    BY <1>2, <1>3, <1>4, <1>10, <2>1, <2>2, <2>3
<1>13. \A e \in Triples : e # k => y.db.taken[e] = x.db.taken[e]
  BY <1>5, <1>11 DEF Took
<1>14. Moves(x, y, l)
  <2>1. Moves(x, line, l) /\ Moves(line, y, l)
    BY <1>5, <1>11 DEF Took
  <2> QED
    BY ONLY <2>1, MovesOn
<1> QED
  BY <1>1, <1>3, <1>11, <1>12, <1>13, <1>14 DEF packed

LEMMA DeductLineStep ==
    ASSUME NEW x \in Progress, NEW l \in Lists, NEW pick \in [Skus -> Warehouses],
           x.db.list[l].wh \in Warehouses,
           NEW T \in SUBSET Skus, NEW s \in T, NEW v \in Deducting(x, l, T \ {s})
    PROVE  DeductLine(v, l, s, pick) \in Deducting(x, l, T)
<1> DEFINE w == x.db.list[l].wh
           y == DeductLine(v, l, s, pick)
<1>1. v \in Progress /\ Moves(x, v, l) /\ s \in Skus
  BY DEF Deducting
<1>2. v.db.list = x.db.list /\ v.db.contents = x.db.contents
  BY <1>1 DEF Moves
<1>3. v.db.taken[<<l, s, w>>] = x.db.taken[<<l, s, w>>]
  BY <1>1 DEF Deducting
<1>4. /\ y \in Progress /\ Moves(v, y, l)
      /\ y.db.taken[<<l, s, w>>] - x.db.taken[<<l, s, w>>] \in 0 .. x.db.contents[<<l, s>>]
      /\ \A e \in Triples : e # <<l, s, w>> => y.db.taken[e] = v.db.taken[e]
  <2>1. v \in Progress /\ l \in Lists /\ s \in Skus /\ pick \in [Skus -> Warehouses]
    BY <1>1
  <2>2. v.db.list[l].wh \in Warehouses
    BY <1>2
  <2>3. /\ y \in Progress /\ Moves(v, y, l)
        /\ y.db.taken[<<l, s, v.db.list[l].wh>>] - v.db.taken[<<l, s, v.db.list[l].wh>>]
              \in 0 .. v.db.contents[<<l, s>>]
        /\ \A e \in Triples : e # <<l, s, v.db.list[l].wh>> => y.db.taken[e] = v.db.taken[e]
    BY ONLY <2>1, <2>2, DeductLineTook
  <2> HIDE DEF y
  <2> QED
    BY <1>2, <1>3, <2>3
<1>5. Moves(x, y, l)
  BY ONLY <1>1, <1>4, MovesOn
<1> HIDE DEF y
<1>6. ASSUME NEW r \in Skus, NEW u \in Warehouses
      PROVE  IF r \in T /\ u = w
             THEN y.db.taken[<<l, r, u>>] - x.db.taken[<<l, r, u>>] \in 0 .. x.db.contents[<<l, r>>]
             ELSE y.db.taken[<<l, r, u>>] = x.db.taken[<<l, r, u>>]
  <2>1. <<l, r, u>> \in Triples
    BY DEF Triples
  <2>2. IF r \in T \ {s} /\ u = w
        THEN v.db.taken[<<l, r, u>>] - x.db.taken[<<l, r, u>>] \in 0 .. x.db.contents[<<l, r>>]
        ELSE v.db.taken[<<l, r, u>>] = x.db.taken[<<l, r, u>>]
    BY DEF Deducting
  <2>3. CASE r = s /\ u = w
    BY <1>4, <2>3
  <2>4. CASE ~(r = s /\ u = w)
    <3>1. <<l, r, u>> # <<l, s, w>>
      BY <2>4
    <3>2. y.db.taken[<<l, r, u>>] = v.db.taken[<<l, r, u>>]
      BY <1>4, <2>1, <3>1
    <3> QED
      BY <2>2, <2>4, <3>2
  <2> QED
    BY <2>3, <2>4
<1> QED
  BY <1>4, <1>5, <1>6 DEF Deducting, y

LEMMA DeductPackedIs ==
    ASSUME NEW x \in Progress, NEW l \in Lists, NEW pick \in [Skus -> Warehouses],
           x.db.list[l].wh \in Warehouses
    PROVE  DeductPacked(x, l, pick) \in Deducting(x, l, Skus)
<1> DEFINE S == Skus
           F == [p \in S \X Progress |-> DeductLine(p[2], l, p[1], pick)]
           C == [T \in SUBSET S |-> Picked(T)]
           J == [T \in SUBSET S |-> Deducting(x, l, T)]
           Rule(h) == [T \in SUBSET S |-> IF T = {} THEN x
                          ELSE DeductLine(h[T \ {Picked(T)}], l, Picked(T), pick)]
           h == CHOOSE h : h = Rule(h)
           y == h[S]
<1>1. IsFiniteSet(S)
  BY AllFinite DEF Finite
<1>2. \A T \in SUBSET S : T # {} => C[T] \in T /\ C[T] = Picked(T)
  BY DEF Picked
<1>3. x \in J[{}]
  BY MovesNot DEF Deducting
<1>4. ASSUME NEW T \in SUBSET S, T # {}, NEW v \in J[T \ {C[T]}]
      PROVE  /\ F[<<C[T], v>>] = DeductLine(v, l, Picked(T), pick)
             /\ DeductLine(v, l, Picked(T), pick) \in J[T]
  <2>1. C[T] \in T /\ C[T] = Picked(T) /\ T \ {C[T]} \in SUBSET S
    BY <1>2, <1>4
  <2>2. v \in Deducting(x, l, T \ {Picked(T)}) /\ v \in Progress
    BY <1>4, <2>1 DEF Deducting
  <2>3. DeductLine(v, l, Picked(T), pick) \in Deducting(x, l, T)
    BY <2>1, <2>2, DeductLineStep
  <2> QED
    BY <2>1, <2>2, <2>3
<1>5. FoldSet(LAMBDA s, acc : DeductLine(acc, l, s, pick), x, Skus) = y
  BY DEF FoldSet, MapThenFoldSet, Picked
<1> HIDE DEF S, F, C, J, Rule
<1>6. PICK g : Follows(g, S, x, F, C) /\ \A T \in SUBSET S : g[T] \in J[T]
  <2>1. \A T \in SUBSET S : T # {} => \A v \in J[T \ {C[T]}] : F[<<C[T], v>>] \in J[T]
    BY <1>4
  <2>2. \A T \in SUBSET S : T # {} => C[T] \in T
    BY <1>2
  <2> QED
    BY ONLY <1>1, <1>3, <2>1, <2>2, FoldMeets
<1>7. g = Rule(g)
  <2>1. \A T \in SUBSET S : T # {} =>
            F[<<C[T], g[T \ {C[T]}]>>] = DeductLine(g[T \ {Picked(T)}], l, Picked(T), pick)
    BY <1>2, <1>4, <1>6
  <2>2. g = [T \in SUBSET S |-> IF T = {} THEN x ELSE F[<<C[T], g[T \ {C[T]}]>>]]
    BY <1>6 DEF Follows
  <2> QED
    BY <2>1, <2>2 DEF Rule
<1>8. h = Rule(h)
  BY <1>7
<1> HIDE DEF h
<1>9. h[{}] = x /\ \A T \in SUBSET S : T # {} =>
                       h[T] = DeductLine(h[T \ {Picked(T)}], l, Picked(T), pick)
  BY <1>8 DEF Rule
<1>10. h[{}] \in J[{}]
  BY <1>3, <1>9
<1>11. ASSUME NEW T \in SUBSET S, T # {}, h[T \ {C[T]}] \in J[T \ {C[T]}]
       PROVE  h[T] \in J[T]
  <2>1. DeductLine(h[T \ {C[T]}], l, Picked(T), pick) \in J[T]
    BY <1>4, <1>11
  <2> QED
    BY <1>2, <1>9, <1>11, <2>1
<1>12. y \in Deducting(x, l, S)
  <2>2. \A T \in SUBSET S : T # {} => C[T] \in T
    BY <1>2
  <2>1. h[S] \in J[S]
    BY ONLY <1>1, <2>2, <1>10, <1>11, FoldKeeps
  <2> QED
    BY <2>1 DEF J
<1> QED
  <2>1. x.db.list[l].wh # NoWarehouse
    BY PackingAssumption
  <2>2. S = Skus
    BY DEF S
  <2> QED
    BY <1>5, <1>12, <2>1, <2>2 DEF DeductPacked


-----------------------------------------------------------------------------
(***************************************************************************)
(* What reopen and remove put back.                                        *)
(***************************************************************************)
TakenAt(x, l, c) == x.db.taken[<<l, c[1], c[2]>>]

\* The cells of D have what was taken back on the shelf, and were read so.
Restoring(x, l, D) ==
    {v \in Progress :
        /\ Moves(x, v, l)
        /\ \A c \in Cells :
              IF c \in D
              THEN /\ TakenAt(v, l, c) = 0
                   /\ v.db.level[c].onHand = x.db.level[c].onHand + TakenAt(x, l, c)
                   /\ v.db.level[c].reserved = x.db.level[c].reserved
                   /\ v.seen.level[c] = v.db.level[c]
              ELSE /\ TakenAt(v, l, c) = TakenAt(x, l, c)
                   /\ v.db.level[c] = x.db.level[c] /\ v.seen.level[c] = x.seen.level[c]}

LEMMA PutBackStep ==
    ASSUME NEW x \in Progress, NEW l \in Lists, NEW T \in SUBSET Cells, NEW c \in T,
           NEW v \in Restoring(x, l, T \ {c})
    PROVE  Moved(v, l, c[1], c[2], v.db.taken[<<l, c[1], c[2]>>], 0) \in Restoring(x, l, T)
<1> DEFINE s == c[1]
           w == c[2]
           e == <<l, s, w>>
           q == v.db.taken[e]
           b == v.db.level[<<s, w>>]
           n == [onHand |-> b.onHand + q, reserved |-> b.reserved + 0]
           y == Moved(v, l, s, w, q, 0)
<1>1. v \in Progress /\ Moves(x, v, l)
  BY DEF Restoring
<1>2. s \in Skus /\ w \in Warehouses /\ c = <<s, w>> /\ e \in Triples /\ l \in Lists
  BY DEF Cells, Triples
<1>3. q \in Int /\ 0 \in Int /\ b \in [onHand : Int, reserved : Int]
  BY <1>1, <1>2 DEF Progress, Drafted, Cells
<1> HIDE DEF s, w
<1>4. Turn(v, y, l, s, w, q, 0)
  <2> HIDE DEF q
  <2> QED
    BY ONLY <1>1, <1>2, <1>3, MovedIs
<1> HIDE DEF y
<1>5. /\ Moves(v, y, l) /\ y.db.taken[e] = q - q
      /\ \A d \in Triples : d # e => y.db.taken[d] = v.db.taken[d]
  <2> HIDE DEF q
  <2>1. /\ Moves(v, y, l)
        /\ y.db.taken[<<l, s, w>>] = v.db.taken[<<l, s, w>>] - q
        /\ \A d \in Triples : d # <<l, s, w>> => y.db.taken[d] = v.db.taken[d]
    BY ONLY <1>1, <1>2, <1>3, <1>4, TurnMoves
  <2> QED
    BY <2>1 DEF q
<1>6. /\ y.db.level = [v.db.level EXCEPT ![c] = n]
      /\ y.seen.level = [v.seen.level EXCEPT ![c] = n]
  BY <1>2, <1>4 DEF Turn
<1>7. DOMAIN v.db.level = Cells /\ DOMAIN v.seen.level = Cells
  BY <1>1 DEF Progress, Drafted, Seen
<1>8. Moves(x, y, l)
  BY ONLY <1>1, <1>5, MovesOn
<1>9. ASSUME NEW d \in Cells
      PROVE  IF d \in T
             THEN /\ TakenAt(y, l, d) = 0
                  /\ y.db.level[d].onHand = x.db.level[d].onHand + TakenAt(x, l, d)
                  /\ y.db.level[d].reserved = x.db.level[d].reserved
                  /\ y.seen.level[d] = y.db.level[d]
             ELSE /\ TakenAt(y, l, d) = TakenAt(x, l, d)
                  /\ y.db.level[d] = x.db.level[d] /\ y.seen.level[d] = x.seen.level[d]
  <2>1. CASE d = c
    <3>1. v.db.level[c] = x.db.level[c] /\ TakenAt(v, l, c) = TakenAt(x, l, c)
      BY DEF Restoring, Cells
    <3>2. y.db.level[c] = n /\ y.seen.level[c] = n
      BY <1>6, <1>7, <2>1
    <3>3. TakenAt(y, l, c) = q - q /\ TakenAt(v, l, c) = q
      BY <1>2, <1>5 DEF TakenAt
    <3>4. b = x.db.level[c] /\ q = TakenAt(x, l, c)
      BY <1>2, <3>1, <3>3
    <3> HIDE DEF q, b
    <3>5. n.onHand = b.onHand + q /\ n.reserved = b.reserved /\ q - q = 0
      BY <1>3
    <3> HIDE DEF n
    <3> QED
      BY <2>1, <3>2, <3>3, <3>4, <3>5
  <2>2. CASE d # c
    <3>1. y.db.level[d] = v.db.level[d] /\ y.seen.level[d] = v.seen.level[d]
      BY <1>6, <1>7, <2>2
    <3>2. <<l, d[1], d[2]>> \in Triples /\ <<l, d[1], d[2]>> # e
      BY <1>2, <2>2 DEF Triples, Cells
    <3>3. TakenAt(y, l, d) = TakenAt(v, l, d)
      BY <1>5, <3>2 DEF TakenAt
    <3>4. IF d \in T \ {c}
          THEN /\ TakenAt(v, l, d) = 0
               /\ v.db.level[d].onHand = x.db.level[d].onHand + TakenAt(x, l, d)
               /\ v.db.level[d].reserved = x.db.level[d].reserved
               /\ v.seen.level[d] = v.db.level[d]
          ELSE /\ TakenAt(v, l, d) = TakenAt(x, l, d)
               /\ v.db.level[d] = x.db.level[d] /\ v.seen.level[d] = x.seen.level[d]
      BY DEF Restoring
    <3> QED
      BY <2>2, <3>1, <3>3, <3>4
  <2> QED
    BY <2>1, <2>2
<1>10. y \in Progress
  BY <1>4 DEF Turn
<1>11. y \in Restoring(x, l, T)
  BY <1>8, <1>9, <1>10 DEF Restoring
<1> QED
  BY <1>11 DEF y, q, e, s, w

Back(x, l, c) == Moved(x, l, c[1], c[2], x.db.taken[<<l, c[1], c[2]>>], 0)

TakenCells(x, l) == {c \in Cells : x.db.taken[<<l, c[1], c[2]>>] > 0}

LEMMA PutBackIs ==
    ASSUME NEW x \in Progress, NEW l \in Lists
    PROVE  PutBack(x, l) \in Restoring(x, l, TakenCells(x, l))
<1> DEFINE S == TakenCells(x, l)
           F == [p \in S \X Progress |-> Back(p[2], l, p[1])]
           C == [T \in SUBSET S |-> Picked(T)]
           J == [T \in SUBSET S |-> Restoring(x, l, T)]
           Rule(h) == [T \in SUBSET S |-> IF T = {} THEN x
                          ELSE Back(h[T \ {Picked(T)}], l, Picked(T))]
           h == CHOOSE h : h = Rule(h)
           y == h[S]
<1>1. IsFiniteSet(S) /\ S \in SUBSET Cells
  BY AllFinite, FS_Subset DEF Finite, TakenCells
<1>2. \A T \in SUBSET S : T # {} => C[T] \in T /\ C[T] = Picked(T)
  BY DEF Picked
<1>3. x \in J[{}]
  BY MovesNot DEF Restoring
<1>4. ASSUME NEW T \in SUBSET S, T # {}, NEW v \in J[T \ {C[T]}]
      PROVE  /\ F[<<C[T], v>>] = Back(v, l, Picked(T))
             /\ Back(v, l, Picked(T)) \in J[T]
  <2>1. C[T] \in T /\ C[T] = Picked(T) /\ T \in SUBSET Cells
    BY <1>1, <1>2, <1>4
  <2>2. v \in Restoring(x, l, T \ {Picked(T)}) /\ v \in Progress
    BY <1>4, <2>1 DEF Restoring
  <2>3. Back(v, l, Picked(T)) \in Restoring(x, l, T)
    BY <2>1, <2>2, PutBackStep DEF Back
  <2> QED
    BY <1>4, <2>1, <2>2, <2>3
<1>5. PutBack(x, l) = y
  BY DEF FoldSet, MapThenFoldSet, Picked, Back, PutBack, TakenCells
<1> HIDE DEF S, F, C, J, Rule
<1>6. PICK g : Follows(g, S, x, F, C) /\ \A T \in SUBSET S : g[T] \in J[T]
  <2>1. \A T \in SUBSET S : T # {} => \A v \in J[T \ {C[T]}] : F[<<C[T], v>>] \in J[T]
    BY <1>4
  <2>2. \A T \in SUBSET S : T # {} => C[T] \in T
    BY <1>2
  <2> QED
    BY ONLY <1>1, <1>3, <2>1, <2>2, FoldMeets
<1>7. g = Rule(g)
  <2>1. \A T \in SUBSET S : T # {} =>
            F[<<C[T], g[T \ {C[T]}]>>] = Back(g[T \ {Picked(T)}], l, Picked(T))
    BY <1>2, <1>4, <1>6
  <2>2. g = [T \in SUBSET S |-> IF T = {} THEN x ELSE F[<<C[T], g[T \ {C[T]}]>>]]
    BY <1>6 DEF Follows
  <2> QED
    BY <2>1, <2>2 DEF Rule
<1>8. h = Rule(h)
  BY <1>7
<1> HIDE DEF h
<1>9. h[{}] = x /\ \A T \in SUBSET S : T # {} =>
                       h[T] = Back(h[T \ {Picked(T)}], l, Picked(T))
  BY <1>8 DEF Rule
<1>10. h[{}] \in J[{}]
  BY <1>3, <1>9
<1>11. ASSUME NEW T \in SUBSET S, T # {}, h[T \ {C[T]}] \in J[T \ {C[T]}]
       PROVE  h[T] \in J[T]
  <2>1. Back(h[T \ {C[T]}], l, Picked(T)) \in J[T]
    BY <1>4, <1>11
  <2> QED
    BY <1>2, <1>9, <1>11, <2>1
<1>12. y \in Restoring(x, l, S)
  <2>2. \A T \in SUBSET S : T # {} => C[T] \in T
    BY <1>2
  <2>1. h[S] \in J[S]
    BY ONLY <1>1, <2>2, <1>10, <1>11, FoldKeeps
  <2> QED
    BY <2>1 DEF J
<1> QED
  BY <1>5, <1>12 DEF S


-----------------------------------------------------------------------------
(***************************************************************************)
(* syncHold and releaseHold move no goods.                                 *)
(***************************************************************************)

\* A list's holds of a sku are empty: none, or written to nothing by reopen.
Emptied(x, l, s) ==
    \A w \in Warehouses :
        x.db.hold[<<l, s, w>>].status = "active" =>
            /\ x.db.hold[<<l, s, w>>].qty = 0 /\ x.db.hold[<<l, s, w>>].fulfilled = 0
            /\ x.db.hold[<<l, s, w>>].released = 0

\* What syncHold reserves where nothing is held yet.
Share(x, l, s) ==
    Lesser(x.db.contents[<<l, s>>], Positive(Available(x.seen, s, x.db.list[l].wh)))

LEMMA SyncLineIs ==
    ASSUME NEW x \in Progress, NEW l \in Lists, NEW s \in Skus, NEW pick \in [Skus -> Warehouses],
           x.db.list[l].wh \in Warehouses
    PROVE  LET y == SyncLine(x, l, s, pick) IN
           /\ y = x \/ \E w \in Warehouses, r \in Int : Turn(x, y, l, s, w, 0, r)
           /\ OrderOf[l] = NoOrder /\ Emptied(x, l, s) =>
                 \/ y = x /\ Share(x, l, s) = 0
                 \/ Turn(x, y, l, s, x.db.list[l].wh, 0, Share(x, l, s))
<1> DEFINE w == x.db.list[l].wh
           packed == x.db.contents[<<l, s>>]
           take == Share(x, l, s)
<1>1. packed \in Nat
  BY DEF Progress, Drafted
<1>2. CASE packed > 0
  <2> DEFINE y == HoldLine(x, l, s, pick)
  <2>1. SyncLine(x, l, s, pick) = y
    BY <1>2 DEF SyncLine
  <2>2. /\ y = x \/ \E r \in Int : Turn(x, y, l, s, w, 0, r)
        /\ /\ OrderOf[l] = NoOrder /\ packed > 0
           /\ \A v \in Warehouses : x.db.hold[<<l, s, v>>].status = "active" =>
                                       x.db.hold[<<l, s, v>>].qty = 0
           => (y = x /\ take = 0) \/ Turn(x, y, l, s, w, 0, take)
    BY HoldLineIs DEF Share
  <2> HIDE DEF y, take
  <2>3. y = x \/ \E v \in Warehouses, r \in Int : Turn(x, y, l, s, v, 0, r)
    BY <2>2
  <2>4. OrderOf[l] = NoOrder /\ Emptied(x, l, s) =>
            (y = x /\ take = 0) \/ Turn(x, y, l, s, w, 0, take)
    BY <1>2, <2>2 DEF Emptied
  <2> QED
    BY <2>1, <2>3, <2>4 DEF take
<1>3. CASE ~(packed > 0)
  <2> DEFINE y == ReleaseLine(x, l, s, pick)
  <2>1. SyncLine(x, l, s, pick) = y
    BY <1>3 DEF SyncLine
  <2>2. y = x \/ \E v \in Warehouses, r \in Int : Turn(x, y, l, s, v, 0, r)
    BY ReleaseLineIs
  <2>3. ASSUME Emptied(x, l, s) PROVE y = x
    <3> DEFINE v == HoldAt(x, l, s, pick)
               free == Outstanding(x.db.hold[<<l, s, v>>])
    <3>1. ActiveAt(x, l, s) = {} \/ free <= 0 => y = x
      BY DEF ReleaseLine
    <3>2. CASE ActiveAt(x, l, s) # {}
      <4>1. v \in ActiveAt(x, l, s) /\ v \in Warehouses
        BY <3>2, RowAtIs
      <4> HIDE DEF v
      <4>2. x.db.hold[<<l, s, v>>].status = "active"
        BY <4>1 DEF ActiveAt
      <4>3. free = 0
        BY <2>3, <4>1, <4>2 DEF Emptied, Outstanding
      <4> QED
        BY <3>1, <4>3
    <3> QED
      BY <3>1, <3>2
  <2>4. take = 0
    <3> DEFINE a == Available(x.seen, s, w)
    <3>1. x.seen.level[<<s, w>>] \in [onHand : Int, reserved : Int]
      BY DEF Progress, Seen, Cells
    <3>2. a \in Int
      BY <3>1 DEF Available
    <3>3. take = Lesser(packed, Positive(a))
      BY DEF Share
    <3> HIDE DEF a, take, packed
    <3> QED
      BY <1>1, <1>3, <3>2, <3>3 DEF Lesser, Positive
  <2> QED
    BY <2>1, <2>2, <2>3, <2>4
<1> QED
  BY <1>2, <1>3

\* A movement of reservations takes nothing.
LEMMA HeldTakesNothing ==
    ASSUME NEW x \in Progress, NEW y, NEW l \in Lists, NEW s \in Skus, NEW w \in Warehouses,
           NEW r \in Int, Turn(x, y, l, s, w, 0, r)
    PROVE  Moves(x, y, l) /\ y.db.taken = x.db.taken
<1>1. /\ x \in Progress /\ l \in Lists /\ s \in Skus /\ w \in Warehouses
      /\ 0 \in Int /\ r \in Int /\ Turn(x, y, l, s, w, 0, r)
  OBVIOUS
<1>2. Moves(x, y, l)
  BY ONLY <1>1, TurnMoves, ZenonT(60)
<1>3. y.db.taken = [x.db.taken EXCEPT ![<<l, s, w>>] = x.db.taken[<<l, s, w>>] - 0]
  BY DEF Turn
<1>4. x.db.taken[<<l, s, w>>] - 0 = x.db.taken[<<l, s, w>>]
  BY DEF Progress, Drafted, Triples
<1>5. y.db.taken = [x.db.taken EXCEPT ![<<l, s, w>>] = x.db.taken[<<l, s, w>>]]
  BY <1>3, <1>4
<1>6. \E a : x.db.taken \in [Triples -> a]
  BY DEF Progress, Drafted
<1> QED
  BY <1>2, <1>5, <1>6

\* The skus of D have been held as the contents ask.
Syncing(x, l, D) ==
    {v \in Progress :
        /\ Moves(x, v, l) /\ v.db.taken = x.db.taken
        /\ \A s \in Skus, w \in Warehouses :
              s \notin D => /\ v.db.hold[<<l, s, w>>] = x.db.hold[<<l, s, w>>]
                            /\ v.db.level[<<s, w>>] = x.db.level[<<s, w>>]
                            /\ v.seen.level[<<s, w>>] = x.seen.level[<<s, w>>]
        /\ \A s \in D :
              OrderOf[l] = NoOrder /\ Emptied(x, l, s) =>
                 Available(v.db, s, x.db.list[l].wh) =
                    Available(x.db, s, x.db.list[l].wh) - Share(x, l, s)}

LEMMA SyncLineStep ==
    ASSUME NEW x \in Progress, NEW l \in Lists, NEW pick \in [Skus -> Warehouses],
           x.db.list[l].wh \in Warehouses,
           NEW T \in SUBSET Skus, NEW s \in T, NEW v \in Syncing(x, l, T \ {s})
    PROVE  SyncLine(v, l, s, pick) \in Syncing(x, l, T)
<1> DEFINE w == x.db.list[l].wh
           y == SyncLine(v, l, s, pick)
           take == Share(x, l, s)
<1>1. /\ v \in Progress /\ Moves(x, v, l) /\ s \in Skus /\ v.db.taken = x.db.taken
      /\ v.db.list = x.db.list /\ v.db.contents = x.db.contents
  BY DEF Syncing, Moves
<1>2. \A u \in Warehouses : /\ v.db.hold[<<l, s, u>>] = x.db.hold[<<l, s, u>>]
                            /\ v.db.level[<<s, u>>] = x.db.level[<<s, u>>]
                            /\ v.seen.level[<<s, u>>] = x.seen.level[<<s, u>>]
  BY <1>1 DEF Syncing
<1>3. Share(v, l, s) = take /\ (Emptied(x, l, s) => Emptied(v, l, s))
  BY <1>1, <1>2 DEF Share, Emptied, Available
<1>4. /\ y = v \/ \E u \in Warehouses, r \in Int : Turn(v, y, l, s, u, 0, r)
      /\ OrderOf[l] = NoOrder /\ Emptied(x, l, s) =>
            \/ y = v /\ take = 0
            \/ Turn(v, y, l, s, w, 0, take)
  <2>1. v.db.list[l].wh \in Warehouses /\ v.db.list[l].wh = w
    BY <1>1
  <2>2. /\ y = v \/ \E u \in Warehouses, r \in Int : Turn(v, y, l, s, u, 0, r)
        /\ OrderOf[l] = NoOrder /\ Emptied(v, l, s) =>
              \/ y = v /\ Share(v, l, s) = 0
              \/ Turn(v, y, l, s, v.db.list[l].wh, 0, Share(v, l, s))
    BY <1>1, <2>1, SyncLineIs
  <2> QED
    BY <1>3, <2>1, <2>2
<1> HIDE DEF y, take
<1>5. /\ y \in Progress /\ Moves(v, y, l) /\ y.db.taken = v.db.taken
      /\ \A e \in Triples : e[2] # s => y.db.hold[e] = v.db.hold[e]
      /\ \A c \in Cells : c[1] # s => /\ y.db.level[c] = v.db.level[c]
                                      /\ y.seen.level[c] = v.seen.level[c]
  <2>1. CASE y = v
    BY <1>1, <2>1, MovesNot
  <2>2. ASSUME NEW u \in Warehouses, NEW r \in Int, Turn(v, y, l, s, u, 0, r)
        PROVE  /\ y \in Progress /\ Moves(v, y, l) /\ y.db.taken = v.db.taken
               /\ \A e \in Triples : e[2] # s => y.db.hold[e] = v.db.hold[e]
               /\ \A c \in Cells : c[1] # s => /\ y.db.level[c] = v.db.level[c]
                                               /\ y.seen.level[c] = v.seen.level[c]
    <3>1. v \in Progress /\ l \in Lists /\ s \in Skus /\ u \in Warehouses /\ r \in Int
      BY <1>1
    <3>2. Moves(v, y, l) /\ y.db.taken = v.db.taken
      BY ONLY <2>2, <3>1, HeldTakesNothing
    <3>3. DOMAIN v.db.level = Cells /\ DOMAIN v.seen.level = Cells
      BY <1>1 DEF Progress, Drafted, Seen
    <3>4. ASSUME NEW c \in Cells, c[1] # s PROVE c # <<s, u>>
      BY <3>4
    <3>5. \A c \in Cells : c[1] # s => /\ y.db.level[c] = v.db.level[c]
                                       /\ y.seen.level[c] = v.seen.level[c]
      BY <2>2, <3>3, <3>4 DEF Turn
    <3> QED
      BY <2>2, <3>2, <3>5 DEF Turn
  <2> QED
    BY <1>4, <2>1, <2>2
<1>6. Moves(x, y, l) /\ y.db.taken = x.db.taken
  <2>1. Moves(x, y, l)
    BY ONLY <1>1, <1>5, MovesOn
  <2> QED
    BY <1>1, <1>5, <2>1
<1>7. ASSUME NEW r \in Skus, NEW u \in Warehouses, r \notin T
      PROVE  /\ y.db.hold[<<l, r, u>>] = x.db.hold[<<l, r, u>>]
             /\ y.db.level[<<r, u>>] = x.db.level[<<r, u>>]
             /\ y.seen.level[<<r, u>>] = x.seen.level[<<r, u>>]
  <2>1. <<l, r, u>> \in Triples /\ <<r, u>> \in Cells /\ r # s
    BY <1>7 DEF Triples, Cells
  <2>2. /\ y.db.hold[<<l, r, u>>] = v.db.hold[<<l, r, u>>]
        /\ y.db.level[<<r, u>>] = v.db.level[<<r, u>>]
        /\ y.seen.level[<<r, u>>] = v.seen.level[<<r, u>>]
    BY <1>5, <2>1
  <2> QED
    BY <1>7, <2>1, <2>2 DEF Syncing
<1>8. ASSUME NEW r \in T, OrderOf[l] = NoOrder, Emptied(x, l, r)
      PROVE  Available(y.db, r, w) = Available(x.db, r, w) - Share(x, l, r)
  <2>1. r \in Skus /\ <<r, w>> \in Cells
    BY DEF Cells
  <2>2. CASE r # s
    <3>1. y.db.level[<<r, w>>] = v.db.level[<<r, w>>]
      BY <1>5, <2>1, <2>2
    <3>2. Available(v.db, r, w) = Available(x.db, r, w) - Share(x, l, r)
      BY <1>8, <2>2 DEF Syncing
    <3> QED
      BY <3>1, <3>2 DEF Available
  <2>3. CASE r = s
    <3> DEFINE b == v.db.level[<<s, w>>]
    <3>1. b \in [onHand : Int, reserved : Int] /\ b = x.db.level[<<s, w>>]
      BY <1>1, <1>2, <2>1, <2>3 DEF Progress, Drafted
    <3>2. take \in Int
      <4>1. x.seen.level[<<s, w>>] \in [onHand : Int, reserved : Int]
        BY <2>1, <2>3 DEF Progress, Seen
      <4>2. Available(x.seen, s, w) \in Int
        BY <4>1 DEF Available
      <4>3. x.db.contents[<<l, s>>] \in Nat
        BY <1>1 DEF Progress, Drafted
      <4> QED
        BY <4>2, <4>3 DEF take, Share, Lesser, Positive
    <3>3. CASE y = v /\ take = 0
      <4> HIDE DEF w
      <4>1. b.onHand - b.reserved = (b.onHand - b.reserved) - 0
        BY <3>1
      <4> QED
        BY <2>3, <3>1, <3>3, <4>1 DEF Available, take
    <3>4. CASE Turn(v, y, l, s, w, 0, take)
      <4> HIDE DEF w
      <4> DEFINE n == [onHand |-> b.onHand + 0, reserved |-> b.reserved + take]
      <4>1. y.db.level = [v.db.level EXCEPT ![<<s, w>>] = n]
        BY <3>4 DEF Turn
      <4>2. DOMAIN v.db.level = Cells
        BY <1>1 DEF Progress, Drafted
      <4>3. y.db.level[<<s, w>>] = n
        BY <2>1, <2>3, <4>1, <4>2
      <4>4. n.onHand - n.reserved = (b.onHand - b.reserved) - take
        BY <3>1, <3>2
      <4> HIDE DEF n, b
      <4> QED
        BY <2>3, <3>1, <4>3, <4>4 DEF Available, take, b
    <3> QED
      BY <1>4, <1>8, <2>3, <3>3, <3>4
  <2> QED
    BY <2>2, <2>3
<1>9. y \in Syncing(x, l, T)
  BY <1>5, <1>6, <1>7, <1>8 DEF Syncing
<1> QED
  BY <1>9 DEF y

LEMMA SyncLinesIs ==
    ASSUME NEW x \in Progress, NEW l \in Lists, NEW pick \in [Skus -> Warehouses],
           x.db.list[l].wh \in Warehouses
    PROVE  FoldSet(LAMBDA s, acc : SyncLine(acc, l, s, pick), x, Skus) \in Syncing(x, l, Skus)
<1> DEFINE S == Skus
           F == [p \in S \X Progress |-> SyncLine(p[2], l, p[1], pick)]
           C == [T \in SUBSET S |-> Picked(T)]
           J == [T \in SUBSET S |-> Syncing(x, l, T)]
           Rule(h) == [T \in SUBSET S |-> IF T = {} THEN x
                          ELSE SyncLine(h[T \ {Picked(T)}], l, Picked(T), pick)]
           h == CHOOSE h : h = Rule(h)
           y == h[S]
<1>1. IsFiniteSet(S)
  BY AllFinite DEF Finite
<1>2. \A T \in SUBSET S : T # {} => C[T] \in T /\ C[T] = Picked(T)
  BY DEF Picked
<1>3. x \in J[{}]
  BY MovesNot DEF Syncing
<1>4. ASSUME NEW T \in SUBSET S, T # {}, NEW v \in J[T \ {C[T]}]
      PROVE  /\ F[<<C[T], v>>] = SyncLine(v, l, Picked(T), pick)
             /\ SyncLine(v, l, Picked(T), pick) \in J[T]
  <2>1. C[T] \in T /\ C[T] = Picked(T) /\ T \in SUBSET Skus
    BY <1>2, <1>4
  <2>2. v \in Syncing(x, l, T \ {Picked(T)}) /\ v \in Progress
    BY <1>4, <2>1 DEF Syncing
  <2>3. SyncLine(v, l, Picked(T), pick) \in Syncing(x, l, T)
    BY <2>1, <2>2, SyncLineStep
  <2> QED
    BY <1>4, <2>1, <2>2, <2>3
<1>5. FoldSet(LAMBDA s, acc : SyncLine(acc, l, s, pick), x, Skus) = y
  BY DEF FoldSet, MapThenFoldSet, Picked
<1> HIDE DEF S, F, C, J, Rule
<1>6. PICK g : Follows(g, S, x, F, C) /\ \A T \in SUBSET S : g[T] \in J[T]
  <2>1. \A T \in SUBSET S : T # {} => \A v \in J[T \ {C[T]}] : F[<<C[T], v>>] \in J[T]
    BY <1>4
  <2>2. \A T \in SUBSET S : T # {} => C[T] \in T
    BY <1>2
  <2> QED
    BY ONLY <1>1, <1>3, <2>1, <2>2, FoldMeets
<1>7. g = Rule(g)
  <2>1. \A T \in SUBSET S : T # {} =>
            F[<<C[T], g[T \ {C[T]}]>>] = SyncLine(g[T \ {Picked(T)}], l, Picked(T), pick)
    BY <1>2, <1>4, <1>6
  <2>2. g = [T \in SUBSET S |-> IF T = {} THEN x ELSE F[<<C[T], g[T \ {C[T]}]>>]]
    BY <1>6 DEF Follows
  <2> QED
    BY <2>1, <2>2 DEF Rule
<1>8. h = Rule(h)
  BY <1>7
<1> HIDE DEF h
<1>9. h[{}] = x /\ \A T \in SUBSET S : T # {} =>
                       h[T] = SyncLine(h[T \ {Picked(T)}], l, Picked(T), pick)
  BY <1>8 DEF Rule
<1>10. h[{}] \in J[{}]
  BY <1>3, <1>9
<1>11. ASSUME NEW T \in SUBSET S, T # {}, h[T \ {C[T]}] \in J[T \ {C[T]}]
       PROVE  h[T] \in J[T]
  <2>1. SyncLine(h[T \ {C[T]}], l, Picked(T), pick) \in J[T]
    BY <1>4, <1>11
  <2> QED
    BY <1>2, <1>9, <1>11, <2>1
<1>12. y \in Syncing(x, l, S)
  <2>2. \A T \in SUBSET S : T # {} => C[T] \in T
    BY <1>2
  <2>1. h[S] \in J[S]
    BY ONLY <1>1, <2>2, <1>10, <1>11, FoldKeeps
  <2> QED
    BY <2>1 DEF J
<1> QED
  BY <1>5, <1>12 DEF S


\* A release takes nothing.
Freeing(x, l) == {v \in Progress : Moves(x, v, l) /\ v.db.taken = x.db.taken}

LEMMA ReleaseLineStep ==
    ASSUME NEW x \in Progress, NEW l \in Lists, NEW pick \in [Skus -> Warehouses],
           NEW s \in Skus, NEW v \in Freeing(x, l)
    PROVE  ReleaseLine(v, l, s, pick) \in Freeing(x, l)
<1> DEFINE y == ReleaseLine(v, l, s, pick)
<1>1. v \in Progress /\ Moves(x, v, l) /\ v.db.taken = x.db.taken
  BY DEF Freeing
<1>2. y = v \/ \E w \in Warehouses, r \in Int : Turn(v, y, l, s, w, 0, r)
  BY <1>1, ReleaseLineIs
<1> HIDE DEF y
<1>3. CASE y = v
  BY <1>3 DEF y
<1>4. ASSUME NEW w \in Warehouses, NEW r \in Int, Turn(v, y, l, s, w, 0, r)
      PROVE  y \in Freeing(x, l)
  <2>1. l \in Lists /\ s \in Skus /\ w \in Warehouses /\ r \in Int
    OBVIOUS
  <2>2. Moves(v, y, l) /\ y.db.taken = v.db.taken
    BY ONLY <1>1, <1>4, <2>1, HeldTakesNothing
  <2>3. Moves(x, y, l)
    BY ONLY <1>1, <2>2, MovesOn
  <2> QED
    BY <1>1, <2>2, <2>3 DEF Freeing, Moves
<1> QED
  BY <1>2, <1>3, <1>4 DEF y

LEMMA ReleaseAllIs ==
    ASSUME NEW x \in Progress, NEW l \in Lists, NEW pick \in [Skus -> Warehouses]
    PROVE  ReleaseAll(x, l, pick) \in Freeing(x, l)
<1> DEFINE S == Skus
           F == [p \in S \X Progress |-> ReleaseLine(p[2], l, p[1], pick)]
           C == [T \in SUBSET S |-> Picked(T)]
           J == [T \in SUBSET S |-> Freeing(x, l)]
           Rule(h) == [T \in SUBSET S |-> IF T = {} THEN x
                          ELSE ReleaseLine(h[T \ {Picked(T)}], l, Picked(T), pick)]
           h == CHOOSE h : h = Rule(h)
           y == h[S]
<1>1. IsFiniteSet(S)
  BY AllFinite DEF Finite
<1>2. \A T \in SUBSET S : T # {} => C[T] \in T /\ C[T] = Picked(T)
  BY DEF Picked
<1>3. x \in J[{}]
  BY MovesNot DEF Freeing
<1>4. ASSUME NEW T \in SUBSET S, T # {}, NEW v \in J[T \ {C[T]}]
      PROVE  /\ F[<<C[T], v>>] = ReleaseLine(v, l, Picked(T), pick)
             /\ ReleaseLine(v, l, Picked(T), pick) \in J[T]
  <2>1. C[T] \in T /\ C[T] = Picked(T) /\ Picked(T) \in Skus
    BY <1>2, <1>4
  <2>2. v \in Freeing(x, l) /\ v \in Progress
    BY <1>4, <2>1 DEF Freeing
  <2>3. ReleaseLine(v, l, Picked(T), pick) \in Freeing(x, l)
    BY <2>1, <2>2, ReleaseLineStep
  <2> QED
    BY <1>4, <2>1, <2>2, <2>3
<1>5. ReleaseAll(x, l, pick) = y
  BY DEF ReleaseAll, FoldSet, MapThenFoldSet, Picked
<1> HIDE DEF S, F, C, J, Rule
<1>6. PICK g : Follows(g, S, x, F, C) /\ \A T \in SUBSET S : g[T] \in J[T]
  <2>1. \A T \in SUBSET S : T # {} => \A v \in J[T \ {C[T]}] : F[<<C[T], v>>] \in J[T]
    BY <1>4
  <2>2. \A T \in SUBSET S : T # {} => C[T] \in T
    BY <1>2
  <2> QED
    BY ONLY <1>1, <1>3, <2>1, <2>2, FoldMeets
<1>7. g = Rule(g)
  <2>1. \A T \in SUBSET S : T # {} =>
            F[<<C[T], g[T \ {C[T]}]>>] = ReleaseLine(g[T \ {Picked(T)}], l, Picked(T), pick)
    BY <1>2, <1>4, <1>6
  <2>2. g = [T \in SUBSET S |-> IF T = {} THEN x ELSE F[<<C[T], g[T \ {C[T]}]>>]]
    BY <1>6 DEF Follows
  <2> QED
    BY <2>1, <2>2 DEF Rule
<1>8. h = Rule(h)
  BY <1>7
<1> HIDE DEF h
<1>9. h[{}] = x /\ \A T \in SUBSET S : T # {} =>
                       h[T] = ReleaseLine(h[T \ {Picked(T)}], l, Picked(T), pick)
  BY <1>8 DEF Rule
<1>10. h[{}] \in J[{}]
  BY <1>3, <1>9
<1>11. ASSUME NEW T \in SUBSET S, T # {}, h[T \ {C[T]}] \in J[T \ {C[T]}]
       PROVE  h[T] \in J[T]
  <2>1. ReleaseLine(h[T \ {C[T]}], l, Picked(T), pick) \in J[T]
    BY <1>4, <1>11
  <2> QED
    BY <1>2, <1>9, <1>11, <2>1
<1>12. y \in Freeing(x, l)
  <2>2. \A T \in SUBSET S : T # {} => C[T] \in T
    BY <1>2
  <2>1. h[S] \in J[S]
    BY ONLY <1>1, <2>2, <1>10, <1>11, FoldKeeps
  <2> QED
    BY <2>1 DEF J
<1> QED
  BY <1>5, <1>12


-----------------------------------------------------------------------------
(***************************************************************************)
(* What a list has off the shelf.                                          *)
(***************************************************************************)
LEMMA NoneIsZero ==
    ASSUME NEW f, DOMAIN f = Warehouses, \A u \in Warehouses : f[u] = 0
    PROVE  SumFunction(f) = 0
<1>1. IsFiniteSet(Warehouses) /\ {} \in SUBSET Warehouses
  BY AllFinite DEF Finite
<1>2. \A u \in {} : f[u] \in Int /\ f[u] = f[u]
  OBVIOUS
<1>3. \A u \in Warehouses \ {} : f[u] = 0
  OBVIOUS
<1>4. Sum(f, {}) = Sum(f, Warehouses)
  BY ONLY <1>1, <1>2, <1>3, SumPart
<1> QED
  BY <1>4, SumEmpty, SumFunctionIs

LEMMA OneIsAll ==
    ASSUME NEW f, DOMAIN f = Warehouses, NEW w \in Warehouses, f[w] \in Int,
           \A u \in Warehouses : u # w => f[u] = 0
    PROVE  SumFunction(f) = f[w]
<1>1. IsFiniteSet(Warehouses) /\ {w} \in SUBSET Warehouses /\ IsFiniteSet({w})
  BY AllFinite, FS_Singleton DEF Finite
<1>2. \A u \in {w} : f[u] \in Int /\ f[u] = f[u]
  OBVIOUS
<1>3. \A u \in Warehouses \ {w} : f[u] = 0
  OBVIOUS
<1>4. Sum(f, {w}) = Sum(f, Warehouses)
  BY ONLY <1>1, <1>2, <1>3, SumPart
<1>5. Sum(f, {w}) = f[w] + Sum(f, {w} \ {w})
  <2>1. w \in {w} /\ \A u \in {w} : f[u] \in Int
    OBVIOUS
  <2> QED
    BY ONLY <1>1, <2>1, SumRemove
<1>6. {w} \ {w} = {}
  OBVIOUS
<1>7. Sum(f, {w}) = f[w] + 0
  BY <1>5, <1>6, SumEmpty
<1>8. f[w] + 0 = f[w]
  OBVIOUS
<1> QED
  BY ONLY <1>4, <1>7, <1>8, DOMAIN f = Warehouses, SumFunctionIs

LEMMA OneIsPart ==
    ASSUME NEW f, DOMAIN f = Warehouses, NEW w \in Warehouses,
           \A u \in Warehouses : f[u] \in Nat
    PROVE  f[w] <= SumFunction(f)
<1> DEFINE g == [u \in Warehouses |-> IF u = w THEN f[w] ELSE 0]
<1>1. IsFiniteSet(Warehouses) /\ DOMAIN g = Warehouses
  BY AllFinite DEF Finite
<1>2. \A u \in Warehouses : g[u] \in Int /\ f[u] \in Int /\ g[u] <= f[u]
  OBVIOUS
<1>3. g[w] = f[w] /\ g[w] \in Int /\ \A u \in Warehouses : u # w => g[u] = 0
  OBVIOUS
<1> HIDE DEF g
<1>4. Sum(g, Warehouses) <= Sum(f, Warehouses)
  BY ONLY <1>1, <1>2, SumOrder
<1>5. SumFunction(g) = g[w]
  BY <1>1, <1>3, OneIsAll
<1> QED
  BY <1>1, <1>3, <1>4, <1>5, SumFunctionIs

\* What requests that lost track of a list let go again.
Debts == [Lists \X Skus -> Nat]

\* A list whose goods are to be on the shelf.
Settles(d, l) == d.list[l].stock # "deducted" \/ d.list[l].status \in {"draft", "deleted"}

\* The document, and the debt, behind what is off the shelf.
Honest(d, l, z) ==
    /\ \A s \in Skus, w \in Warehouses : d.taken[<<l, s, w>>] \in Nat
    /\ \A s \in Skus : TakenUnits(d, l, s) <= d.contents[<<l, s>>] + z[<<l, s>>]
    /\ Settles(d, l) => \A s \in Skus : TakenUnits(d, l, s) <= z[<<l, s>>]

LEMMA UnitsAre ==
    ASSUME NEW d, NEW l, NEW s \in Skus, \A w \in Warehouses : d.taken[<<l, s, w>>] \in Nat
    PROVE  TakenUnits(d, l, s) \in Nat
<1> DEFINE f == [w \in Warehouses |-> d.taken[<<l, s, w>>]]
<1>1. DOMAIN f = Warehouses /\ IsFiniteSet(Warehouses) /\ \A w \in Warehouses : f[w] \in Nat
  BY AllFinite DEF Finite
<1>2. TakenUnits(d, l, s) = SumFunction(f)
  BY DEF TakenUnits
<1> HIDE DEF f
<1>3. Sum(f, Warehouses) \in Nat
  BY <1>1, SumNat
<1> QED
  BY <1>1, <1>2, <1>3, SumFunctionIs

LEMMA UnitsSame ==
    ASSUME NEW x, NEW y, y.db.taken = x.db.taken
    PROVE  \A l, s : TakenUnits(y.db, l, s) = TakenUnits(x.db, l, s)
BY DEF TakenUnits

LEMMA CartonsAre == \A y \in Progress, l \in Lists, s \in Skus : y.db.contents[<<l, s>>] \in Nat
BY DEF Progress, Drafted

\* A list with nothing off the shelf.
LEMMA NoneIsHonest ==
    ASSUME NEW y \in Progress, NEW l \in Lists, NEW z \in Debts, NoneTaken(y, l)
    PROVE  Honest(y.db, l, z)
<1>1. \A s \in Skus, w \in Warehouses : y.db.taken[<<l, s, w>>] = 0
  BY DEF NoneTaken
<1>2. ASSUME NEW s \in Skus
      PROVE  /\ TakenUnits(y.db, l, s) <= z[<<l, s>>]
             /\ TakenUnits(y.db, l, s) <= y.db.contents[<<l, s>>] + z[<<l, s>>]
  <2> DEFINE f == [w \in Warehouses |-> y.db.taken[<<l, s, w>>]]
  <2>1. DOMAIN f = Warehouses /\ \A w \in Warehouses : f[w] = 0
    BY <1>1
  <2>2. TakenUnits(y.db, l, s) = SumFunction(f)
    BY DEF TakenUnits
  <2>3. y.db.contents[<<l, s>>] \in Nat /\ z[<<l, s>>] \in Nat
    BY CartonsAre DEF Debts
  <2> HIDE DEF f
  <2>4. SumFunction(f) = 0
    BY <2>1, NoneIsZero
  <2> QED
    BY <2>2, <2>3, <2>4
<1> QED
  BY <1>1, <1>2 DEF Honest

\* Whatever becomes of the cartons and the row of a settled list.
LEMMA SettledIsHonest ==
    ASSUME NEW x \in Progress, NEW y \in Progress, NEW l \in Lists, NEW z \in Debts,
           y.db.taken = x.db.taken, Settles(x.db, l), Honest(x.db, l, z)
    PROVE  Honest(y.db, l, z)
<1>1. ASSUME NEW s \in Skus
      PROVE  /\ TakenUnits(y.db, l, s) <= z[<<l, s>>]
             /\ TakenUnits(y.db, l, s) <= y.db.contents[<<l, s>>] + z[<<l, s>>]
  <2>1. TakenUnits(x.db, l, s) \in Nat
    BY UnitsAre DEF Honest
  <2>2. y.db.contents[<<l, s>>] \in Nat /\ z[<<l, s>>] \in Nat
    BY CartonsAre DEF Debts
  <2>3. TakenUnits(x.db, l, s) <= z[<<l, s>>]
    BY DEF Honest
  <2>4. TakenUnits(y.db, l, s) = TakenUnits(x.db, l, s)
    BY UnitsSame
  <2> QED
    BY <2>1, <2>2, <2>3, <2>4
<1> QED
  BY <1>1 DEF Honest

\* A list that is lost track of owes what its cartons said.
Deeper(x, l, z) ==
    [c \in DOMAIN z |-> IF c[1] # l THEN z[c] ELSE z[c] + x.db.contents[c]]

LEMMA StrayedIsHonest ==
    ASSUME NEW x \in Progress, NEW y \in Progress, NEW l \in Lists, NEW z \in Debts,
           y.db.taken = x.db.taken, Honest(x.db, l, z)
    PROVE  Honest(y.db, l, Deeper(x, l, z))
<1>1. ASSUME NEW s \in Skus
      PROVE  /\ TakenUnits(y.db, l, s) <= Deeper(x, l, z)[<<l, s>>]
             /\ TakenUnits(y.db, l, s) <= y.db.contents[<<l, s>>] + Deeper(x, l, z)[<<l, s>>]
  <2>1. TakenUnits(x.db, l, s) \in Nat
    BY UnitsAre DEF Honest
  <2>2. /\ y.db.contents[<<l, s>>] \in Nat /\ x.db.contents[<<l, s>>] \in Nat
        /\ z[<<l, s>>] \in Nat
    BY CartonsAre DEF Debts
  <2>3. Deeper(x, l, z)[<<l, s>>] = z[<<l, s>>] + x.db.contents[<<l, s>>]
    BY DEF Debts, Deeper
  <2>4. TakenUnits(x.db, l, s) <= x.db.contents[<<l, s>>] + z[<<l, s>>]
    BY DEF Honest
  <2>5. TakenUnits(y.db, l, s) = TakenUnits(x.db, l, s)
    BY UnitsSame
  <2> QED
    BY <2>1, <2>2, <2>3, <2>4, <2>5
<1> QED
  BY <1>1 DEF Honest

\* Signing a settled list takes what its cartons say at most.
LEMMA DeductedIsHonest ==
    ASSUME NEW x \in Progress, NEW l \in Lists, x.db.list[l].wh \in Warehouses,
           NEW z \in Debts, Settles(x.db, l), Honest(x.db, l, z),
           NEW v \in Deducting(x, l, Skus), NEW y \in Progress, y.db.taken = v.db.taken,
           y.db.contents = x.db.contents, ~Settles(y.db, l)
    PROVE  Honest(y.db, l, z)
<1> DEFINE w == x.db.list[l].wh
<1>1. ASSUME NEW s \in Skus
      PROVE  /\ y.db.taken[<<l, s, w>>] - x.db.taken[<<l, s, w>>] \in 0 .. x.db.contents[<<l, s>>]
             /\ \A u \in Warehouses : u # w => y.db.taken[<<l, s, u>>] = x.db.taken[<<l, s, u>>]
  BY DEF Deducting
<1>2. \A s \in Skus : x.db.contents[<<l, s>>] \in Nat /\ z[<<l, s>>] \in Nat
  BY CartonsAre DEF Debts
<1>3. \A s \in Skus, u \in Warehouses :
         x.db.taken[<<l, s, u>>] \in Nat /\ y.db.taken[<<l, s, u>>] \in Int
  BY DEF Honest, Progress, Drafted, Triples
<1>4. w \in Warehouses
  OBVIOUS
<1> HIDE DEF w
<1>5. ASSUME NEW s \in Skus
      PROVE  TakenUnits(y.db, l, s) <= y.db.contents[<<l, s>>] + z[<<l, s>>]
  <2> DEFINE f == [u \in Warehouses |-> x.db.taken[<<l, s, u>>]]
             g == [u \in Warehouses |-> y.db.taken[<<l, s, u>>]]
  <2>1. /\ DOMAIN f = Warehouses /\ DOMAIN g = Warehouses /\ IsFiniteSet(Warehouses)
        /\ \A u \in Warehouses : f[u] \in Int /\ g[u] \in Int
        /\ \A u \in Warehouses \ {w} : g[u] = f[u]
        /\ g[w] - f[w] \in 0 .. x.db.contents[<<l, s>>]
    BY <1>1, <1>3, <1>4, AllFinite DEF Finite
  <2>2. TakenUnits(x.db, l, s) = SumFunction(f) /\ TakenUnits(y.db, l, s) = SumFunction(g)
    BY DEF TakenUnits
  <2> HIDE DEF f, g
  <2>3. Sum(g, Warehouses) = Sum(f, Warehouses) + g[w] - f[w]
    BY ONLY <1>4, <2>1, SumChange
  <2>4. Sum(f, Warehouses) \in Int
    BY <2>1, SumType
  <2>5. Sum(f, Warehouses) <= z[<<l, s>>]
    BY <2>1, <2>2, SumFunctionIs DEF Honest
  <2>6. TakenUnits(y.db, l, s) = Sum(g, Warehouses)
    BY <2>1, <2>2, SumFunctionIs
  <2>7. /\ x.db.contents[<<l, s>>] \in Nat /\ z[<<l, s>>] \in Nat
        /\ y.db.contents[<<l, s>>] = x.db.contents[<<l, s>>]
        /\ f[w] \in Int /\ g[w] \in Int
    BY <1>2, <1>4, <2>1
  <2> QED
    BY <2>1, <2>3, <2>4, <2>5, <2>6, <2>7
<1>6. ASSUME NEW s \in Skus, NEW u \in Warehouses PROVE y.db.taken[<<l, s, u>>] \in Nat
  <2>1. /\ x.db.taken[<<l, s, u>>] \in Nat /\ y.db.taken[<<l, s, u>>] \in Int
        /\ x.db.contents[<<l, s>>] \in Nat
    BY <1>2, <1>3
  <2>2. CASE u = w
    <3>1. y.db.taken[<<l, s, u>>] - x.db.taken[<<l, s, u>>] \in 0 .. x.db.contents[<<l, s>>]
      BY <1>1, <2>2
    <3> QED
      BY <2>1, <3>1
  <2>3. CASE u # w
    BY <1>1, <2>1, <2>3
  <2> QED
    BY <2>2, <2>3
<1> QED
  BY <1>5, <1>6 DEF Honest

\* The rows next to a list's stock: its own row, its holds, its contents.
Beside(y, z) ==
    /\ z \in Progress /\ z.ok = y.ok /\ z.seen = y.seen
    /\ z.db.level = y.db.level /\ z.db.taken = y.db.taken

WroteList(y, z, l, row) == z = [y EXCEPT !.db.list[l] = row]
WroteHolds(y, z, g) == z = [y EXCEPT !.db.hold = g]
WroteContents(y, z, g) == z = [y EXCEPT !.db.contents = g]

LEMMA Relisted ==
    ASSUME NEW y \in Progress, NEW l \in Lists, NEW row \in ListRow, NEW z,
           WroteList(y, z, l, row)
    PROVE  /\ Beside(y, z) /\ z.db.contents = y.db.contents /\ z.db.hold = y.db.hold
           /\ z.db.list[l] = row /\ \A m \in Lists : m # l => z.db.list[m] = y.db.list[m]
<1> DEFINE u == [y EXCEPT !.db.list[l] = row]
<1>0. z = u
  BY DEF WroteList
<1>1. u \in Progress
  BY DEF Progress, Drafted
<1>2. u.ok = y.ok /\ u.seen = y.seen /\ u.db = [y.db EXCEPT !.list[l] = row]
  BY DEF Progress
<1> HIDE DEF u
<1>3. /\ u.db.list = [y.db.list EXCEPT ![l] = row] /\ u.db.level = y.db.level
      /\ u.db.taken = y.db.taken /\ u.db.hold = y.db.hold /\ u.db.contents = y.db.contents
  BY <1>2 DEF Progress, Drafted
<1>4. DOMAIN y.db.list = Lists
  BY DEF Progress, Drafted
<1>5. u.db.list[l] = row /\ \A m \in Lists : m # l => u.db.list[m] = y.db.list[m]
  BY <1>3, <1>4
<1> QED
  BY <1>0, <1>1, <1>2, <1>3, <1>5 DEF Beside

LEMMA Reheld ==
    ASSUME NEW y \in Progress, NEW g \in [Triples -> Hold], NEW z, WroteHolds(y, z, g)
    PROVE  /\ Beside(y, z) /\ z.db.contents = y.db.contents /\ z.db.list = y.db.list
           /\ z.db.hold = g
<1> DEFINE u == [y EXCEPT !.db.hold = g]
<1>0. z = u
  BY DEF WroteHolds
<1>1. u \in Progress
  BY DEF Progress, Drafted
<1>2. u.ok = y.ok /\ u.seen = y.seen /\ u.db = [y.db EXCEPT !.hold = g]
  BY DEF Progress
<1> HIDE DEF u
<1>3. /\ u.db.list = y.db.list /\ u.db.level = y.db.level
      /\ u.db.taken = y.db.taken /\ u.db.hold = g /\ u.db.contents = y.db.contents
  BY <1>2 DEF Progress, Drafted
<1> QED
  BY <1>0, <1>1, <1>2, <1>3 DEF Beside

LEMMA Repacked ==
    ASSUME NEW y \in Progress, NEW g \in [Lists \X Skus -> Nat], NEW z, WroteContents(y, z, g)
    PROVE  /\ Beside(y, z) /\ z.db.contents = g /\ z.db.list = y.db.list
<1> DEFINE u == [y EXCEPT !.db.contents = g]
<1>0. z = u
  BY DEF WroteContents
<1>1. u \in Progress
  BY DEF Progress, Drafted
<1>2. u.ok = y.ok /\ u.seen = y.seen /\ u.db = [y.db EXCEPT !.contents = g]
  BY DEF Progress
<1> HIDE DEF u
<1>3. /\ u.db.list = y.db.list /\ u.db.level = y.db.level
      /\ u.db.taken = y.db.taken /\ u.db.contents = g
  BY <1>2 DEF Progress, Drafted
<1> QED
  BY <1>0, <1>1, <1>2, <1>3 DEF Beside


-----------------------------------------------------------------------------
(***************************************************************************)
(* The requests: what each delivers if it commits, and that its list's     *)
(* document still accounts for what is off the shelf.                      *)
(***************************************************************************)
Delivers(x, y, l) ==
    /\ y \in Progress
    /\ y.ok => x.ok
    /\ y.ok /\ Covered(x.db) => Covered(y.db)
    /\ \A m \in Lists : m # l =>
          /\ y.db.list[m] = x.db.list[m]
          /\ \A s \in Skus : y.db.contents[<<m, s>>] = x.db.contents[<<m, s>>]
          /\ \A s \in Skus, w \in Warehouses : y.db.taken[<<m, s, w>>] = x.db.taken[<<m, s, w>>]

Near(y, z, l) ==
    /\ Beside(y, z)
    /\ \A m \in Lists : m # l =>
          /\ z.db.list[m] = y.db.list[m]
          /\ \A s \in Skus : z.db.contents[<<m, s>>] = y.db.contents[<<m, s>>]

LEMMA MovesDeliver == ASSUME NEW x, NEW y, NEW l, Moves(x, y, l) PROVE Delivers(x, y, l)
<1>1. \A m \in Lists : m # l =>
          \A s \in Skus, w \in Warehouses : y.db.taken[<<m, s, w>>] = x.db.taken[<<m, s, w>>]
  <2> SUFFICES ASSUME NEW m \in Lists, m # l, NEW s \in Skus, NEW w \in Warehouses
               PROVE  y.db.taken[<<m, s, w>>] = x.db.taken[<<m, s, w>>]
    OBVIOUS
  <2>1. <<m, s, w>> \in Triples /\ <<m, s, w>>[1] # l
    BY DEF Triples
  <2> QED
    BY <2>1 DEF Moves
<1>2. /\ y \in Progress /\ (y.ok => x.ok) /\ (y.ok /\ Covered(x.db) => Covered(y.db))
      /\ y.db.list = x.db.list /\ y.db.contents = x.db.contents
  BY DEF Moves
<1> QED
  BY <1>1, <1>2 DEF Delivers

LEMMA DeliversOn ==
    ASSUME NEW x, NEW y, NEW z, NEW l, Delivers(x, y, l), Delivers(y, z, l)
    PROVE  Delivers(x, z, l)
<1>1. /\ z \in Progress /\ (z.ok => y.ok) /\ (y.ok => x.ok)
      /\ (y.ok /\ Covered(x.db) => Covered(y.db)) /\ (z.ok /\ Covered(y.db) => Covered(z.db))
  BY DEF Delivers
<1>2. ASSUME NEW m \in Lists, m # l
      PROVE  /\ z.db.list[m] = x.db.list[m]
             /\ \A s \in Skus : z.db.contents[<<m, s>>] = x.db.contents[<<m, s>>]
             /\ \A s \in Skus, w \in Warehouses :
                   z.db.taken[<<m, s, w>>] = x.db.taken[<<m, s, w>>]
  BY <1>2 DEF Delivers
<1> QED
  BY <1>1, <1>2 DEF Delivers

LEMMA NearDelivers ==
    ASSUME NEW x, NEW y, NEW z, NEW l, Delivers(x, y, l), Near(y, z, l)
    PROVE  Delivers(x, z, l)
<1>1. z \in Progress /\ z.ok = y.ok /\ z.db.level = y.db.level /\ z.db.taken = y.db.taken
  BY DEF Near, Beside
<1>2. (z.ok => x.ok) /\ (z.ok /\ Covered(x.db) => Covered(z.db))
  BY <1>1 DEF Delivers, Covered
<1>3. ASSUME NEW m \in Lists, m # l
      PROVE  /\ z.db.list[m] = x.db.list[m]
             /\ \A s \in Skus : z.db.contents[<<m, s>>] = x.db.contents[<<m, s>>]
             /\ \A s \in Skus, w \in Warehouses :
                   z.db.taken[<<m, s, w>>] = x.db.taken[<<m, s, w>>]
  BY <1>1, <1>3 DEF Delivers, Near
<1> QED
  BY <1>1, <1>2, <1>3 DEF Delivers

\* A request that only writes its list's row.
LEMMA RowDelivers ==
    ASSUME NEW x, NEW y, NEW l \in Lists, Delivers(x, y, l), NEW row \in ListRow, NEW z,
           WroteList(y, z, l, row)
    PROVE  /\ Delivers(x, z, l) /\ z.db.list[l] = row /\ z.ok = y.ok /\ z.seen = y.seen
           /\ z.db.level = y.db.level /\ z.db.taken = y.db.taken /\ z.db.hold = y.db.hold
           /\ z.db.contents = y.db.contents
<1>1. y \in Progress
  BY DEF Delivers
<1>2. /\ Beside(y, z) /\ z.db.contents = y.db.contents /\ z.db.hold = y.db.hold
      /\ z.db.list[l] = row /\ \A m \in Lists : m # l => z.db.list[m] = y.db.list[m]
  BY <1>1, Relisted
<1>3. Near(y, z, l)
  BY <1>2 DEF Near
<1>4. Delivers(x, z, l)
  BY <1>3, NearDelivers
<1> QED
  BY <1>2, <1>4 DEF Beside

LEMMA RowOf == \A x \in Progress, l \in Lists : x.db.list[l] \in ListRow
BY DEF Progress, Drafted

LEMMA RejectedIs == \A x \in Progress : ~Rejected(x).ok
BY DEF Rejected, Progress

Synced(x, y, l) ==
    /\ Delivers(x, y, l)
    /\ y.db.taken = x.db.taken /\ y.db.contents = x.db.contents
    /\ y.db.list[l].status = x.db.list[l].status
    /\ y.db.list[l].stock = "deducted" => x.db.list[l].stock = "deducted"
    /\ \A s \in Skus :
          OrderOf[l] = NoOrder /\ Emptied(x, l, s) =>
             Available(y.db, s, x.db.list[l].wh) =
                Available(x.db, s, x.db.list[l].wh) - Share(x, l, s)

LEMMA SyncHoldIs ==
    ASSUME NEW x \in Progress, NEW l \in Lists, NEW pick \in [Skus -> Warehouses],
           x.db.list[l].wh \in Warehouses
    PROVE  Synced(x, SyncHold(x, l, pick), l)
<1> DEFINE y == FoldSet(LAMBDA s, acc : SyncLine(acc, l, s, pick), x, Skus)
           row == [y.db.list[l] EXCEPT !.stock = "held"]
           z == [y EXCEPT !.db.list[l] = row]
<1>1. SyncHold(x, l, pick) = IF y.moved THEN z ELSE y
  BY DEF SyncHold
<1>2. y \in Syncing(x, l, Skus)
  BY SyncLinesIs
<1> HIDE DEF y
<1>3. /\ y \in Progress /\ Moves(x, y, l) /\ y.db.taken = x.db.taken
      /\ y.db.list = x.db.list /\ y.db.contents = x.db.contents
  BY <1>2 DEF Syncing, Moves
<1>4. \A s \in Skus : OrderOf[l] = NoOrder /\ Emptied(x, l, s) =>
         Available(y.db, s, x.db.list[l].wh) =
            Available(x.db, s, x.db.list[l].wh) - Share(x, l, s)
  BY <1>2 DEF Syncing
<1>5. Delivers(x, y, l)
  BY ONLY <1>3, MovesDeliver
<1>6. Synced(x, y, l)
  BY <1>3, <1>4, <1>5 DEF Synced
<1>7. Synced(x, z, l)
  <2>1. row \in ListRow /\ row.status = x.db.list[l].status /\ row.stock = "held"
    BY <1>3, RowOf DEF ListRow
  <2>2. WroteList(y, z, l, row)
    BY DEF WroteList
  <2> HIDE DEF z, row
  <2>3. /\ Delivers(x, z, l) /\ z.db.list[l] = row
        /\ z.db.level = y.db.level /\ z.db.taken = y.db.taken /\ z.db.contents = y.db.contents
    BY <1>5, <2>1, <2>2, RowDelivers
  <2> QED
    BY <1>3, <1>4, <2>1, <2>3 DEF Synced, Available
<1> QED
  BY <1>1, <1>6, <1>7

LEMMA HoldDelivers ==
    ASSUME NEW x \in Progress, NEW l \in Lists, NEW pick \in [Skus -> Warehouses],
           HoldStock(x, l, pick).ok
    PROVE  LET y == HoldStock(x, l, pick) IN
           /\ Delivers(x, y, l)
           /\ \A z \in Debts : Honest(x.db, l, z) => Honest(y.db, l, z)
           /\ y.db.list[l].status = x.db.list[l].status
<1> DEFINE y == SyncHold(x, l, pick)
<1>1. x.db.list[l].status = "draft" /\ x.db.list[l].wh # NoWarehouse
  BY RejectedIs DEF HoldStock
<1>2. HoldStock(x, l, pick) = y
  BY <1>1 DEF HoldStock
<1>3. x.db.list[l].wh \in Warehouses
  BY <1>1, RowOf DEF ListRow
<1>4. Synced(x, y, l)
  BY <1>3, SyncHoldIs
<1> HIDE DEF y
<1>5. ASSUME NEW z \in Debts, Honest(x.db, l, z) PROVE Honest(y.db, l, z)
  <2>1. y \in Progress /\ y.db.taken = x.db.taken /\ Settles(x.db, l)
    BY <1>1, <1>4 DEF Synced, Delivers, Settles
  <2> QED
    BY <1>5, <2>1, SettledIsHonest
<1> QED
  BY <1>2, <1>4, <1>5 DEF Synced

LEMMA ReleaseDelivers ==
    ASSUME NEW x \in Progress, NEW l \in Lists, NEW pick \in [Skus -> Warehouses]
    PROVE  LET y == ReleaseHold(x, l, pick) IN
           /\ Delivers(x, y, l) /\ y.db.list[l].status = x.db.list[l].status
           /\ \A z \in Debts : Honest(x.db, l, z) =>
                 Honest(y.db, l, IF x.db.list[l].stock = "deducted" THEN Deeper(x, l, z) ELSE z)
<1> DEFINE y == ReleaseAll(x, l, pick)
           row == [y.db.list[l] EXCEPT !.stock = "none"]
           z == [y EXCEPT !.db.list[l] = row]
<1>1. ReleaseHold(x, l, pick) = z
  BY DEF ReleaseHold
<1>2. Moves(x, y, l) /\ y.db.taken = x.db.taken /\ y \in Progress /\ y.db.list = x.db.list
  BY ReleaseAllIs DEF Freeing, Moves
<1> HIDE DEF y
<1>3. Delivers(x, y, l)
  BY ONLY <1>2, MovesDeliver
<1>4. row \in ListRow /\ row.status = x.db.list[l].status /\ row.stock = "none"
  BY <1>2, RowOf DEF ListRow
<1>5. WroteList(y, z, l, row)
  BY DEF WroteList
<1> HIDE DEF z, row
<1>6. Delivers(x, z, l) /\ z.db.list[l] = row /\ z.db.taken = y.db.taken
  BY <1>3, <1>4, <1>5, RowDelivers
<1>7. ASSUME NEW debt \in Debts, Honest(x.db, l, debt)
      PROVE  Honest(z.db, l, IF x.db.list[l].stock = "deducted" THEN Deeper(x, l, debt) ELSE debt)
  <2>1. z \in Progress /\ z.db.taken = x.db.taken
    BY <1>2, <1>6 DEF Delivers
  <2>2. CASE x.db.list[l].stock = "deducted"
    BY <1>7, <2>1, <2>2, StrayedIsHonest
  <2>3. CASE x.db.list[l].stock # "deducted"
    BY <1>7, <2>1, <2>3, SettledIsHonest DEF Settles
  <2> QED
    BY <2>2, <2>3
<1> QED
  BY <1>1, <1>4, <1>6, <1>7


\* The debt of a list whose status is not the one that was read.
Overtaken(x, l, z) ==
    IF x.seen.list[l].status # x.db.list[l].status THEN Deeper(x, l, z) ELSE z

LEMMA EditDelivers ==
    ASSUME NEW x \in Progress, NEW l \in Lists, NEW arg \in [Skus -> Contents],
           Edit(x, l, arg).ok
    PROVE  LET y == Edit(x, l, arg) IN
           /\ Delivers(x, y, l) /\ y.db.list[l].status = x.db.list[l].status
           /\ \A z \in Debts : Honest(x.db, l, z) => Honest(y.db, l, Overtaken(x, l, z))
<1> DEFINE g == [c \in DOMAIN x.db.contents |-> IF c[1] = l THEN arg[c[2]] ELSE x.db.contents[c]]
           y == [x EXCEPT !.db.contents = g]
<1>1. x.seen.list[l].status = "draft" /\ Exists(x, l)
  BY RejectedIs DEF Edit
<1>2. Edit(x, l, arg) = y
  BY <1>1 DEF Edit
<1>3. DOMAIN x.db.contents = Lists \X Skus /\ x.db.contents \in [Lists \X Skus -> Nat]
  BY DEF Progress, Drafted
<1>4. g \in [Lists \X Skus -> Nat]
  BY <1>3, PackingAssumption
<1>5. \A m \in Lists, s \in Skus : m # l => g[<<m, s>>] = x.db.contents[<<m, s>>]
  BY <1>3
<1> HIDE DEF g
<1>6. WroteContents(x, y, g)
  BY DEF WroteContents
<1> HIDE DEF y
<1>7. Beside(x, y) /\ y.db.contents = g /\ y.db.list = x.db.list
  <2>1. /\ x \in Progress /\ g \in [Lists \X Skus -> Nat]
        /\ WroteContents(x, y, g)
    BY <1>4, <1>6
  <2> QED
    BY ONLY <2>1, Repacked
<1>8. Delivers(x, y, l)
  <2>1. Near(x, y, l)
    BY <1>5, <1>7 DEF Near
  <2>2. x \in Progress
    OBVIOUS
  <2>3. Delivers(x, x, l)
    BY ONLY <2>2, MovesNot, MovesDeliver
  <2> QED
    BY ONLY <2>1, <2>3, NearDelivers
<1>9. ASSUME NEW z \in Debts, Honest(x.db, l, z) PROVE Honest(y.db, l, Overtaken(x, l, z))
  <2>1. y \in Progress /\ y.db.taken = x.db.taken
    BY <1>7 DEF Beside
  <2>2. CASE x.seen.list[l].status # x.db.list[l].status
    BY <1>9, <2>1, <2>2, StrayedIsHonest DEF Overtaken
  <2>3. CASE x.seen.list[l].status = x.db.list[l].status
    BY <1>1, <1>9, <2>1, <2>3, SettledIsHonest DEF Overtaken, Settles
  <2> QED
    BY <2>2, <2>3
<1> QED
  BY <1>2, <1>7, <1>8, <1>9

\* Another warehouse, or a courier's event, leaves what was taken.
LEMMA SameIsHonest ==
    ASSUME NEW x, NEW y, NEW l, NEW z, Honest(x.db, l, z),
           y.db.taken = x.db.taken, y.db.contents = x.db.contents,
           y.db.list[l].stock = x.db.list[l].stock,
           Settles(y.db, l) => Settles(x.db, l)
    PROVE  Honest(y.db, l, z)
BY UnitsSame DEF Honest

LEMMA RouteDelivers ==
    ASSUME NEW x \in Progress, NEW l \in Lists, NEW w \in Warehouses, Route(x, l, w).ok
    PROVE  LET y == Route(x, l, w) IN
           /\ Delivers(x, y, l) /\ y.db.list[l].status = x.db.list[l].status
           /\ \A z \in Debts : Honest(x.db, l, z) => Honest(y.db, l, z)
<1> DEFINE row == [x.db.list[l] EXCEPT !.wh = w]
           y == [x EXCEPT !.db.list[l] = row]
<1>1. Exists(x, l)
  BY RejectedIs DEF Route
<1>2. Route(x, l, w) = y
  BY <1>1 DEF Route
<1>3. /\ row \in ListRow /\ row.status = x.db.list[l].status
      /\ row.stock = x.db.list[l].stock
  BY RowOf DEF ListRow
<1>4. WroteList(x, y, l, row)
  BY DEF WroteList
<1> HIDE DEF y, row
<1>5. Delivers(x, x, l)
  <2>1. x \in Progress
    OBVIOUS
  <2> QED
    BY ONLY <2>1, MovesNot, MovesDeliver
<1>6. /\ Delivers(x, y, l) /\ y.db.list[l] = row
      /\ y.db.taken = x.db.taken /\ y.db.contents = x.db.contents
  BY <1>3, <1>4, <1>5, RowDelivers
<1>7. ASSUME NEW z \in Debts, Honest(x.db, l, z) PROVE Honest(y.db, l, z)
  <2>1. y.db.list[l].stock = x.db.list[l].stock /\ (Settles(y.db, l) => Settles(x.db, l))
    BY <1>3, <1>6 DEF Settles
  <2> QED
    BY <1>6, <1>7, <2>1, SameIsHonest
<1> QED
  BY <1>2, <1>3, <1>6, <1>7

Events == {"awaiting", "booked", "delivered"}

LEMMA ShipDelivers ==
    ASSUME NEW x \in Progress, NEW l \in Lists, NEW event \in Events,
           AddShipEvent(x, l, event).ok
    PROVE  LET y == AddShipEvent(x, l, event) IN
           /\ Delivers(x, y, l) /\ y.db.level = x.db.level
           /\ \A z \in Debts : Honest(x.db, l, z) => Honest(y.db, l, Overtaken(x, l, z))
<1> DEFINE b == x.db.list[l]
           status == IF event = "delivered" THEN "shipped" ELSE x.seen.list[l].status
           row1 == [b EXCEPT !.ship = event]
           z == [x EXCEPT !.db.list[l] = row1]
           row == [z.db.list[l] EXCEPT !.status = status]
           y == [z EXCEPT !.db.list[l] = row]
<1>1. Exists(x, l)
  BY RejectedIs DEF AddShipEvent
<1>2. AddShipEvent(x, l, event) = y
  BY <1>1 DEF AddShipEvent
<1>3. b \in ListRow /\ x.seen.list[l] \in ListRow
  BY DEF Progress, Drafted, Seen
<1>4. status \in {"draft", "packed", "shipped", "deleted"}
  BY <1>3 DEF ListRow
<1>5. row1 \in ListRow /\ row1.stock = b.stock
  <2> HIDE DEF b
  <2> QED
    BY <1>3 DEF ListRow, Events
<1>6. WroteList(x, z, l, row1) /\ WroteList(z, y, l, row)
  BY DEF WroteList
<1>7. Delivers(x, x, l)
  <2>1. x \in Progress
    OBVIOUS
  <2> QED
    BY ONLY <2>1, MovesNot, MovesDeliver
<1> HIDE DEF row1, z
<1>8. /\ Delivers(x, z, l) /\ z.db.list[l] = row1
      /\ z.db.taken = x.db.taken /\ z.db.contents = x.db.contents /\ z.db.level = x.db.level
  BY <1>5, <1>6, <1>7, RowDelivers
<1>9. row \in ListRow /\ row.stock = b.stock /\ row.status = status
  <2> HIDE DEF status, b
  <2> QED
    BY <1>4, <1>5, <1>8 DEF ListRow
<1> HIDE DEF row, y
<1>10. /\ Delivers(x, y, l) /\ y.db.list[l] = row
       /\ y.db.taken = x.db.taken /\ y.db.contents = x.db.contents /\ y.db.level = x.db.level
  BY <1>6, <1>8, <1>9, RowDelivers
<1>11. ASSUME x.seen.list[l].status = b.status PROVE status \in {b.status, "shipped"}
  BY <1>11
<1> HIDE DEF status
<1>12. ASSUME NEW debt \in Debts, Honest(x.db, l, debt)
       PROVE  Honest(y.db, l, Overtaken(x, l, debt))
  <2>1. CASE x.seen.list[l].status = b.status
    <3>1. y.db.list[l].stock = x.db.list[l].stock /\ (Settles(y.db, l) => Settles(x.db, l))
      BY <1>9, <1>10, <1>11, <2>1 DEF Settles
    <3>2. Overtaken(x, l, debt) = debt
      BY <2>1 DEF Overtaken
    <3> QED
      BY <1>10, <1>12, <3>1, <3>2, SameIsHonest
  <2>2. CASE x.seen.list[l].status # b.status
    <3>1. y \in Progress
      BY <1>10 DEF Delivers
    <3> QED
      BY <1>10, <1>12, <2>2, <3>1, StrayedIsHonest DEF Overtaken
  <2> QED
    BY <2>1, <2>2
<1> QED
  BY <1>2, <1>9, <1>10, <1>11, <1>12

-----------------------------------------------------------------------------
(* confirm.                                                                *)

LEMMA MaxIsNatural ==
    ASSUME NEW S \in SUBSET Nat, IsFiniteSet(S), S # {}
    PROVE  Max(S) \in Nat
<1> DEFINE P == {T \in SUBSET S : T = {} \/ \E m \in T : \A k \in T : m >= k}
<1>1. ASSUME NEW T \in SUBSET S, \A n \in T : T \ {n} \in P PROVE T \in P
  <2>1. CASE T = {}
    BY <2>1
  <2>2. CASE T # {}
    <3>1. PICK n \in T : TRUE
      BY <2>2
    <3>2. n \in Nat /\ T \ {n} \in P
      BY <1>1, <3>1
    <3>3. CASE T \ {n} = {}
      <4>1. \A k \in T : n >= k
        BY <3>2, <3>3
      <4> QED
        BY <3>1, <4>1
    <3>4. CASE T \ {n} # {}
      <4>1. PICK m \in T \ {n} : \A k \in T \ {n} : m >= k
        BY <3>2, <3>4
      <4>2. m \in Nat /\ m \in T
        BY <4>1
      <4>3. CASE m >= n
        <5>1. \A k \in T : m >= k
          BY <4>1, <4>3
        <5> QED
          BY <4>2, <5>1
      <4>4. CASE ~(m >= n)
        <5>1. ASSUME NEW k \in T PROVE n >= k
          <6>1. k \in Nat
            OBVIOUS
          <6>2. k = n \/ m >= k
            BY <4>1
          <6> QED
            BY <3>2, <4>2, <4>4, <6>1, <6>2
        <5> QED
          BY <3>1, <5>1
      <4> QED
        BY <4>3, <4>4
    <3> QED
      BY <3>3, <3>4
  <2> QED
    BY <2>1, <2>2
<1> HIDE DEF P
<1>2. S \in P
  BY <1>1, FiniteInduction
<1>3. PICK m \in S : \A k \in S : m >= k
  BY <1>2 DEF P
<1>4. Max(S) \in S
  BY <1>3 DEF Max
<1> QED
  BY <1>4


LEMMA NumbersAre ==
    ASSUME NEW x \in Progress, NEW l \in Lists, x.seen.list[l].status # "deleted"
    PROVE  1 + Max(Numbers(x.seen)) \in Nat
<1> DEFINE T == {m \in Lists : x.seen.list[m].status # "deleted"}
           S == {x.seen.list[m].shipNo : m \in T}
           f == [m \in T |-> x.seen.list[m].shipNo]
<1>1. Numbers(x.seen) = S
  BY DEF Numbers
<1>2. \A m \in Lists : x.seen.list[m].shipNo \in Nat
  BY DEF Progress, Seen, ListRow
<1>3. T \in SUBSET Lists /\ IsFiniteSet(T) /\ l \in T
  BY PackingAssumption, FS_Subset
<1>4. f \in Surjection(T, S)
  BY DEF Surjection
<1>5. S \in SUBSET Nat /\ S # {}
  BY <1>2, <1>3
<1> HIDE DEF S, T, f
<1>6. IsFiniteSet(S)
  BY <1>3, <1>4, FS_Surjection
<1>7. Max(S) \in Nat
  BY <1>5, <1>6, MaxIsNatural
<1> HIDE DEF S
<1> QED
  BY <1>1, <1>7

LEMMA SignedIs ==
    ASSUME NEW row \in ListRow, NEW n \in Nat
    PROVE  /\ Signed(row, n) \in ListRow /\ Signed(row, n).status = "packed"
           /\ Signed(row, n).stock = "deducted"
<1> DEFINE no == IF row.shipNo = 0 THEN n ELSE row.shipNo
           ship == IF row.ship = "none" THEN "awaiting" ELSE row.ship
<1>1. no \in Nat /\ ship \in {"none", "awaiting", "booked", "delivered"}
  BY DEF ListRow
<1>2. Signed(row, n) = [row EXCEPT !.status = "packed", !.stock = "deducted",
                                   !.shipNo = no, !.ship = ship]
  BY DEF Signed
<1> HIDE DEF no, ship
<1> QED
  BY <1>1, <1>2 DEF ListRow

LEMMA ConfirmDelivers ==
    ASSUME NEW x \in Progress, NEW l \in Lists, NEW pick \in [Skus -> Warehouses],
           x.seen.list[l].status # "deleted"
    PROVE  LET y == Confirm(x, l, pick) IN
           /\ Delivers(x, y, l) /\ y.db.list[l].status = "packed"
           /\ \A z \in Debts : Honest(x.db, l, z) => Honest(y.db, l, z)
<1> DEFINE n == 1 + Max(Numbers(x.seen))
           y == IF x.db.list[l].stock = "deducted" THEN x ELSE DeductPacked(x, l, pick)
           row == Signed(y.db.list[l], n)
           z == [y EXCEPT !.db.list[l] = row]
<1>1. Confirm(x, l, pick) = z
  BY DEF Confirm
<1>2. n \in Nat
  BY NumbersAre
<1>3. ASSUME x.db.list[l].stock # "deducted", x.db.list[l].wh # NoWarehouse
      PROVE  y \in Deducting(x, l, Skus) /\ x.db.list[l].wh \in Warehouses
  BY <1>3, DeductPackedIs, RowOf DEF ListRow
<1>4. x.db.list[l].stock = "deducted" \/ x.db.list[l].wh = NoWarehouse => y = x
  BY DEF DeductPacked
<1>5. Moves(x, y, l) /\ y \in Progress
  <2>1. CASE x.db.list[l].stock = "deducted" \/ x.db.list[l].wh = NoWarehouse
    BY <1>4, <2>1, MovesNot
  <2>2. CASE ~(x.db.list[l].stock = "deducted" \/ x.db.list[l].wh = NoWarehouse)
    BY <1>3, <2>2 DEF Deducting
  <2> QED
    BY <2>1, <2>2
<1> HIDE DEF n, y
<1>6. y.db.list = x.db.list /\ y.db.contents = x.db.contents /\ Delivers(x, y, l)
  <2>1. Delivers(x, y, l)
    BY ONLY <1>5, MovesDeliver
  <2> QED
    BY <1>5, <2>1 DEF Moves
<1>7. y.db.list[l] \in ListRow
  BY <1>5, RowOf
<1>8. row \in ListRow /\ row.status = "packed" /\ row.stock = "deducted"
  BY <1>2, <1>7, SignedIs
<1>9. WroteList(y, z, l, row)
  BY DEF WroteList
<1> HIDE DEF row, z
<1>10. /\ Delivers(x, z, l) /\ z.db.list[l] = row /\ z.db.taken = y.db.taken
       /\ z.db.contents = x.db.contents /\ z \in Progress
  <2>1. /\ Delivers(x, z, l) /\ z.db.list[l] = row /\ z.db.taken = y.db.taken
        /\ z.db.contents = y.db.contents
    BY <1>6, <1>8, <1>9, RowDelivers
  <2> QED
    BY <1>6, <2>1 DEF Delivers
<1>11. ASSUME NEW debt \in Debts, Honest(x.db, l, debt) PROVE Honest(z.db, l, debt)
  <2>0. ~Settles(z.db, l)
    BY <1>8, <1>10 DEF Settles
  <2>1. CASE x.db.list[l].stock = "deducted"
    BY <1>4, <1>8, <1>10, <1>11, <2>0, <2>1, SameIsHonest
  <2>2. CASE x.db.list[l].stock # "deducted"
    <3>1. Settles(x.db, l)
      BY <2>2 DEF Settles
    <3>2. CASE x.db.list[l].wh = NoWarehouse
      BY <1>4, <1>10, <1>11, <3>1, <3>2, SettledIsHonest
    <3>3. CASE x.db.list[l].wh # NoWarehouse
      <4>1. y \in Deducting(x, l, Skus) /\ x.db.list[l].wh \in Warehouses
        BY <1>3, <2>2, <3>3
      <4> QED
        BY <1>10, <1>11, <2>0, <3>1, <4>1, DeductedIsHonest
    <3> QED
      BY <3>2, <3>3
  <2> QED
    BY <2>1, <2>2
<1> QED
  BY <1>1, <1>8, <1>10, <1>11

-----------------------------------------------------------------------------
(* reopen and remove.                                                      *)

LEMMA RestoredIsNone ==
    ASSUME NEW x \in Progress, NEW l, NEW v \in Restoring(x, l, TakenCells(x, l)),
           \A s \in Skus, w \in Warehouses : x.db.taken[<<l, s, w>>] \in Nat
    PROVE  NoneTaken(v, l)
<1> SUFFICES ASSUME NEW s \in Skus, NEW w \in Warehouses PROVE v.db.taken[<<l, s, w>>] = 0
  BY DEF NoneTaken
<1> DEFINE c == <<s, w>>
<1>1. c \in Cells /\ c[1] = s /\ c[2] = w
  BY DEF Cells
<1>2. x.db.taken[<<l, s, w>>] \in Nat
  OBVIOUS
<1>3. CASE c \in TakenCells(x, l)
  BY <1>1, <1>3 DEF Restoring, TakenAt
<1>4. CASE c \notin TakenCells(x, l)
  <2>1. x.db.taken[<<l, s, w>>] = 0
    BY <1>1, <1>2, <1>4 DEF TakenCells
  <2> QED
    BY <1>1, <1>4, <2>1 DEF Restoring, TakenAt
<1> QED
  BY <1>3, <1>4

\* What is on the shelf again was read so, for syncHold to hold it.
LEMMA RestoredIsRead ==
    ASSUME NEW x \in Progress, NEW l \in Lists, NEW s \in Skus, NEW w \in Warehouses,
           NEW v \in Restoring(x, l, TakenCells(x, l)), Covered(x.db),
           x.db.taken[<<l, s, w>>] \in Nat
    PROVE  /\ Available(x.db, s, w) \in Nat
           /\ \/ x.db.taken[<<l, s, w>>] = 0 /\ Available(v.db, s, w) = Available(x.db, s, w)
              \/ /\ Available(v.db, s, w) = Available(x.db, s, w) + x.db.taken[<<l, s, w>>]
                 /\ Available(v.seen, s, w) = Available(v.db, s, w)
<1> DEFINE c == <<s, w>>
           b == x.db.level[c]
           k == x.db.taken[<<l, s, w>>]
<1>1. c \in Cells /\ c[1] = s /\ c[2] = w
  BY DEF Cells
<1>2. b \in [onHand : Int, reserved : Int] /\ k \in Nat
  BY <1>1 DEF Progress, Drafted
<1>3. b.reserved \in 0 .. b.onHand
  BY <1>1 DEF Covered
<1>4. Available(x.db, s, w) = b.onHand - b.reserved
  BY DEF Available
<1>5. Available(x.db, s, w) \in Nat
  <2> HIDE DEF b
  <2> QED
    BY <1>2, <1>3, <1>4
<1>6. CASE c \in TakenCells(x, l)
  <2>1. /\ v.db.level[c].onHand = b.onHand + k /\ v.db.level[c].reserved = b.reserved
        /\ v.seen.level[c] = v.db.level[c]
    BY <1>1, <1>6 DEF Restoring, TakenAt
  <2>2. Available(v.db, s, w) = (b.onHand + k) - b.reserved
    BY <2>1 DEF Available
  <2>3. Available(v.seen, s, w) = Available(v.db, s, w)
    BY <2>1 DEF Available
  <2> HIDE DEF b, k
  <2>4. (b.onHand + k) - b.reserved = (b.onHand - b.reserved) + k
    BY <1>2
  <2> QED
    BY <1>4, <1>5, <2>2, <2>3, <2>4 DEF k
<1>7. CASE c \notin TakenCells(x, l)
  <2>1. k = 0 /\ v.db.level[c] = b
    BY <1>1, <1>2, <1>7 DEF TakenCells, Restoring
  <2> QED
    BY <1>5, <2>1 DEF Available
<1> QED
  BY <1>6, <1>7


\* A list's holds, written to nothing where it has any.
Zeroed(x, l) ==
    [c \in DOMAIN x.db.hold |-> IF c[1] # l \/ x.db.hold[c].status = "none" THEN x.db.hold[c]
                                ELSE [NoHold EXCEPT !.status = "active"]]

LEMMA ZeroHoldsIs ==
    ASSUME NEW x \in Progress, NEW l \in Lists
    PROVE  LET y == ZeroHolds(x, l) IN
           /\ Beside(x, y) /\ y.db.contents = x.db.contents /\ y.db.list = x.db.list
           /\ \A s \in Skus : Emptied(y, l, s)
<1> DEFINE g == Zeroed(x, l)
           y == ZeroHolds(x, l)
<1>1. y = [x EXCEPT !.db.hold = g]
  BY DEF ZeroHolds, Zeroed
<1>2. DOMAIN x.db.hold = Triples /\ \A c \in Triples : x.db.hold[c] \in Hold
  BY DEF Progress, Drafted
<1>3. [NoHold EXCEPT !.status = "active"] \in Hold
  BY DEF NoHold, Hold
<1>4. g \in [Triples -> Hold]
  BY <1>2, <1>3 DEF Zeroed
<1>6. WroteHolds(x, y, g)
  BY <1>1 DEF WroteHolds
<1> HIDE DEF y, g
<1>7. Beside(x, y) /\ y.db.contents = x.db.contents /\ y.db.list = x.db.list /\ y.db.hold = g
  BY <1>4, <1>6, Reheld
<1>8. ASSUME NEW s \in Skus, NEW w \in Warehouses, g[<<l, s, w>>].status = "active"
      PROVE  g[<<l, s, w>>].qty = 0 /\ g[<<l, s, w>>].fulfilled = 0 /\ g[<<l, s, w>>].released = 0
  <2> DEFINE c == <<l, s, w>>
  <2>1. c \in Triples /\ c[1] = l
    BY DEF Triples
  <2>2. g[c] = IF x.db.hold[c].status = "none" THEN x.db.hold[c]
               ELSE [NoHold EXCEPT !.status = "active"]
    BY <1>2, <2>1 DEF g, Zeroed
  <2>3. g[c] = [NoHold EXCEPT !.status = "active"]
    BY <1>8, <2>2
  <2> QED
    BY <2>3 DEF NoHold
<1>9. \A s \in Skus : Emptied(y, l, s)
  BY <1>7, <1>8 DEF Emptied
<1> QED
  BY <1>7, <1>9 DEF y

\* What reopen makes of a list before it holds its goods again.
Redrafted(x, y, l) ==
    /\ Delivers(x, y, l) /\ y.db.list[l].status = "draft" /\ y.db.list[l].stock = "none"
    /\ y.db.list[l].wh = x.db.list[l].wh /\ y.db.contents = x.db.contents
    /\ \A s \in Skus : Emptied(y, l, s)

WroteDraft(b, y, l) ==
    y = [ZeroHolds(b, l) EXCEPT !.db.list[l].status = "draft", !.db.list[l].stock = "none"]

LEMMA RedraftedIs ==
    ASSUME NEW x \in Progress, NEW l \in Lists, NEW b, Moves(x, b, l), NEW y, WroteDraft(b, y, l)
    PROVE  /\ Redrafted(x, y, l) /\ y.seen = b.seen
           /\ y.db.level = b.db.level /\ y.db.taken = b.db.taken
<1> DEFINE e == ZeroHolds(b, l)
           row1 == [e.db.list[l] EXCEPT !.status = "draft"]
           z == [e EXCEPT !.db.list[l] = row1]
           row == [z.db.list[l] EXCEPT !.stock = "none"]
<1>1. WroteList(z, y, l, row)
  BY DEF WroteList, WroteDraft
<1>2. b \in Progress /\ b.db.list = x.db.list /\ b.db.contents = x.db.contents
  BY DEF Moves
<1>3. /\ Beside(b, e) /\ e.db.contents = b.db.contents /\ e.db.list = b.db.list
      /\ \A s \in Skus : Emptied(e, l, s)
  BY <1>2, ZeroHoldsIs
<1> HIDE DEF e
<1>4. Delivers(x, e, l)
  <2>1. Delivers(x, b, l)
    BY ONLY Moves(x, b, l), MovesDeliver
  <2>2. Near(b, e, l)
    BY <1>3 DEF Near
  <2> QED
    BY ONLY <2>1, <2>2, NearDelivers
<1>5. e \in Progress /\ e.db.list[l] \in ListRow
  BY <1>3, RowOf DEF Beside
<1>6. row1 \in ListRow /\ row1.status = "draft" /\ row1.wh = e.db.list[l].wh
  BY <1>5 DEF ListRow
<1>7. WroteList(e, z, l, row1)
  BY DEF WroteList
<1> HIDE DEF row1, z
<1>8. /\ Delivers(x, z, l) /\ z.db.list[l] = row1 /\ z.seen = e.seen
      /\ z.db.level = e.db.level /\ z.db.taken = e.db.taken /\ z.db.hold = e.db.hold
      /\ z.db.contents = e.db.contents
  BY <1>4, <1>6, <1>7, RowDelivers
<1>9. /\ row \in ListRow /\ row.status = "draft" /\ row.stock = "none"
      /\ row.wh = e.db.list[l].wh
  BY <1>6, <1>8 DEF ListRow
<1> HIDE DEF row
<1>11. /\ Delivers(x, y, l) /\ y.db.list[l] = row /\ y.seen = z.seen
       /\ y.db.level = z.db.level /\ y.db.taken = z.db.taken /\ y.db.hold = z.db.hold
       /\ y.db.contents = z.db.contents
  BY <1>1, <1>8, <1>9, RowDelivers
<1>12. \A s \in Skus : Emptied(y, l, s)
  BY <1>3, <1>8, <1>11 DEF Emptied
<1>13. Redrafted(x, y, l)
  BY <1>2, <1>3, <1>8, <1>9, <1>11, <1>12 DEF Redrafted
<1> QED
  BY <1>3, <1>8, <1>11, <1>13 DEF Beside


\* What is taken back is owed no more.
Repaid(x, l, z) ==
    IF x.db.list[l].stock = "deducted" THEN [c \in DOMAIN z |-> IF c[1] # l THEN z[c] ELSE 0]
    ELSE z

LEMMA RepaidIsHonest ==
    ASSUME NEW x \in Progress, NEW b, NEW y \in Progress, NEW l \in Lists, NEW z \in Debts,
           Honest(x.db, l, z), y.db.taken = b.db.taken,
           x.db.list[l].stock = "deducted" => \A debt \in Debts : Honest(x.db, l, debt) => NoneTaken(b, l),
           x.db.list[l].stock # "deducted" => b.db.taken = x.db.taken
    PROVE  Honest(y.db, l, Repaid(x, l, z))
<1>1. CASE x.db.list[l].stock = "deducted"
  <2>1. NoneTaken(y, l)
    BY <1>1 DEF NoneTaken
  <2>2. Repaid(x, l, z) \in Debts
    BY <1>1 DEF Repaid, Debts
  <2> QED
    BY <2>1, <2>2, NoneIsHonest
<1>2. CASE x.db.list[l].stock # "deducted"
  BY <1>2, SettledIsHonest DEF Repaid, Settles
<1> QED
  BY <1>1, <1>2

LEMMA BackIs ==
    ASSUME NEW x \in Progress, NEW l \in Lists
    PROVE  LET b == IF x.db.list[l].stock = "deducted" THEN PutBack(x, l) ELSE x IN
           /\ Moves(x, b, l)
           /\ x.db.list[l].stock = "deducted" =>
                 \A z \in Debts : Honest(x.db, l, z) => NoneTaken(b, l)
           /\ x.db.list[l].stock # "deducted" => b.db.taken = x.db.taken
<1>1. CASE x.db.list[l].stock = "deducted"
  <2> DEFINE b == PutBack(x, l)
  <2>1. b \in Restoring(x, l, TakenCells(x, l))
    BY PutBackIs
  <2> HIDE DEF b
  <2>2. Moves(x, b, l)
    BY <2>1 DEF Restoring
  <2>3. \A z \in Debts : Honest(x.db, l, z) => NoneTaken(b, l)
    BY <2>1, RestoredIsNone DEF Honest
  <2> QED
    BY <1>1, <2>2, <2>3 DEF b
<1>2. CASE x.db.list[l].stock # "deducted"
  BY <1>2, MovesNot
<1> QED
  BY <1>1, <1>2

LEMMA ReopenDelivers ==
    ASSUME NEW x \in Progress, NEW l \in Lists, NEW pick \in [Skus -> Warehouses],
           Reopen(x, l, pick).ok
    PROVE  LET y == Reopen(x, l, pick) IN
           /\ Delivers(x, y, l) /\ y.db.list[l].status = "draft"
           /\ \A z \in Debts : Honest(x.db, l, z) => Honest(y.db, l, Repaid(x, l, z))
           /\ \A z \in Debts :
                 /\ Honest(x.db, l, z) /\ Covered(x.db) /\ OrderOf[l] = NoOrder
                 /\ x.db.list[l].wh # NoWarehouse
                 => \A s \in Skus : Available(y.db, s, x.db.list[l].wh)
                                       <= Available(x.db, s, x.db.list[l].wh) + z[<<l, s>>]
<1> DEFINE wh == x.db.list[l].wh
           b == IF x.db.list[l].stock = "deducted" THEN PutBack(x, l) ELSE x
           d == [ZeroHolds(b, l) EXCEPT !.db.list[l].status = "draft",
                                        !.db.list[l].stock = "none"]
           y == IF wh = NoWarehouse THEN d ELSE SyncHold(d, l, pick)
<1>1. Reopen(x, l, pick) = y
  <2>1. Reopen(x, l, pick) = IF x.db.list[l].ship \notin {"none", "awaiting"} THEN Rejected(x)
                             ELSE y
    BY DEF Reopen
  <2> QED
    BY <2>1, RejectedIs
<1>2. /\ Moves(x, b, l)
      /\ x.db.list[l].stock = "deducted" =>
            \A z \in Debts : Honest(x.db, l, z) => NoneTaken(b, l)
      /\ x.db.list[l].stock # "deducted" => b.db.taken = x.db.taken
  BY BackIs
<1>3. /\ x.db.list[l].stock = "deducted" => b \in Restoring(x, l, TakenCells(x, l))
      /\ x.db.list[l].stock # "deducted" => b = x
  BY PutBackIs
<1>4. WroteDraft(b, d, l)
  BY DEF WroteDraft
<1>5. wh \in Warehouses \cup {NoWarehouse}
  BY RowOf DEF ListRow
<1> HIDE DEF b, d
<1>6. /\ Redrafted(x, d, l) /\ d.seen = b.seen
      /\ d.db.level = b.db.level /\ d.db.taken = b.db.taken
  BY <1>2, <1>4, RedraftedIs
<1>7. d \in Progress /\ d.db.list[l].wh = wh
  BY <1>6 DEF Redrafted, Delivers
<1>8. CASE wh = NoWarehouse
  <2>1. y = d
    BY <1>8
  <2>2. Delivers(x, d, l) /\ d.db.list[l].status = "draft" /\ d.db.list[l].stock = "none"
    BY <1>6 DEF Redrafted
  <2>3. ASSUME NEW debt \in Debts, Honest(x.db, l, debt)
        PROVE  Honest(d.db, l, Repaid(x, l, debt))
    BY <1>2, <1>6, <1>7, <2>3, RepaidIsHonest
  <2> QED
    BY <1>1, <1>8, <2>1, <2>2, <2>3
<1>9. CASE wh # NoWarehouse
  <2> DEFINE z == SyncHold(d, l, pick)
  <2>1. Reopen(x, l, pick) = z
    BY <1>1, <1>9
  <2>2. Synced(d, z, l)
    BY <1>5, <1>7, <1>9, SyncHoldIs
  <2> HIDE DEF z, y
  <2>3. Delivers(x, d, l) /\ Delivers(d, z, l)
    BY <1>6, <2>2 DEF Redrafted, Synced
  <2>4. Delivers(x, z, l)
    BY ONLY <2>3, DeliversOn
  <2>5. z.db.list[l].status = "draft" /\ z.db.list[l].stock # "deducted"
    BY <1>6, <2>2 DEF Redrafted, Synced
  <2>6. ASSUME NEW debt \in Debts, Honest(x.db, l, debt)
        PROVE  Honest(z.db, l, Repaid(x, l, debt))
    <3>1. z \in Progress /\ z.db.taken = b.db.taken
      BY <1>6, <2>2, <2>4 DEF Delivers, Synced
    <3> QED
      BY <1>2, <2>6, <3>1, RepaidIsHonest
  <2>7. ASSUME NEW debt \in Debts, Honest(x.db, l, debt), Covered(x.db), OrderOf[l] = NoOrder,
               NEW s \in Skus
        PROVE  Available(z.db, s, wh) <= Available(x.db, s, wh) + debt[<<l, s>>]
    <3> DEFINE a == Available(x.db, s, wh)
               k == x.db.taken[<<l, s, wh>>]
               p == x.db.contents[<<l, s>>]
               e == Available(d.db, s, wh)
               f == Available(d.seen, s, wh)
               o == debt[<<l, s>>]
    <3>1. wh \in Warehouses
      BY <1>5, <1>9
    <3>2. Available(z.db, s, wh) = e - Share(d, l, s)
      BY <1>6, <1>7, <2>2, <2>7 DEF Redrafted, Synced
    <3>3. Share(d, l, s) = Lesser(p, Positive(f))
      BY <1>6, <1>7 DEF Redrafted, Share
    <3>4. p \in Nat /\ k \in Nat /\ o \in Nat
      BY <2>7, <3>1 DEF Progress, Drafted, Honest, Debts
    <3>5. k <= p + o
      <4> DEFINE g == [w \in Warehouses |-> x.db.taken[<<l, s, w>>]]
      <4>1. DOMAIN g = Warehouses /\ \A w \in Warehouses : g[w] \in Nat
        BY <2>7 DEF Honest
      <4>2. g[wh] = k
        BY <3>1
      <4>3. SumFunction(g) <= p + o
        BY <2>7 DEF Honest, TakenUnits
      <4>4. IsFiniteSet(Warehouses)
        BY AllFinite DEF Finite
      <4> HIDE DEF g
      <4>5. g[wh] <= SumFunction(g)
        <5> HIDE DEF wh
        <5> QED
          BY <3>1, <4>1, OneIsPart
      <4>6. SumFunction(g) \in Int
        <5>1. \A w \in Warehouses : g[w] \in Int
          BY <4>1
        <5> QED
          BY <4>1, <4>4, <5>1, SumFunctionIs, SumType
      <4> HIDE DEF p, k, o
      <4> QED
        BY <3>4, <4>2, <4>3, <4>5, <4>6
    <3>6. /\ a \in Int
          /\ e = Available(b.db, s, wh) /\ f = Available(b.seen, s, wh)
      <4>1. x.db.level[<<s, wh>>] \in [onHand : Int, reserved : Int]
        BY <3>1 DEF Progress, Drafted, Cells
      <4> QED
        BY <1>6, <4>1 DEF Available
    <3>7. f \in Int
      <4>1. d.seen.level[<<s, wh>>] \in [onHand : Int, reserved : Int]
        BY <1>7, <3>1 DEF Progress, Seen, Cells
      <4> QED
        BY <4>1 DEF Available
    <3>8. \/ e = a
          \/ a \in Nat /\ e = a + k /\ f = e
      <4>1. CASE x.db.list[l].stock = "deducted"
        <5>1. /\ Available(x.db, s, wh) \in Nat
              /\ \/ x.db.taken[<<l, s, wh>>] = 0 /\ Available(b.db, s, wh) = Available(x.db, s, wh)
                 \/ /\ Available(b.db, s, wh) = Available(x.db, s, wh) + x.db.taken[<<l, s, wh>>]
                    /\ Available(b.seen, s, wh) = Available(b.db, s, wh)
          <6>1. b \in Restoring(x, l, TakenCells(x, l)) /\ x.db.taken[<<l, s, wh>>] \in Nat
            BY <1>3, <3>4, <4>1
          <6> HIDE DEF wh
          <6> QED
            BY <2>7, <3>1, <6>1, RestoredIsRead
        <5> QED
          BY <3>6, <5>1
      <4>2. CASE x.db.list[l].stock # "deducted"
        BY <1>3, <3>6, <4>2
      <4> QED
        BY <4>1, <4>2
    <3> HIDE DEF a, k, p, e, f, o
    <3>9. e - Lesser(p, Positive(f)) <= a + o
      BY <3>4, <3>5, <3>6, <3>7, <3>8 DEF Lesser, Positive
    <3> QED
      BY <3>2, <3>3, <3>9 DEF a, o
  <2> QED
    BY <2>1, <2>4, <2>5, <2>6, <2>7
<1> QED
  BY <1>8, <1>9

LEMMA RemoveDelivers ==
    ASSUME NEW x \in Progress, NEW l \in Lists, NEW pick \in [Skus -> Warehouses]
    PROVE  LET y == Remove(x, l, pick) IN
           /\ Delivers(x, y, l) /\ y.db.list[l].status = "deleted"
           /\ \A z \in Debts : Honest(x.db, l, z) => Honest(y.db, l, Repaid(x, l, z))
<1> DEFINE b == IF x.db.list[l].stock = "deducted" THEN PutBack(x, l)
                ELSE ReleaseAll(x, l, pick)
           row == [b.db.list[l] EXCEPT !.status = "deleted"]
           z == [b EXCEPT !.db.list[l] = row]
           g == [c \in DOMAIN z.db.hold |-> IF c[1] = l THEN NoHold ELSE z.db.hold[c]]
           y == [z EXCEPT !.db.hold = g]
<1>1. Remove(x, l, pick) = y
  BY ZenonT(60) DEF Remove
<1>2. /\ Moves(x, b, l)
      /\ x.db.list[l].stock = "deducted" =>
            \A debt \in Debts : Honest(x.db, l, debt) => NoneTaken(b, l)
      /\ x.db.list[l].stock # "deducted" => b.db.taken = x.db.taken
  <2>1. CASE x.db.list[l].stock = "deducted"
    BY <2>1, BackIs
  <2>2. CASE x.db.list[l].stock # "deducted"
    <3>1. b = ReleaseAll(x, l, pick)
      BY <2>2
    <3>2. Moves(x, b, l) /\ b.db.taken = x.db.taken
      BY <3>1, ReleaseAllIs DEF Freeing
    <3> HIDE DEF b
    <3> QED
      BY <2>2, <3>2
  <2> QED
    BY <2>1, <2>2
<1> HIDE DEF b
<1>3. Delivers(x, b, l) /\ b \in Progress
  <2>1. Delivers(x, b, l)
    BY ONLY <1>2, MovesDeliver
  <2> QED
    BY <2>1 DEF Delivers
<1>4. row \in ListRow /\ row.status = "deleted"
  BY <1>3, RowOf DEF ListRow
<1>5. WroteList(b, z, l, row)
  BY DEF WroteList
<1> HIDE DEF row, z
<1>6. /\ Delivers(x, z, l) /\ z.db.list[l] = row /\ z.db.taken = b.db.taken
      /\ z.db.hold = b.db.hold
  BY <1>3, <1>4, <1>5, RowDelivers
<1>7. z \in Progress
  BY <1>6 DEF Delivers
<1>8. g \in [Triples -> Hold]
  <2>1. z.db.hold \in [Triples -> Hold]
    BY <1>7 DEF Progress, Drafted
  <2>2. NoHold \in Hold
    BY DEF NoHold, Hold
  <2> QED
    BY <2>1, <2>2
<1>9. WroteHolds(z, y, g)
  BY DEF WroteHolds
<1> HIDE DEF g, y
<1>10. Beside(z, y) /\ y.db.contents = z.db.contents /\ y.db.list = z.db.list
  BY <1>7, <1>8, <1>9, Reheld
<1>11. Delivers(x, y, l)
  <2>1. Near(z, y, l)
    BY <1>10 DEF Near
  <2> QED
    BY ONLY <1>6, <2>1, NearDelivers
<1>12. ASSUME NEW debt \in Debts, Honest(x.db, l, debt)
       PROVE  Honest(y.db, l, Repaid(x, l, debt))
  <2>1. y \in Progress /\ y.db.taken = b.db.taken
    BY <1>6, <1>10 DEF Beside
  <2> QED
    BY <1>2, <1>12, <2>1, RepaidIsHonest
<1> QED
  BY <1>1, <1>4, <1>6, <1>10, <1>11, <1>12


-----------------------------------------------------------------------------
(***************************************************************************)
(* Every request.                                                          *)
(***************************************************************************)

\* What is owed of a list once a request has committed.
After(kind, x, l, z) ==
    IF kind \in {"reopen", "remove"} THEN Repaid(x, l, z)
    ELSE IF kind = "releaseHold" /\ x.db.list[l].stock = "deducted" THEN Deeper(x, l, z)
    ELSE IF kind \in {"edit", "ship"} THEN Overtaken(x, l, z)
    ELSE z

Kept(d, e, l, z) ==
    /\ d.list[l].status = "packed" /\ e.list[l].status = "draft"
    /\ OrderOf[l] = NoOrder /\ d.list[l].wh # NoWarehouse
    => \A s \in Skus :
          Available(e, s, d.list[l].wh) <= Available(d, s, d.list[l].wh) + z[<<l, s>>]

Accounts(kind, x, y, l) ==
    \A z \in Debts : Honest(x.db, l, z) /\ Covered(x.db) =>
        Honest(y.db, l, After(kind, x, l, z)) /\ Kept(x.db, y.db, l, z)

LEMMA DebtIsNone ==
    ASSUME NEW d \in Drafted, NEW e, NEW l \in Lists, NEW z \in Debts, e.level = d.level
    PROVE  Kept(d, e, l, z)
<1> SUFFICES ASSUME d.list[l].wh # NoWarehouse, NEW s \in Skus
             PROVE  Available(e, s, d.list[l].wh) <= Available(d, s, d.list[l].wh) + z[<<l, s>>]
  BY DEF Kept
<1>1. d.list[l].wh \in Warehouses
  BY DEF Drafted, ListRow
<1> DEFINE w == d.list[l].wh
<1>2. <<s, w>> \in Cells /\ z[<<l, s>>] \in Nat
  BY <1>1 DEF Cells, Debts
<1>3. d.level[<<s, w>>].onHand \in Int /\ d.level[<<s, w>>].reserved \in Int
  BY <1>2 DEF Drafted
<1> HIDE DEF w
<1>4. Available(e, s, w) = Available(d, s, w) /\ Available(d, s, w) \in Int
  BY <1>3 DEF Available
<1> QED
  BY <1>2, <1>4 DEF w

LEMMA StatusKept ==
    ASSUME NEW d, NEW e, NEW l, NEW z,
           e.list[l].status = d.list[l].status \/ e.list[l].status # "draft"
    PROVE  Kept(d, e, l, z)
BY DEF Kept

LEMMA OutcomeDelivers ==
    ASSUME NEW x \in Progress, NEW l \in Lists, NEW kind \in AllKinds, NEW arg \in Inputs(kind),
           x.seen.list[l].status # "deleted", Outcome(kind, x, l, arg).ok
    PROVE  LET y == Outcome(kind, x, l, arg) IN Delivers(x, y, l) /\ Accounts(kind, x, y, l)
<1> DEFINE y == Outcome(kind, x, l, arg)
<1>1. CASE kind = "hold"
  <2>1. y = HoldStock(x, l, arg) /\ arg \in [Skus -> Warehouses]
    BY <1>1 DEF Outcome, Inputs
  <2>2. /\ Delivers(x, y, l) /\ y.db.list[l].status = x.db.list[l].status
        /\ \A z \in Debts : Honest(x.db, l, z) =>
              Honest(y.db, l, z)
    BY <2>1, HoldDelivers
  <2> HIDE DEF y
  <2>3. \A z \in Debts : After(kind, x, l, z) = z
    BY <1>1 DEF After
  <2>4. \A z \in Debts : Kept(x.db, y.db, l, z)
    BY <2>2, StatusKept
  <2> QED
    BY <2>2, <2>3, <2>4 DEF Accounts, y
<1>2. CASE kind = "releaseHold"
  <2>1. y = ReleaseHold(x, l, arg) /\ arg \in [Skus -> Warehouses]
    BY <1>2 DEF Outcome, Inputs
  <2>2. /\ Delivers(x, y, l) /\ y.db.list[l].status = x.db.list[l].status
        /\ \A z \in Debts : Honest(x.db, l, z) =>
              Honest(y.db, l, IF x.db.list[l].stock = "deducted" THEN Deeper(x, l, z) ELSE z)
    BY <2>1, ReleaseDelivers
  <2> HIDE DEF y
  <2>3. \A z \in Debts : After(kind, x, l, z) = (IF x.db.list[l].stock = "deducted" THEN Deeper(x, l, z) ELSE z)
    BY <1>2 DEF After
  <2>4. \A z \in Debts : Kept(x.db, y.db, l, z)
    BY <2>2, StatusKept
  <2> QED
    BY <2>2, <2>3, <2>4 DEF Accounts, y
<1>3. CASE kind = "confirm"
  <2>1. y = Confirm(x, l, arg) /\ arg \in [Skus -> Warehouses]
    BY <1>3 DEF Outcome, Inputs
  <2>2. /\ Delivers(x, y, l) /\ y.db.list[l].status = "packed"
        /\ \A z \in Debts : Honest(x.db, l, z) =>
              Honest(y.db, l, z)
    BY <2>1, ConfirmDelivers
  <2> HIDE DEF y
  <2>3. \A z \in Debts : After(kind, x, l, z) = z
    BY <1>3 DEF After
  <2>4. \A z \in Debts : Kept(x.db, y.db, l, z)
    BY <2>2, StatusKept
  <2> QED
    BY <2>2, <2>3, <2>4 DEF Accounts, y
<1>4. CASE kind = "reopen"
  <2>1. y = Reopen(x, l, arg) /\ arg \in [Skus -> Warehouses]
    BY <1>4 DEF Outcome, Inputs
  <2>2. /\ Delivers(x, y, l)
        /\ \A z \in Debts : Honest(x.db, l, z) => Honest(y.db, l, Repaid(x, l, z))
        /\ \A z \in Debts :
              /\ Honest(x.db, l, z) /\ Covered(x.db) /\ OrderOf[l] = NoOrder
              /\ x.db.list[l].wh # NoWarehouse
              => \A s \in Skus : Available(y.db, s, x.db.list[l].wh)
                                    <= Available(x.db, s, x.db.list[l].wh) + z[<<l, s>>]
    BY <2>1, ReopenDelivers
  <2> HIDE DEF y
  <2>3. \A z \in Debts : After(kind, x, l, z) = Repaid(x, l, z)
    BY <1>4 DEF After
  <2>4. \A z \in Debts : Honest(x.db, l, z) /\ Covered(x.db) => Kept(x.db, y.db, l, z)
    BY <2>2 DEF Kept
  <2> QED
    BY <2>2, <2>3, <2>4 DEF Accounts, y
<1>5. CASE kind = "remove"
  <2>1. y = Remove(x, l, arg) /\ arg \in [Skus -> Warehouses]
    BY <1>5 DEF Outcome, Inputs
  <2>2. /\ Delivers(x, y, l) /\ y.db.list[l].status = "deleted"
        /\ \A z \in Debts : Honest(x.db, l, z) =>
              Honest(y.db, l, Repaid(x, l, z))
    BY <2>1, RemoveDelivers
  <2> HIDE DEF y
  <2>3. \A z \in Debts : After(kind, x, l, z) = Repaid(x, l, z)
    BY <1>5 DEF After
  <2>4. \A z \in Debts : Kept(x.db, y.db, l, z)
    BY <2>2, StatusKept
  <2> QED
    BY <2>2, <2>3, <2>4 DEF Accounts, y
<1>6. CASE kind = "edit"
  <2>1. y = Edit(x, l, arg) /\ arg \in [Skus -> Contents]
    BY <1>6 DEF Outcome, Inputs
  <2>2. /\ Delivers(x, y, l) /\ y.db.list[l].status = x.db.list[l].status
        /\ \A z \in Debts : Honest(x.db, l, z) =>
              Honest(y.db, l, Overtaken(x, l, z))
    BY <2>1, EditDelivers
  <2> HIDE DEF y
  <2>3. \A z \in Debts : After(kind, x, l, z) = Overtaken(x, l, z)
    BY <1>6 DEF After
  <2>4. \A z \in Debts : Kept(x.db, y.db, l, z)
    BY <2>2, StatusKept
  <2> QED
    BY <2>2, <2>3, <2>4 DEF Accounts, y
<1>7. CASE kind = "route"
  <2>1. y = Route(x, l, arg) /\ arg \in Warehouses
    BY <1>7 DEF Outcome, Inputs
  <2>2. /\ Delivers(x, y, l) /\ y.db.list[l].status = x.db.list[l].status
        /\ \A z \in Debts : Honest(x.db, l, z) =>
              Honest(y.db, l, z)
    BY <2>1, RouteDelivers
  <2> HIDE DEF y
  <2>3. \A z \in Debts : After(kind, x, l, z) = z
    BY <1>7 DEF After
  <2>4. \A z \in Debts : Kept(x.db, y.db, l, z)
    BY <2>2, StatusKept
  <2> QED
    BY <2>2, <2>3, <2>4 DEF Accounts, y
<1>8. CASE kind = "ship"
  <2>1. y = AddShipEvent(x, l, arg) /\ arg \in Events
    BY <1>8 DEF Outcome, Inputs, Events
  <2>2. /\ Delivers(x, y, l) /\ y.db.level = x.db.level
        /\ \A z \in Debts : Honest(x.db, l, z) =>
              Honest(y.db, l, Overtaken(x, l, z))
    BY <2>1, ShipDelivers
  <2> HIDE DEF y
  <2>3. \A z \in Debts : After(kind, x, l, z) = Overtaken(x, l, z)
    BY <1>8 DEF After
  <2>4. \A z \in Debts : Kept(x.db, y.db, l, z)
    BY <2>2, DebtIsNone DEF Progress
  <2> QED
    BY <2>2, <2>3, <2>4 DEF Accounts, y
<1> QED
  BY <1>1, <1>2, <1>3, <1>4, <1>5, <1>6, <1>7, <1>8 DEF AllKinds, Locked, Unlocked

-----------------------------------------------------------------------------
(***************************************************************************)
(* The inductive invariant.                                                *)
(***************************************************************************)
Request == [kind : Kinds, list : Lists, seen : Seen]
Busy == {t \in Tx : run[t] # Idle}

Types ==
    /\ db \in Rows /\ Covered(db)
    /\ run \in [Tx -> Request \cup {Idle}]
    /\ \A t \in Busy : run[t].seen.list[run[t].list].status # "deleted"
    /\ IsFiniteSet(Busy) /\ begun \in Nat /\ begun <= MaxRequests
    /\ Cardinality(Busy) <= begun

IInv ==
    /\ Types
    /\ astray \in Debts
    /\ \A l \in Lists : Honest(db, l, astray)

LEMMA BusyAsks == Types => \A t \in Busy : t \in Tx /\ run[t] \in Request
BY DEF Types, Busy

LEMMA RequestIsNotIdle == \A r \in Request : r # Idle
<1> TAKE r \in Request
<1>1. r.kind # "idle"
  BY PackingAssumption DEF Request, AllKinds, Locked, Unlocked
<1>2. Idle.kind = "idle"
  BY DEF Idle
<1> QED
  BY <1>1, <1>2

\* A request starts from what is committed and what it read.
LEMMA StartIs ==
    ASSUME db \in Rows, NEW seen \in Seen
    PROVE  /\ Start(seen) \in Progress /\ Start(seen).ok
           /\ Start(seen).db = db /\ Start(seen).seen = seen
<1>1. db \in Drafted
  BY DEF Rows, Drafted, Triples, Orders3
<1> QED
  BY <1>1 DEF Start, Progress

LEMMA SnapshotIs ==
    ASSUME db \in Rows
    PROVE  Snapshot(db) \in Seen /\ Snapshot(db).list = db.list
BY DEF Rows, Seen, Snapshot, Orders3

\* What a commit changes.
Changes(d, e, l) ==
    /\ e \in Rows /\ Covered(e)
    /\ \A m \in Lists : m # l =>
          /\ e.list[m] = d.list[m]
          /\ \A s \in Skus : e.contents[<<m, s>>] = d.contents[<<m, s>>]
          /\ \A s \in Skus, w \in Warehouses : e.taken[<<m, s, w>>] = d.taken[<<m, s, w>>]

LEMMA DeliversChanges ==
    ASSUME NEW x, NEW y, NEW l, Delivers(x, y, l), y.ok, Covered(x.db)
    PROVE  Changes(x.db, y.db, l)
<1>1. y.db \in Drafted /\ Covered(y.db)
  BY DEF Delivers, Progress
<1> DEFINE e == y.db
<1>2. e \in Rows
  <2> HIDE DEF e
  <2>1. e \in Drafted /\ Covered(e)
    BY <1>1 DEF e
  <2>2. e.level \in [Cells -> [onHand : Nat, reserved : Nat]]
    <3>1. e.level \in [Cells -> [onHand : Int, reserved : Int]]
      BY <2>1 DEF Drafted
    <3>2. ASSUME NEW c \in Cells PROVE e.level[c] \in [onHand : Nat, reserved : Nat]
      <4>1. e.level[c] \in [onHand : Int, reserved : Int]
        BY <3>1
      <4>2. e.level[c].reserved \in 0 .. e.level[c].onHand
        BY <2>1 DEF Covered
      <4>3. e.level[c].reserved \in Nat /\ e.level[c].onHand \in Nat
        BY <4>1, <4>2
      <4> QED
        BY <4>1, <4>3
    <3> QED
      BY <3>1, <3>2
  <2>3. e = [list |-> e.list, contents |-> e.contents, hold |-> e.hold,
             orderHold |-> e.orderHold, level |-> e.level, taken |-> e.taken]
    BY <2>1 DEF Drafted
  <2>4. /\ e.list \in [Lists -> ListRow] /\ e.contents \in [Lists \X Skus -> Nat]
        /\ e.hold \in [Triples -> Hold] /\ e.orderHold \in [Orders3 -> Hold]
        /\ e.taken \in [Triples -> Int]
    BY <2>1 DEF Drafted
  <2> QED
    BY <2>2, <2>3, <2>4 DEF Rows, Triples, Orders3
<1> QED
  BY <1>1, <1>2 DEF Changes, Delivers

LEMMA OthersAreHonest ==
    ASSUME NEW d, NEW e, NEW l, NEW m \in Lists, m # l, Changes(d, e, l),
           NEW z, NEW z2, \A s \in Skus : z2[<<m, s>>] = z[<<m, s>>], Honest(d, m, z)
    PROVE  Honest(e, m, z2)
<1>1. /\ e.list[m] = d.list[m]
      /\ \A s \in Skus : e.contents[<<m, s>>] = d.contents[<<m, s>>]
      /\ \A s \in Skus, w \in Warehouses : e.taken[<<m, s, w>>] = d.taken[<<m, s, w>>]
  BY DEF Changes
<1>2. ASSUME NEW s \in Skus PROVE TakenUnits(e, m, s) = TakenUnits(d, m, s)
  <2>1. [w \in Warehouses |-> e.taken[<<m, s, w>>]] = [w \in Warehouses |-> d.taken[<<m, s, w>>]]
    BY <1>1
  <2> QED
    BY <2>1 DEF TakenUnits
<1> QED
  BY <1>1, <1>2 DEF Honest, Settles

\* What the history notes of a commit.
LEMMA AstrayIs ==
    ASSUME astray \in Debts, NEW r, NEW l \in Lists, NEW x, x.db = db, x.seen = r.seen
    PROVE  Astray(r, l) = After(r.kind, x, l, astray)
<1>1. \A c \in DOMAIN astray : x.db.contents[c] = db.contents[c]
  OBVIOUS
<1>2. CASE r.kind \in {"reopen", "remove"}
  <2>1. ~LosesTrack(r, l) /\ (PutsAllBack(r, l) <=> db.list[l].stock = "deducted")
    BY <1>2 DEF LosesTrack, PutsAllBack
  <2>2. CASE db.list[l].stock = "deducted"
    BY <1>2, <2>1, <2>2 DEF Astray, After, Repaid
  <2>3. CASE db.list[l].stock # "deducted"
    <3>1. Astray(r, l) = [c \in DOMAIN astray |-> astray[c]]
      BY <2>1, <2>3 DEF Astray
    <3> QED
      BY <1>2, <2>3, <3>1 DEF After, Repaid, Debts
  <2> QED
    BY <2>2, <2>3
<1>3. CASE r.kind \notin {"reopen", "remove"}
  <2>1. ~PutsAllBack(r, l)
    BY <1>3 DEF PutsAllBack
  <2>2. CASE LosesTrack(r, l)
    <3>1. Astray(r, l) = Deeper(x, l, astray)
      BY <2>1, <2>2 DEF Astray, Deeper
    <3> QED
      BY <1>3, <2>2, <3>1 DEF LosesTrack, After, Overtaken
  <2>3. CASE ~LosesTrack(r, l)
    <3>1. Astray(r, l) = [c \in DOMAIN astray |-> astray[c]]
      BY <2>1, <2>3 DEF Astray
    <3>2. After(r.kind, x, l, astray) = astray
      BY <1>3, <2>3 DEF LosesTrack, After, Overtaken
    <3> QED
      BY <3>1, <3>2 DEF Debts
  <2> QED
    BY <2>2, <2>3
<1> QED
  BY <1>2, <1>3

LEMMA AfterIs ==
    ASSUME NEW kind, NEW x \in Progress, NEW l \in Lists, NEW z \in Debts
    PROVE  /\ After(kind, x, l, z) \in Debts
           /\ \A m \in Lists, s \in Skus : m # l => After(kind, x, l, z)[<<m, s>>] = z[<<m, s>>]
<1>1. Deeper(x, l, z) \in Debts
  <2>1. \A c \in Lists \X Skus : z[c] \in Nat /\ x.db.contents[c] \in Nat
    BY DEF Debts, Progress, Drafted
  <2>2. DOMAIN z = Lists \X Skus
    BY DEF Debts
  <2> QED
    BY <2>1, <2>2 DEF Deeper, Debts
<1>2. \A m \in Lists, s \in Skus : m # l => Deeper(x, l, z)[<<m, s>>] = z[<<m, s>>]
  BY DEF Deeper, Debts
<1>3. /\ Repaid(x, l, z) \in Debts
      /\ \A m \in Lists, s \in Skus : m # l => Repaid(x, l, z)[<<m, s>>] = z[<<m, s>>]
  BY DEF Repaid, Debts
<1> QED
  BY <1>1, <1>2, <1>3 DEF After, Overtaken


-----------------------------------------------------------------------------
(* The first state, and the steps.                                         *)

LEMMA InitHolds == Init => IInv
<1> SUFFICES ASSUME Init PROVE IInv
  OBVIOUS
<1> DEFINE Reserved(c) == SumFunction([o \in Orders |-> OrderHeld[<<o, c[1], c[2]>>]])
<1> DEFINE first == [l \in Lists |-> [status |-> "draft", stock |-> "none", shipNo |-> 0,
                                       ship |-> "none", wh |-> ShipsFrom[l]]]
           bare == [c \in Lists \X Skus \X Warehouses |-> NoHold]
           held == [c \in Orders \X Skus \X Warehouses |->
                       IF OrderHeld[c] = 0 THEN NoHold
                       ELSE [NoHold EXCEPT !.qty = OrderHeld[c], !.status = "active"]]
           level == [c \in Cells |-> [onHand |-> Opening[c], reserved |-> Reserved(c)]]
           none == [c \in Lists \X Skus \X Warehouses |-> 0]
<1>1. db = [list |-> first, contents |-> Packed, hold |-> bare, orderHold |-> held,
            level |-> level, taken |-> none]
  BY DEF Init
<1>3. ASSUME NEW c \in Cells
      PROVE  Opening[c] \in Nat /\ Reserved(c) \in Nat /\ Reserved(c) <= Opening[c]
  <2>1. c[1] \in Skus /\ c[2] \in Warehouses /\ c = <<c[1], c[2]>>
    BY DEF Cells
  <2>2. Opening[c] \in Nat
    BY PackingAssumption DEF Cells
  <2>3. Reserved(c) <= Opening[<<c[1], c[2]>>]
    BY <2>1, PackingAssumption
  <2>4. Reserved(c) \in Nat
    <3> DEFINE f == [o \in Orders |-> OrderHeld[<<o, c[1], c[2]>>]]
    <3>1. \A o \in Orders : f[o] \in Nat
      BY <2>1, PackingAssumption
    <3>2. IsFiniteSet(Orders) /\ DOMAIN f = Orders
      BY PackingAssumption
    <3>3. Reserved(c) = SumFunction(f)
      OBVIOUS
    <3> HIDE DEF f, Reserved
    <3>4. SumFunction(f) = Sum(f, Orders)
      BY <3>2, SumFunctionIs
    <3>5. Sum(f, Orders) \in Nat
      BY <3>1, <3>2, SumNat
    <3> QED
      BY <3>3, <3>4, <3>5
  <2> HIDE DEF Reserved
  <2> QED
    BY <2>1, <2>2, <2>3, <2>4
<1> HIDE DEF Reserved
<1>4. NoHold \in Hold
  BY DEF NoHold, Hold
<1>5. first \in [Lists -> ListRow] /\ \A l \in Lists : first[l].stock = "none"
  <2>1. ASSUME NEW l \in Lists
        PROVE  [status |-> "draft", stock |-> "none", shipNo |-> 0, ship |-> "none",
                wh |-> ShipsFrom[l]] \in ListRow
    BY PackingAssumption DEF ListRow
  <2> QED
    BY <2>1
<1>6. Packed \in [Lists \X Skus -> Nat]
  BY PackingAssumption
<1>7. bare \in [Lists \X Skus \X Warehouses -> Hold]
  BY <1>4
<1>8. held \in [Orders \X Skus \X Warehouses -> Hold]
  <2>1. ASSUME NEW n \in Nat
        PROVE  [NoHold EXCEPT !.qty = n, !.status = "active"] \in Hold
    BY DEF NoHold, Hold
  <2>2. ASSUME NEW c \in Orders \X Skus \X Warehouses
        PROVE  (IF OrderHeld[c] = 0 THEN NoHold
                ELSE [NoHold EXCEPT !.qty = OrderHeld[c], !.status = "active"]) \in Hold
    <3>1. OrderHeld[c] \in Nat
      BY PackingAssumption
    <3> QED
      BY <1>4, <2>1, <3>1
  <2> QED
    BY <2>2
<1>9. /\ level \in [Cells -> [onHand : Nat, reserved : Nat]]
      /\ \A c \in Cells : level[c].reserved \in 0 .. level[c].onHand
  BY <1>3
<1>10. /\ none \in [Lists \X Skus \X Warehouses -> Int]
       /\ \A c \in Lists \X Skus \X Warehouses : none[c] = 0
  OBVIOUS
<1> HIDE DEF first, bare, held, level, none
<1>11. /\ db.list = first /\ db.contents = Packed /\ db.hold = bare
       /\ db.orderHold = held /\ db.level = level /\ db.taken = none
  BY <1>1
<1>12. db \in Rows
  BY <1>1, <1>5, <1>6, <1>7, <1>8, <1>9, <1>10 DEF Rows
<1>13. Covered(db)
  BY <1>9, <1>11 DEF Covered
<1>14. run = [t \in Tx |-> Idle] /\ begun = 0 /\ Busy = {}
  BY DEF Init, Busy
<1>15. Types
  <2>1. IsFiniteSet({}) /\ Cardinality({}) = 0 /\ MaxRequests \in Nat
    BY FS_EmptySet, PackingAssumption
  <2> QED
    BY <1>12, <1>13, <1>14, <2>1 DEF Types
<1>16. astray \in Debts
  BY DEF Init, Debts
<1>17. ASSUME NEW l \in Lists PROVE Honest(db, l, astray)
  <2> DEFINE x == Start(Snapshot(db))
  <2>1. x \in Progress /\ x.db = db
    BY <1>12, StartIs, SnapshotIs
  <2> HIDE DEF x
  <2>2. NoneTaken(x, l)
    BY <1>10, <1>11, <2>1 DEF NoneTaken, Triples
  <2>3. Honest(x.db, l, astray)
    BY <1>16, <2>1, <2>2, NoneIsHonest
  <2> QED
    BY <2>1, <2>3
<1> QED
  BY <1>15, <1>16, <1>17 DEF IInv

\* A read takes what is committed.
LEMMA ReadHolds ==
    ASSUME IInv, NEW t \in Tx, NEW kind \in Kinds, NEW l \in Lists, Read(t, kind, l)
    PROVE  IInv'
<1> DEFINE r == [kind |-> kind, list |-> l, seen |-> Snapshot(db)]
<1>1. /\ run[t] = Idle /\ begun < MaxRequests /\ begun' = begun + 1
      /\ run' = [run EXCEPT ![t] = r] /\ db' = db /\ astray' = astray
      /\ db.list[l].status # "deleted"
  BY DEF Read
<1>2. Types
  BY DEF IInv
<1>3. /\ r \in Request /\ r # Idle /\ r.kind = kind /\ r.list = l
      /\ r.seen.list = db.list
  BY <1>2, SnapshotIs, RequestIsNotIdle DEF Request, Types
<1> HIDE DEF r
<1>4. run'[t] = r /\ \A u \in Tx : u # t => run'[u] = run[u]
  BY <1>1, <1>2 DEF Types
<1>5. Busy' = Busy \cup {t} /\ t \notin Busy
  BY <1>1, <1>3, <1>4 DEF Busy
<1>6. Types'
  <2>1. IsFiniteSet(Busy)' /\ Cardinality(Busy)' = Cardinality(Busy) + 1
    BY <1>2, <1>5, FS_AddElement DEF Types
  <2>2. Cardinality(Busy) \in Nat /\ Cardinality(Busy) <= begun /\ begun \in Nat
    BY <1>2, FS_CardinalityType DEF Types
  <2>3. begun' \in Nat /\ begun' <= MaxRequests /\ Cardinality(Busy)' <= begun'
    BY <1>1, <2>1, <2>2, PackingAssumption
  <2>4. run' \in [Tx -> Request \cup {Idle}]
    BY <1>1, <1>2, <1>3 DEF Types
  <2>5. \A u \in Busy' : run'[u].seen.list[run'[u].list].status # "deleted"
    <3> TAKE u \in Busy'
    <3>1. CASE u = t
      BY <1>1, <1>3, <1>4, <3>1
    <3>2. CASE u # t
      BY <1>2, <1>4, <1>5, <3>2 DEF Types, Busy
    <3> QED
      BY <3>1, <3>2
  <2>6. (db \in Rows /\ Covered(db))'
    BY <1>1, <1>2 DEF Types, Covered, Rows
  <2> QED
    BY <2>1, <2>3, <2>4, <2>5, <2>6 DEF Types
<1>7. (astray \in Debts /\ \A m \in Lists : Honest(db, m, astray))'
  <2>1. astray \in Debts /\ \A m \in Lists : Honest(db, m, astray)
    BY DEF IInv
  <2> QED
    BY <1>1, <2>1
<1> QED
  BY <1>6, <1>7 DEF IInv

\* A request is done: one less under way.
LEMMA DoneIs ==
    ASSUME Types, NEW t \in Busy, run' = [run EXCEPT ![t] = Idle]
    PROVE  /\ Busy' = Busy \ {t} /\ run' \in [Tx -> Request \cup {Idle}]
           /\ \A u \in Busy' : u \in Busy /\ u # t /\ run'[u] = run[u]
           /\ IsFiniteSet(Busy') /\ Cardinality(Busy) \in Nat
           /\ Cardinality(Busy') \in Nat /\ Cardinality(Busy') = Cardinality(Busy) - 1
<1>1. t \in Tx /\ run \in [Tx -> Request \cup {Idle}] /\ IsFiniteSet(Busy)
  BY DEF Types, Busy
<1>2. run'[t] = Idle /\ \A u \in Tx : u # t => run'[u] = run[u]
  BY <1>1
<1>3. Busy' = Busy \ {t}
  BY <1>2 DEF Busy
<1>4. run' \in [Tx -> Request \cup {Idle}]
  BY <1>1
<1>5. \A u \in Busy' : u \in Busy /\ u # t /\ run'[u] = run[u]
  BY <1>2, <1>3 DEF Busy
<1>6. /\ IsFiniteSet(Busy \ {t}) /\ Cardinality(Busy \ {t}) = Cardinality(Busy) - 1
      /\ Cardinality(Busy) \in Nat /\ Cardinality(Busy \ {t}) \in Nat
  BY <1>1, FS_RemoveElement, FS_CardinalityType
<1> QED
  BY <1>3, <1>4, <1>5, <1>6

\* A request ends without a trace.
LEMMA EndHolds ==
    ASSUME IInv, NEW t \in Busy, run' = [run EXCEPT ![t] = Idle], db' = db,
           astray' = astray, begun' = begun - 1
    PROVE  IInv'
<1>1. Types
  BY DEF IInv
<1>2. /\ run' \in [Tx -> Request \cup {Idle}]
      /\ \A u \in Busy' : u \in Busy /\ u # t /\ run'[u] = run[u]
      /\ IsFiniteSet(Busy') /\ Cardinality(Busy) \in Nat
      /\ Cardinality(Busy') \in Nat /\ Cardinality(Busy') = Cardinality(Busy) - 1
  BY <1>1, DoneIs
<1>3. Types'
  <2>1. begun' \in Nat /\ begun' <= MaxRequests /\ Cardinality(Busy') <= begun'
    BY <1>1, <1>2, PackingAssumption DEF Types
  <2>2. (db \in Rows /\ Covered(db))'
    BY <1>1 DEF Types, Covered, Rows
  <2>3. \A u \in Busy' : run'[u].seen.list[run'[u].list].status # "deleted"
    BY <1>1, <1>2 DEF Types
  <2> QED
    BY <1>2, <2>1, <2>2, <2>3 DEF Types
<1>4. (astray \in Debts /\ \A m \in Lists : Honest(db, m, astray))'
  <2>1. astray \in Debts /\ \A m \in Lists : Honest(db, m, astray)
    BY DEF IInv
  <2> QED
    BY <2>1
<1> QED
  BY <1>3, <1>4 DEF IInv

\* A commit changes its own list, and leaves it accounted for.
LEMMA CommitHolds ==
    ASSUME IInv, NEW t \in Busy, run' = [run EXCEPT ![t] = Idle], begun' = begun,
           Changes(db, db', run[t].list), astray' \in Debts,
           Honest(db', run[t].list, astray'),
           \A m \in Lists, s \in Skus : m # run[t].list => astray'[<<m, s>>] = astray[<<m, s>>]
    PROVE  IInv'
<1> DEFINE l == run[t].list
<1>1. Types
  BY DEF IInv
<1>2. /\ run' \in [Tx -> Request \cup {Idle}]
      /\ \A u \in Busy' : u \in Busy /\ u # t /\ run'[u] = run[u]
      /\ IsFiniteSet(Busy') /\ Cardinality(Busy) \in Nat
      /\ Cardinality(Busy') \in Nat /\ Cardinality(Busy') = Cardinality(Busy) - 1
  BY <1>1, DoneIs
<1>3. Types'
  <2>1. begun' \in Nat /\ begun' <= MaxRequests /\ Cardinality(Busy') <= begun'
    BY <1>1, <1>2, PackingAssumption DEF Types
  <2>2. (db \in Rows /\ Covered(db))'
    BY DEF Changes, Covered, Rows
  <2>3. \A u \in Busy' : run'[u].seen.list[run'[u].list].status # "deleted"
    BY <1>1, <1>2 DEF Types
  <2> QED
    BY <1>2, <2>1, <2>2, <2>3 DEF Types
<1>4. ASSUME NEW m \in Lists PROVE Honest(db', m, astray')
  <2>1. CASE m = l
    BY <2>1
  <2>2. CASE m # l
    BY <2>2, OthersAreHonest DEF IInv
  <2> QED
    BY <2>1, <2>2
<1> QED
  BY <1>3, <1>4 DEF IInv

\* A commit, and what is owed after it.
Commits(t) ==
    /\ begun' = begun /\ Changes(db, db', run[t].list)
    /\ astray' \in Debts /\ Honest(db', run[t].list, astray')
    /\ \A m \in Lists, s \in Skus : m # run[t].list => astray'[<<m, s>>] = astray[<<m, s>>]
    /\ Kept(db, db', run[t].list, astray)

\* A request that is acted upon commits what it delivers, or nothing.
LEMMA ActIs ==
    ASSUME IInv, NEW t \in Tx, Act(t)
    PROVE  /\ t \in Busy /\ run' = [run EXCEPT ![t] = Idle]
           /\ \/ db' = db /\ astray' = astray /\ begun' = begun - 1
              \/ Commits(t)
<1> DEFINE kind == run[t].kind
           l == run[t].list
           x == Start(run[t].seen)
<1>1. t \in Busy /\ run' = [run EXCEPT ![t] = Idle]
  BY DEF Act, Busy
<1>2. Types /\ astray \in Debts
  BY DEF IInv
<1>3. /\ kind \in AllKinds /\ l \in Lists /\ run[t].seen \in Seen
      /\ run[t].seen.list[l].status # "deleted"
  BY <1>1, <1>2, BusyAsks, PackingAssumption DEF Request, Types
<1>4. x \in Progress /\ x.db = db /\ x.seen = run[t].seen
  BY <1>2, <1>3, StartIs DEF Types
<1>5. PICK arg \in Inputs(kind) :
         LET y == Outcome(kind, x, l, arg) IN
         IF y.ok THEN db' = y.db /\ astray' = Astray(run[t], l) /\ begun' = begun
         ELSE db' = db /\ astray' = astray /\ begun' = begun - 1
  BY DEF Act
<1> DEFINE y == Outcome(kind, x, l, arg)
<1>6. CASE ~y.ok
  BY <1>1, <1>5, <1>6
<1>7. CASE y.ok
  <2>1. db' = y.db /\ begun' = begun /\ astray' = Astray(run[t], l)
    BY <1>5, <1>7
  <2>2. x.seen.list[l].status # "deleted"
    BY <1>3, <1>4
  <2>3. Delivers(x, y, l) /\ Accounts(kind, x, y, l)
    <3> HIDE DEF x, kind, l
    <3> QED
      BY <1>3, <1>4, <1>5, <1>7, <2>2, OutcomeDelivers
  <2> HIDE DEF x, y
  <2>4. Changes(db, db', l)
    <3>1. Covered(x.db)
      BY <1>2, <1>4 DEF Types
    <3>2. Changes(x.db, y.db, l)
      BY <1>7, <2>3, <3>1, DeliversChanges
    <3> QED
      BY <1>4, <2>1, <3>2
  <2>5. astray' = After(kind, x, l, astray)
    BY <1>2, <1>3, <1>4, <2>1, AstrayIs
  <2>6. /\ astray' \in Debts
        /\ \A m \in Lists, s \in Skus : m # l => astray'[<<m, s>>] = astray[<<m, s>>]
    <3> HIDE DEF kind, l
    <3> QED
      BY <1>2, <1>3, <1>4, <2>5, AfterIs
  <2>7. Honest(db', l, astray') /\ Kept(db, db', l, astray)
    <3>1. Honest(db, l, astray) /\ Covered(db)
      BY <1>2, <1>3 DEF IInv, Types
    <3> QED
      BY <1>2, <1>4, <2>1, <2>3, <2>5, <3>1 DEF Accounts
  <2> QED
    BY <1>1, <2>1, <2>4, <2>6, <2>7 DEF Commits
<1> QED
  BY <1>6, <1>7

\* Every step.
LEMMA NextHolds == ASSUME IInv, [Next]_vars PROVE IInv'
<1>1. CASE \E t \in Tx, kind \in Kinds, l \in Lists : Read(t, kind, l)
  BY <1>1, ReadHolds
<1>2. ASSUME NEW t \in Tx, Act(t) PROVE IInv'
  <2>1. t \in Busy /\ run' = [run EXCEPT ![t] = Idle]
    BY <1>2, ActIs
  <2>2. CASE db' = db /\ astray' = astray /\ begun' = begun - 1
    BY <2>1, <2>2, EndHolds
  <2>3. CASE Commits(t)
    BY <2>1, <2>3, CommitHolds DEF Commits
  <2> QED
    BY <1>2, <2>2, <2>3, ActIs
<1>3. ASSUME NEW t \in Tx, Abort(t) PROVE IInv'
  <2>1. /\ t \in Busy /\ run' = [run EXCEPT ![t] = Idle]
        /\ db' = db /\ astray' = astray /\ begun' = begun - 1
    BY <1>3 DEF Abort, Busy
  <2> QED
    BY <2>1, EndHolds
<1>4. CASE UNCHANGED vars
  <2>1. db' = db /\ run' = run /\ begun' = begun /\ astray' = astray
    BY <1>4 DEF vars
  <2>2. Types'
    BY <2>1 DEF IInv, Types, Busy, Covered, Rows
  <2>3. (astray \in Debts /\ \A l \in Lists : Honest(db, l, astray))'
    <3>1. astray \in Debts /\ \A l \in Lists : Honest(db, l, astray)
      BY DEF IInv
    <3> QED
      BY <2>1, <3>1
  <2> QED
    BY <2>2, <2>3 DEF IInv
<1> QED
  BY <1>1, <1>2, <1>3, <1>4 DEF Next

-----------------------------------------------------------------------------
(***************************************************************************)
(* The theorems.                                                           *)
(***************************************************************************)

\* The inductive invariant holds, whatever the constants.
THEOREM Inductive == Spec => []IInv
<1>1. Init => IInv
  BY InitHolds
<1>2. IInv /\ [Next]_vars => IInv'
  BY NextHolds
<1> QED
  BY <1>1, <1>2, PTL DEF Spec

\* Types, and no level goes negative or promises more than it has, however
\* holds, confirms, reopens, edits and deletions of one list overlap.
THEOREM TypeCorrect == Spec => []TypeOK
<1>1. IInv => TypeOK
  <2> SUFFICES ASSUME IInv PROVE TypeOK
    OBVIOUS
  <2>1. Types
    BY DEF IInv
  <2>2. \A t \in Tx : run[t] = Idle \/ run[t].kind \in Kinds
    BY <2>1 DEF Types, Request
  <2>3. ASSUME NEW c \in Cells PROVE db.level[c].reserved <= db.level[c].onHand
    <3>1. db.level[c] \in [onHand : Nat, reserved : Nat]
      BY <2>1 DEF Types, Rows
    <3>2. db.level[c].reserved \in 0 .. db.level[c].onHand
      BY <2>1 DEF Types, Covered
    <3> QED
      BY <3>1, <3>2
  <2>4. begun \in 0 .. MaxRequests
    BY <2>1, PackingAssumption DEF Types
  <2> QED
    BY <2>1, <2>2, <2>3, <2>4 DEF TypeOK, Types
<1> QED
  BY <1>1, Inductive, PTL

\* Goods are off the shelf only for a signed document, but for a list that a
\* release-hold sent for a signed list, or a PATCH or courier's event that
\* overlapped a confirm or reopen, lost track of since all was last put back.
THEOREM OffShelfIsSigned == Spec => []OffShelfIsDeducted
<1>1. IInv => OffShelfIsDeducted
  <2> SUFFICES ASSUME IInv, NEW l \in Lists, NEW s \in Skus, TakenUnits(db, l, s) # 0,
                      astray[<<l, s>>] = 0
               PROVE  /\ db.list[l].stock = "deducted"
                      /\ db.list[l].status \in {"packed", "shipped"}
    BY DEF OffShelfIsDeducted
  <2>1. Honest(db, l, astray) /\ db \in Rows
    BY DEF IInv, Types
  <2>2. TakenUnits(db, l, s) \in Nat
    BY <2>1, UnitsAre DEF Honest
  <2>3. ~Settles(db, l)
    BY <2>1, <2>2 DEF Honest
  <2>4. db.list[l].status \in {"draft", "packed", "shipped", "deleted"}
    BY <2>1 DEF Rows, ListRow
  <2> QED
    BY <2>3, <2>4 DEF Settles
<1> QED
  BY <1>1, Inductive, PTL

\* A list has no more units off the shelf than its cartons say, and than they
\* said each time it was lost track of since all was last put back.
THEOREM TakenOncePerDocument == Spec => []TakenAtMostContents
<1>1. IInv => TakenAtMostContents
  BY DEF IInv, Honest, TakenAtMostContents
<1> QED
  BY <1>1, Inductive, PTL

\* Reopening a list that packs no order makes no more available to others where
\* it ships from than what had left while it was lost track of.
THEOREM ReopenHoldsAgain == Spec => ReopenKeepsHeld
<1>1. ASSUME IInv, [Next]_vars
      PROVE  [\A l \in Lists, s \in Skus :
                 Reopened(l) /\ OrderOf[l] = NoOrder /\ db.list[l].wh # NoWarehouse =>
                    Available(db', s, db.list[l].wh)
                       <= Available(db, s, db.list[l].wh) + astray[<<l, s>>]]_vars
  <2> SUFFICES ASSUME Next, NEW l \in Lists, NEW s \in Skus, Reopened(l),
                      OrderOf[l] = NoOrder, db.list[l].wh # NoWarehouse
               PROVE  Available(db', s, db.list[l].wh)
                         <= Available(db, s, db.list[l].wh) + astray[<<l, s>>]
    BY <1>1
  <2>1. db' # db
    BY DEF Reopened
  <2>2. PICK t \in Tx : Act(t)
    BY <2>1 DEF Next, Read, Abort
  <2>3. Commits(t)
    BY <1>1, <2>1, <2>2, ActIs
  <2>4. l = run[t].list
    BY <2>3 DEF Changes, Reopened, Commits
  <2> QED
    BY <2>3, <2>4 DEF Kept, Reopened, Commits
<1> QED
  BY <1>1, Inductive, PTL DEF Spec, ReopenKeepsHeld

-----------------------------------------------------------------------------
(* Sizes and SKUs: what a request knows and has noted.                     *)

Fields == {"pc", "moves", "remembered", "list", "mine", "heard", "vs", "left", "sized", "lines"}

\* A variant is of the last save; nothing knows of one that is yet to come.
Before(s) == s.made \in Nat /\ s.made <= saves
Dated ==
    /\ saves \in Nat \ {0}
    /\ IsFiniteSet(variant) /\ \A v \in variant : v.made = saves
    /\ \A s \in sku : Before(s)
    /\ \A r \in map : Before(r.sku)
    /\ \A r \in Mine : Before(r.sku)
    /\ IsFiniteSet(req.vs) /\ \A v \in req.vs : Before(v)

\* What a request has noted and not committed is a guess, for a cell nobody else
\* has a row for.
Guesses == \A r \in Mine : r.source = "auto" /\ \A o \in map : RowKey(o) # RowKey(r)

SkuInv == DOMAIN req = Fields /\ Dated /\ Guesses

-----------------------------------------------------------------------------

LEMMA StdIsEarly ==
    /\ None # Std /\ Std.made = 0 /\ None.made = 0
    /\ saves \in Nat => Before(Std)
<1>1. Std.label # None.label
  BY DEF Std, None
<1>2. Std.made = 0 /\ None.made = 0
  BY DEF Std, None
<1> QED
  BY <1>1, <1>2 DEF Before

\* A set of one element, or of several.
LEMMA OneOf ==
    ASSUME NEW S, IsFiniteSet(S)
    PROVE  Cardinality(S) = 1 <=> \E x : S = {x}
BY FS_Singleton

\* What matches is one variant of those that were asked, and the size fits it.
LEMMA MatchIsOne ==
    ASSUME NEW vs, IsFiniteSet(vs), NEW color, NEW size
    PROVE  \/ matchVariant(vs, color, size) = {}
           \/ \E v \in BySize(vs, size) :
                 /\ matchVariant(vs, color, size) = {v}
                 /\ BySize(vs, size) = {v} \/ ByColor(vs, color, size) = {v}
<1> DEFINE B == BySize(vs, size)
           C == ByColor(vs, color, size)
<1>1. B \subseteq vs /\ C \subseteq B /\ IsFiniteSet(B) /\ IsFiniteSet(C)
  <2>1. B \subseteq vs /\ C \subseteq B
    BY DEF BySize, ByColor
  <2> QED
    BY <2>1, FS_Subset
<1>2. /\ Cardinality(B) = 1 => \E x : B = {x}
      /\ Cardinality(C) = 1 => \E x : C = {x}
  BY <1>1, OneOf
<1>3. matchVariant(vs, color, size) = IF Cardinality(B) = 1 THEN B
                                      ELSE IF Cardinality(C) = 1 THEN C ELSE {}
  BY DEF matchVariant
<1> HIDE DEF B, C
<1>4. \/ matchVariant(vs, color, size) = {}
      \/ \E v \in B : matchVariant(vs, color, size) = {v} /\ (B = {v} \/ C = {v})
  BY <1>1, <1>2, <1>3
<1> QED
  BY <1>4 DEF B, C

\* Where a SKU of the plan comes from.
LEMMA ResolvedIs ==
    ASSUME NEW v
    PROVE  \A s \in resolveSku(v) : s \in {v, Std} \/ s \in variant
BY DEF resolveSku, ensured

LEMMA ResolvingIs ==
    ASSUME NEW v, Resolving(v)
    PROVE  sku' = sku \/ (sku' = sku \cup variant \cup {Std} /\ Std \notin sku /\ v \notin sku)
BY DEF Resolving, ensured

LEMMA MatchIsOld ==
    ASSUME SkuInv, NEW color, NEW size, NEW v \in matchVariant(req.vs, color, size),
           NEW s \in resolveSku(v)
    PROVE  Before(s)
<1>1. Before(v)
  <2>1. v \in req.vs
    BY DEF matchVariant, ByColor, BySize
  <2> QED
    BY <2>1 DEF SkuInv, Dated
<1>2. Before(Std) /\ \A w \in variant : Before(w)
  BY StdIsEarly DEF Before, SkuInv, Dated
<1> QED
  BY <1>1, <1>2, ResolvedIs

LEMMA ResolvingDates ==
    ASSUME SkuInv, NEW v, Resolving(v)
    PROVE  sku \subseteq sku' /\ \A s \in sku' : Before(s)
<1>1. Before(Std) /\ \A w \in variant : Before(w)
  BY StdIsEarly DEF Before, SkuInv, Dated
<1> QED
  BY <1>1, ResolvingIs DEF SkuInv, Dated

-----------------------------------------------------------------------------
(* The invariant.                                                          *)

\* The product's writers and a person's decision leave the request alone.
LEMMA Apart ==
    ASSUME SkuInv, UNCHANGED <<req, variant>>, saves' = saves, \A s \in sku' : Before(s),
           \A r \in map' : Before(r.sku) /\ (r \in map \/ \A o \in Mine : RowKey(o) # RowKey(r))
    PROVE  SkuInv'
<1>1. Dated'
  BY DEF SkuInv, Dated, Before, Mine
<1>2. Guesses'
  BY DEF SkuInv, Guesses, Mine
<1> QED
  BY <1>1, <1>2 DEF SkuInv

\* The new rows of a style are as many as its labels.
LEMMA VariantsAre ==
    ASSUME NEW labels \in Styles, NEW n, NEW vs, vs = {[made |-> n, label |-> l] : l \in labels}
    PROVE  IsFiniteSet(vs) /\ \A v \in vs : v.made = n
<1> DEFINE f == [l \in labels |-> [made |-> n, label |-> l]]
<1>1. f \in Surjection(labels, vs)
  BY DEF Surjection
<1>2. IsFiniteSet(labels)
  BY SkuPlanAssumption
<1> QED
  BY <1>1, <1>2, FS_Surjection

LEMMA InitKeepsSku == SkuInit => SkuInv
<1> SUFFICES ASSUME SkuInit PROVE SkuInv
  OBVIOUS
<1>1. PICK labels \in Styles : variant = {[made |-> 1, label |-> l] : l \in labels}
  BY DEF SkuInit
<1>2. saves = 1 /\ map = {} /\ req = DeskIdle /\ (sku = {} \/ sku = variant \cup {Std})
  BY DEF SkuInit, ensured
<1>3. IsFiniteSet(variant) /\ \A v \in variant : v.made = 1
  BY <1>1, VariantsAre
<1>4. DOMAIN req = Fields /\ Mine = {} /\ req.vs = {}
  BY <1>2 DEF DeskIdle, Fields, Mine
<1>5. \A s \in sku : Before(s)
  BY <1>2, <1>3, StdIsEarly DEF Before
<1> QED
  BY <1>2, <1>3, <1>4, <1>5, FS_EmptySet DEF SkuInv, Dated, Guesses

LEMMA SaveVariantsKeeps == SkuInv /\ SaveVariants => SkuInv'
<1> SUFFICES ASSUME SkuInv, SaveVariants PROVE SkuInv'
  OBVIOUS
<1>1. PICK labels \in Styles : variant' = {[made |-> saves + 1, label |-> l] : l \in labels}
  BY DEF SaveVariants
<1>2. /\ saves' = saves + 1 /\ req' = req /\ map' \subseteq map /\ saves \in Nat \ {0}
      /\ \A s \in sku' : s = Std \/ s \in variant'
  BY DEF SaveVariants, ensured, SkuInv, Dated
<1>3. IsFiniteSet(variant') /\ \A v \in variant' : v.made = saves + 1
  BY <1>1, VariantsAre
<1>4. \A s : Before(s) => Before(s)'
  BY <1>2 DEF Before
<1>5. \A s \in sku' : Before(s)'
  BY <1>2, <1>3, StdIsEarly DEF Before
<1>6. Dated'
  BY <1>2, <1>3, <1>4, <1>5 DEF SkuInv, Dated, Mine
<1> QED
  BY <1>2, <1>6 DEF SkuInv, Guesses, Mine

LEMMA SetMappingKeeps == SkuInv /\ SetMapping => SkuInv'
<1> SUFFICES ASSUME SkuInv, SetMapping PROVE SkuInv'
  OBVIOUS
<1>0. PICK color \in Colours, size \in Sizes, s \in sku :
          LET r == [color |-> normalizeColor(color), size |-> size, sku |-> s, source |-> "manual"] IN
          /\ \A o \in Mine : RowKey(o) # RowKey(r)
          /\ map' = {o \in map : RowKey(o) # RowKey(r)} \cup {r}
  BY DEF SetMapping
<1>1. PICK r :
          /\ r = [color |-> normalizeColor(color), size |-> size, sku |-> s, source |-> "manual"]
          /\ \A o \in Mine : RowKey(o) # RowKey(r)
          /\ map' = {o \in map : RowKey(o) # RowKey(r)} \cup {r}
  BY <1>0
<1>2. r.sku = s /\ Before(s)
  BY <1>1 DEF SkuInv, Dated
<1>3. UNCHANGED <<req, variant, sku, saves>>
  BY DEF SetMapping, product
<1> QED
  BY <1>1, <1>2, <1>3, Apart DEF SkuInv, Dated

LEMMA WritersKeep == SkuInv /\ (SaveMode \/ GenerateSkus \/ Move) => SkuInv'
<1> SUFFICES ASSUME SkuInv, SaveMode \/ GenerateSkus \/ Move PROVE SkuInv'
  OBVIOUS
<1>1. UNCHANGED <<req, variant, map, saves>> /\ sku' \in {sku, sku \cup variant \cup {Std}}
  BY DEF SaveMode, GenerateSkus, Move, ensured
<1>2. Before(Std) /\ \A w \in variant : Before(w)
  BY StdIsEarly DEF Before, SkuInv, Dated
<1> QED
  BY <1>1, <1>2, Apart DEF SkuInv, Dated

-----------------------------------------------------------------------------
(* The packing desk.                                                       *)

LEMMA SeenIsAll ==
    ASSUME Guesses
    PROVE  MapSeen = map \cup Mine /\ MapSeen \ map = Mine
BY DEF Guesses, MapSeen

\* What a request notes of a cell: nothing, or a guess nobody has a row for.
NotesOf(c, new) ==
    \/ new = {} /\ sku' = sku
    \/ \E v \in Guessed(c) : \E s \in resolveSku(v) :
          /\ Resolving(v)
          /\ \/ new = {}
             \/ LET r == Guess(c.color, c.size, s) IN
                new = {r} /\ \A o \in map \cup Mine : RowKey(o) # RowKey(r)

LEMMA RememberIs ==
    ASSUME SkuInv, Remember
    PROVE  \E c \in req.left : \E new :
              /\ NotesOf(c, new)
              /\ req' = [req EXCEPT !.left = @ \ {c}, !.mine = Mine \cup new]
              /\ UNCHANGED <<mode, variant, pinned, ledger, map, saves, chosen>>
<1>0. MapSeen = map \cup Mine /\ MapSeen \ map = Mine
  BY SeenIsAll DEF SkuInv
<1>1. PICK c \in req.left :
          LET next(rows) == req' = [req EXCEPT !.left = @ \ {c}, !.mine = rows \ map] IN
          IF Guessed(c) = {} THEN next(MapSeen) /\ UNCHANGED sku
          ELSE \E v \in Guessed(c) : \E s \in resolveSku(v) :
                  next(OrNothing(MapSeen, Guess(c.color, c.size, s))) /\ Resolving(v)
  BY DEF Remember
<1>2. CASE Guessed(c) = {}
  <2>1. req' = [req EXCEPT !.left = @ \ {c}, !.mine = Mine \cup {}] /\ sku' = sku
    BY <1>0, <1>1, <1>2
  <2> QED
    BY <2>1 DEF NotesOf, Remember
<1>3. CASE Guessed(c) # {}
  <2>1. PICK v \in Guessed(c) : \E s \in resolveSku(v) :
          /\ req' = [req EXCEPT !.left = @ \ {c},
                                !.mine = OrNothing(MapSeen, Guess(c.color, c.size, s)) \ map]
          /\ Resolving(v)
    BY <1>1, <1>3
  <2>2. PICK s \in resolveSku(v) :
          /\ req' = [req EXCEPT !.left = @ \ {c},
                                !.mine = OrNothing(MapSeen, Guess(c.color, c.size, s)) \ map]
          /\ Resolving(v)
    BY <2>1
  <2> DEFINE r == Guess(c.color, c.size, s)
  <2>3. CASE \E o \in MapSeen : RowKey(o) = RowKey(r)
    <3>1. OrNothing(MapSeen, r) \ map = Mine \cup {}
      BY <2>3, <1>0 DEF OrNothing
    <3>2. NotesOf(c, {})
      BY <2>2 DEF NotesOf
    <3>3. req' = [req EXCEPT !.left = @ \ {c}, !.mine = Mine \cup {}]
      BY <2>2, <3>1
    <3> QED
      BY <3>2, <3>3 DEF Remember
  <2>4. CASE ~\E o \in MapSeen : RowKey(o) = RowKey(r)
    <3> HIDE DEF r
    <3>1. OrNothing(MapSeen, r) \ map = Mine \cup {r}
      BY <2>4, <1>0 DEF OrNothing
    <3>2. \A o \in map \cup Mine : RowKey(o) # RowKey(r)
      BY <2>4, <1>0
    <3>3. NotesOf(c, {r})
      BY <2>2, <3>2 DEF NotesOf, r
    <3>4. req' = [req EXCEPT !.left = @ \ {c}, !.mine = Mine \cup {r}]
      BY <2>2, <3>1 DEF r
    <3> QED
      BY <3>3, <3>4 DEF Remember
  <2> QED
    BY <2>3, <2>4
<1> QED
  BY <1>2, <1>3

\* A row that is noted.
LEMMA NotedIs ==
    ASSUME SkuInv, NEW c, NEW new, NotesOf(c, new), NEW r \in new
    PROVE  \E v \in Guessed(c) : \E s \in resolveSku(v) :
              /\ Resolving(v) /\ r = Guess(c.color, c.size, s)
              /\ r.color = c.color /\ r.size = c.size /\ r.sku = s /\ r.source = "auto"
              /\ Before(s) /\ \A o \in map \cup Mine : RowKey(o) # RowKey(r)
<1>0. PICK v \in Guessed(c) : \E s \in resolveSku(v) :
          /\ Resolving(v) /\ r = Guess(c.color, c.size, s)
          /\ \A o \in map \cup Mine : RowKey(o) # RowKey(r)
  BY DEF NotesOf
<1>1. PICK s \in resolveSku(v) :
          /\ Resolving(v) /\ r = Guess(c.color, c.size, s)
          /\ \A o \in map \cup Mine : RowKey(o) # RowKey(r)
  BY <1>0
<1>2. v \in matchVariant(req.vs, c.color, c.size)
  BY DEF Guessed
<1>3. Before(s)
  BY <1>2, MatchIsOld
<1> QED
  BY <1>1, <1>3 DEF Guess, normalizeColor

LEMMA RememberKeeps == SkuInv /\ Remember => SkuInv'
<1> SUFFICES ASSUME SkuInv, Remember PROVE SkuInv'
  OBVIOUS
<1>0. PICK c \in req.left : \E new :
          /\ NotesOf(c, new)
          /\ req' = [req EXCEPT !.left = @ \ {c}, !.mine = Mine \cup new]
          /\ UNCHANGED <<mode, variant, pinned, ledger, map, saves, chosen>>
  BY RememberIs
<1>1. PICK new :
          /\ NotesOf(c, new)
          /\ req' = [req EXCEPT !.left = @ \ {c}, !.mine = Mine \cup new]
          /\ UNCHANGED <<mode, variant, pinned, ledger, map, saves, chosen>>
  BY <1>0
<1>2. DOMAIN req' = Fields /\ Mine' = Mine \cup new /\ req'.vs = req.vs
  BY <1>1 DEF SkuInv, Fields, Mine
<1>3. \A s \in sku' : Before(s)
  BY <1>1, ResolvingDates DEF NotesOf, SkuInv, Dated
<1>4. \A r \in new : Before(r.sku) /\ r.source = "auto" /\ \A o \in map : RowKey(o) # RowKey(r)
  BY <1>1, NotedIs
<1>5. Dated'
  BY <1>1, <1>2, <1>3, <1>4 DEF SkuInv, Dated, Before
<1>6. Guesses'
  BY <1>1, <1>2, <1>4 DEF SkuInv, Guesses
<1> QED
  BY <1>2, <1>5, <1>6 DEF SkuInv

\* A SELECT leaves what was noted, and knows the variants there are or were.
LEMMA ReadsKeep ==
    ASSUME SkuInv, UNCHANGED <<product, map, chosen>>, DOMAIN req' = Fields,
           Mine' \subseteq Mine, req'.vs \in {req.vs, variant, {}}
    PROVE  SkuInv'
<1>1. IsFiniteSet(req'.vs) /\ \A v \in req'.vs : Before(v)
  BY FS_EmptySet DEF SkuInv, Dated, Before
<1>2. Dated'
  BY <1>1 DEF SkuInv, Dated, Before, product
<1>3. Guesses'
  BY DEF SkuInv, Guesses
<1> QED
  BY <1>2, <1>3 DEF SkuInv

LEMMA DeskReadsKeep ==
    SkuInv /\ (Begin \/ ReadMaps \/ ReadVariants \/ Remembered \/ ReadCount) => SkuInv'
<1> SUFFICES ASSUME SkuInv, Begin \/ ReadMaps \/ ReadVariants \/ Remembered \/ ReadCount
             PROVE  SkuInv'
  OBVIOUS
<1>1. CASE Begin
  <2>1. PICK l, moves :
           req' = [DeskIdle EXCEPT !.pc = "maps", !.moves = moves, !.remembered = ~moves, !.list = l]
    BY <1>1 DEF Begin, Reads
  <2>2. DOMAIN req' = Fields /\ Mine' = {} /\ req'.vs = {}
    BY <2>1 DEF DeskIdle, Fields, Mine
  <2> QED
    BY <1>1, <2>2, ReadsKeep DEF Begin, Reads
<1>2. CASE ReadMaps
  <2>1. PICK h : req' = [req EXCEPT !.pc = "variants", !.heard = h]
    BY <1>2 DEF ReadMaps, Reads
  <2>2. DOMAIN req' = Fields /\ Mine' = Mine /\ req'.vs = req.vs
    BY <2>1 DEF SkuInv, Fields, Mine
  <2> QED
    BY <1>2, <2>2, ReadsKeep DEF ReadMaps, Reads
<1>3. CASE ReadVariants
  <2>1. DOMAIN req' = Fields /\ Mine' = Mine /\ req'.vs = variant
    BY <1>3 DEF SkuInv, Fields, Mine, ReadVariants, Reads
  <2> QED
    BY <1>3, <2>1, ReadsKeep DEF ReadVariants, Reads
<1>4. CASE Remembered
  <2>1. DOMAIN req' = Fields /\ Mine' = Mine /\ req'.vs = req.vs
    BY <1>4 DEF SkuInv, Fields, Mine, Remembered, Reads
  <2> QED
    BY <1>4, <2>1, ReadsKeep DEF Remembered, Reads
<1>5. CASE ReadCount
  <2>1. DOMAIN req' = Fields /\ Mine' = Mine /\ req'.vs = req.vs
    BY <1>5 DEF SkuInv, Fields, Mine, ReadCount, Reads
  <2> QED
    BY <1>5, <2>1, ReadsKeep DEF ReadCount, Reads
<1> QED
  BY <1>1, <1>2, <1>3, <1>4, <1>5

LEMMA ResolveKeeps == SkuInv /\ Resolve => SkuInv'
<1> SUFFICES ASSUME SkuInv, Resolve PROVE SkuInv'
  OBVIOUS
<1>1. PICK c, v, s :
          /\ req' = [req EXCEPT !.left = @ \ {c},
                                !.lines = @ \cup {[cell |-> c, sku |-> s, qty |-> Pieces(c)]}]
          /\ sku' = sku \/ Resolving(v)
  BY DEF Resolve
<1>2. DOMAIN req' = Fields /\ Mine' = Mine /\ req'.vs = req.vs
  BY <1>1 DEF SkuInv, Fields, Mine
<1>3. UNCHANGED <<variant, map, saves>>
  BY DEF Resolve
<1>4. \A t \in sku' : Before(t)
  BY <1>1, ResolvingDates DEF SkuInv, Dated
<1>5. Dated'
  BY <1>2, <1>3, <1>4 DEF SkuInv, Dated, Before
<1>6. Guesses'
  BY <1>2, <1>3 DEF SkuInv, Guesses
<1> QED
  BY <1>2, <1>5, <1>6 DEF SkuInv

LEMMA CommitKeepsSku == SkuInv /\ Commit => SkuInv'
<1> SUFFICES ASSUME SkuInv, Commit PROVE SkuInv'
  OBVIOUS
<1>1. req' = DeskIdle /\ map' \subseteq map \cup Mine /\ UNCHANGED <<variant, sku, saves>>
  BY DEF Commit, MapSeen
<1>2. DOMAIN req' = Fields /\ Mine' = {} /\ req'.vs = {}
  BY <1>1 DEF DeskIdle, Fields, Mine
<1>3. Dated'
  BY <1>1, <1>2, FS_EmptySet DEF SkuInv, Dated, Before
<1> QED
  BY <1>2, <1>3 DEF SkuInv, Guesses

LEMMA SkuStep == SkuInv /\ [SkuNext]_style => SkuInv'
<1> SUFFICES ASSUME SkuInv, [SkuNext]_style PROVE SkuInv'
  OBVIOUS
<1>1. CASE UNCHANGED style
  BY <1>1 DEF style, SkuInv, Dated, Before, Guesses, Mine, RowKey
<1> QED
  BY <1>1, SaveVariantsKeeps, WritersKeep, SetMappingKeeps, RememberKeeps, DeskReadsKeep,
     ResolveKeeps, CommitKeepsSku DEF SkuNext, Desk

\* The invariant of a style, its map and the packing desk.
THEOREM SkuInductive == SkuSpec => []SkuInv
BY InitKeepsSku, SkuStep, PTL DEF SkuSpec

-----------------------------------------------------------------------------
(* Decisions and guesses.                                                  *)

LEMMA ManualStep ==
    ASSUME SkuInv, [SkuNext]_style, NEW r \in map, r.source = "manual", r.sku \in sku'
    PROVE  \E o \in map' : RowKey(o) = RowKey(r) /\ o.source = "manual"
<1>1. CASE SaveVariants
  <2>1. PICK labels \in Styles : variant' = {[made |-> saves + 1, label |-> l] : l \in labels}
    BY <1>1 DEF SaveVariants
  <2>2. \A v \in variant' : v.made = saves + 1
    BY <2>1
  <2>3. r.sku \in {Std} \cup variant' /\ (r.sku = Std => r \in map')
    BY <1>1 DEF SaveVariants, ensured
  <2>4. r.sku \notin variant'
    BY <2>2 DEF SkuInv, Dated, Before
  <2> QED
    BY <2>3, <2>4
<1>2. CASE SetMapping
  <2>1. PICK color \in Colours, size \in Sizes, s \in sku :
          LET n == [color |-> normalizeColor(color), size |-> size, sku |-> s, source |-> "manual"]
          IN  map' = {o \in map : RowKey(o) # RowKey(n)} \cup {n}
    BY <1>2 DEF SetMapping
  <2>2. PICK n : n.source = "manual" /\ map' = {o \in map : RowKey(o) # RowKey(n)} \cup {n}
    BY <2>1
  <2> QED
    BY <2>2
<1>3. CASE Commit
  <2>1. map \subseteq map'
    BY <1>3, SeenIsAll DEF Commit, SkuInv
  <2> QED
    BY <2>1
<1>4. CASE \/ SaveMode \/ GenerateSkus \/ Move \/ Begin \/ ReadMaps \/ ReadVariants
           \/ Remember \/ Remembered \/ ReadCount \/ Resolve \/ UNCHANGED style
  BY <1>4 DEF SaveMode, GenerateSkus, Move, Begin, ReadMaps, ReadVariants, Remember, Remembered,
     ReadCount, Resolve, Reads, style
<1> QED
  BY <1>1, <1>2, <1>3, <1>4 DEF SkuNext, Desk

\* A person's decision stays until another one, or goes with its SKU, for any
\* styles, lists and requests: what the desk remembers is never written over it
\* (setMapping, rememberAutoMatches).
THEOREM DecisionsStand == SkuSpec => ManualStands
<1> DEFINE A == \A r \in map : r.source = "manual" /\ r.sku \in sku' =>
                   \E o \in map' : RowKey(o) = RowKey(r) /\ o.source = "manual"
<1>1. SkuInv /\ [SkuNext]_style => [A]_style
  BY ManualStep
<1>2. SkuSpec => [][A]_style
  BY <1>1, InitKeepsSku, SkuStep, PTL DEF SkuSpec
<1> QED
  BY <1>2 DEF ManualStands

\* Only remembering a cell takes notes.
LEMMA NotesRemember ==
    ASSUME SkuInv, [SkuNext]_style, Notes
    PROVE  Remember
<1>1. req' # req /\ req.pc = "remember" /\ req'.pc = "remember"
  BY DEF Notes, At
<1>2. ~(SaveVariants \/ SaveMode \/ GenerateSkus \/ Move \/ SetMapping \/ UNCHANGED style)
  BY <1>1 DEF SaveVariants, SaveMode, GenerateSkus, Move, SetMapping, style
<1>3. ~(Begin \/ ReadMaps \/ ReadVariants \/ ReadCount \/ Resolve \/ Commit)
  BY <1>1 DEF Begin, ReadMaps, ReadVariants, ReadCount, Resolve, Commit, At
<1>4. Remembered => req'.pc = "maps"
  BY DEF Remembered, Reads, SkuInv, Fields
<1> QED
  BY <1>1, <1>2, <1>3, <1>4 DEF SkuNext, Desk

\* A variant that is there resolves to its own SKU or to the default.
LEMMA ResolvedVariant ==
    ASSUME NEW v \in variant
    PROVE  resolveSku(v) = {v} \/ resolveSku(v) = {Std}
BY DEF resolveSku, ensured

LEMMA GuessStep ==
    ASSUME SkuInv, [SkuNext]_style, Notes, req.vs = variant, NEW r \in Noted
    PROVE  Sole(r)
<1> DEFINE sized == {v \in variant : normalizeSize(r.size) \in labelTokens(v.label)}
           tinted == {v \in sized : r.color \in labelTokens(v.label)}
<1>1. PICK c \in req.left : \E new :
          /\ NotesOf(c, new)
          /\ req' = [req EXCEPT !.left = @ \ {c}, !.mine = Mine \cup new]
  BY NotesRemember, RememberIs
<1>2. PICK new : NotesOf(c, new) /\ req' = [req EXCEPT !.left = @ \ {c}, !.mine = Mine \cup new]
  BY <1>1
<1>3. r \in new
  BY <1>2 DEF Noted, Mine, SkuInv, Fields
<1>4. PICK v \in Guessed(c) : \E s \in resolveSku(v) :
          r.color = c.color /\ r.size = c.size /\ r.sku = s
  BY <1>2, <1>3, NotedIs
<1>5. v \in matchVariant(variant, r.color, r.size) /\ r.sku \in resolveSku(v)
  BY <1>4 DEF Guessed
<1>6. v \in BySize(variant, r.size)
      /\ (BySize(variant, r.size) = {v} \/ ByColor(variant, r.color, r.size) = {v})
  BY <1>5, MatchIsOne DEF SkuInv, Dated
<1>7. BySize(variant, r.size) = sized
  BY DEF BySize
<1>8. ByColor(variant, r.color, r.size) \in {{}, tinted}
  BY DEF ByColor, BySize, normalizeColor
<1>9. r.sku = v \/ r.sku = Std
  BY <1>5, <1>6, <1>7, ResolvedVariant
<1> HIDE DEF sized, tinted
<1>10. /\ r.sku \in sized \/ r.sku = Std
       /\ sized # {} /\ ((\A w, x \in sized : w = x) \/ \E w \in sized : tinted = {w})
  BY <1>6, <1>7, <1>8, <1>9
<1> QED
  BY <1>10 DEF Sole, sized, tinted

\* The desk keeps a guess only where one variant answers to the size and colour,
\* for any style and any list (matchVariant, rememberAutoMatches).
THEOREM GuessesAreSole == SkuSpec => GuessIsSole
<1> DEFINE A == Notes /\ req.vs = variant => \A r \in Noted : Sole(r)
<1>1. SkuInv /\ [SkuNext]_style => [A]_style
  BY GuessStep
<1>2. SkuSpec => [][A]_style
  BY <1>1, InitKeepsSku, SkuStep, PTL DEF SkuSpec
<1> QED
  BY <1>2 DEF GuessIsSole
-----------------------------------------------------------------------------
(* What a cell resolves to, in one step: the mappings say the SKUs of a key.  *)

KeyOf(r) == Key(r.color, r.size)
Keys(rows) == {KeyOf(r) : r \in rows}
Spoken(rows, k) == {r.sku : r \in {o \in rows : KeyOf(o) = k}}

\* Without a mapping: the variant that matches, or the product.
Plain(c) ==
    IF matchVariant(variant, c.color, c.size) # {}
    THEN UNION {resolveSku(v) : v \in matchVariant(variant, c.color, c.size)}
    ELSE IF variant = {} THEN resolveSku(Std) ELSE {None}
Told(rows, c) ==
    IF KeyOf(c) \in Keys(rows) THEN Spoken(rows, KeyOf(c))
    ELSE IF Key(Blank, c.size) \in Keys(rows) THEN Spoken(rows, Key(Blank, c.size))
    ELSE Plain(c)
Says(c) ==
    IF c.own \in sku THEN {c.own}
    ELSE IF ~c.linked \/ normalizeSize(c.size) = Blank THEN {None}
    ELSE Told(MapSeen, c)

\* Whatever row the SELECT kept for a key, it is one of that key's.
LEMMA MappingsSpeak ==
    ASSUME NEW rows, NEW h \in mappings(rows)
    PROVE  DOMAIN h = Keys(rows) /\ \A k \in Keys(rows) : h[k] \in Spoken(rows, k)
BY DEF mappings, Keys, KeyOf, Spoken

\* And it may be any of them.
LEMMA ChoiceExists ==
    ASSUME NEW rows, NEW k, NEW x, k \in Keys(rows) => x \in Spoken(rows, k)
    PROVE  \E h \in mappings(rows) : k \in Keys(rows) => h[k] = x
<1> DEFINE h == [j \in Keys(rows) |-> IF j = k THEN x ELSE CHOOSE y : y \in Spoken(rows, j)]
<1>1. \A j \in Keys(rows) : \E r \in rows : KeyOf(r) = j
  BY DEF Keys
<1>2. \A j \in Keys(rows) : \E y : y \in Spoken(rows, j)
  BY <1>1 DEF Spoken
<1>3. \A j \in Keys(rows) : h[j] \in Spoken(rows, j)
  BY <1>2
<1>4. DOMAIN h = Keys(rows) /\ h = [j \in Keys(rows) |-> h[j]] /\ (k \in Keys(rows) => h[k] = x)
  OBVIOUS
<1> HIDE DEF h
<1>5. \A j \in Keys(rows) : \E r \in rows : KeyOf(r) = j /\ r.sku = h[j]
  BY <1>3 DEF Spoken
<1>6. h \in [Keys(rows) -> {r.sku : r \in rows}]
  BY <1>4, <1>5
<1>7. h \in mappings(rows)
  BY <1>4, <1>5, <1>6 DEF mappings, Keys, KeyOf
<1> QED
  BY <1>4, <1>7

LEMMA MappingsExist ==
    ASSUME NEW rows
    PROVE  mappings(rows) # {}
<1>1. PICK k, x : k \in Keys(rows) => x \in Spoken(rows, k)
  BY DEF Keys, Spoken
<1> QED
  BY <1>1, ChoiceExists

LEMMA AnswersAre == \A c : Answers(c, MapSeen) = Says(c)
<1> SUFFICES ASSUME NEW c PROVE Answers(c, MapSeen) = Says(c)
  OBVIOUS
<1> DEFINE rows == MapSeen
           match == matchVariant(variant, c.color, c.size)
           own == KeyOf(c)
           any == Key(Blank, c.size)
           say(h) == IF ~c.linked \/ normalizeSize(c.size) = Blank THEN {None}
                     ELSE IF Mapped(h, c.color, c.size) # {} THEN Mapped(h, c.color, c.size)
                     ELSE IF match # {} THEN UNION {resolveSku(v) : v \in match}
                     ELSE IF variant = {} THEN resolveSku(Std) ELSE {None}
<1>1. Answers(c, MapSeen) = IF c.own \in sku THEN {c.own} ELSE UNION {say(h) : h \in mappings(rows)}
  BY DEF Answers
<1>2. \A h \in mappings(rows) :
         Mapped(h, c.color, c.size) = IF own \in Keys(rows) THEN {h[own]}
                                      ELSE IF any \in Keys(rows) THEN {h[any]} ELSE {}
  BY MappingsSpeak DEF Mapped, KeyOf
<1>3. CASE ~c.linked \/ normalizeSize(c.size) = Blank
  <2>1. UNION {say(h) : h \in mappings(rows)} = {None}
    BY <1>3, MappingsExist
  <2> QED
    BY <1>1, <1>3, <2>1 DEF Says
<1>4. CASE ~(~c.linked \/ normalizeSize(c.size) = Blank)
  <2>1. \A h \in mappings(rows) :
           say(h) = IF own \in Keys(rows) THEN {h[own]}
                    ELSE IF any \in Keys(rows) THEN {h[any]} ELSE Plain(c)
    BY <1>2, <1>4 DEF Plain
  <2> HIDE DEF say, own, any, rows, match
  <2>2. CASE own \in Keys(rows)
    <3>1. UNION {say(h) : h \in mappings(rows)} = UNION {{h[own]} : h \in mappings(rows)}
      BY <2>1, <2>2
    <3>2. UNION {{h[own]} : h \in mappings(rows)} = Spoken(rows, own)
      BY <2>2, MappingsSpeak, ChoiceExists
    <3> QED
      BY <1>1, <1>4, <2>2, <3>1, <3>2 DEF Says, Told, own, rows
  <2>3. CASE own \notin Keys(rows) /\ any \in Keys(rows)
    <3>1. UNION {say(h) : h \in mappings(rows)} = UNION {{h[any]} : h \in mappings(rows)}
      BY <2>1, <2>3
    <3>2. UNION {{h[any]} : h \in mappings(rows)} = Spoken(rows, any)
      BY <2>3, MappingsSpeak, ChoiceExists
    <3> QED
      BY <1>1, <1>4, <2>3, <3>1, <3>2 DEF Says, Told, own, any, rows
  <2>4. CASE own \notin Keys(rows) /\ any \notin Keys(rows)
    <3>1. UNION {say(h) : h \in mappings(rows)} = Plain(c)
      BY <2>1, <2>4, MappingsExist
    <3> QED
      BY <1>1, <1>4, <2>4, <3>1 DEF Says, Told, own, any, rows
  <2> QED
    BY <2>2, <2>3, <2>4
<1> QED
  BY <1>3, <1>4

LEMMA AnswersPrimed == (\A c : Answers(c, MapSeen) = Says(c))'
BY AnswersAre, PTL


-----------------------------------------------------------------------------
(* Keeping a guess.                                                        *)

\* What matches depends on the key alone, and what matches a size by itself
\* matches it in every colour.
LEMMA MatchKey ==
    ASSUME NEW vs, NEW color, NEW size, NEW tint, NEW length,
           normalizeSize(size) = normalizeSize(length),
           color = tint \/ (color = Blank /\ matchVariant(vs, color, size) # {})
    PROVE  matchVariant(vs, color, size) = matchVariant(vs, tint, length)
<1>1. BySize(vs, size) = BySize(vs, length)
  BY DEF BySize
<1>2. CASE color = tint
  <2>1. ByColor(vs, color, size) = ByColor(vs, tint, length)
    BY <1>1, <1>2 DEF ByColor
  <2> QED
    BY <1>1, <2>1 DEF matchVariant
<1>3. CASE color = Blank /\ matchVariant(vs, color, size) # {}
  <2>1. ByColor(vs, color, size) = {}
    BY <1>3 DEF ByColor
  <2>2. Cardinality(BySize(vs, size)) = 1
    BY <1>3, <2>1 DEF matchVariant
  <2> QED
    BY <1>1, <2>2 DEF matchVariant
<1> QED
  BY <1>2, <1>3

LEMMA KeyApart ==
    ASSUME NEW color, NEW size, NEW tint, NEW length, Key(color, size) = Key(tint, length)
    PROVE  color = tint /\ normalizeSize(size) = normalizeSize(length)
BY DEF Key, normalizeColor

\* The SKUs that resolving makes are the ones it would have named.
LEMMA ResolvedStays ==
    ASSUME SkuInv, NEW v \in variant, Resolving(v), UNCHANGED variant
    PROVE  \A w \in variant : resolveSku(w)' = resolveSku(w)
<1>1. CASE sku' = sku
  BY <1>1 DEF resolveSku
<1>2. CASE sku' = sku \cup variant \cup {Std} /\ Std \notin sku
  BY <1>2 DEF resolveSku, ensured
<1> QED
  BY <1>1, <1>2, ResolvingIs

LEMMA PlainStays ==
    ASSUME SkuInv, NEW v \in variant, Resolving(v), UNCHANGED variant, NEW c
    PROVE  Plain(c)' = Plain(c)
<1>1. matchVariant(variant, c.color, c.size) \subseteq variant
  BY DEF matchVariant, ByColor, BySize
<1>2. \A w \in variant : resolveSku(w)' = resolveSku(w)
  BY ResolvedStays
<1>3. variant' = variant /\ variant # {}
  OBVIOUS
<1>4. matchVariant(variant, c.color, c.size)' = matchVariant(variant, c.color, c.size)
  BY <1>3
<1> QED
  BY <1>1, <1>2, <1>3, <1>4 DEF Plain

\* Resolving makes no SKU that a line may name already.
LEMMA OwnStays ==
    ASSUME SkuInv, NEW v, Resolving(v), NEW c,
           c.own \in sku \cup {None} \/ c.own.made \in 1 .. saves - 1
    PROVE  c.own \in sku' <=> c.own \in sku
<1>1. \A w \in variant \cup {Std} : w \in sku \/ (w # None /\ w.made \notin 1 .. saves - 1)
  BY StdIsEarly DEF SkuInv, Dated
<1> QED
  BY <1>1, ResolvingIs

\* A guess for a cell: what is spoken for its key or its size is that guess, and
\* so is what the cells of that key resolve to without it.
LEMMA GuessSpeaks ==
    ASSUME SkuInv, Steady, NEW c, NEW v \in Guessed(c), NEW s \in resolveSku(v)
    PROVE  /\ v \in variant
           /\ \A o \in map \cup Mine : KeyOf(o) \in {KeyOf(c), Key(Blank, c.size)} => o.sku = s
           /\ \A d : KeyOf(c) \in {KeyOf(d), Key(Blank, d.size)} => Plain(d) = {s}
<1>1. /\ v \in matchVariant(variant, c.color, c.size)
      /\ Mapped(req.heard, c.color, c.size) = {}
  BY DEF Guessed, Steady
<1>2. v \in variant /\ matchVariant(variant, c.color, c.size) = {v}
  <2>1. BySize(variant, c.size) \subseteq variant
    BY DEF BySize
  <2> QED
    BY <1>1, <2>1, MatchIsOne DEF SkuInv, Dated
<1>3. UNION {resolveSku(w) : w \in {v}} = {s}
  BY <1>2, ResolvedVariant
<1>4. KeyOf(c) \notin Keys(map) /\ Key(Blank, c.size) \notin Keys(map)
  <2>1. DOMAIN req.heard = Keys(map)
    BY MappingsSpeak DEF Steady
  <2> QED
    BY <1>1, <2>1 DEF Mapped, KeyOf
<1>5. ASSUME NEW o \in map \cup Mine, KeyOf(o) \in {KeyOf(c), Key(Blank, c.size)}
      PROVE  o.sku = s
  <2>1. o \in Mine
    BY <1>4, <1>5 DEF Keys
  <2>2. o.sku \in UNION {resolveSku(w) : w \in matchVariant(variant, o.color, o.size)}
    BY <2>1 DEF Steady
  <2>3. matchVariant(variant, o.color, o.size) # {}
    BY <2>2
  <2>4. /\ normalizeSize(o.size) = normalizeSize(c.size)
        /\ o.color = c.color \/ o.color = Blank
    BY <1>5, KeyApart DEF KeyOf
  <2>5. matchVariant(variant, o.color, o.size) = {v}
    BY <1>2, <2>3, <2>4, MatchKey
  <2> QED
    BY <1>3, <2>2, <2>5
<1>6. ASSUME NEW d, KeyOf(c) \in {KeyOf(d), Key(Blank, d.size)}
      PROVE  Plain(d) = {s}
  <2>1. /\ normalizeSize(c.size) = normalizeSize(d.size)
        /\ c.color = d.color \/ c.color = Blank
    BY <1>6, KeyApart DEF KeyOf
  <2>2. matchVariant(variant, d.color, d.size) = {v}
    BY <1>2, <2>1, MatchKey
  <2> QED
    BY <1>3, <2>2 DEF Plain
<1> QED
  BY <1>2, <1>5, <1>6

\* So a row with that guess says nothing new.
LEMMA ToldStays ==
    ASSUME NEW rows, NEW r, NEW c, NEW d, NEW s,
           KeyOf(r) = KeyOf(c), r.sku = s,
           \A o \in rows : KeyOf(o) \in {KeyOf(c), Key(Blank, c.size)} => o.sku = s,
           KeyOf(c) \in {KeyOf(d), Key(Blank, d.size)} => Plain(d) = {s}
    PROVE  Told(rows \cup {r}, d) = Told(rows, d)
<1> DEFINE own == KeyOf(d)
           any == Key(Blank, d.size)
           k == KeyOf(c)
<1>1. Keys(rows \cup {r}) = Keys(rows) \cup {k}
  BY DEF Keys
<1>2. \A j : j # k => Spoken(rows \cup {r}, j) = Spoken(rows, j)
  BY DEF Spoken
<1>3. \A j \in {k, Key(Blank, c.size)} :
         /\ j \in Keys(rows) => Spoken(rows, j) = {s}
         /\ Spoken(rows, j) \subseteq {s}
  BY DEF Keys, Spoken
<1>4. Spoken(rows \cup {r}, k) = {s}
  BY <1>3 DEF Spoken
<1>5. own = k => any = Key(Blank, c.size)
  BY KeyApart DEF KeyOf, Key
<1>6. \A all : Told(all, d) = IF own \in Keys(all) THEN Spoken(all, own)
                             ELSE IF any \in Keys(all) THEN Spoken(all, any) ELSE Plain(d)
  BY DEF Told
<1>7. k \in {own, any} => Plain(d) = {s}
  OBVIOUS
<1> HIDE DEF own, any, k
<1>8. CASE own = k
  BY <1>1, <1>3, <1>4, <1>5, <1>6, <1>7, <1>8
<1>9. CASE own # k /\ any = k
  BY <1>1, <1>2, <1>3, <1>4, <1>6, <1>7, <1>9
<1>10. CASE own # k /\ any # k
  BY <1>1, <1>2, <1>6, <1>10
<1> QED
  BY <1>8, <1>9, <1>10


LEMMA NeutralStep ==
    ASSUME SkuInv, SkuInv', [SkuNext]_style, Notes, Steady,
           NEW d \in UNION {l \in CartonLists : Real(l)}
    PROVE  Answers(d, MapSeen)' = Answers(d, MapSeen)
<1>1. PICK c \in req.left : \E new :
          /\ NotesOf(c, new)
          /\ req' = [req EXCEPT !.left = @ \ {c}, !.mine = Mine \cup new]
          /\ UNCHANGED <<mode, variant, pinned, ledger, map, saves, chosen>>
  BY NotesRemember, RememberIs
<1>2. PICK new :
          /\ NotesOf(c, new)
          /\ req' = [req EXCEPT !.left = @ \ {c}, !.mine = Mine \cup new]
          /\ UNCHANGED <<mode, variant, pinned, ledger, map, saves, chosen>>
  BY <1>1
<1>3. Mine' = Mine \cup new
  BY <1>2 DEF Mine, SkuInv, Fields
<1>4. MapSeen = map \cup Mine /\ MapSeen' = map \cup Mine \cup new
  <2>1. MapSeen' = map' \cup Mine'
    BY DEF SkuInv, Guesses, MapSeen
  <2>2. MapSeen = map \cup Mine
    BY SeenIsAll DEF SkuInv
  <2> QED
    BY <1>2, <1>3, <2>1, <2>2
<1>5. Answers(d, MapSeen) = Says(d) /\ Answers(d, MapSeen)' = Says(d)'
  BY AnswersAre, AnswersPrimed
<1>6. CASE new = {} /\ sku' = sku
  <2>1. Plain(d)' = Plain(d)
    BY <1>2, <1>6 DEF Plain, resolveSku
  <2>2. Told(MapSeen, d)' = Told(MapSeen, d)
    BY <1>4, <1>6, <2>1 DEF Told
  <2> QED
    BY <1>5, <1>6, <2>2 DEF Says
<1>7. CASE ~(new = {} /\ sku' = sku)
  <2>1. PICK v \in Guessed(c) : \E s \in resolveSku(v) :
          /\ Resolving(v)
          /\ new = {} \/ (new = {Guess(c.color, c.size, s)})
    BY <1>2, <1>7 DEF NotesOf
  <2>2. PICK s \in resolveSku(v) :
          Resolving(v) /\ (new = {} \/ new = {Guess(c.color, c.size, s)})
    BY <2>1
  <2>3. /\ v \in variant
        /\ \A o \in map \cup Mine : KeyOf(o) \in {KeyOf(c), Key(Blank, c.size)} => o.sku = s
        /\ KeyOf(c) \in {KeyOf(d), Key(Blank, d.size)} => Plain(d) = {s}
    BY GuessSpeaks
  <2>4. Plain(d)' = Plain(d)
    BY <1>2, <2>2, <2>3, PlainStays
  <2>5. d.own \in sku' <=> d.own \in sku
    <3>1. d.own \in sku \cup {None} \/ d.own.made \in 1 .. saves - 1
      BY DEF Real
    <3> QED
      BY <2>2, <3>1, OwnStays
  <2>6. Told(MapSeen', d) = Told(MapSeen, d)
    <3>1. CASE new = {}
      BY <1>4, <3>1
    <3>2. CASE new = {Guess(c.color, c.size, s)}
      <4>1. PICK r : r = Guess(c.color, c.size, s)
        OBVIOUS
      <4>2. KeyOf(r) = KeyOf(c) /\ r.sku = s
        BY <4>1 DEF Guess, KeyOf, normalizeColor
      <4>3. Told(map \cup Mine \cup {r}, d) = Told(map \cup Mine, d)
        BY <2>3, <4>2, ToldStays
      <4> QED
        BY <1>4, <3>2, <4>1, <4>3
    <3> QED
      BY <2>2, <3>1, <3>2
  <2>7. Told(MapSeen, d)' = Told(MapSeen', d)
    BY <2>4 DEF Told
  <2> QED
    BY <1>5, <2>5, <2>6, <2>7 DEF Says
<1> QED
  BY <1>6, <1>7

\* Keeping a guess changes what no cell of any list resolves to, for any styles,
\* lists and requests: the plan that was shown is the one that is held
\* (rememberAutoMatches, resolveCell).
THEOREM GuessesAreNeutral == SkuSpec => MemoryIsNeutral
<1> DEFINE A == Notes /\ Steady => Unmoved
<1>1. SkuInv /\ SkuInv' /\ [SkuNext]_style => [A]_style
  BY NeutralStep DEF Unmoved
<1>2. SkuSpec => [][A]_style
  BY <1>1, InitKeepsSku, SkuStep, PTL DEF SkuSpec
<1> QED
  BY <1>2 DEF MemoryIsNeutral


=============================================================================
