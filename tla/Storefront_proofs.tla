------------------------- MODULE Storefront_proofs -------------------------
(* What the storefront promises.  Of the checkout, for every set of carts,  *)
(* connections and promotions: its counters, its caps, its receipts, and    *)
(* that it implements the order book.  Of the catalogue, for every shop:    *)
(* its quotes, its counts and its pages.                                    *)
EXTENDS Checkout, Storefront, FoldFacts

-----------------------------------------------------------------------------
(* The checkout.                                                           *)

\* A request is carried out by one connection at a time, once.
OneRun ==
    /\ \A t \in Slots : run[t] # Idle => fate[My(t)].is = "running"
    /\ \A t, u \in Slots :
          run[t] # Idle /\ run[u] # Idle /\ My(t) = My(u) => t = u

\* An order in the book is the one its request's receipt names, and what a
\* connection has seen are orders that were placed.
Receipts ==
    /\ \A r \in Booked : /\ fate[r].is = "placed"
                         /\ fate[r].code = order[r].code
                         /\ fate[r].token = order[r].token
    /\ \A r \in Placed : fate[r].token = IF Customer(r) THEN {r} ELSE {}
    /\ \A t \in Slots : run[t] # Idle => run[t].seen \subseteq Placed

\* Codes in the book and codes inserted but not committed differ pairwise, and
\* whoever inserts has a code.
CodesDiffer ==
    /\ \A r, q \in Booked : order[r].code = order[q].code => r = q
    /\ \A t \in Slots : Inserted(t) => \A r \in Booked : order[r].code # run[t].code
    /\ \A t, u \in Slots :
          Inserted(t) /\ Inserted(u) /\ run[t].code = run[u].code => t = u
    /\ \A t \in Slots : Coded(t) => run[t].code \in Codes

\* Locked rows stay in the book.  Until a code is allocated a connection has the
\* one the admin typed, or none; one that was allocated is on no order the
\* connection saw, unless the row it locked has no number.
CodesAreNew ==
    \A t \in Slots :
        /\ Locks(t) \subseteq Booked
        /\ run[t] # Idle /\ ~Coded(t) =>
              run[t].code = MyCart(t).code /\ run[t].locked = {}
        /\ Busy(t, "insert") /\ MyCart(t).code = NoCode =>
              \/ \A q \in Found(t) : order[q].code # run[t].code
              \/ \E q \in run[t].locked : order[q].code = Digitless

\* Between the check of the levels and the commit their rows are locked.
GoodsHeld ==
    /\ \A t \in Slots : Busy(t, "commit") => \A s \in Skus : MyCart(t).wants[s] <= free[s]
    /\ \A t, u \in Slots : t # u => HoldsLevels(t) \cap HoldsLevels(u) = {}

\* A customer row was created by an order that committed; a connection either
\* found a row that matches its cart or will create its own.
RowsMatch ==
    /\ \A k \in Known : fate[k].is = "placed"
    /\ \A t \in Slots :
          run[t] # Idle /\ Customer(My(t)) =>
             \/ run[t].who = My(t)
             \/ /\ customer[run[t].who].exists
                /\ \/ customer[run[t].who].phone = MyCart(t).phone
                   \/ customer[run[t].who].email = MyCart(t).email

UsesOf(p) == {r \in PlacedByCustomers : CartOf[r].promo = p}
OrdersOf(k) == {r \in PlacedByCustomers : fate[r].who = k}

\* Connections past the check of a promotion that have not counted their use.
PastCheck(p) ==
    {t \in Slots : /\ run[t] # Idle /\ run[t].pc # "price"
                   /\ Customer(My(t)) /\ MyCart(t).promo = p}

UsesAreLimited ==
    \A p \in Promos :
        Limit[p] > 0 =>
            promo[p].used + Cardinality(PastCheck(p)) <= Limit[p] + Cardinality(Slots) - 1

IInv == /\ TypeOK /\ OneRun /\ Receipts /\ CodesDiffer /\ CodesAreNew
        /\ GoodsHeld /\ RowsMatch /\ CountersAgree /\ UsesAreLimited

-----------------------------------------------------------------------------
(* Sets of connections and of requests                                     *)

\* The set of connections past a promotion's check is finite and no larger than
\* the pool.
LEMMA PastCheckFinite ==
    ASSUME NEW p
    PROVE  /\ IsFiniteSet(PastCheck(p)) /\ Cardinality(PastCheck(p)) \in Nat
           /\ Cardinality(Slots) \in Nat /\ Cardinality(PastCheck(p)) <= Cardinality(Slots)
<1>1. PastCheck(p) \subseteq Slots /\ IsFiniteSet(Slots)
  BY ConstantsAssumption DEF PastCheck
<1>2. QED BY <1>1, FS_Subset, FS_CardinalityType

\* The orders a counter is compared with are finitely many.
LEMMA CountedFinite ==
    ASSUME NEW p, NEW k
    PROVE  /\ IsFiniteSet(UsesOf(p)) /\ Cardinality(UsesOf(p)) \in Nat
           /\ IsFiniteSet(OrdersOf(k)) /\ Cardinality(OrdersOf(k)) \in Nat
           /\ IsFiniteSet(PlacedByCustomers) /\ Cardinality(PlacedByCustomers) \in Nat
<1>1. /\ UsesOf(p) \subseteq Requests /\ OrdersOf(k) \subseteq Requests
      /\ PlacedByCustomers \subseteq Requests /\ IsFiniteSet(Requests)
  BY ConstantsAssumption DEF UsesOf, OrdersOf, PlacedByCustomers, Placed
<1>2. QED BY <1>1, FS_Subset, FS_CardinalityType

-----------------------------------------------------------------------------
(* A connection goes on, and commits nothing yet                           *)

\* What a statement must have made sure of before its transaction goes on.
FitsIn(t, next) ==
    /\ next \in Txn /\ next.req = My(t)
    /\ next.seen \subseteq Placed
    /\ next.pc \in {"insert", "reserve", "commit"} =>
          next.code \in Codes /\ next.locked \subseteq Booked
    /\ next.pc \in {"price", "code", "lock"} =>
          next.code = MyCart(t).code /\ next.locked = {}
    /\ next.pc \in {"reserve", "commit"} =>
          /\ \A r \in Booked : order[r].code # next.code
          /\ \A u \in Slots \ {t} : Inserted(u) => run[u].code # next.code
    /\ next.pc = "insert" /\ MyCart(t).code = NoCode =>
          \/ \A q \in next.seen \cap Booked : order[q].code # next.code
          \/ \E q \in next.locked : order[q].code = Digitless
    /\ next.pc = "commit" =>
          /\ \A s \in Skus : MyCart(t).wants[s] <= free[s]
          /\ \A u \in Slots \ {t} : HoldsLevels(u) \cap Wanted(My(t)) = {}
    /\ Customer(My(t)) =>
          \/ next.who = My(t)
          \/ /\ customer[next.who].exists
             /\ \/ customer[next.who].phone = MyCart(t).phone
                \/ customer[next.who].email = MyCart(t).email
    /\ next.pc = "price" => run[t].pc = "price"
    /\ run[t].pc = "price" /\ Customer(My(t)) /\ MyCart(t).promo \in Promos =>
          \/ next.pc = "price"
          \/ Limit[MyCart(t).promo] > 0 =>
                promo[MyCart(t).promo].used < Limit[MyCart(t).promo]

\* A statement that fits in keeps the invariant.
LEMMA GoesOn ==
    ASSUME IInv, NEW t \in Slots, run[t] # Idle, NEW next, FitsIn(t, next),
           Goes(t, next), Stays
    PROVE  IInv'
<1> USE DEF IInv
<1>1. /\ run' = [run EXCEPT ![t] = next]
      /\ order' = order /\ customer' = customer /\ free' = free /\ promo' = promo
      /\ today' = today /\ fate' = fate
  BY DEF Goes, Stays
<1>2. /\ run[t] \in Txn /\ next \in Txn /\ next.req = run[t].req /\ next # Idle
      /\ run'[t] = next /\ \A u \in Slots \ {t} : run'[u] = run[u]
      /\ run' \in [Slots -> {Idle} \cup Txn]
  BY <1>1 DEF TypeOK, FitsIn, My, Txn, Idle
<1>3. TypeOK'
  BY <1>1, <1>2 DEF TypeOK
<1>4. OneRun'
  BY <1>1, <1>2 DEF OneRun, My
<1>5. Receipts'
  <2>1. next.seen \subseteq Placed
    BY DEF FitsIn
  <2>2. Booked' = Booked /\ Placed' = Placed
    BY <1>1 DEF Booked, Placed
  <2>3. QED BY <1>1, <1>2, <2>1, <2>2 DEF Receipts
<1>6. CodesDiffer'
  <2>1. Booked' = Booked
    BY <1>1 DEF Booked
  <2>2. \A u \in Slots \ {t} : /\ Inserted(u)' <=> Inserted(u)
                               /\ Coded(u)' <=> Coded(u)
    BY <1>2 DEF Inserted, Coded, Running
  <2>3. /\ Inserted(t)' => next.pc \in {"reserve", "commit"}
        /\ Coded(t)' => next.pc \in {"insert", "reserve", "commit"}
    BY <1>2 DEF Inserted, Coded, Running
  <2>4. QED BY <1>1, <1>2, <2>1, <2>2, <2>3 DEF CodesDiffer, FitsIn
<1>7. CodesAreNew'
  <2>1. Booked' = Booked
    BY <1>1 DEF Booked
  <2>2. ASSUME NEW u \in Slots \ {t}
        PROVE  /\ Locks(u)' = Locks(u) /\ Found(u)' = Found(u)
               /\ Busy(u, "insert")' <=> Busy(u, "insert")
               /\ Coded(u)' <=> Coded(u)
               /\ MyCart(u)' = MyCart(u)
    BY <1>1, <1>2, <2>1 DEF Locks, Coded, Running, Found, Busy, MyCart, My
  <2>3. /\ Locks(t)' \subseteq Booked
        /\ Busy(t, "insert")' => next.pc = "insert"
        /\ ~Coded(t)' => next.pc \in {"price", "code", "lock"}
        /\ MyCart(t)' = MyCart(t)
        /\ Found(t)' = next.seen \cap Booked
    BY <1>1, <1>2, <2>1 DEF Locks, Coded, Running, Busy, FitsIn, MyCart, My, Found, Txn
  <2>4. QED BY <1>1, <1>2, <2>1, <2>2, <2>3 DEF CodesAreNew, FitsIn
<1>8. GoodsHeld'
  <2>1. \A u \in Slots \ {t} : /\ HoldsLevels(u)' = HoldsLevels(u)
                               /\ Busy(u, "commit")' <=> Busy(u, "commit")
                               /\ MyCart(u)' = MyCart(u)
    BY <1>2 DEF HoldsLevels, Busy, Running, MyCart, My, Wanted
  <2>2. /\ HoldsLevels(t)' = IF next.pc = "commit" THEN Wanted(My(t)) ELSE {}
        /\ Busy(t, "commit")' => next.pc = "commit"
        /\ MyCart(t)' = MyCart(t)
    BY <1>2 DEF HoldsLevels, Busy, Running, MyCart, My, Wanted
  <2>3. QED BY <1>1, <2>1, <2>2 DEF GoodsHeld, FitsIn
<1>9. RowsMatch'
  BY <1>1, <1>2 DEF RowsMatch, FitsIn, Known, MyCart, My, Customer
<1>10. CountersAgree'
  <2>1. PlacedByCustomers' = PlacedByCustomers /\ Known' = Known
    BY <1>1 DEF PlacedByCustomers, Placed, Known
  <2>2. QED BY <1>1, <2>1 DEF CountersAgree
<1>11. UsesAreLimited'
  <2> SUFFICES ASSUME NEW p \in Promos, Limit[p] > 0
               PROVE  promo[p].used + Cardinality(PastCheck(p)')
                         <= Limit[p] + Cardinality(Slots) - 1
    BY <1>1 DEF UsesAreLimited
  <2>1. Limit[p] \in Nat /\ promo[p].used \in Nat
    BY ConstantsAssumption DEF TypeOK
  <2>2. Cardinality(PastCheck(p)') \in Nat /\ Cardinality(Slots) \in Nat
        /\ Cardinality(PastCheck(p)') <= Cardinality(Slots)
    <3>1. PastCheck(p)' \subseteq Slots /\ IsFiniteSet(Slots)
      BY ConstantsAssumption DEF PastCheck
    <3>2. QED BY <3>1, FS_Subset, FS_CardinalityType
  <2>3. CASE promo[p].used < Limit[p]
    BY <2>1, <2>2, <2>3
  <2>4. CASE ~(promo[p].used < Limit[p])
    <3>1. PastCheck(p)' = PastCheck(p)
      BY <2>4, <1>1, <1>2 DEF PastCheck, FitsIn, My, MyCart
    <3>2. QED BY <3>1 DEF UsesAreLimited
  <2>5. QED BY <2>3, <2>4
<1>12. QED
  BY <1>3, <1>4, <1>5, <1>6, <1>7, <1>8, <1>9, <1>10, <1>11

-----------------------------------------------------------------------------
(* A transaction starts, or ends without effect                            *)

\* A request that a connection takes up keeps the invariant.
LEMMA BeginKeeps ==
    ASSUME IInv, NEW t \in Slots, NEW r \in Requests, Begin(t, r)
    PROVE  IInv'
<1> USE DEF IInv
<1> DEFINE next == [pc |-> IF Customer(r) THEN "price" ELSE "code", req |-> r,
                    who |-> r, seen |-> {}, locked |-> {}, code |-> CartOf[r].code]
<1>1. /\ run[t] = Idle /\ fate[r] = Fresh
      /\ run' = [run EXCEPT ![t] = next]
      /\ fate' = [fate EXCEPT ![r] = [is |-> "running"]]
      /\ order' = order /\ customer' = customer /\ free' = free /\ promo' = promo
      /\ today' = today
  BY DEF Begin, Goes
<1>2. /\ next \in Txn /\ next # Idle /\ next.req = r /\ next.seen = {} /\ next.who = r
      /\ next.pc = IF Customer(r) THEN "price" ELSE "code"
      /\ next.code = CartOf[r].code /\ next.locked = {}
  BY ConstantsAssumption DEF Txn, Idle, Cart
<1> HIDE DEF next
<1>3. /\ run'[t] = next /\ \A u \in Slots \ {t} : run'[u] = run[u]
      /\ run' \in [Slots -> {Idle} \cup Txn]
  BY <1>1, <1>2 DEF TypeOK
<1>4. /\ fate'[r] = [is |-> "running"] /\ \A q \in Requests \ {r} : fate'[q] = fate[q]
      /\ Placed' = Placed /\ r \notin Placed
      /\ Booked' = Booked /\ Known' = Known
  BY <1>1 DEF TypeOK, Placed, Booked, Known, Fresh
<1>5. TypeOK'
  BY <1>1, <1>3 DEF TypeOK
<1>6. OneRun'
  BY <1>1, <1>2, <1>3, <1>4 DEF OneRun, My, Fresh
<1>7. Receipts'
  <2>1. r \notin Booked
    BY <1>4 DEF Receipts, Placed, Booked
  <2>2. \A u \in Slots : run'[u] # Idle => run'[u].seen \subseteq Placed
    BY <1>2, <1>3 DEF Receipts
  <2>3. \A q \in Booked : q # r /\ fate'[q] = fate[q]
    BY <1>4, <2>1 DEF Booked
  <2>4. \A q \in Placed : q # r /\ fate'[q] = fate[q]
    BY <1>4 DEF Placed
  <2>5. QED BY <1>1, <1>4, <2>2, <2>3, <2>4 DEF Receipts
<1>8. CodesDiffer'
  <2>1. \A u \in Slots : (Inserted(u)' <=> Inserted(u)) /\ (Coded(u)' <=> Coded(u))
    BY <1>1, <1>2, <1>3 DEF Inserted, Coded, Running
  <2>2. ~Inserted(t) /\ ~Coded(t)
    BY <1>1 DEF Inserted, Coded, Running
  <2>3. QED BY <1>1, <1>3, <1>4, <2>1, <2>2 DEF CodesDiffer
<1>9. CodesAreNew'
  <2>1. ASSUME NEW u \in Slots
        PROVE  /\ Locks(u)' = Locks(u)
               /\ Busy(u, "insert")' <=> Busy(u, "insert")
               /\ Coded(u)' <=> Coded(u)
    BY <1>1, <1>2, <1>3 DEF Locks, Coded, Running, Busy
  <2>2. ~Busy(t, "insert")
    BY <1>1 DEF Busy, Running
  <2>3. \A u \in Slots \ {t} : MyCart(u)' = MyCart(u) /\ Found(u)' = Found(u)
    BY <1>3, <1>4 DEF MyCart, My, Found
  <2>4. run'[t].code = MyCart(t)'.code /\ run'[t].locked = {}
    BY <1>2, <1>3 DEF MyCart, My
  <2>5. QED BY <1>1, <1>3, <1>4, <2>1, <2>2, <2>3, <2>4 DEF CodesAreNew
<1>10. GoodsHeld'
  <2>1. \A u \in Slots : /\ HoldsLevels(u)' = HoldsLevels(u)
                         /\ Busy(u, "commit")' <=> Busy(u, "commit")
    BY <1>1, <1>2, <1>3 DEF HoldsLevels, Busy, Running, My, Wanted
  <2>2. ~Busy(t, "commit")
    BY <1>1 DEF Busy, Running
  <2>3. QED BY <1>1, <1>3, <2>1, <2>2 DEF GoodsHeld, MyCart, My
<1>11. RowsMatch'
  BY <1>1, <1>2, <1>3, <1>4 DEF RowsMatch, Known, MyCart, My, Customer, Placed, Fresh
<1>12. CountersAgree'
  <2>1. /\ PlacedByCustomers' = PlacedByCustomers
        /\ \A q \in PlacedByCustomers : fate'[q] = fate[q]
    BY <1>4 DEF PlacedByCustomers, Placed
  <2>2. \A k \in Requests : {q \in PlacedByCustomers : fate'[q].who = k}
                               = {q \in PlacedByCustomers : fate[q].who = k}
    BY <2>1
  <2>3. QED BY <1>1, <1>4, <2>1, <2>2 DEF CountersAgree, Known
<1>13. UsesAreLimited'
  <2>1. \A p \in Promos : PastCheck(p)' = PastCheck(p)
    BY <1>1, <1>2, <1>3 DEF PastCheck, My, MyCart
  <2>2. QED BY <1>1, <2>1 DEF UsesAreLimited
<1>14. QED
  BY <1>5, <1>6, <1>7, <1>8, <1>9, <1>10, <1>11, <1>12, <1>13

\* A transaction that is refused, collides or is lost keeps the invariant.
LEMMA EndsKeeps ==
    ASSUME IInv, NEW t \in Slots, run[t] # Idle,
           NEW how \in {"refused", "collided", "lost"}, Ends(t, how)
    PROVE  IInv'
<1> USE DEF IInv
<1> DEFINE r == My(t)
<1>1. /\ run' = [run EXCEPT ![t] = Idle]
      /\ fate' = [fate EXCEPT ![r] = [is |-> how]]
      /\ order' = order /\ customer' = customer /\ free' = free /\ promo' = promo
      /\ today' = today
  BY DEF Ends, Goes
<1>2. /\ r \in Requests /\ fate[r].is = "running" /\ run[t] \in Txn
  BY DEF TypeOK, OneRun, Txn, My
<1>3. /\ run'[t] = Idle /\ \A u \in Slots \ {t} : run'[u] = run[u]
      /\ run' \in [Slots -> {Idle} \cup Txn]
  BY <1>1 DEF TypeOK
<1>4. \A u \in Slots \ {t} : run[u] # Idle => My(u) # r
  BY DEF OneRun
<1> HIDE DEF r
<1>5. /\ fate'[r] = [is |-> how] /\ \A q \in Requests \ {r} : fate'[q] = fate[q]
      /\ Placed' = Placed /\ r \notin Placed
      /\ Booked' = Booked /\ Known' = Known
  BY <1>1, <1>2 DEF TypeOK, Placed, Booked, Known
<1>6. TypeOK'
  BY <1>1, <1>2, <1>3 DEF TypeOK
<1>7. OneRun'
  <2>1. \A u \in Slots : run'[u] # Idle => u # t /\ run'[u] = run[u]
    BY <1>3
  <2>2. \A u \in Slots : run[u] # Idle => My(u) \in Requests
    BY DEF TypeOK, Txn, My
  <2>3. QED BY <1>4, <1>5, <2>1, <2>2 DEF OneRun, My
<1>8. Receipts'
  <2>1. r \notin Booked
    BY <1>5 DEF Receipts, Placed, Booked
  <2>2. \A u \in Slots : run'[u] # Idle => run'[u].seen \subseteq Placed
    BY <1>3 DEF Receipts
  <2>3. \A q \in Booked : q # r /\ fate'[q] = fate[q]
    BY <1>5, <2>1 DEF Booked
  <2>4. \A q \in Placed : q # r /\ fate'[q] = fate[q]
    BY <1>5 DEF Placed
  <2>5. QED BY <1>1, <1>5, <2>2, <2>3, <2>4 DEF Receipts
<1>9. CodesDiffer'
  <2>1. \A u \in Slots \ {t} : (Inserted(u)' <=> Inserted(u)) /\ (Coded(u)' <=> Coded(u))
    BY <1>3 DEF Inserted, Coded, Running
  <2>2. ~Inserted(t)' /\ ~Coded(t)'
    BY <1>3 DEF Inserted, Coded, Running
  <2>3. QED BY <1>1, <1>3, <1>5, <2>1, <2>2 DEF CodesDiffer
<1>10. CodesAreNew'
  <2>1. ASSUME NEW u \in Slots \ {t}
        PROVE  /\ Locks(u)' = Locks(u)
               /\ Busy(u, "insert")' <=> Busy(u, "insert")
               /\ Coded(u)' <=> Coded(u)
               /\ MyCart(u)' = MyCart(u) /\ Found(u)' = Found(u)
    BY <1>1, <1>3, <1>5 DEF Locks, Coded, Running, Busy, MyCart, My, Found
  <2>2. ~Busy(t, "insert")' /\ Locks(t)' = {}
    BY <1>3 DEF Busy, Running, Locks, Coded
  <2>3. QED BY <1>1, <1>3, <1>5, <2>1, <2>2 DEF CodesAreNew
<1>11. GoodsHeld'
  <2>1. \A u \in Slots \ {t} : /\ HoldsLevels(u)' = HoldsLevels(u)
                               /\ Busy(u, "commit")' <=> Busy(u, "commit")
    BY <1>3 DEF HoldsLevels, Busy, Running, My, Wanted
  <2>2. ~Busy(t, "commit")' /\ HoldsLevels(t)' = {}
    BY <1>3 DEF Busy, Running, HoldsLevels
  <2>3. QED BY <1>1, <1>3, <2>1, <2>2 DEF GoodsHeld, MyCart, My
<1>12. RowsMatch'
  BY <1>1, <1>3, <1>5 DEF RowsMatch, Known, MyCart, My, Customer, Placed
<1>13. CountersAgree'
  <2>1. /\ PlacedByCustomers' = PlacedByCustomers
        /\ \A q \in PlacedByCustomers : fate'[q] = fate[q]
    BY <1>5 DEF PlacedByCustomers, Placed
  <2>2. \A k \in Requests : {q \in PlacedByCustomers : fate'[q].who = k}
                               = {q \in PlacedByCustomers : fate[q].who = k}
    BY <2>1
  <2>3. QED BY <1>1, <1>5, <2>1, <2>2 DEF CountersAgree, Known
<1>14. UsesAreLimited'
  <2> SUFFICES ASSUME NEW p \in Promos, Limit[p] > 0
               PROVE  promo[p].used + Cardinality(PastCheck(p)')
                         <= Limit[p] + Cardinality(Slots) - 1
    BY <1>1 DEF UsesAreLimited
  <2>1. PastCheck(p)' \subseteq PastCheck(p)
    BY <1>1, <1>3 DEF PastCheck, My, MyCart
  <2>2. Cardinality(PastCheck(p)') \in Nat
        /\ Cardinality(PastCheck(p)') <= Cardinality(PastCheck(p))
    BY <2>1, PastCheckFinite, FS_Subset, FS_CardinalityType
  <2>3. Limit[p] \in Nat /\ promo[p].used \in Nat
    BY ConstantsAssumption DEF TypeOK
  <2>4. QED BY <2>2, <2>3, PastCheckFinite DEF UsesAreLimited
<1>15. QED
  BY <1>6, <1>7, <1>8, <1>9, <1>10, <1>11, <1>12, <1>13, <1>14

-----------------------------------------------------------------------------
(* The statements of a checkout                                            *)

\* What every statement starts from: its record, its request and its cart.
LEMMA AtWork ==
    ASSUME IInv, NEW t \in Slots, run[t] # Idle
    PROVE  /\ run[t] \in Txn /\ My(t) \in Requests /\ MyCart(t) \in Cart
           /\ fate[My(t)].is = "running" /\ My(t) \notin Placed
           /\ My(t) \notin Booked /\ My(t) \notin Known
           /\ run[t].seen \subseteq Placed
BY ConstantsAssumption
   DEF IInv, TypeOK, OneRun, Receipts, RowsMatch, Txn, My, MyCart, Placed, Booked, Known

\* Pricing leaves a redeemable promotion and a customer row that matches.
LEMMA PriceKeeps ==
    ASSUME IInv, NEW t \in Slots, Price(t)
    PROVE  IInv'
<1>1. Busy(t, "price") /\ run[t] # Idle /\ run[t].pc = "price"
  BY DEF Price, Busy, Running
<1>2. /\ run[t] \in Txn /\ My(t) \in Requests /\ MyCart(t) \in Cart
      /\ run[t].seen \subseteq Placed
  BY <1>1, AtWork
<1>3. run[t].code = MyCart(t).code /\ run[t].locked = {}
  BY <1>1 DEF IInv, CodesAreNew, Coded
<1>4. CASE MyCart(t).promo = NoPromo \/ Redeemable(MyCart(t).promo)
  <2>1. PICK k \in IF Matching(My(t)) = {} THEN {My(t)} ELSE Matching(My(t)) :
           /\ Goes(t, [run[t] EXCEPT !.pc = "code", !.who = k])
           /\ Stays
    BY <1>4 DEF Price
  <2> DEFINE next == [run[t] EXCEPT !.pc = "code", !.who = k]
  <2>2. k \in Requests /\ (k = My(t) \/ k \in Matching(My(t)))
    BY <2>1, <1>2 DEF Matching, Known
  <2>3. k = My(t) \/ /\ customer[k].exists
                     /\ \/ customer[k].phone = MyCart(t).phone
                        \/ customer[k].email = MyCart(t).email
    BY <2>2 DEF Matching, Known, MyCart
  <2>4. /\ next \in Txn /\ next.req = My(t) /\ next.pc = "code" /\ next.who = k
        /\ next.seen = run[t].seen /\ next.code = run[t].code
        /\ next.locked = run[t].locked
    BY <1>2, <2>2 DEF Txn, My
  <2>5. MyCart(t).promo \in Promos /\ Limit[MyCart(t).promo] > 0 =>
           promo[MyCart(t).promo].used < Limit[MyCart(t).promo]
    BY <1>4, ConstantsAssumption DEF Redeemable
  <2>6. FitsIn(t, next)
    <3> HIDE DEF next
    <3>1. QED BY <1>2, <1>3, <2>3, <2>4, <2>5 DEF FitsIn
  <2>7. QED BY <1>1, <2>1, <2>6, GoesOn
<1>5. CASE ~(MyCart(t).promo = NoPromo \/ Redeemable(MyCart(t).promo))
  <2>1. Ends(t, "refused")
    BY <1>5 DEF Price
  <2>2. QED BY <2>1, <1>1, EndsKeeps
<1>6. QED BY <1>4, <1>5

\* The first read of the codes sees committed orders.
LEMMA ReadHighestKeeps ==
    ASSUME IInv, NEW t \in Slots, ReadHighest(t)
    PROVE  IInv'
<1> DEFINE next == IF MyCart(t).code # NoCode THEN [run[t] EXCEPT !.pc = "insert"]
                   ELSE [run[t] EXCEPT !.pc = "lock", !.seen = Booked]
<1>1. /\ Busy(t, "code") /\ run[t] # Idle /\ run[t].pc = "code"
      /\ Goes(t, next) /\ Stays
  BY DEF ReadHighest, Busy, Running
<1>2. /\ run[t] \in Txn /\ My(t) \in Requests /\ MyCart(t) \in Cart
      /\ run[t].seen \subseteq Placed
  BY <1>1, AtWork
<1>3. Booked \subseteq Placed /\ Booked \subseteq Requests
  BY DEF IInv, Receipts, Booked, Placed
<1>4. next \in Txn /\ next.req = My(t) /\ next.who = run[t].who
  BY <1>2, <1>3 DEF Txn, My
<1>5. IF MyCart(t).code # NoCode
      THEN /\ next.pc = "insert" /\ next.seen = run[t].seen /\ next.code = run[t].code
           /\ next.locked = run[t].locked
      ELSE /\ next.pc = "lock" /\ next.seen = Booked /\ next.code = run[t].code
           /\ next.locked = run[t].locked
  BY <1>2 DEF Txn
<1>6. run[t].code = MyCart(t).code /\ run[t].locked = {}
  BY <1>1 DEF IInv, CodesAreNew, Coded
<1> HIDE DEF next
<1>7. FitsIn(t, next)
  BY <1>1, <1>2, <1>3, <1>4, <1>5, <1>6 DEF FitsIn, IInv, RowsMatch, Cart
<1>8. QED BY <1>1, <1>7, GoesOn

-----------------------------------------------------------------------------
(* The allocation of a code                                                *)

\* Among finitely many rows with a number, one has the highest.
LEMMA HighestExists ==
    ASSUME NEW S, IsFiniteSet(S), S # {}, NEW f \in [S -> Nat]
    PROVE  \E m \in S : \A r \in S : f[m] >= f[r]
<1> DEFINE HasHighest(U) == \E m \in U : \A r \in U : f[m] >= f[r]
           Sizes == {n \in Nat : \E U \in SUBSET S : /\ U # {} /\ ~HasHighest(U)
                                                     /\ Cardinality(U) = n}
<1>1. SUFFICES ASSUME ~HasHighest(S) PROVE FALSE
  OBVIOUS
<1>2. Cardinality(S) \in Sizes
  BY <1>1, FS_CardinalityType
<1>3. PICK n \in Sizes : \A k \in Sizes : n <= k
  <2>1. Sizes \in SUBSET Nat /\ Sizes # {}
    BY <1>2
  <2> HIDE DEF Sizes
  <2>2. QED BY <2>1, LeastNatural
<1>4. PICK U \in SUBSET S : U # {} /\ ~HasHighest(U) /\ Cardinality(U) = n
  BY <1>3
<1>5. PICK x \in U : TRUE
  BY <1>4
<1>6. /\ IsFiniteSet(U) /\ U \ {x} \in SUBSET S /\ IsFiniteSet(U \ {x})
      /\ Cardinality(U \ {x}) = n - 1 /\ Cardinality(U \ {x}) \in Nat /\ n \in Nat
  BY <1>4, <1>5, FS_Subset, FS_RemoveElement, FS_CardinalityType
<1>7. CASE U \ {x} = {}
  <2>1. U = {x} /\ f[x] >= f[x]
    BY <1>5, <1>7
  <2>2. QED BY <2>1, <1>4
<1>8. CASE U \ {x} # {}
  <2>1. HasHighest(U \ {x})
    <3>1. SUFFICES ASSUME ~HasHighest(U \ {x}) PROVE FALSE
      OBVIOUS
    <3>2. n - 1 \in Sizes
      BY <3>1, <1>6, <1>8
    <3>3. QED BY <3>2, <1>3, <1>6
  <2>2. PICK m \in U \ {x} : \A r \in U \ {x} : f[m] >= f[r]
    BY <2>1
  <2>3. f[m] \in Nat /\ f[x] \in Nat /\ \A r \in U : f[r] \in Nat
    BY <1>4, <1>5
  <2>4. \A r \in U : f[m] >= f[r] \/ r = x
    BY <2>2
  <2>5. CASE f[m] >= f[x]
    BY <2>2, <2>4, <2>5, <1>4
  <2>6. CASE f[x] >= f[m]
    <3>1. \A r \in U : f[x] >= f[r]
      BY <2>3, <2>4, <2>6
    <3>2. QED BY <3>1, <1>4, <1>5
  <2>7. QED BY <2>3, <2>5, <2>6
<1>9. QED BY <1>7, <1>8

\* The SELECT returns a row when there is one, and the code computed from it is
\* on none of the rows, unless the row returned has no number.
LEMMA NextCodeIsNew ==
    ASSUME NEW rows \in SUBSET Requests, \A r \in rows : order[r].code \in Codes
    PROVE  /\ Front(rows) \subseteq rows
           /\ NextCode(rows) \in Codes
           /\ \/ \A q \in rows : order[q].code # NextCode(rows)
              \/ \E q \in Front(rows) : order[q].code = Digitless
<1>1. Front(rows) \subseteq rows
  BY DEF Front
<1>2. FirstCode \in Codes
  BY DEF FirstCode, Codes
<1>3. CASE rows = {}
  BY <1>1, <1>2, <1>3 DEF NextCode
<1>4. CASE rows # {} /\ \E r \in rows : order[r].code = Digitless
  <2>1. /\ Front(rows) # {}
        /\ \A r \in Front(rows) : order[r].code = Digitless
    BY <1>4 DEF Front
  <2>2. NextCode(rows) = FirstCode
    BY <2>1 DEF NextCode
  <2>3. QED BY <1>1, <1>2, <2>1, <2>2
<1>5. CASE rows # {} /\ \A r \in rows : order[r].code # Digitless
  <2>1. \A r \in rows : order[r].code \in Nat
    BY <1>5 DEF Codes
  <2> DEFINE f == [r \in rows |-> order[r].code]
  <2>2. f \in [rows -> Nat] /\ IsFiniteSet(rows)
    BY <2>1, ConstantsAssumption, FS_Subset
  <2>3. \E m \in rows : \A r \in rows : f[m] >= f[r]
    <3> HIDE DEF f
    <3>1. QED BY <2>2, <1>5, HighestExists
  <2>4. PICK m \in rows : \A r \in rows : order[m].code >= order[r].code
    BY <2>3
  <2>5. Front(rows) = {r \in rows : \A q \in rows : order[r].code >= order[q].code}
    BY <1>5 DEF Front
  <2> DEFINE h == CHOOSE r \in Front(rows) : TRUE
  <2>6. h \in Front(rows)
    BY <2>4, <2>5
  <2>7. /\ h \in rows /\ order[h].code \in Nat
        /\ \A q \in rows : order[h].code >= order[q].code
    BY <2>1, <2>5, <2>6
  <2>8. NextCode(rows) = IF order[h].code >= FirstCode THEN order[h].code + 1 ELSE FirstCode
    BY <1>5, <2>7 DEF NextCode
  <2> HIDE DEF h
  <2>9. NextCode(rows) \in Nat /\ NextCode(rows) > order[h].code
    BY <2>7, <2>8 DEF FirstCode
  <2>10. \A q \in rows : order[q].code # NextCode(rows)
    BY <2>1, <2>7, <2>9
  <2>11. QED BY <1>1, <2>9, <2>10 DEF Codes
<1>6. QED BY <1>3, <1>4, <1>5

\* An order in the book has a code.
LEMMA BookedOrders ==
    ASSUME IInv
    PROVE  \A r \in Booked : order[r].code \in Codes
<1> SUFFICES ASSUME NEW r \in Booked PROVE order[r].code \in Codes
  OBVIOUS
<1>1. r \in Requests /\ order[r].placed
  BY DEF Booked
<1>2. order[r] # NoOrder
  BY <1>1 DEF NoOrder
<1>3. QED BY <1>1, <1>2 DEF IInv, TypeOK

\* The locked row is in the book, and the code is the next one.
LEMMA LockHighestKeeps ==
    ASSUME IInv, NEW t \in Slots, LockHighest(t)
    PROVE  IInv'
<1> DEFINE next == [run[t] EXCEPT !.pc = "insert", !.locked = Front(Found(t)),
                                  !.code = NextCode(Found(t))]
<1>1. /\ run[t] # Idle /\ run[t].pc = "lock" /\ Goes(t, next) /\ Stays
  BY DEF LockHighest, Busy, Running
<1>2. /\ run[t] \in Txn /\ My(t) \in Requests /\ MyCart(t) \in Cart
      /\ run[t].seen \subseteq Placed
  BY <1>1, AtWork
<1>3. Found(t) \in SUBSET Requests /\ Found(t) \subseteq Booked
      /\ Found(t) = run[t].seen \cap Booked
  BY DEF Found, Booked
<1>4. \A r \in Found(t) : order[r].code \in Codes
  BY <1>3, BookedOrders
<1>5. /\ Front(Found(t)) \subseteq Found(t) /\ NextCode(Found(t)) \in Codes
      /\ \/ \A q \in Found(t) : order[q].code # NextCode(Found(t))
         \/ \E q \in Front(Found(t)) : order[q].code = Digitless
  BY <1>3, <1>4, NextCodeIsNew
<1>6. /\ next \in Txn /\ next.req = My(t) /\ next.pc = "insert"
      /\ next.seen = run[t].seen /\ next.who = run[t].who
      /\ next.locked = Front(Found(t)) /\ next.code = NextCode(Found(t))
  BY <1>2, <1>3, <1>5 DEF Txn, My
<1> HIDE DEF next
<1>7. FitsIn(t, next)
  BY <1>1, <1>2, <1>3, <1>5, <1>6 DEF FitsIn, IInv, RowsMatch
<1>8. QED BY <1>1, <1>7, GoesOn

\* The unique index lets a new code in and no other.
LEMMA InsertOrderKeeps ==
    ASSUME IInv, NEW t \in Slots, InsertOrder(t)
    PROVE  IInv'
<1>1. run[t] # Idle /\ run[t].pc = "insert" /\ Coded(t)
  BY DEF InsertOrder, Busy, Running, Coded
<1>2. /\ run[t] \in Txn /\ My(t) \in Requests /\ run[t].seen \subseteq Placed
  BY <1>1, AtWork
<1>3. CASE Taken(run[t].code)
  <2>1. Ends(t, "collided")
    BY <1>3 DEF InsertOrder
  <2>2. QED BY <1>1, <2>1, EndsKeeps
<1>4. CASE ~Taken(run[t].code)
  <2> DEFINE next == [run[t] EXCEPT !.pc = "reserve"]
  <2>1. /\ Goes(t, next) /\ Stays
        /\ \A u \in Slots \ {t} : Inserted(u) => run[u].code # next.code
        /\ \A r \in Booked : order[r].code # next.code
    BY <1>2, <1>4 DEF InsertOrder, Taken, Txn
  <2>2. /\ next \in Txn /\ next.req = My(t) /\ next.pc = "reserve"
        /\ next.seen = run[t].seen /\ next.who = run[t].who
        /\ next.locked = run[t].locked /\ next.code = run[t].code
    BY <1>2 DEF Txn, My
  <2>3. run[t].code \in Codes /\ run[t].locked \subseteq Booked
    BY <1>1 DEF IInv, CodesDiffer, CodesAreNew, Locks
  <2> HIDE DEF next
  <2>4. FitsIn(t, next)
    BY <1>1, <1>2, <2>1, <2>2, <2>3 DEF FitsIn, IInv, RowsMatch
  <2>5. QED BY <1>1, <2>1, <2>4, GoesOn
<1>5. QED BY <1>3, <1>4

\* Every line on its locked level, or the request throws.
LEMMA ReserveKeeps ==
    ASSUME IInv, NEW t \in Slots, Reserve(t)
    PROVE  IInv'
<1>1. run[t] # Idle /\ run[t].pc = "reserve" /\ Coded(t) /\ Inserted(t)
  BY DEF Reserve, Busy, Running, Coded, Inserted
<1>2. /\ run[t] \in Txn /\ My(t) \in Requests /\ run[t].seen \subseteq Placed
  BY <1>1, AtWork
<1>3. CASE \A s \in Skus : MyCart(t).wants[s] <= free[s]
  <2> DEFINE next == [run[t] EXCEPT !.pc = "commit"]
  <2>1. /\ Goes(t, next) /\ Stays
        /\ \A u \in Slots \ {t} : HoldsLevels(u) \cap Wanted(My(t)) = {}
    BY <1>3 DEF Reserve
  <2>2. /\ next \in Txn /\ next.req = My(t) /\ next.pc = "commit"
        /\ next.seen = run[t].seen /\ next.who = run[t].who
        /\ next.locked = run[t].locked /\ next.code = run[t].code
    BY <1>2 DEF Txn, My
  <2>3. run[t].code \in Codes /\ run[t].locked \subseteq Booked
    BY <1>1 DEF IInv, CodesDiffer, CodesAreNew, Locks
  <2>4. /\ \A r \in Booked : order[r].code # run[t].code
        /\ \A u \in Slots \ {t} : Inserted(u) => run[u].code # run[t].code
    BY <1>1 DEF IInv, CodesDiffer
  <2> HIDE DEF next
  <2>5. FitsIn(t, next)
    BY <1>1, <1>2, <1>3, <2>1, <2>2, <2>3, <2>4 DEF FitsIn, IInv, RowsMatch
  <2>6. QED BY <1>1, <2>1, <2>5, GoesOn
<1>4. CASE ~(\A s \in Skus : MyCart(t).wants[s] <= free[s])
  <2>1. Ends(t, "refused")
    BY <1>4 DEF Reserve
  <2>2. QED BY <1>1, <2>1, EndsKeeps
<1>5. QED BY <1>3, <1>4

-----------------------------------------------------------------------------
(* Steps outside a checkout                                                *)

\* Deleting an order that no checkout has locked keeps the invariant.
LEMMA RemoveKeeps ==
    ASSUME IInv, NEW r \in Requests, Remove(r)
    PROVE  IInv'
<1> USE DEF IInv
<1>1. /\ order[r].placed /\ \A t \in Slots : r \notin Locks(t)
      /\ order' = [order EXCEPT ![r] = NoOrder]
      /\ customer' = customer /\ free' = free /\ promo' = promo
      /\ today' = today /\ run' = run /\ fate' = fate
  BY DEF Remove
<1>2. /\ Booked' = Booked \ {r} /\ \A q \in Booked' : order'[q] = order[q]
  BY <1>1 DEF Booked, TypeOK, NoOrder
<1>3. TypeOK'
  BY <1>1 DEF TypeOK
<1>4. OneRun'
  BY <1>1 DEF OneRun, My
<1>5. Receipts'
  BY <1>1, <1>2 DEF Receipts, Placed
<1>6. CodesDiffer'
  BY <1>1, <1>2 DEF CodesDiffer, Inserted, Coded, Running
<1>7. CodesAreNew'
  <2> SUFFICES ASSUME NEW t \in Slots
               PROVE  /\ Locks(t) \subseteq Booked'
                      /\ run[t] # Idle /\ ~Coded(t) =>
                            run[t].code = MyCart(t).code /\ run[t].locked = {}
                      /\ Busy(t, "insert") /\ MyCart(t).code = NoCode =>
                            \/ \A q \in Found(t)' : order'[q].code # run[t].code
                            \/ \E q \in run[t].locked : order'[q].code = Digitless
    BY <1>1 DEF CodesAreNew, Locks, Coded, Running, Busy, MyCart, My
  <2>1. Locks(t) \subseteq Booked'
    BY <1>1, <1>2 DEF CodesAreNew
  <2>2. Found(t)' \subseteq Found(t) /\ Found(t)' \subseteq Booked'
    BY <1>1, <1>2 DEF Found
  <2>3. Busy(t, "insert") => Locks(t) = run[t].locked
    BY DEF Busy, Locks, Coded
  <2>4. QED BY <1>2, <2>1, <2>2, <2>3 DEF CodesAreNew
<1>8. GoodsHeld'
  BY <1>1 DEF GoodsHeld, Busy, Running, HoldsLevels, Wanted, MyCart, My
<1>9. RowsMatch'
  BY <1>1 DEF RowsMatch, Known, MyCart, My
<1>10. CountersAgree'
  BY <1>1 DEF CountersAgree, PlacedByCustomers, Placed, Known
<1>11. UsesAreLimited'
  BY <1>1 DEF UsesAreLimited, PastCheck, My, MyCart
<1>12. QED
  BY <1>3, <1>4, <1>5, <1>6, <1>7, <1>8, <1>9, <1>10, <1>11

\* The promotion job and the end of a day change statuses and the date.
LEMMA ClockKeeps ==
    ASSUME IInv, SyncPromos \/ Midnight
    PROVE  IInv'
<1> USE DEF IInv
<1>1. /\ order' = order /\ customer' = customer /\ free' = free /\ run' = run /\ fate' = fate
  BY DEF SyncPromos, Midnight
<1>2. /\ promo' \in [Promos -> [status : {"scheduled", "active", "expired"}, used : Nat]]
      /\ \A p \in Promos : promo'[p].used = promo[p].used
  BY DEF SyncPromos, Midnight, TypeOK, Synced
<1>3. today' \in 1 .. Days
  BY ConstantsAssumption DEF SyncPromos, Midnight, TypeOK
<1>4. TypeOK'
  BY <1>1, <1>2, <1>3 DEF TypeOK
<1>5. /\ Booked' = Booked /\ Placed' = Placed /\ Known' = Known
      /\ PlacedByCustomers' = PlacedByCustomers
  BY <1>1 DEF Booked, Placed, Known, PlacedByCustomers
<1>6. OneRun' /\ Receipts' /\ RowsMatch'
  BY <1>1, <1>5 DEF OneRun, Receipts, RowsMatch, My, MyCart
<1>7. CodesDiffer'
  BY <1>1, <1>5 DEF CodesDiffer, Inserted, Coded, Running
<1>8. CodesAreNew'
  BY <1>1, <1>5 DEF CodesAreNew, Locks, Coded, Running, Found, Busy, MyCart, My
<1>9. GoodsHeld'
  BY <1>1 DEF GoodsHeld, Busy, Running, HoldsLevels, Wanted, MyCart, My
<1>10. CountersAgree'
  BY <1>1, <1>2, <1>5 DEF CountersAgree
<1>11. UsesAreLimited'
  BY <1>1, <1>2 DEF UsesAreLimited, PastCheck, My, MyCart
<1>12. QED
  BY <1>4, <1>6, <1>7, <1>8, <1>9, <1>10, <1>11

-----------------------------------------------------------------------------
(* The commit                                                              *)

CustomerRow == [exists : {TRUE}, phone : Phones, email : Emails \cup {NoEmail},
                orders : Nat, spent : Nat]

\* A customer row stays one when its totals are written.
LEMMA RowKeepsType ==
    ASSUME NEW row \in CustomerRow, NEW m \in Nat, NEW n \in Nat
    PROVE  [row EXCEPT !.orders = m, !.spent = n] \in CustomerRow
BY DEF CustomerRow

\* The row that a commit bumps: the one found, or the cart's own, one order more.
LEMMA BumpedRow ==
    ASSUME IInv, NEW k \in Requests, NEW r \in Requests
    PROVE  /\ Bumped(k, r) \in CustomerRow
           /\ Bumped(k, r).exists
           /\ customer[k].exists =>
                 /\ Bumped(k, r).phone = customer[k].phone
                 /\ Bumped(k, r).email = customer[k].email
                 /\ Bumped(k, r).orders = customer[k].orders + 1
           /\ ~customer[k].exists =>
                 /\ Bumped(k, r).phone = CartOf[r].phone
                 /\ Bumped(k, r).email = CartOf[r].email
                 /\ Bumped(k, r).orders = 1
<1> DEFINE own == [exists |-> TRUE, phone |-> CartOf[r].phone,
                   email |-> CartOf[r].email, orders |-> 0, spent |-> 0]
           row == IF customer[k].exists THEN customer[k] ELSE own
<1>1. /\ CartOf[r].phone \in Phones /\ CartOf[r].email \in Emails \cup {NoEmail}
      /\ CartOf[r].total \in Nat
  BY ConstantsAssumption DEF Cart
<1>2. own \in CustomerRow
  BY <1>1 DEF CustomerRow
<1>3. customer[k] \in {NoCustomer} \cup CustomerRow
  BY DEF IInv, TypeOK, CustomerRow
<1>4. customer[k].exists => customer[k] # NoCustomer
  BY DEF NoCustomer
<1>5. row \in CustomerRow
  BY <1>2, <1>3, <1>4
<1>6. Bumped(k, r) = [row EXCEPT !.orders = @ + 1, !.spent = @ + CartOf[r].total]
  BY DEF Bumped
<1>7. /\ customer[k].exists => row = customer[k]
      /\ ~customer[k].exists => /\ row.phone = CartOf[r].phone
                                /\ row.email = CartOf[r].email
                                /\ row.orders = 0
  OBVIOUS
<1> HIDE DEF row
<1>8. row.orders + 1 \in Nat /\ row.spent + CartOf[r].total \in Nat
  BY <1>1, <1>5 DEF CustomerRow
<1>9. Bumped(k, r) \in CustomerRow
  BY <1>5, <1>6, <1>8, RowKeepsType
<1>10. /\ Bumped(k, r).phone = row.phone /\ Bumped(k, r).email = row.email
       /\ Bumped(k, r).orders = row.orders + 1
  BY <1>5, <1>6 DEF CustomerRow
<1>11. Bumped(k, r).exists
  BY <1>9 DEF CustomerRow
<1>12. QED BY <1>7, <1>9, <1>10, <1>11

\* What a commit does, row by row: the order and the receipt of the request, the
\* levels, the promotion it redeemed, and the customer row.
LEMMA CommitWrites ==
    ASSUME IInv, NEW t \in Slots, Commit(t)
    PROVE  /\ run[t] # Idle /\ run[t].pc = "commit" /\ run[t].code \in Codes
           /\ run'[t] = Idle /\ \A u \in Slots \ {t} : run'[u] = run[u]
           /\ order'[My(t)].code = run[t].code
           /\ order'[My(t)].token = IF Customer(My(t)) THEN {My(t)} ELSE {}
           /\ \A q \in Requests \ {My(t)} : order'[q] = order[q] /\ fate'[q] = fate[q]
           /\ fate'[My(t)].is = "placed" /\ fate'[My(t)].code = run[t].code
           /\ fate'[My(t)].who = run[t].who
           /\ fate'[My(t)].token = IF Customer(My(t)) THEN {My(t)} ELSE {}
           /\ \A s \in Skus : free'[s] = free[s] - MyCart(t).wants[s]
           /\ promo' = Redeemed(My(t)) /\ today' = today
           /\ IF Customer(My(t))
              THEN customer' = [customer EXCEPT ![run[t].who] = Bumped(run[t].who, My(t))]
              ELSE customer' = customer
           /\ Booked' = Booked \cup {My(t)} /\ Placed' = Placed \cup {My(t)}
           /\ TypeOK'
<1> DEFINE r == My(t)
           token == IF Customer(r) THEN {r} ELSE {}
<1>1. /\ run[t] # Idle /\ run[t].pc = "commit" /\ Coded(t)
      /\ order' = [order EXCEPT ![r] = [placed |-> TRUE, code |-> run[t].code,
                                        who |-> run[t].who, token |-> token]]
      /\ free' = [s \in Skus |-> free[s] - CartOf[r].wants[s]]
      /\ promo' = Redeemed(r) /\ today' = today
      /\ IF Customer(r)
         THEN customer' = [customer EXCEPT ![run[t].who] = Bumped(run[t].who, r)]
         ELSE customer' = customer
      /\ fate' = [fate EXCEPT ![r] = [is |-> "placed", code |-> run[t].code,
                                      token |-> token, who |-> run[t].who]]
      /\ run' = [run EXCEPT ![t] = Idle]
  BY DEF Commit, Busy, Running, Goes, Coded
<1>2. /\ run[t] \in Txn /\ r \in Requests /\ MyCart(t) \in Cart /\ run[t].who \in Requests
      /\ fate[r].is = "running" /\ r \notin Placed /\ r \notin Booked
      /\ run[t].code \in Codes
  BY <1>1, AtWork DEF Txn, IInv, CodesDiffer
<1>3. token \in SUBSET Requests
  BY <1>2
<1> HIDE DEF token
<1>4. /\ run'[t] = Idle /\ \A u \in Slots \ {t} : run'[u] = run[u]
      /\ run' \in [Slots -> {Idle} \cup Txn]
  BY <1>1 DEF IInv, TypeOK
<1>5. /\ order'[r] = [placed |-> TRUE, code |-> run[t].code, who |-> run[t].who,
                      token |-> token]
      /\ order' \in [Requests -> {NoOrder} \cup
            [placed : {TRUE}, code : Codes, who : Requests, token : SUBSET Requests]]
  BY <1>1, <1>2, <1>3 DEF IInv, TypeOK
<1>6. /\ fate'[r] = [is |-> "placed", code |-> run[t].code, token |-> token,
                     who |-> run[t].who]
      /\ fate' \in [Requests -> {Fresh} \cup
            [is : {"running", "refused", "collided", "lost"}] \cup
            [is : {"placed"}, code : Codes, who : Requests, token : SUBSET Requests]]
  BY <1>1, <1>2, <1>3 DEF IInv, TypeOK
<1>7. \A q \in Requests \ {r} : order'[q] = order[q] /\ fate'[q] = fate[q]
  BY <1>1 DEF IInv, TypeOK
<1>8. \A s \in Skus : /\ free'[s] = free[s] - MyCart(t).wants[s] /\ free'[s] \in Nat
  <2>1. \A s \in Skus : MyCart(t).wants[s] \in Nat /\ free[s] \in Nat
                        /\ MyCart(t).wants[s] <= free[s]
    BY <1>1, <1>2 DEF IInv, TypeOK, GoodsHeld, Busy, Running, Cart
  <2>2. QED BY <1>1, <2>1 DEF MyCart
<1>9. promo' \in [Promos -> [status : {"scheduled", "active", "expired"}, used : Nat]]
  BY <1>1 DEF IInv, TypeOK, Redeemed
<1>10. customer' \in [Requests -> {NoCustomer} \cup
          [exists : {TRUE}, phone : Phones, email : Emails \cup {NoEmail},
           orders : Nat, spent : Nat]]
  <2>1. customer \in [Requests -> {NoCustomer} \cup CustomerRow]
    BY DEF IInv, TypeOK, CustomerRow
  <2>2. Bumped(run[t].who, r) \in CustomerRow
    BY <1>2, BumpedRow
  <2>3. QED BY <1>1, <1>2, <2>1, <2>2 DEF CustomerRow
<1>11. TypeOK'
  <2>1. free' \in [Skus -> Nat]
    BY <1>1, <1>8
  <2>2. today' \in 1 .. Days
    BY <1>1 DEF IInv, TypeOK
  <2>3. QED BY <1>4, <1>5, <1>6, <1>9, <1>10, <2>1, <2>2 DEF TypeOK
<1>12. Booked' = Booked \cup {r} /\ Placed' = Placed \cup {r}
  BY <1>2, <1>5, <1>6, <1>7 DEF Booked, Placed
<1>13. /\ order'[r].code = run[t].code /\ order'[r].token = token
       /\ fate'[r].is = "placed" /\ fate'[r].code = run[t].code
       /\ fate'[r].who = run[t].who /\ fate'[r].token = token
  BY <1>5, <1>6
<1>14. QED
  BY <1>1, <1>2, <1>4, <1>7, <1>8, <1>11, <1>12, <1>13 DEF token

\* The customer rows after a commit: the one it wrote exists and matches its cart,
\* every other stays, and no row loses its phone or its email.
LEMMA CommitRows ==
    ASSUME IInv, NEW t \in Slots, Commit(t)
    PROVE  /\ Known' = IF Customer(My(t)) THEN Known \cup {run[t].who} ELSE Known
           /\ \A k \in Known : /\ customer'[k].exists
                               /\ customer'[k].phone = customer[k].phone
                               /\ customer'[k].email = customer[k].email
           /\ \A k \in Requests : ~Customer(My(t)) \/ k # run[t].who => customer'[k] = customer[k]
           /\ Customer(My(t)) =>
                 /\ run[t].who \in Requests /\ run[t].who \in Known \cup {My(t)}
                 /\ customer'[run[t].who].orders =
                       IF run[t].who \in Known THEN customer[run[t].who].orders + 1 ELSE 1
                 /\ \/ customer'[run[t].who].phone = MyCart(t).phone
                    \/ customer'[run[t].who].email = MyCart(t).email
<1> DEFINE r == My(t)
           k == run[t].who
<1>1. /\ run[t] # Idle /\ r \in Requests /\ k \in Requests /\ r \notin Known
  BY CommitWrites, AtWork DEF Txn
<1>2. /\ customer \in [Requests -> {NoCustomer} \cup CustomerRow]
      /\ Bumped(k, r) \in CustomerRow
  BY <1>1, BumpedRow DEF IInv, TypeOK, CustomerRow
<1>3. CASE ~Customer(r)
  <2>1. customer' = customer
    BY <1>3, CommitWrites
  <2>2. QED BY <1>3, <2>1 DEF Known
<1>4. CASE Customer(r)
  <2>1. customer' = [customer EXCEPT ![k] = Bumped(k, r)]
    BY <1>4, CommitWrites
  <2>2. /\ customer'[k] = Bumped(k, r)
        /\ \A j \in Requests \ {k} : customer'[j] = customer[j]
    BY <1>1, <1>2, <2>1
  <2>3. /\ Bumped(k, r).exists
        /\ customer[k].exists =>
              /\ Bumped(k, r).phone = customer[k].phone
              /\ Bumped(k, r).email = customer[k].email
              /\ Bumped(k, r).orders = customer[k].orders + 1
        /\ ~customer[k].exists =>
              /\ Bumped(k, r).phone = CartOf[r].phone
              /\ Bumped(k, r).email = CartOf[r].email
              /\ Bumped(k, r).orders = 1
    BY <1>1, BumpedRow
  <2>4. \/ k = r /\ ~customer[k].exists
        \/ /\ customer[k].exists
           /\ customer[k].phone = MyCart(t).phone \/ customer[k].email = MyCart(t).email
    BY <1>1, <1>4 DEF IInv, RowsMatch, Known
  <2>5. /\ Known' = Known \cup {k}
        /\ \A j \in Known : /\ customer'[j].exists
                            /\ customer'[j].phone = customer[j].phone
                            /\ customer'[j].email = customer[j].email
    BY <1>1, <2>2, <2>3 DEF Known
  <2>6. /\ k \in Known <=> customer[k].exists
        /\ k \in Known \cup {r}
    BY <1>1, <2>4 DEF Known
  <2>7. /\ customer'[k].orders = IF k \in Known THEN customer[k].orders + 1 ELSE 1
        /\ customer'[k].phone = MyCart(t).phone \/ customer'[k].email = MyCart(t).email
    BY <2>2, <2>3, <2>4, <2>6 DEF MyCart
  <2>8. QED BY <1>1, <1>4, <2>2, <2>5, <2>6, <2>7
<1>5. QED BY <1>3, <1>4

\* The orders that the counters are compared with grow by the committed one.
LEMMA CommitCounts ==
    ASSUME IInv, NEW t \in Slots, Commit(t)
    PROVE  /\ My(t) \notin PlacedByCustomers
           /\ PlacedByCustomers' = IF Customer(My(t)) THEN PlacedByCustomers \cup {My(t)}
                                   ELSE PlacedByCustomers
           /\ \A p : UsesOf(p)' = IF Customer(My(t)) /\ MyCart(t).promo = p
                                  THEN UsesOf(p) \cup {My(t)} ELSE UsesOf(p)
           /\ \A k : OrdersOf(k)' = IF Customer(My(t)) /\ run[t].who = k
                                    THEN OrdersOf(k) \cup {My(t)} ELSE OrdersOf(k)
<1>1. My(t) \in Requests /\ My(t) \notin Placed
  BY CommitWrites, AtWork
<1>2. /\ Placed' = Placed \cup {My(t)} /\ fate'[My(t)].who = run[t].who
      /\ \A q \in Requests \ {My(t)} : fate'[q] = fate[q]
  BY CommitWrites
<1>3. /\ My(t) \notin PlacedByCustomers
      /\ PlacedByCustomers' = IF Customer(My(t)) THEN PlacedByCustomers \cup {My(t)}
                              ELSE PlacedByCustomers
  BY <1>1, <1>2 DEF PlacedByCustomers, Customer
<1>4. \A p : UsesOf(p)' = IF Customer(My(t)) /\ MyCart(t).promo = p
                          THEN UsesOf(p) \cup {My(t)} ELSE UsesOf(p)
  BY <1>3 DEF UsesOf, MyCart
<1>5. \A q \in PlacedByCustomers : fate'[q] = fate[q]
  BY <1>2, <1>3 DEF PlacedByCustomers, Placed
<1>6. \A k : OrdersOf(k)' = IF Customer(My(t)) /\ run[t].who = k
                            THEN OrdersOf(k) \cup {My(t)} ELSE OrdersOf(k)
  BY <1>2, <1>3, <1>5 DEF OrdersOf
<1>7. QED BY <1>3, <1>4, <1>6

\* A commit keeps the invariant.
LEMMA CommitKeeps ==
    ASSUME IInv, NEW t \in Slots, Commit(t)
    PROVE  IInv'
<1> USE DEF IInv
<1> DEFINE r == My(t)
<1>1. /\ run[t] # Idle /\ run[t].pc = "commit" /\ run[t].code \in Codes
      /\ run'[t] = Idle /\ \A u \in Slots \ {t} : run'[u] = run[u]
      /\ order'[r].code = run[t].code
      /\ order'[r].token = IF Customer(r) THEN {r} ELSE {}
      /\ fate'[r].is = "placed" /\ fate'[r].code = run[t].code
      /\ fate'[r].who = run[t].who
      /\ fate'[r].token = IF Customer(r) THEN {r} ELSE {}
      /\ \A q \in Requests \ {r} : order'[q] = order[q] /\ fate'[q] = fate[q]
      /\ \A s \in Skus : free'[s] = free[s] - MyCart(t).wants[s]
      /\ promo' = Redeemed(r)
      /\ Booked' = Booked \cup {r} /\ Placed' = Placed \cup {r}
      /\ TypeOK'
  BY CommitWrites
<1>2. /\ r \in Requests /\ MyCart(t) \in Cart /\ r \notin Booked /\ r \notin Placed
      /\ Coded(t) /\ Inserted(t) /\ Busy(t, "commit")
  BY <1>1, AtWork DEF Coded, Inserted, Busy, Running
<1>3. \A u \in Slots \ {t} : run[u] # Idle => My(u) # r
  BY <1>1 DEF OneRun
<1>4. Booked \subseteq Requests /\ Placed \subseteq Requests
  BY DEF Booked, Placed
<1> HIDE DEF r
<1>5. \A u \in Slots : run'[u] # Idle => u # t /\ run'[u] = run[u] /\ My(u)' = My(u)
                                         /\ MyCart(u)' = MyCart(u)
  BY <1>1 DEF My, MyCart
<1>6. ASSUME NEW u \in Slots
      PROVE  /\ Inserted(u)' <=> u # t /\ Inserted(u)
             /\ Coded(u)' <=> u # t /\ Coded(u)
             /\ \A pc : Busy(u, pc)' <=> u # t /\ Busy(u, pc)
  BY <1>1 DEF Inserted, Coded, Running, Busy
<1>7. OneRun'
  <2>1. \A u \in Slots : run[u] # Idle => My(u) \in Requests
    BY AtWork
  <2>2. QED BY <1>1, <1>3, <1>5, <2>1 DEF OneRun
<1>8. Receipts'
  <2>1. \A q \in Booked : q # r /\ order'[q] = order[q] /\ fate'[q] = fate[q]
    BY <1>1, <1>2, <1>4
  <2>2. \A q \in Placed : q # r /\ fate'[q] = fate[q]
    BY <1>1, <1>2, <1>4
  <2>3. \A u \in Slots : run'[u] # Idle => run'[u].seen \subseteq Placed'
    BY <1>1, <1>5 DEF Receipts
  <2>4. \A q \in Booked' : /\ fate'[q].is = "placed" /\ fate'[q].code = order'[q].code
                           /\ fate'[q].token = order'[q].token
    BY <1>1, <2>1 DEF Receipts
  <2>5. \A q \in Placed' : fate'[q].token = IF Customer(q) THEN {q} ELSE {}
    BY <1>1, <2>2 DEF Receipts
  <2>6. QED BY <2>3, <2>4, <2>5 DEF Receipts, Customer
<1>9. CodesDiffer'
  <2>1. \A q \in Booked : q # r /\ order'[q] = order[q]
    BY <1>1, <1>2, <1>4
  <2>2. /\ \A q \in Booked : order[q].code # run[t].code
        /\ \A u \in Slots \ {t} : Inserted(u) => run[u].code # run[t].code
    BY <1>2 DEF CodesDiffer
  <2>3. \A q, k \in Booked' : order'[q].code = order'[k].code => q = k
    BY <1>1, <2>1, <2>2 DEF CodesDiffer
  <2>4. \A u \in Slots : Inserted(u)' => \A q \in Booked' : order'[q].code # run'[u].code
    BY <1>1, <1>6, <2>1, <2>2 DEF CodesDiffer
  <2>5. QED BY <1>1, <1>6, <2>3, <2>4 DEF CodesDiffer
<1>10. CodesAreNew'
  <2> SUFFICES ASSUME NEW u \in Slots \ {t}
               PROVE  /\ Locks(u) \subseteq Booked'
                      /\ run[u] # Idle /\ ~Coded(u) =>
                            run[u].code = MyCart(u).code /\ run[u].locked = {}
                      /\ Busy(u, "insert") /\ MyCart(u).code = NoCode =>
                            \/ \A q \in Found(u)' : order'[q].code # run[u].code
                            \/ \E q \in run[u].locked : order'[q].code = Digitless
    <3>1. Locks(t)' = {}
      BY <1>6 DEF Locks
    <3>2. \A u \in Slots \ {t} : Locks(u)' = Locks(u)
      BY <1>1, <1>6 DEF Locks
    <3>3. \A u \in Slots \ {t} : MyCart(u)' = MyCart(u)
      BY <1>1 DEF MyCart, My
    <3>4. QED BY <1>1, <1>6, <3>1, <3>2, <3>3 DEF CodesAreNew
  <2>1. \A q \in Booked : q # r /\ order'[q] = order[q]
    BY <1>1, <1>2, <1>4
  <2>2. run[u] # Idle => Found(u)' = Found(u)
    <3>1. run[u] # Idle => run[u].seen \subseteq Placed
      BY AtWork
    <3>2. QED BY <1>1, <1>2, <3>1 DEF Found
  <2>3. Busy(u, "insert") => run[u] # Idle /\ Locks(u) = run[u].locked
    BY DEF Busy, Locks, Coded, Running
  <2>4. /\ Locks(u) \subseteq Booked /\ Found(u) \subseteq Booked
    BY DEF CodesAreNew, Found
  <2>5. QED BY <1>1, <2>1, <2>2, <2>3, <2>4 DEF CodesAreNew
<1>11. GoodsHeld'
  <2>1. /\ HoldsLevels(t)' = {}
        /\ \A u \in Slots \ {t} : HoldsLevels(u)' = HoldsLevels(u)
    BY <1>1, <1>6 DEF HoldsLevels, My, Wanted
  <2>2. \A u \in Slots \ {t} : MyCart(u)' = MyCart(u)
    BY <1>1 DEF MyCart, My
  <2>3. ASSUME NEW u \in Slots \ {t}, Busy(u, "commit"), NEW s \in Skus
        PROVE  MyCart(u).wants[s] <= free'[s]
    <3>1. run[u] # Idle /\ MyCart(u) \in Cart
      BY <2>3, AtWork DEF Busy, Running
    <3>2. /\ MyCart(u).wants[s] \in Nat /\ MyCart(t).wants[s] \in Nat /\ free[s] \in Nat
          /\ MyCart(u).wants[s] <= free[s] /\ MyCart(t).wants[s] <= free[s]
      BY <1>2, <2>3, <3>1 DEF TypeOK, GoodsHeld, Cart
    <3>3. ~(MyCart(u).wants[s] > 0 /\ MyCart(t).wants[s] > 0)
      BY <1>2, <2>3 DEF GoodsHeld, HoldsLevels, Wanted, MyCart
    <3>4. QED BY <1>1, <3>2, <3>3
  <2>4. QED BY <1>6, <2>1, <2>2, <2>3 DEF GoodsHeld
<1>12. RowsMatch'
  <2>1. \A k \in Known' : fate'[k].is = "placed"
    <3>1. \A k \in Known : k \in Placed
      BY DEF RowsMatch, Known, Placed
    <3>2. Known' \subseteq Known \cup {r}
      BY CommitRows DEF r
    <3>3. QED BY <1>1, <3>1, <3>2 DEF Placed
  <2>2. ASSUME NEW u \in Slots, run'[u] # Idle, Customer(My(u))
        PROVE  \/ run'[u].who = My(u)
               \/ /\ customer'[run[u].who].exists
                  /\ \/ customer'[run[u].who].phone = MyCart(u).phone
                     \/ customer'[run[u].who].email = MyCart(u).email
    <3>1. run'[u] = run[u] /\ run[u] # Idle /\ run[u].who \in Requests
      BY <1>5, <2>2, AtWork DEF Txn
    <3>2. QED BY <2>2, <3>1, CommitRows DEF RowsMatch, Known
  <2>3. QED BY <1>5, <2>1, <2>2 DEF RowsMatch, Customer
<1>13. CountersAgree'
  <2>1. \A p \in Promos : promo'[p].used = Cardinality(UsesOf(p)')
    <3> SUFFICES ASSUME NEW p \in Promos PROVE promo'[p].used = Cardinality(UsesOf(p)')
      OBVIOUS
    <3>1. promo[p].used = Cardinality(UsesOf(p)) /\ promo[p].used \in Nat
      BY DEF CountersAgree, UsesOf, TypeOK
    <3>2. CASE Customer(r) /\ CartOf[r].promo = p
      <4>1. promo'[p].used = promo[p].used + 1
        BY <1>1, <3>2 DEF Redeemed, TypeOK
      <4>2. UsesOf(p)' = UsesOf(p) \cup {r} /\ r \notin UsesOf(p)
        BY <3>2, CommitCounts DEF UsesOf, MyCart, r
      <4>3. QED BY <3>1, <4>1, <4>2, CountedFinite, FS_AddElement
    <3>3. CASE ~(Customer(r) /\ CartOf[r].promo = p)
      <4>1. promo'[p] = promo[p] /\ UsesOf(p)' = UsesOf(p)
        BY <1>1, <3>3, CommitCounts DEF Redeemed, MyCart, r
      <4>2. QED BY <3>1, <4>1
    <3>4. QED BY <3>2, <3>3
  <2>2. \A k \in Known' : customer'[k].orders = Cardinality(OrdersOf(k)')
    <3> SUFFICES ASSUME NEW k \in Known' PROVE customer'[k].orders = Cardinality(OrdersOf(k)')
      OBVIOUS
    <3>1. k \in Requests /\ (k \in Known => customer[k].orders = Cardinality(OrdersOf(k)))
      BY DEF Known, CountersAgree, OrdersOf
    <3>2. CASE Customer(r) /\ k = run[t].who
      <4>1. OrdersOf(k)' = OrdersOf(k) \cup {r} /\ r \notin OrdersOf(k)
        BY <3>2, CommitCounts DEF OrdersOf, r
      <4>2. Cardinality(OrdersOf(k)') = Cardinality(OrdersOf(k)) + 1
        BY <4>1, CountedFinite, FS_AddElement
      <4>3. customer'[k].orders = IF k \in Known THEN customer[k].orders + 1 ELSE 1
        BY <3>2, CommitRows DEF r
      <4>4. k \notin Known => OrdersOf(k) = {}
        BY <3>1 DEF CountersAgree, OrdersOf, Known
      <4>5. QED BY <3>1, <4>2, <4>3, <4>4, FS_EmptySet
    <3>3. CASE ~(Customer(r) /\ k = run[t].who)
      <4>1. customer'[k] = customer[k] /\ OrdersOf(k)' = OrdersOf(k) /\ k \in Known
        BY <3>1, <3>3, CommitRows, CommitCounts DEF r
      <4>2. QED BY <3>1, <4>1
    <3>4. QED BY <3>2, <3>3
  <2>3. ASSUME NEW q \in PlacedByCustomers'
        PROVE  /\ customer'[fate'[q].who].exists
               /\ \/ customer'[fate'[q].who].phone = CartOf[q].phone
                  \/ customer'[fate'[q].who].email = CartOf[q].email
    <3>1. CASE q = r
      <4>1. Customer(r) /\ fate'[q].who = run[t].who
        BY <1>1, <2>3, <3>1 DEF PlacedByCustomers, Customer
      <4>2. run[t].who \in Known' /\ (\/ customer'[run[t].who].phone = CartOf[r].phone
                                      \/ customer'[run[t].who].email = CartOf[r].email)
        BY <4>1, CommitRows DEF r, MyCart
      <4>3. QED BY <3>1, <4>1, <4>2 DEF Known
    <3>2. CASE q # r
      <4>1. q \in PlacedByCustomers /\ fate'[q] = fate[q]
        BY <1>1, <2>3, <3>2, CommitCounts DEF PlacedByCustomers, Placed, r
      <4>2. /\ customer[fate[q].who].exists
            /\ \/ customer[fate[q].who].phone = CartOf[q].phone
               \/ customer[fate[q].who].email = CartOf[q].email
        BY <4>1 DEF CountersAgree
      <4>3. fate[q].who \in Known
        <5>1. q \in Requests /\ fate[q].is = "placed"
          BY <4>1 DEF PlacedByCustomers, Placed
        <5>2. fate[q].who \in Requests
          BY <5>1 DEF TypeOK, Fresh
        <5>3. QED BY <4>2, <5>2 DEF Known
      <4>4. QED BY <4>1, <4>2, <4>3, CommitRows
    <3>3. QED BY <3>1, <3>2
  <2>4. QED BY <2>1, <2>2, <2>3 DEF CountersAgree, UsesOf, OrdersOf
<1>14. UsesAreLimited'
  <2> SUFFICES ASSUME NEW p \in Promos, Limit[p] > 0
               PROVE  promo'[p].used + Cardinality(PastCheck(p)')
                         <= Limit[p] + Cardinality(Slots) - 1
    BY DEF UsesAreLimited
  <2>1. /\ promo[p].used \in Nat /\ Limit[p] \in Nat
        /\ promo[p].used + Cardinality(PastCheck(p)) <= Limit[p] + Cardinality(Slots) - 1
    BY ConstantsAssumption DEF UsesAreLimited, TypeOK
  <2>2. PastCheck(p)' = PastCheck(p) \ {t}
    BY <1>1 DEF PastCheck, My, MyCart
  <2>3. CASE Customer(r) /\ CartOf[r].promo = p
    <3>1. t \in PastCheck(p)
      BY <1>1, <2>3 DEF PastCheck, MyCart, r
    <3>2. Cardinality(PastCheck(p)') = Cardinality(PastCheck(p)) - 1
      BY <2>2, <3>1, PastCheckFinite, FS_RemoveElement
    <3>3. promo'[p].used = promo[p].used + 1
      BY <1>1, <2>3 DEF Redeemed, TypeOK
    <3>4. QED BY <2>1, <3>2, <3>3, PastCheckFinite
  <2>4. CASE ~(Customer(r) /\ CartOf[r].promo = p)
    <3>1. t \notin PastCheck(p)
      BY <2>4 DEF PastCheck, MyCart, r
    <3>2. PastCheck(p)' = PastCheck(p)
      BY <2>2, <3>1
    <3>3. promo'[p] = promo[p]
      BY <1>1, <2>4 DEF Redeemed
    <3>4. QED BY <2>1, <3>2, <3>3
  <2>5. QED BY <2>3, <2>4
<1>15. QED
  BY <1>1, <1>7, <1>8, <1>9, <1>10, <1>11, <1>12, <1>13, <1>14

-----------------------------------------------------------------------------
(* Theorems                                                                *)

\* The empty shop satisfies the invariant.
LEMMA InitHolds == Init => IInv
<1> SUFFICES ASSUME Init PROVE IInv
  OBVIOUS
<1> USE DEF Init
<1>1. /\ Booked = {} /\ Known = {} /\ Placed = {} /\ PlacedByCustomers = {}
      /\ \A t \in Slots : run[t] = Idle
  BY DEF Booked, Known, Placed, PlacedByCustomers, NoOrder, NoCustomer, Fresh
<1>2. TypeOK
  BY ConstantsAssumption DEF TypeOK
<1>3. OneRun /\ Receipts /\ RowsMatch
  BY <1>1 DEF OneRun, Receipts, RowsMatch
<1>4. \A t \in Slots : /\ ~Inserted(t) /\ ~Coded(t) /\ Locks(t) = {}
                       /\ \A pc : ~Busy(t, pc)
  BY <1>1 DEF Inserted, Coded, Locks, Busy, Running
<1>5. CodesDiffer /\ CodesAreNew
  BY <1>1, <1>4 DEF CodesDiffer, CodesAreNew
<1>6. GoodsHeld
  BY <1>4 DEF GoodsHeld, HoldsLevels
<1>7. CountersAgree
  <2>1. \A p \in Promos : promo[p].used = 0 /\ UsesOf(p) = {}
    BY <1>1 DEF UsesOf
  <2>2. \A p \in Promos : promo[p].used = Cardinality(UsesOf(p))
    BY <2>1, FS_EmptySet
  <2>3. QED BY <1>1, <2>2 DEF CountersAgree, UsesOf
<1>8. UsesAreLimited
  <2> SUFFICES ASSUME NEW p \in Promos, Limit[p] > 0
               PROVE  promo[p].used + Cardinality(PastCheck(p))
                         <= Limit[p] + Cardinality(Slots) - 1
    BY DEF UsesAreLimited
  <2>1. PastCheck(p) = {} /\ promo[p].used = 0 /\ Limit[p] \in Nat
    BY <1>1, ConstantsAssumption DEF PastCheck
  <2>2. Cardinality(PastCheck(p)) = 0 /\ Cardinality(Slots) \in Nat
    BY <2>1, ConstantsAssumption, FS_EmptySet, FS_CardinalityType
  <2>3. QED BY <2>1, <2>2
<1>9. QED BY <1>2, <1>3, <1>5, <1>6, <1>7, <1>8 DEF IInv

\* Every step keeps the invariant.
LEMMA StepKeeps == IInv /\ [Next]_vars => IInv'
<1> SUFFICES ASSUME IInv, [Next]_vars PROVE IInv'
  OBVIOUS
<1>1. ASSUME NEW t \in Slots, Step(t) PROVE IInv'
  BY <1>1, PriceKeeps, ReadHighestKeeps, LockHighestKeeps, InsertOrderKeeps,
     ReserveKeeps, CommitKeeps DEF Step
<1>2. ASSUME NEW t \in Slots, Crash(t) PROVE IInv'
  BY <1>2, EndsKeeps DEF Crash
<1>3. ASSUME NEW t \in Slots, NEW r \in Requests, Begin(t, r) PROVE IInv'
  BY <1>3, BeginKeeps
<1>4. ASSUME NEW r \in Requests, Remove(r) PROVE IInv'
  BY <1>4, RemoveKeeps
<1>5. CASE SyncPromos \/ Midnight
  BY <1>5, ClockKeeps
<1>6. CASE UNCHANGED vars
  <2>1. /\ order' = order /\ customer' = customer /\ free' = free /\ promo' = promo
        /\ today' = today /\ run' = run /\ fate' = fate
    BY <1>6 DEF vars
  <2>2. TypeOK' /\ OneRun' /\ Receipts' /\ CodesDiffer'
    BY <2>1 DEF IInv, TypeOK, OneRun, Receipts, CodesDiffer, Booked, Placed, My,
                Inserted, Coded, Running
  <2>3. CodesAreNew' /\ GoodsHeld' /\ RowsMatch'
    BY <2>1 DEF IInv, CodesAreNew, GoodsHeld, RowsMatch, Locks, Coded, Running, Found,
                Busy, HoldsLevels, Wanted, MyCart, My, Booked, Known
  <2>4. CountersAgree' /\ UsesAreLimited'
    BY <2>1 DEF IInv, CountersAgree, UsesAreLimited, PlacedByCustomers, Placed, Known,
                PastCheck, My, MyCart
  <2>5. QED BY <2>2, <2>3, <2>4 DEF IInv
<1>7. QED BY <1>1, <1>2, <1>3, <1>4, <1>5, <1>6 DEF Next

\* The invariant of the checkout holds in every reachable state.
THEOREM Inductive == Spec => []IInv
BY InitHolds, StepKeeps, PTL DEF Spec

\* Rows, receipts and transactions keep their types; what may be promised of a
\* sku is never negative, however checkouts overlap.
THEOREM TypeCorrect == Spec => []TypeOK
<1>1. IInv => TypeOK
  BY DEF IInv
<1>2. QED BY <1>1, Inductive, PTL

\* The uses of a promotion and the orders of a customer, kept by three statements
\* of one transaction and read by none of them, are the committed orders.
THEOREM CountersAlwaysAgree == Spec => []CountersAgree
<1>1. IInv => CountersAgree
  BY DEF IInv
<1>2. QED BY <1>1, Inductive, PTL

\* A limit that is checked from an unlocked read is exceeded by at most the other
\* connections of the pool, for every pool and every limit.
THEOREM LimitOvershootIsBounded == Spec => []OvershootIsBounded
<1>1. IInv => OvershootIsBounded
  <2> SUFFICES ASSUME IInv, NEW p \in Promos, Limit[p] > 0
               PROVE  promo[p].used <= Limit[p] + Cardinality(Slots) - 1
    BY DEF OvershootIsBounded
  <2>1. promo[p].used + Cardinality(PastCheck(p)) <= Limit[p] + Cardinality(Slots) - 1
    BY DEF IInv, UsesAreLimited
  <2>2. promo[p].used \in Nat /\ Limit[p] \in Nat
    BY ConstantsAssumption DEF IInv, TypeOK
  <2>3. QED BY <2>1, <2>2, PastCheckFinite
<1>2. QED BY <1>1, Inductive, PTL

\* A receipt opens the order it was issued for while that order exists, and never
\* another one.
THEOREM ReceiptsOpenTheirOrder == Spec => []ReceiptOpensOwnOrder
<1>1. IInv => ReceiptOpensOwnOrder
  <2> SUFFICES ASSUME IInv, NEW r \in PlacedByCustomers
               PROVE  FindOrder(fate[r].code, fate[r].token) = {r} \cap Booked
    BY DEF ReceiptOpensOwnOrder
  <2>1. fate[r].token = {r}
    BY DEF IInv, Receipts, PlacedByCustomers
  <2>2. ASSUME NEW q \in Booked, order[q].token = {r}
        PROVE  q = r
    <3>1. q \in Placed /\ fate[q].token = {r}
      BY <2>2 DEF IInv, Receipts, Booked, Placed
    <3>2. {r} = IF Customer(q) THEN {q} ELSE {}
      BY <3>1 DEF IInv, Receipts
    <3>3. QED BY <3>2
  <2>3. r \in Booked => order[r].code = fate[r].code /\ order[r].token = {r}
    BY <2>1 DEF IInv, Receipts
  <2>4. QED BY <2>1, <2>2, <2>3 DEF FindOrder
<1>2. QED BY <1>1, Inductive, PTL

-----------------------------------------------------------------------------
(* Collisions                                                              *)

\* The step of a connection at its INSERT that ends in a collision met a row with
\* its code, which it had not seen, or its locked row has no number.
LEMMA CollisionStep ==
    ASSUME IInv, [Next]_vars, NEW t \in Slots, Busy(t, "insert"),
           MyCart(t).code = NoCode, fate'[My(t)].is = "collided"
    PROVE  \/ \E q \in Booked \ run[t].seen : order[q].code = run[t].code
           \/ \E q \in run[t].locked : order[q].code = Digitless
<1> DEFINE r == My(t)
<1>1. run[t] # Idle /\ run[t].pc = "insert"
  BY DEF Busy, Running
<1>2. r \in Requests /\ fate[r].is = "running" /\ fate[r] # Fresh
  BY <1>1, AtWork DEF Fresh
<1>3. fate'[r] # fate[r]
  BY <1>2
<1>4. \A u \in Slots : run[u] # Idle /\ My(u) = r => u = t
  BY <1>1 DEF IInv, OneRun
<1>5. ASSUME NEW u \in Slots, NEW how, Ends(u, how), run[u] # Idle
      PROVE  u = t /\ how = "collided"
  <2>1. fate' = [fate EXCEPT ![My(u)] = [is |-> how]]
    BY <1>5 DEF Ends
  <2>2. My(u) = r /\ fate'[r] = [is |-> how]
    BY <1>2, <1>3, <2>1 DEF IInv, TypeOK
  <2>3. QED BY <1>4, <1>5, <2>2
<1>6. InsertOrder(t)
  <2>1. ASSUME NEW u \in Slots, Stays PROVE FALSE
    BY <1>3, <2>1 DEF Stays
  <2>2. ASSUME NEW u \in Slots, Step(u) PROVE u = t /\ InsertOrder(t)
    <3>1. run[u] # Idle
      BY <2>2 DEF Step, Price, ReadHighest, LockHighest, InsertOrder, Reserve, Commit,
                  Busy, Running
    <3>2. CASE Price(u)
      <4>1. Ends(u, "refused")
        BY <2>1, <3>2 DEF Price
      <4>2. QED BY <1>5, <3>1, <4>1
    <3>3. CASE ReadHighest(u) \/ LockHighest(u)
      BY <2>1, <3>3 DEF ReadHighest, LockHighest
    <3>4. CASE InsertOrder(u)
      <4>1. Ends(u, "collided")
        BY <2>1, <3>4 DEF InsertOrder
      <4>2. QED BY <1>5, <3>1, <3>4, <4>1
    <3>5. CASE Reserve(u)
      <4>1. Ends(u, "refused")
        BY <2>1, <3>5 DEF Reserve
      <4>2. QED BY <1>5, <3>1, <4>1
    <3>6. CASE Commit(u)
      <4>1. CASE My(u) = r
        <5>1. u = t
          BY <1>4, <3>1, <4>1
        <5>2. QED BY <1>1, <3>6, <5>1 DEF Commit, Busy
      <4>2. CASE My(u) # r
        BY <1>2, <1>3, <3>6, <4>2, CommitWrites
      <4>3. QED BY <4>1, <4>2
    <3>7. QED BY <2>2, <3>2, <3>3, <3>4, <3>5, <3>6 DEF Step
  <2>3. ASSUME NEW u \in Slots, Crash(u) PROVE FALSE
    <3>1. run[u] # Idle /\ Ends(u, "lost")
      BY <2>3 DEF Crash
    <3>2. QED BY <1>5, <3>1
  <2>4. ASSUME NEW u \in Slots, NEW q \in Requests, Begin(u, q) PROVE FALSE
    BY <1>2, <1>3, <2>4 DEF Begin, IInv, TypeOK
  <2>5. ASSUME NEW q \in Requests, Remove(q) PROVE FALSE
    BY <1>3, <2>5 DEF Remove
  <2>6. ~(SyncPromos \/ Midnight) /\ ~(UNCHANGED vars)
    BY <1>3 DEF SyncPromos, Midnight, vars
  <2>7. QED BY <2>2, <2>3, <2>4, <2>5, <2>6 DEF Next
<1>7. Taken(run[t].code)
  BY <1>3, <1>6 DEF InsertOrder, Stays
<1>8. QED
  BY <1>1, <1>7 DEF Taken, IInv, CodesAreNew, Found

\* The allocation never hands out a number it has seen: a request it served fails
\* on the unique index only if a rival's order was not yet visible, or the highest
\* row it locked has no number.
THEOREM CollisionsNeedRivals == Spec => CollisionNeedsRival
<1> DEFINE Avoids ==
      \A t \in Slots :
          Busy(t, "insert") /\ MyCart(t).code = NoCode
            /\ fate'[My(t)].is = "collided" =>
             \/ \E q \in Booked \ run[t].seen : order[q].code = run[t].code
             \/ \E q \in run[t].locked : order[q].code = Digitless
<1>1. IInv /\ [Next]_vars => [Avoids]_vars
  BY CollisionStep
<1>2. Spec => [][Avoids]_vars
  BY <1>1, Inductive, PTL DEF Spec
<1>3. QED BY <1>2 DEF CollisionNeedsRival

-----------------------------------------------------------------------------
(* Checkout implements the order book                                      *)

\* A commit places the order.
LEMMA CommitPlaces ==
    ASSUME IInv, NEW t \in Slots, Commit(t), NEW r \in Requests, r = My(t)
    PROVE  Book!Place(r)
<1> DEFINE c == run[t].code
<1>1. /\ run[t] # Idle /\ c \in Codes
      /\ order'[r].code = c
      /\ \A q \in Requests \ {r} : order'[q] = order[q]
      /\ \A s \in Skus : free'[s] = free[s] - MyCart(t).wants[s]
      /\ promo' = Redeemed(r) /\ Booked' = Booked \cup {r}
      /\ free' = [s \in Skus |-> free[s] - CartOf[r].wants[s]]
  BY CommitWrites DEF Commit
<1>2. /\ r \in Requests /\ r \notin Booked /\ Inserted(t) /\ Busy(t, "commit")
  BY <1>1, CommitWrites, AtWork DEF Inserted, Busy, Running
<1>3. \A q \in Booked : order[q].code # c
  BY <1>2 DEF IInv, CodesDiffer
<1>4. \A s \in Skus : CartOf[r].wants[s] <= free[s]
  BY <1>2 DEF IInv, GoodsHeld, MyCart
<1>5. [q \in Booked' |-> order'[q].code]
         = [q \in Booked \cup {r} |-> IF q = r THEN c ELSE order[q].code]
  <2>1. \A q \in Booked : q # r /\ order'[q] = order[q]
    BY <1>1, <1>2 DEF Booked
  <2>2. QED BY <1>1, <2>1
<1>6. [p \in Promos |-> promo'[p].used]
         = [p \in Promos |-> promo[p].used +
               (IF (IF Customer(r) THEN CartOf[r].promo ELSE NoPromo) = p THEN 1 ELSE 0)]
  <2>1. ASSUME NEW p \in Promos
        PROVE  promo'[p].used = promo[p].used +
                  (IF (IF Customer(r) THEN CartOf[r].promo ELSE NoPromo) = p THEN 1 ELSE 0)
    BY <1>1, ConstantsAssumption DEF Redeemed, IInv, TypeOK
  <2>2. QED BY <2>1
<1>7. Cardinality(PlacedByCustomers)'
         = Cardinality(PlacedByCustomers) + (IF Customer(r) THEN 1 ELSE 0)
  BY CommitCounts, CountedFinite, FS_AddElement
<1>8. QED
  BY <1>1, <1>2, <1>3, <1>4, <1>5, <1>6, <1>7 DEF Book!Place, Book!Book, Book!Extended

\* A deletion takes the order out of the book.
LEMMA RemoveRemoves ==
    ASSUME IInv, NEW r \in Requests, Remove(r)
    PROVE  Book!Remove(r)
<1>1. /\ order[r].placed /\ order' = [order EXCEPT ![r] = NoOrder]
      /\ free' = free /\ promo' = promo /\ fate' = fate
  BY DEF Remove
<1>2. /\ Booked' = Booked \ {r} /\ \A q \in Booked' : order'[q] = order[q]
      /\ r \in Booked
  BY <1>1 DEF Booked, IInv, TypeOK, NoOrder
<1>3. PlacedByCustomers' = PlacedByCustomers
  BY <1>1 DEF PlacedByCustomers, Placed
<1>4. QED BY <1>1, <1>2, <1>3 DEF Book!Remove, Book!Book

\* Before its commit a checkout changes nothing in the book, nor does the end of
\* one that fails, the promotion job or the date.
LEMMA OthersStutter ==
    ASSUME IInv,
           order' = order, free' = free, Placed' = Placed,
           \A p \in Promos : promo'[p].used = promo[p].used
    PROVE  UNCHANGED Book!vars
<1>1. Booked' = Booked /\ PlacedByCustomers' = PlacedByCustomers
  BY DEF Booked, PlacedByCustomers
<1>2. [r \in Booked' |-> order'[r].code] = [r \in Booked |-> order[r].code]
  BY <1>1
<1>3. [p \in Promos |-> promo'[p].used] = [p \in Promos |-> promo[p].used]
  OBVIOUS
<1>4. QED BY <1>1, <1>2, <1>3 DEF Book!vars

\* Every step of the checkout is a step of the order book or none.
LEMMA StepImplements == IInv /\ [Next]_vars => [Book!Next]_(Book!vars)
<1> SUFFICES ASSUME IInv, [Next]_vars PROVE [Book!Next]_(Book!vars)
  OBVIOUS
<1>1. ASSUME Stays PROVE UNCHANGED Book!vars
  BY <1>1, OthersStutter DEF Stays, Placed
<1>2. ASSUME NEW t \in Slots, NEW how \in {"refused", "collided", "lost"},
             run[t] # Idle, Ends(t, how)
      PROVE  UNCHANGED Book!vars
  <2>1. /\ My(t) \in Requests /\ My(t) \notin Placed
        /\ order' = order /\ free' = free /\ promo' = promo
        /\ fate' = [fate EXCEPT ![My(t)] = [is |-> how]]
    BY <1>2, AtWork DEF Ends
  <2>2. Placed' = Placed
    BY <2>1 DEF Placed, IInv, TypeOK
  <2>3. QED BY <2>1, <2>2, OthersStutter
<1>3. ASSUME NEW t \in Slots, Step(t) PROVE Book!Next \/ UNCHANGED Book!vars
  <2>1. run[t] # Idle
    BY <1>3 DEF Step, Price, ReadHighest, LockHighest, InsertOrder, Reserve, Commit,
                Busy, Running
  <2>2. CASE Price(t)
    BY <2>1, <2>2, <1>1, <1>2 DEF Price
  <2>3. CASE ReadHighest(t) \/ LockHighest(t)
    BY <2>3, <1>1 DEF ReadHighest, LockHighest
  <2>4. CASE InsertOrder(t)
    BY <2>1, <2>4, <1>1, <1>2 DEF InsertOrder
  <2>5. CASE Reserve(t)
    BY <2>1, <2>5, <1>1, <1>2 DEF Reserve
  <2>6. CASE Commit(t)
    <3>1. PICK r \in Requests : r = My(t)
      BY <2>1, AtWork
    <3>2. Book!Place(r)
      BY <2>6, <3>1, CommitPlaces
    <3>3. QED BY <3>2 DEF Book!Next
  <2>7. QED BY <1>3, <2>2, <2>3, <2>4, <2>5, <2>6 DEF Step
<1>4. ASSUME NEW t \in Slots, Crash(t) PROVE UNCHANGED Book!vars
  BY <1>2, <1>4 DEF Crash
<1>5. ASSUME NEW t \in Slots, NEW r \in Requests, Begin(t, r)
      PROVE  UNCHANGED Book!vars
  <2>1. /\ order' = order /\ free' = free /\ promo' = promo /\ fate[r] = Fresh
        /\ fate' = [fate EXCEPT ![r] = [is |-> "running"]]
    BY <1>5 DEF Begin
  <2>2. Placed' = Placed
    BY <2>1 DEF Placed, IInv, TypeOK, Fresh
  <2>3. QED BY <2>1, <2>2, OthersStutter
<1>6. ASSUME NEW r \in Requests, Remove(r) PROVE Book!Next
  BY <1>6, RemoveRemoves DEF Book!Next
<1>7. CASE SyncPromos \/ Midnight
  <2>1. /\ order' = order /\ free' = free /\ fate' = fate
        /\ \A p \in Promos : promo'[p].used = promo[p].used
    BY <1>7 DEF SyncPromos, Midnight, IInv, TypeOK
  <2>2. QED BY <2>1, OthersStutter DEF Placed
<1>8. CASE UNCHANGED vars
  BY <1>8, OthersStutter DEF vars, Placed
<1>9. QED BY <1>3, <1>4, <1>5, <1>6, <1>7, <1>8 DEF Next

\* The empty shop is the empty book.
LEMMA InitImplements == Init => Book!Init
<1> SUFFICES ASSUME Init PROVE Book!Init
  OBVIOUS
<1>1. Booked = {} /\ PlacedByCustomers = {}
  BY DEF Init, Booked, PlacedByCustomers, Placed, NoOrder, Fresh
<1>2. [r \in Booked |-> order[r].code] = [r \in {} |-> 0]
  BY <1>1
<1>3. [p \in Promos |-> promo[p].used] = [p \in Promos |-> 0]
  BY DEF Init
<1>4. Cardinality(PlacedByCustomers) = 0
  BY <1>1, FS_EmptySet
<1>5. free \in [Skus -> Nat]
  BY ConstantsAssumption DEF Init
<1>6. QED BY <1>2, <1>3, <1>4, <1>5 DEF Book!Init

\* Placing an order is one step of the order book, or nothing: with its code, its
\* goods, its promotion and its customer, for every pool of connections.
THEOREM PlacingIsAtomic == Spec => PlacedWhole
<1>1. Spec => [][Book!Next]_(Book!vars)
  BY StepImplements, Inductive, PTL DEF Spec
<1>2. Spec => Book!Init
  BY InitImplements DEF Spec
<1>3. QED BY <1>1, <1>2 DEF PlacedWhole, Book!Spec

-----------------------------------------------------------------------------
(* What a quote has read, and what follows from it.                        *)

Wants(c) == {l.product : l \in Range(c.lines)}
Rows == UNION {[W -> ProductRow] : W \in SUBSET Products}
PricedLine == {l \in [unit : Int, list : Int, qty : Nat \ {0}] : l.unit <= l.list}
Lines == UNION {[1 .. n -> PricedLine] : n \in Nat}

QuoteRecord ==
    [pc : {"idle", "products", "tiers", "variants", "promo", "method", "zone", "tax", "quoted",
           "refused"},
     cart : CartSent \cup {None}, rows : Rows \cup {<<>>}, tiers : SUBSET Tier,
     lines : Lines \cup {<<>>}, applied : BOOLEAN, savings : Int, discount : Int,
     method : Method \cup {None}, delivery : Int, tax : Int, charge : Int, total : Int]

Priceable == quote.pc \in {"promo", "method", "zone", "tax", "quoted"}
Reduced == quote.pc \in {"method", "zone", "tax", "quoted"}

QuoteRead ==
    /\ quote.pc \notin {"idle", "refused"} => quote.cart \in CartSent
    /\ quote.pc \in {"tiers", "variants"} => quote.rows \in [Wants(quote.cart) -> ProductRow]
    /\ Priceable => quote.lines \in Lines
QuoteReduced == Reduced => quote.savings = Subtotal - Selling /\ quote.discount <= Subtotal
QuoteSummed ==
    quote.pc = "quoted" =>
        quote.total = Subtotal - quote.discount + quote.delivery + quote.tax + quote.charge

QuoteInv == shop \in Shop /\ quote \in QuoteRecord /\ QuoteRead /\ QuoteReduced /\ QuoteSummed

\* The same, where no amount is negative.
SoundRows(f) == \A p \in DOMAIN f : f[p].price \in Nat /\ f[p].offer \in Nat \cup {None}
SoundQuote ==
    /\ quote.pc \in {"tiers", "variants"} => SoundRows(quote.rows)
    /\ \A t \in quote.tiers : t.unit \in Nat
    /\ Priceable => \A i \in DOMAIN quote.lines : quote.lines[i].unit \in Nat
    /\ Reduced => quote.discount >= quote.savings /\ (quote.applied \/ quote.discount = quote.savings)
    /\ quote.method # None => quote.method.feePct \in Nat
    /\ quote.delivery \in Nat /\ quote.tax \in Nat /\ quote.charge \in Nat
SoundInv == SoundShop(shop) /\ SoundQuote

-----------------------------------------------------------------------------
(* Arithmetic.                                                             *)

\* Rounding a natural gives a natural.
LEMMA RoundedType ==
    ASSUME NEW x \in Int, NEW d \in Nat \ {0}
    PROVE  Rounded(x, d) \in Int /\ (x >= 0 => Rounded(x, d) >= 0)
<1> DEFINE n == 2 * x + d
           m == 2 * d
<1>1. n \in Int /\ m \in Nat \ {0} /\ (x >= 0 => n >= 0)
  OBVIOUS
<1> HIDE DEF n, m
<1>2. n \div m \in Int /\ (n >= 0 => n \div m >= 0)
  BY <1>1
<1>3. Rounded(x, d) = n \div m
  BY DEF Rounded, n, m
<1> QED
  BY <1>1, <1>2, <1>3

LEMMA PercentType ==
    ASSUME NEW x \in Int, NEW pct \in Int
    PROVE  Percent(x, pct) \in Int /\ (x >= 0 /\ pct >= 0 => Percent(x, pct) >= 0)
<1>1. x * pct \in Int /\ (x >= 0 /\ pct >= 0 => x * pct >= 0)
  OBVIOUS
<1>2. Rounded(x * pct, 100) \in Int /\ (x * pct >= 0 => Rounded(x * pct, 100) >= 0)
  BY <1>1, RoundedType
<1> QED
  BY <1>1, <1>2 DEF Percent

LEMMA LeastType ==
    ASSUME NEW a \in Int, NEW b \in Int
    PROVE  Least(a, b) \in Int /\ Least(a, b) <= a /\ Least(a, b) <= b
           /\ (Least(a, b) = a \/ Least(a, b) = b)
BY DEF Least

LEMMA MostType ==
    ASSUME NEW a \in Int, NEW b \in Int
    PROVE  Most(a, b) \in Int /\ Most(a, b) >= a /\ Most(a, b) >= b
           /\ (Most(a, b) = a \/ Most(a, b) = b)
BY DEF Most

-----------------------------------------------------------------------------
(* What the lines of a cart come to.                                       *)

SubtotalOf(lines) == SumFunction([i \in DOMAIN lines |-> lines[i].list * lines[i].qty])
SellingOf(lines) == SumFunction([i \in DOMAIN lines |-> lines[i].unit * lines[i].qty])

LEMMA Totals == Subtotal = SubtotalOf(quote.lines) /\ Selling = SellingOf(quote.lines)
BY DEF Subtotal, Selling, SubtotalOf, SellingOf

\* No line is listed below what is charged for it, so neither is the cart.
LEMMA LinesAddUp ==
    ASSUME NEW lines \in Lines
    PROVE  /\ SubtotalOf(lines) \in Int /\ SellingOf(lines) \in Int
           /\ SellingOf(lines) <= SubtotalOf(lines)
           /\ (\A i \in DOMAIN lines : lines[i].unit \in Nat) => SellingOf(lines) \in Nat
<1>1. PICK n \in Nat : lines \in [1 .. n -> PricedLine]
  BY DEF Lines
<1> DEFINE D == DOMAIN lines
           f == [i \in D |-> lines[i].unit * lines[i].qty]
           g == [i \in D |-> lines[i].list * lines[i].qty]
<1>2. D = 1 .. n /\ IsFiniteSet(D)
  BY <1>1, FS_Interval
<1>3. ASSUME NEW i \in D
      PROVE  /\ f[i] \in Int /\ g[i] \in Int /\ f[i] <= g[i]
             /\ lines[i].unit \in Nat => f[i] \in Nat
  <2>1. lines[i] \in PricedLine
    BY <1>1
  <2> DEFINE u == lines[i].unit
             l == lines[i].list
             q == lines[i].qty
  <2>2. u \in Int /\ l \in Int /\ q \in Nat /\ u <= l
    BY <2>1 DEF PricedLine
  <2> HIDE DEF u, l, q
  <2>3. u * q \in Int /\ l * q \in Int /\ u * q <= l * q /\ (u \in Nat => u * q \in Nat)
    BY <2>2
  <2>4. f[i] = u * q /\ g[i] = l * q
    BY DEF u, l, q
  <2> QED
    BY <2>3, <2>4 DEF u
<1>4. SellingOf(lines) = Sum(f, D) /\ SubtotalOf(lines) = Sum(g, D)
  <2>1. DOMAIN f = D /\ DOMAIN g = D
    OBVIOUS
  <2>2. SumFunction(f) = Sum(f, DOMAIN f) /\ SumFunction(g) = Sum(g, DOMAIN g)
    BY SumFunctionIs
  <2>3. SellingOf(lines) = SumFunction(f) /\ SubtotalOf(lines) = SumFunction(g)
    BY DEF SellingOf, SubtotalOf
  <2> QED
    BY <2>1, <2>2, <2>3
<1> HIDE DEF f, g, D
<1>5. \A i \in D : f[i] \in Int /\ g[i] \in Int /\ f[i] <= g[i]
  BY <1>3
<1>6. Sum(f, D) \in Int /\ Sum(g, D) \in Int
  BY <1>2, <1>5, SumType
<1>7. Sum(f, D) <= Sum(g, D)
  BY <1>2, <1>5, SumOrder
<1>8. ASSUME \A i \in D : lines[i].unit \in Nat PROVE Sum(f, D) \in Nat
  <2>1. \A i \in D : f[i] \in Nat
    BY <1>3, <1>8
  <2> QED
    BY <1>2, <2>1, SumNat
<1> QED
  BY <1>4, <1>6, <1>7, <1>8 DEF D

-----------------------------------------------------------------------------
(* Quoting, one statement at a time.                                       *)

\* A quote that is given up, asked for or taken has nothing to keep.
LEMMA IdleType == QuoteIdle \in QuoteRecord
<1> DEFINE r == <<>>
<1>1. r \in Rows \cup {<<>>} /\ r \in Lines \cup {<<>>} /\ {} \in SUBSET Tier
  OBVIOUS
<1>2. QuoteIdle = [pc |-> "idle", cart |-> None, rows |-> r, tiers |-> {}, lines |-> r,
                   applied |-> FALSE, savings |-> 0, discount |-> 0, method |-> None,
                   delivery |-> 0, tax |-> 0, charge |-> 0, total |-> 0]
  BY DEF QuoteIdle
<1> HIDE DEF r
<1> QED
  BY <1>1, <1>2 DEF QuoteRecord

Starting == quote = QuoteIdle \/ quote = [QuoteIdle EXCEPT !.pc = "refused"]
Asked == \E c \in CartSent : quote = [QuoteIdle EXCEPT !.pc = "products", !.cart = c]
Blank == /\ quote \in QuoteRecord /\ quote.tiers = {} /\ quote.method = None
         /\ quote.delivery = 0 /\ quote.tax = 0 /\ quote.charge = 0

LEMMA QuoteStarts == shop \in Shop /\ Starting => QuoteInv /\ SoundQuote
<1> SUFFICES ASSUME shop \in Shop, Starting PROVE QuoteInv /\ SoundQuote
  OBVIOUS
<1>1. Blank /\ quote.pc \in {"idle", "refused"}
  <2>1. QuoteIdle \in QuoteRecord /\ [QuoteIdle EXCEPT !.pc = "refused"] \in QuoteRecord
    BY IdleType DEF QuoteRecord
  <2>2. quote \in QuoteRecord
    BY <2>1 DEF Starting
  <2>3. /\ quote.tiers = {} /\ quote.method = None
        /\ quote.delivery = 0 /\ quote.tax = 0 /\ quote.charge = 0
        /\ quote.pc \in {"idle", "refused"}
    BY DEF Starting, QuoteIdle
  <2> QED
    BY <2>2, <2>3 DEF Blank
<1> QED
  BY <1>1 DEF Blank, QuoteInv, QuoteRead, QuoteReduced, QuoteSummed, Priceable, Reduced, SoundQuote

LEMMA QuoteAsked == shop \in Shop /\ Asked => QuoteInv /\ SoundQuote
<1> SUFFICES ASSUME shop \in Shop, Asked PROVE QuoteInv /\ SoundQuote
  OBVIOUS
<1> PICK c \in CartSent : quote = [QuoteIdle EXCEPT !.pc = "products", !.cart = c]
  BY DEF Asked
<1>1. Blank /\ quote.pc = "products" /\ quote.cart = c
  <2>1. [QuoteIdle EXCEPT !.pc = "products", !.cart = c] \in QuoteRecord
    BY IdleType DEF QuoteRecord
  <2>2. quote \in QuoteRecord
    BY <2>1
  <2>3. /\ quote.tiers = {} /\ quote.method = None
        /\ quote.delivery = 0 /\ quote.tax = 0 /\ quote.charge = 0
        /\ quote.pc = "products" /\ quote.cart = c
    BY DEF QuoteIdle
  <2> QED
    BY <2>2, <2>3 DEF Blank
<1> QED
  BY <1>1 DEF Blank, QuoteInv, QuoteRead, QuoteReduced, QuoteSummed, Priceable, Reduced, SoundQuote

LEMMA AskStep ==
    ASSUME StorefrontAssumption, QuoteInv, Ask
    PROVE  QuoteInv' /\ SoundQuote'
<1>1. shop' \in Shop
  BY DEF Ask, QuoteGoes, QuoteInv
<1>2. Asked'
  BY DEF Ask, QuoteGoes, Asked, StorefrontAssumption
<1>3. (shop \in Shop /\ Asked => QuoteInv /\ SoundQuote)'
  BY QuoteAsked, PTL
<1> QED
  BY <1>1, <1>2, <1>3

LEMMA GiveUp ==
    ASSUME QuoteInv, Refuse \/ Done
    PROVE  QuoteInv' /\ SoundQuote'
<1>1. shop' = shop /\ Starting'
  BY DEF Refuse, Done, QuoteGoes, Starting
<1>2. shop' \in Shop
  BY <1>1 DEF QuoteInv
<1>3. (shop \in Shop /\ Starting => QuoteInv /\ SoundQuote)'
  BY QuoteStarts, PTL
<1> QED
  BY <1>1, <1>2, <1>3

\* The products of the cart, as they are when they are read.
LEMMA ReadProductsStep ==
    ASSUME StorefrontAssumption, QuoteInv, ReadProducts
    PROVE  QuoteInv' /\ (SoundInv => SoundQuote')
<1> DEFINE W == Wants(quote.cart)
           rows == [p \in W |-> shop.product[p]]
<1>1. quote.pc = "products" /\ shop' = shop
  BY DEF ReadProducts, On, QuoteGoes, Refuse
<1>2. CASE Refuse
  BY <1>2, GiveUp
<1>3. CASE ~Refuse
  <2>1. /\ \A p \in W : Active(p)
        /\ quote' = [quote EXCEPT !.pc = "tiers", !.rows = rows]
    BY <1>3 DEF ReadProducts, QuoteGoes, Wants
  <2>2. quote.cart \in CartSent /\ quote \in QuoteRecord /\ shop \in Shop
    BY <1>1 DEF QuoteInv, QuoteRead
  <2>3. W \subseteq Products
    <3>1. ASSUME NEW l \in Range(quote.cart.lines) PROVE l.product \in Products
      <4>1. quote.cart.lines \in Seq(Line)
        BY <2>2 DEF CartSent
      <4>2. PICK i \in DOMAIN quote.cart.lines : l = quote.cart.lines[i]
        BY <3>1 DEF Range
      <4>3. l \in Line
        BY <4>1, <4>2
      <4> QED
        BY <4>3 DEF Line
    <3> QED
      BY <3>1 DEF Wants
  <2>4. \A p \in W : shop.product[p] \in ProductRow
    BY <2>1, <2>2, <2>3 DEF Active, Shop
  <2>5. rows \in [W -> ProductRow] /\ rows \in Rows
    BY <2>3, <2>4 DEF Rows
  <2>6. SoundInv => SoundRows(rows)
    BY <2>1, <2>3 DEF SoundInv, SoundShop, SoundProduct, SoundRows, Active
  <2> HIDE DEF rows, W
  <2>7. quote' \in QuoteRecord
    BY <2>1, <2>2, <2>5 DEF QuoteRecord
  <2>8. /\ quote'.pc = "tiers" /\ quote'.rows = rows /\ quote'.cart = quote.cart
        /\ quote'.tiers = quote.tiers /\ quote'.method = quote.method
        /\ quote'.delivery = quote.delivery /\ quote'.tax = quote.tax /\ quote'.charge = quote.charge
    BY <2>1, <2>2 DEF QuoteRecord
  <2>9. QuoteInv'
    BY <1>1, <2>2, <2>5, <2>7, <2>8
       DEF QuoteInv, QuoteRead, QuoteReduced, QuoteSummed, Priceable, Reduced, W
  <2>10. ASSUME SoundInv PROVE SoundQuote'
    BY <2>6, <2>8, <2>10 DEF SoundInv, SoundQuote, Priceable, Reduced
  <2> QED
    BY <2>9, <2>10
<1> QED
  BY <1>2, <1>3

LEMMA ReadTiersStep ==
    ASSUME StorefrontAssumption, QuoteInv, ReadTiers
    PROVE  QuoteInv' /\ (SoundInv => SoundQuote')
<1> DEFINE ts == {t \in shop.tiers : t.product \in DOMAIN quote.rows}
<1>1. quote.pc = "tiers" /\ shop' = shop /\ quote' = [quote EXCEPT !.pc = "variants", !.tiers = ts]
  BY DEF ReadTiers, On, QuoteGoes
<1>2. /\ quote.cart \in CartSent /\ quote \in QuoteRecord /\ shop \in Shop
      /\ quote.rows \in [Wants(quote.cart) -> ProductRow]
  BY <1>1 DEF QuoteInv, QuoteRead
<1>3. ts \subseteq Tier /\ (SoundInv => \A t \in ts : t.unit \in Nat)
  BY <1>2 DEF Shop, SoundInv, SoundShop, SoundTables
<1> HIDE DEF ts
<1>4. quote' \in QuoteRecord
  BY <1>1, <1>2, <1>3 DEF QuoteRecord
<1>5. /\ quote'.pc = "variants" /\ quote'.rows = quote.rows /\ quote'.cart = quote.cart
      /\ quote'.tiers = ts /\ quote'.method = quote.method
      /\ quote'.delivery = quote.delivery /\ quote'.tax = quote.tax /\ quote'.charge = quote.charge
  BY <1>1, <1>2 DEF QuoteRecord
<1>6. QuoteInv'
  BY <1>1, <1>2, <1>4, <1>5
     DEF QuoteInv, QuoteRead, QuoteReduced, QuoteSummed, Priceable, Reduced
<1>7. ASSUME SoundInv PROVE SoundQuote'
  BY <1>1, <1>3, <1>5, <1>7 DEF SoundInv, SoundQuote, Priceable, Reduced
<1> QED
  BY <1>6, <1>7


\* Every line is priced from rows that a quote has read, and never above its list.
LEMMA ChargedIsPriced ==
    ASSUME StorefrontAssumption, QuoteInv, quote.pc = "variants",
           NEW l \in Range(quote.cart.lines), Orderable(l), NEW c \in Charged(l)
    PROVE  c \in PricedLine /\ (SoundInv => c.unit \in Nat)
<1> DEFINE r == quote.rows[l.product]
           v == shop.variant[l.variant]
<1>1. /\ quote.cart \in CartSent /\ quote \in QuoteRecord /\ shop \in Shop
      /\ quote.rows \in [Wants(quote.cart) -> ProductRow]
  BY DEF QuoteInv, QuoteRead
<1>2. l \in Line
  <2>1. quote.cart.lines \in Seq(Line)
    BY <1>1 DEF CartSent
  <2>2. PICK i \in DOMAIN quote.cart.lines : l = quote.cart.lines[i]
    BY DEF Range
  <2> QED
    BY <2>1, <2>2
<1>3. l.qty \in Nat \ {0}
  BY <1>2 DEF Line
<1>4. ASSUME NEW u \in Int, NEW k \in Int, c = Priced(u, k, l.qty)
      PROVE  c \in PricedLine /\ c.unit = u
  <2>1. Most(k, u) \in Int /\ u <= Most(k, u)
    BY MostType
  <2> QED
    BY <1>3, <1>4, <2>1 DEF Priced, PricedLine
<1>5. CASE l.variant # None
  <2>1. v \in VariantRow /\ (SoundInv => SoundVariant(v)) /\ v # None
    BY <1>1, <1>2, <1>5 DEF Orderable, Line, Shop, SoundInv, SoundShop
  <2> DEFINE k == IF v.original = None THEN v.price ELSE v.original
  <2>2. v.price \in Int /\ k \in Int /\ (SoundInv => v.price \in Nat)
    BY <2>1 DEF VariantRow, SoundVariant
  <2>3. c = Priced(v.price, k, l.qty)
    BY <1>5 DEF Charged
  <2> HIDE DEF k, v
  <2> QED
    BY <1>4, <2>2, <2>3
<1>6. CASE l.variant = None
  <2>1. r \in ProductRow
    BY <1>1 DEF Wants
  <2>2. r.price \in Int /\ (r.offer # None => r.offer \in Int)
    BY <2>1 DEF ProductRow
  <2> DEFINE U == IF TiersFor(l) # {} THEN {t.unit : t \in LastTiers(l)}
                  ELSE {IF r.offer # None THEN r.offer ELSE r.price}
  <2>3. PICK u \in U : c = Priced(u, r.price, l.qty)
    BY <1>6 DEF Charged
  <2>4. u \in Int /\ (SoundInv => u \in Nat)
    <3>1. CASE TiersFor(l) # {}
      <4>1. PICK t \in LastTiers(l) : u = t.unit
        BY <3>1
      <4>2. t \in quote.tiers
        BY DEF LastTiers, TiersFor
      <4>3. t \in Tier
        BY <1>1, <4>2 DEF QuoteRecord
      <4> QED
        BY <4>1, <4>2, <4>3 DEF Tier, SoundInv, SoundQuote
    <3>2. CASE TiersFor(l) = {}
      <4>1. u = IF r.offer # None THEN r.offer ELSE r.price
        BY <3>2
      <4>2. ASSUME SoundInv PROVE r.price \in Nat /\ (r.offer # None => r.offer \in Nat)
        <5>1. SoundRows(quote.rows)
          BY <4>2 DEF SoundInv, SoundQuote
        <5>2. l.product \in DOMAIN quote.rows
          BY <1>1 DEF Wants
        <5> QED
          BY <5>1, <5>2 DEF SoundRows
      <4> HIDE DEF r
      <4> QED
        BY <2>2, <4>1, <4>2
    <3> QED
      BY <3>1, <3>2
  <2> HIDE DEF U, r
  <2> QED
    BY <1>4, <2>2, <2>3, <2>4
<1> QED
  BY <1>5, <1>6


LEMMA ReadVariantsStep ==
    ASSUME StorefrontAssumption, QuoteInv, ReadVariants
    PROVE  QuoteInv' /\ (SoundInv => SoundQuote')
<1>1. quote.pc = "variants" /\ shop' = shop
  BY DEF ReadVariants, On, QuoteGoes, Refuse
<1>2. CASE Refuse
  BY <1>2, GiveUp
<1>3. CASE ~Refuse
  <2>1. \A l \in Range(quote.cart.lines) : Orderable(l)
    BY <1>3 DEF ReadVariants
  <2>2. PICK lines \in [DOMAIN quote.cart.lines -> UNION {Charged(l) : l \in Range(quote.cart.lines)}] :
           /\ \A i \in DOMAIN lines : lines[i] \in Charged(quote.cart.lines[i])
           /\ QuoteGoes([quote EXCEPT !.pc = "promo", !.lines = lines])
    BY <1>3 DEF ReadVariants
  <2>3. quote.cart \in CartSent /\ quote \in QuoteRecord /\ shop \in Shop
    BY <1>1 DEF QuoteInv, QuoteRead
  <2>4. PICK n \in Nat : DOMAIN quote.cart.lines = 1 .. n
    <3>1. quote.cart.lines \in Seq(Line)
      BY <2>3 DEF CartSent
    <3> QED
      BY <3>1
  <2>5. ASSUME NEW i \in DOMAIN lines
        PROVE  lines[i] \in PricedLine /\ (SoundInv => lines[i].unit \in Nat)
    <3>1. quote.cart.lines[i] \in Range(quote.cart.lines)
      BY DEF Range
    <3>2. Orderable(quote.cart.lines[i]) /\ lines[i] \in Charged(quote.cart.lines[i])
      BY <2>1, <2>2, <3>1
    <3> QED
      BY <1>1, <3>1, <3>2, ChargedIsPriced
  <2>6. lines \in Lines
    BY <2>2, <2>4, <2>5 DEF Lines
  <2>7. quote' = [quote EXCEPT !.pc = "promo", !.lines = lines]
    BY <2>2 DEF QuoteGoes
  <2>8. quote' \in QuoteRecord
    BY <2>3, <2>6, <2>7 DEF QuoteRecord
  <2>9. /\ quote'.pc = "promo" /\ quote'.lines = lines /\ quote'.cart = quote.cart
        /\ quote'.tiers = quote.tiers /\ quote'.method = quote.method
        /\ quote'.delivery = quote.delivery /\ quote'.tax = quote.tax /\ quote'.charge = quote.charge
    BY <2>3, <2>7 DEF QuoteRecord
  <2>10. QuoteInv'
    BY <1>1, <2>3, <2>6, <2>8, <2>9
       DEF QuoteInv, QuoteRead, QuoteReduced, QuoteSummed, Priceable, Reduced
  <2>11. ASSUME SoundInv PROVE SoundQuote'
    BY <2>5, <2>9, <2>11 DEF SoundInv, SoundQuote, Priceable, Reduced
  <2> QED
    BY <2>10, <2>11
<1> QED
  BY <1>2, <1>3

\* The lines do not change any more, so neither does what they come to.
LEMMA SameTotals ==
    ASSUME quote'.lines = quote.lines
    PROVE  Subtotal' = Subtotal /\ Selling' = Selling
<1>1. Subtotal' = SubtotalOf(quote'.lines) /\ Selling' = SellingOf(quote'.lines)
  BY DEF Subtotal, Selling, SubtotalOf, SellingOf
<1> QED
  BY <1>1, Totals

LEMMA ReadPromoStep ==
    ASSUME StorefrontAssumption, QuoteInv, ReadPromo
    PROVE  QuoteInv' /\ (SoundInv => SoundQuote')
<1> DEFINE found == {p \in shop.promos : p.code = quote.cart.promo /\ p.open}
           saved == Subtotal - Selling
           off == IF found = {} THEN 0 ELSE PromoAmount(CHOOSE p \in found : TRUE)
           d == Least(saved + off, Subtotal)
           applied == found # {}
<1>1. /\ quote.pc = "promo" /\ shop' = shop
      /\ quote' = [quote EXCEPT !.pc = "method", !.applied = applied, !.savings = saved, !.discount = d]
  BY DEF ReadPromo, On, QuoteGoes
<1>2. quote.cart \in CartSent /\ quote \in QuoteRecord /\ shop \in Shop /\ quote.lines \in Lines
  BY <1>1 DEF QuoteInv, QuoteRead, Priceable
<1>3. /\ Subtotal \in Int /\ Selling \in Int /\ Selling <= Subtotal
      /\ SoundInv => Selling \in Nat
  <2>1. ASSUME SoundInv PROVE \A i \in DOMAIN quote.lines : quote.lines[i].unit \in Nat
    BY <1>1, <2>1 DEF SoundInv, SoundQuote, Priceable
  <2> QED
    BY <1>2, <2>1, LinesAddUp, Totals
<1>4. off \in Int /\ (SoundInv => off >= 0 /\ off <= Selling) /\ (~applied => off = 0)
  <2>1. CASE found = {}
    BY <1>3, <2>1
  <2>2. CASE found # {}
    <3> DEFINE p == CHOOSE q \in found : TRUE
    <3>1. p \in found
      BY <2>2
    <3>2. p \in Promo /\ (SoundInv => p.value \in Nat)
      BY <1>2, <3>1 DEF Shop, SoundInv, SoundShop, SoundTables
    <3> DEFINE raw == IF p.kind = "percent" THEN Percent(Selling, p.value) ELSE p.value
    <3>3. raw \in Int /\ (SoundInv => raw >= 0)
      <4>1. p.value \in Int
        BY <3>2 DEF Promo
      <4> DEFINE x == Percent(Selling, p.value)
      <4>2. x \in Int /\ (Selling >= 0 /\ p.value >= 0 => x >= 0)
        BY <1>3, <4>1, PercentType
      <4>3. SoundInv => p.value >= 0 /\ Selling >= 0
        BY <1>3, <3>2
      <4>4. raw = x \/ raw = p.value
        OBVIOUS
      <4> HIDE DEF p, x, raw
      <4> QED
        BY <4>1, <4>2, <4>3, <4>4
    <3>4. off = Least(raw, Selling)
      BY <2>2 DEF PromoAmount
    <3> HIDE DEF raw, off
    <3>5. /\ Least(raw, Selling) \in Int /\ Least(raw, Selling) <= Selling
          /\ Least(raw, Selling) = raw \/ Least(raw, Selling) = Selling
      BY <1>3, <3>3, LeastType
    <3> QED
      BY <1>3, <2>2, <3>3, <3>4, <3>5
  <2> QED
    BY <2>1, <2>2
<1>5. applied \in BOOLEAN /\ saved \in Int
  BY <1>3
<1>6. saved = Subtotal - Selling
  OBVIOUS
<1> HIDE DEF off, found, saved, applied
<1>7. d \in Int /\ d <= Subtotal /\ (d = saved + off \/ d = Subtotal) /\ d <= saved + off
  BY <1>3, <1>4, <1>5, LeastType
<1> HIDE DEF d
<1>8. quote' \in QuoteRecord
  BY <1>1, <1>2, <1>5, <1>7 DEF QuoteRecord
<1>9. /\ quote'.pc = "method" /\ quote'.lines = quote.lines /\ quote'.cart = quote.cart
      /\ quote'.tiers = quote.tiers /\ quote'.method = quote.method
      /\ quote'.delivery = quote.delivery /\ quote'.tax = quote.tax /\ quote'.charge = quote.charge
      /\ quote'.savings = saved /\ quote'.discount = d /\ quote'.applied = applied
  BY <1>1, <1>2 DEF QuoteRecord
<1>10. Subtotal' = Subtotal /\ Selling' = Selling
  BY <1>9, SameTotals
<1>11. QuoteInv'
  BY <1>1, <1>2, <1>6, <1>7, <1>8, <1>9, <1>10
     DEF QuoteInv, QuoteRead, QuoteReduced, QuoteSummed, Priceable, Reduced
<1>12. ASSUME SoundInv PROVE d >= saved /\ (applied \/ d = saved)
  BY <1>3, <1>4, <1>5, <1>6, <1>7, <1>12
<1>13. ASSUME SoundInv PROVE SoundQuote'
  <2>1. quote'.discount >= quote'.savings /\ (quote'.applied \/ quote'.discount = quote'.savings)
    BY <1>9, <1>12, <1>13
  <2>2. \A i \in DOMAIN quote.lines : quote.lines[i].unit \in Nat
    BY <1>1, <1>13 DEF SoundInv, SoundQuote, Priceable
  <2> QED
    BY <1>9, <1>13, <2>1, <2>2 DEF SoundInv, SoundQuote, Priceable, Reduced
<1> QED
  BY <1>11, <1>13


\* The method a cart asks for, or none.
LEMMA ReadMethodStep ==
    ASSUME StorefrontAssumption, QuoteInv, ReadMethod
    PROVE  QuoteInv' /\ (SoundInv => SoundQuote')
<1>1. quote.pc = "method" /\ shop' = shop
  BY DEF ReadMethod, On, QuoteGoes, Refuse
<1>2. CASE Refuse
  BY <1>2, GiveUp
<1>3. CASE ~Refuse
  <2>1. quote.cart \in CartSent /\ quote \in QuoteRecord /\ shop \in Shop /\ quote.lines \in Lines
    BY <1>1 DEF QuoteInv, QuoteRead, Priceable
  <2>2. PICK m \in shop.methods \cup {quote.method} : quote' = [quote EXCEPT !.pc = "zone", !.method = m]
    <3>1. CASE quote' = [quote EXCEPT !.pc = "zone"]
      <4>1. quote' = [quote EXCEPT !.pc = "zone", !.method = quote.method]
        BY <2>1, <3>1 DEF QuoteRecord
      <4> QED
        BY <4>1
    <3>2. CASE \E m \in shop.methods : quote' = [quote EXCEPT !.pc = "zone", !.method = m]
      BY <3>2
    <3> QED
      BY <1>3, <3>1, <3>2 DEF ReadMethod, QuoteGoes
  <2>3. m \in Method \cup {None} /\ (SoundInv => (m # None => m.feePct \in Nat))
    BY <2>1 DEF Shop, QuoteRecord, SoundInv, SoundShop, SoundTables, SoundQuote
  <2>4. quote' \in QuoteRecord
    BY <2>1, <2>2, <2>3 DEF QuoteRecord
  <2>5. /\ quote'.pc = "zone" /\ quote'.lines = quote.lines /\ quote'.cart = quote.cart
        /\ quote'.tiers = quote.tiers /\ quote'.method = m
        /\ quote'.delivery = quote.delivery /\ quote'.tax = quote.tax /\ quote'.charge = quote.charge
        /\ quote'.savings = quote.savings /\ quote'.discount = quote.discount
        /\ quote'.applied = quote.applied
    BY <2>1, <2>2 DEF QuoteRecord
  <2>6. Subtotal' = Subtotal /\ Selling' = Selling
    BY <2>5, SameTotals
  <2>7. QuoteInv'
    BY <1>1, <2>1, <2>4, <2>5, <2>6
       DEF QuoteInv, QuoteRead, QuoteReduced, QuoteSummed, Priceable, Reduced
  <2>8. ASSUME SoundInv PROVE SoundQuote'
    BY <1>1, <2>3, <2>5, <2>8 DEF SoundInv, SoundQuote, Priceable, Reduced
  <2> QED
    BY <2>7, <2>8
<1> QED
  BY <1>2, <1>3

LEMMA ReadZoneStep ==
    ASSUME StorefrontAssumption, QuoteInv, ReadZone
    PROVE  QuoteInv' /\ (SoundInv => SoundQuote')
<1>1. quote.pc = "zone" /\ shop' = shop
  BY DEF ReadZone, On, QuoteGoes
<1>2. quote.cart \in CartSent /\ quote \in QuoteRecord /\ shop \in Shop /\ quote.lines \in Lines
  BY <1>1 DEF QuoteInv, QuoteRead, Priceable
<1>3. PICK fee \in {z.fee : z \in shop.zones} \cup {0} :
         quote' = [quote EXCEPT !.pc = "tax", !.delivery = fee]
  <2>1. Nearest(quote.cart.district) \subseteq shop.zones
    BY DEF Nearest
  <2> QED
    BY <2>1 DEF ReadZone, QuoteGoes
<1>4. fee \in Int /\ (SoundInv => fee \in Nat)
  BY <1>2 DEF Shop, Zone, SoundInv, SoundShop, SoundTables
<1>5. quote' \in QuoteRecord
  BY <1>2, <1>3, <1>4 DEF QuoteRecord
<1>6. /\ quote'.pc = "tax" /\ quote'.lines = quote.lines /\ quote'.cart = quote.cart
      /\ quote'.tiers = quote.tiers /\ quote'.method = quote.method
      /\ quote'.delivery = fee /\ quote'.tax = quote.tax /\ quote'.charge = quote.charge
      /\ quote'.savings = quote.savings /\ quote'.discount = quote.discount
      /\ quote'.applied = quote.applied
  BY <1>2, <1>3 DEF QuoteRecord
<1>7. Subtotal' = Subtotal /\ Selling' = Selling
  BY <1>6, SameTotals
<1>8. QuoteInv'
  BY <1>1, <1>2, <1>5, <1>6, <1>7
     DEF QuoteInv, QuoteRead, QuoteReduced, QuoteSummed, Priceable, Reduced
<1>9. ASSUME SoundInv PROVE SoundQuote'
  BY <1>1, <1>4, <1>6, <1>9 DEF SoundInv, SoundQuote, Priceable, Reduced
<1> QED
  BY <1>8, <1>9

\* The sum of the rates.
LEMMA RatesAddUp ==
    ASSUME shop \in Shop
    PROVE  /\ SumFunction([r \in shop.rates |-> r]) \in Int
           /\ shop.rates \subseteq Nat => SumFunction([r \in shop.rates |-> r]) \in Nat
<1> DEFINE R == shop.rates
           f == [r \in R |-> r]
<1>1. R \subseteq Int /\ IsFiniteSet(R)
  BY DEF Shop, RateSets
<1>2. SumFunction(f) = Sum(f, R)
  <2>1. DOMAIN f = R
    OBVIOUS
  <2> HIDE DEF f
  <2> QED
    BY <2>1, SumFunctionIs
<1>3. \A x \in R : f[x] \in Int /\ (R \subseteq Nat => f[x] \in Nat)
  BY <1>1
<1> HIDE DEF R, f
<1>4. Sum(f, R) \in Int
  BY <1>1, <1>3, SumType
<1>5. ASSUME R \subseteq Nat PROVE Sum(f, R) \in Nat
  <2>1. \A x \in R : f[x] \in Nat
    BY <1>3, <1>5
  <2> QED
    BY <1>1, <2>1, SumNat
<1> QED
  BY <1>2, <1>4, <1>5 DEF R, f

LEMMA ReadTaxStep ==
    ASSUME StorefrontAssumption, QuoteInv, ReadTax
    PROVE  QuoteInv' /\ (SoundInv => SoundQuote')
<1> DEFINE taxable == Most(0, Subtotal - quote.discount)
           rate == SumFunction([r \in shop.rates |-> r])
           tax == Percent(taxable, rate)
           payable == taxable + quote.delivery + tax
           charge == Surcharge(payable)
<1>1. /\ quote.pc = "tax" /\ shop' = shop
      /\ quote' = [quote EXCEPT !.pc = "quoted", !.tax = tax, !.charge = charge, !.total = payable + charge]
  BY DEF ReadTax, On, QuoteGoes
<1>2. /\ quote.cart \in CartSent /\ quote \in QuoteRecord /\ shop \in Shop /\ quote.lines \in Lines
      /\ quote.discount <= Subtotal
  BY <1>1 DEF QuoteInv, QuoteRead, QuoteReduced, Priceable, Reduced
<1>3. quote.discount \in Int /\ quote.delivery \in Int /\ (SoundInv => quote.delivery \in Nat)
  BY <1>2 DEF QuoteRecord, SoundInv, SoundQuote
<1>4. Subtotal \in Int
  BY <1>2, LinesAddUp, Totals
<1>5. taxable \in Nat /\ taxable = Subtotal - quote.discount
  BY <1>2, <1>3, <1>4 DEF Most
<1> HIDE DEF taxable
<1>6. rate \in Int /\ (SoundInv => rate >= 0)
  BY <1>2, RatesAddUp DEF SoundInv, SoundShop, SoundTables
<1> HIDE DEF rate
<1>7. tax \in Int /\ (SoundInv => tax \in Nat)
  <2>1. taxable \in Int /\ taxable >= 0
    BY <1>5
  <2>2. tax \in Int /\ (taxable >= 0 /\ rate >= 0 => tax >= 0)
    BY <1>6, <2>1, PercentType
  <2> HIDE DEF tax
  <2> QED
    BY <1>6, <2>1, <2>2
<1> HIDE DEF tax
<1>8. payable \in Int /\ (SoundInv => payable \in Nat)
  BY <1>3, <1>5, <1>7
<1>9. payable = Subtotal - quote.discount + quote.delivery + tax
  BY <1>5
<1> HIDE DEF payable
<1>10. charge \in Int /\ (SoundInv => charge \in Nat)
  <2>1. CASE quote.method = None
    BY <2>1 DEF Surcharge
  <2>2. CASE quote.method # None
    <3> DEFINE pct == quote.method.feePct
               x == payable * pct
    <3>1. pct \in Int /\ (SoundInv => pct \in Nat)
      BY <1>2, <2>2 DEF QuoteRecord, Method, SoundInv, SoundQuote
    <3>2. charge = 100 * Rounded(x, 10000)
      BY <2>2 DEF Surcharge
    <3> HIDE DEF pct
    <3>3. x \in Int /\ (SoundInv => x >= 0)
      BY <1>8, <3>1
    <3> HIDE DEF x, charge
    <3>4. Rounded(x, 10000) \in Int /\ (x >= 0 => Rounded(x, 10000) >= 0)
      BY <3>3, RoundedType
    <3> QED
      BY <3>2, <3>3, <3>4
  <2> QED
    BY <2>1, <2>2
<1> HIDE DEF charge
<1>11. quote' \in QuoteRecord
  <2>1. payable + charge \in Int
    BY <1>8, <1>10
  <2> QED
    BY <1>1, <1>2, <1>7, <1>10, <2>1 DEF QuoteRecord
<1>12. /\ quote'.pc = "quoted" /\ quote'.lines = quote.lines /\ quote'.cart = quote.cart
       /\ quote'.tiers = quote.tiers /\ quote'.method = quote.method
       /\ quote'.delivery = quote.delivery /\ quote'.tax = tax /\ quote'.charge = charge
       /\ quote'.savings = quote.savings /\ quote'.discount = quote.discount
       /\ quote'.applied = quote.applied /\ quote'.total = payable + charge
  BY <1>1, <1>2 DEF QuoteRecord
<1>13. Subtotal' = Subtotal /\ Selling' = Selling
  BY <1>12, SameTotals
<1>14. QuoteSummed'
  BY <1>9, <1>12, <1>13 DEF QuoteSummed
<1>15. QuoteInv'
  BY <1>1, <1>2, <1>11, <1>12, <1>13, <1>14
     DEF QuoteInv, QuoteRead, QuoteReduced, Priceable, Reduced
<1>16. ASSUME SoundInv PROVE SoundQuote'
  BY <1>1, <1>7, <1>10, <1>12, <1>16 DEF SoundInv, SoundQuote, Priceable, Reduced
<1> QED
  BY <1>15, <1>16


-----------------------------------------------------------------------------
(* The edits in between: the shop stays one, and sound if what is written is. *)

\* What a quote has read is its own.
LEMMA QuoteApart ==
    ASSUME QuoteInv, quote' = quote, shop' \in Shop
    PROVE  QuoteInv' /\ (SoundQuote => SoundQuote')
<1>1. Subtotal' = Subtotal /\ Selling' = Selling
  BY SameTotals
<1> QED
  BY <1>1 DEF QuoteInv, QuoteRead, QuoteReduced, QuoteSummed, Priceable, Reduced, SoundQuote

LEMMA FreedType ==
    ASSUME NEW r \in ProductRow \cup {None}, NEW c
    PROVE  Freed(r, c) \in ProductRow \cup {None} /\ (SoundProduct(r) => SoundProduct(Freed(r, c)))
<1>1. CASE r = None
  BY <1>1 DEF Freed
<1>2. CASE r # None
  <2> DEFINE k == IF r.category = c THEN None ELSE r.category
             s == IF r.sub = c THEN None ELSE r.sub
  <2>1. k \in Categories \cup {None} /\ s \in Categories \cup {None}
    BY <1>2 DEF ProductRow
  <2>2. Freed(r, c) = [r EXCEPT !.category = k, !.sub = s]
    BY <1>2 DEF Freed
  <2> HIDE DEF k, s
  <2>3. [r EXCEPT !.category = k, !.sub = s] \in ProductRow
    BY <1>2, <2>1 DEF ProductRow
  <2>4. /\ [r EXCEPT !.category = k, !.sub = s].price = r.price
        /\ [r EXCEPT !.category = k, !.sub = s].offer = r.offer
    BY <1>2 DEF ProductRow
  <2> QED
    BY <1>2, <2>2, <2>3, <2>4 DEF SoundProduct
<1> QED
  BY <1>1, <1>2

LEMMA EditingStep ==
    ASSUME StorefrontAssumption, shop \in Shop, Editing
    PROVE  shop' \in Shop /\ (NothingNegative /\ SoundShop(shop) => SoundShop(shop'))
<1>1. CASE EditProduct
  <2>1. PICK p \in Products, r \in ProductRows \cup {None} : shop' = [shop EXCEPT !.product[p] = r]
    BY <1>1 DEF EditProduct, Becomes
  <2>2. r \in ProductRow \cup {None} /\ (NothingNegative => SoundProduct(r))
    BY DEF StorefrontAssumption, NothingNegative, SoundProduct
  <2>3. shop' \in Shop
    BY <2>1, <2>2 DEF Shop
  <2>4. /\ \A k \in Products : shop'.product[k] = IF k = p THEN r ELSE shop.product[k]
        /\ shop'.variant = shop.variant /\ shop'.tiers = shop.tiers /\ shop'.zones = shop.zones
        /\ shop'.methods = shop.methods /\ shop'.promos = shop.promos /\ shop'.rates = shop.rates
    BY <2>1 DEF Shop
  <2> QED
    BY <2>2, <2>3, <2>4 DEF SoundShop
<1>2. CASE EditTiers
  <2>1. PICK ts \in SUBSET Tiers : shop' = [shop EXCEPT !.tiers = ts]
    BY <1>2 DEF EditTiers, Becomes
  <2>2. ts \in SUBSET Tier /\ (NothingNegative => \A t \in ts : t.unit \in Nat)
    BY DEF StorefrontAssumption, NothingNegative, SoundTables
  <2>3. shop' \in Shop
    BY <2>1, <2>2 DEF Shop
  <2>4. /\ shop'.tiers = ts /\ shop'.product = shop.product
        /\ shop'.variant = shop.variant /\ shop'.zones = shop.zones
        /\ shop'.methods = shop.methods /\ shop'.promos = shop.promos /\ shop'.rates = shop.rates
    BY <2>1 DEF Shop
  <2> QED
    BY <2>2, <2>3, <2>4 DEF SoundShop, SoundTables
<1>3. CASE EditVariant
  <2>1. PICK v \in Variants, r \in VariantRows \cup {None} : shop' = [shop EXCEPT !.variant[v] = r]
    BY <1>3 DEF EditVariant, Becomes
  <2>2. r \in VariantRow \cup {None} /\ (NothingNegative => SoundVariant(r))
    BY DEF StorefrontAssumption, NothingNegative, SoundVariant
  <2>3. shop' \in Shop
    BY <2>1, <2>2 DEF Shop
  <2>4. /\ \A k \in Variants : shop'.variant[k] = IF k = v THEN r ELSE shop.variant[k]
        /\ shop'.product = shop.product /\ shop'.tiers = shop.tiers /\ shop'.zones = shop.zones
        /\ shop'.methods = shop.methods /\ shop'.promos = shop.promos /\ shop'.rates = shop.rates
    BY <2>1 DEF Shop
  <2> QED
    BY <2>2, <2>3, <2>4 DEF SoundShop
<1>4. CASE RemoveCategory
  <2> DEFINE after(c) == [p \in Products |-> Freed(shop.product[p], c)]
             left(c) == [k \in DOMAIN shop.category \ {c} |-> shop.category[k]]
  <2>1. PICK c \in DOMAIN shop.category :
           shop' = [shop EXCEPT !.category = left(c), !.product = after(c)]
    BY <1>4 DEF RemoveCategory, Becomes
  <2>2. after(c) \in [Products -> ProductRow \cup {None}]
        /\ \A p \in Products : SoundProduct(shop.product[p]) => SoundProduct(after(c)[p])
    <3>1. ASSUME NEW p \in Products
          PROVE  Freed(shop.product[p], c) \in ProductRow \cup {None}
                 /\ (SoundProduct(shop.product[p]) => SoundProduct(Freed(shop.product[p], c)))
      <4>1. shop.product[p] \in ProductRow \cup {None}
        BY DEF Shop
      <4> QED
        BY <4>1, FreedType
    <3> QED
      BY <3>1
  <2>3. left(c) \in UNION {[C -> {"active", "hidden"}] : C \in SUBSET Categories}
    <3>1. PICK C \in SUBSET Categories : shop.category \in [C -> {"active", "hidden"}]
      BY DEF Shop
    <3> DEFINE D == C \ {c}
               h == left(c)
    <3>2. h \in [D -> {"active", "hidden"}] /\ D \in SUBSET Categories
      BY <3>1
    <3> HIDE DEF D, h
    <3>3. h \in UNION {[K -> {"active", "hidden"}] : K \in SUBSET Categories}
      BY <3>2
    <3> QED
      BY <3>3 DEF h
  <2> HIDE DEF after, left
  <2>4. shop' \in Shop
    BY <2>1, <2>2, <2>3 DEF Shop
  <2>5. /\ shop'.product = after(c) /\ shop'.variant = shop.variant /\ shop'.tiers = shop.tiers
        /\ shop'.zones = shop.zones /\ shop'.methods = shop.methods /\ shop'.promos = shop.promos
        /\ shop'.rates = shop.rates
    BY <2>1 DEF Shop
  <2> QED
    BY <2>2, <2>4, <2>5 DEF SoundShop
<1>5. CASE EditCheckout
  <2>1. CASE \E zs \in SUBSET Zones : shop' = [shop EXCEPT !.zones = zs]
    <3>1. PICK zs \in SUBSET Zones : shop' = [shop EXCEPT !.zones = zs]
      BY <2>1
    <3>2. zs \in SUBSET Zone /\ (NothingNegative => \A z \in zs : z.fee \in Nat)
      BY DEF StorefrontAssumption, NothingNegative, SoundTables
    <3>3. shop' \in Shop
      BY <3>1, <3>2 DEF Shop
    <3>4. /\ shop'.zones = zs /\ shop'.product = shop.product /\ shop'.tiers = shop.tiers
          /\ shop'.variant = shop.variant
          /\ shop'.methods = shop.methods /\ shop'.promos = shop.promos /\ shop'.rates = shop.rates
      BY <3>1 DEF Shop
    <3> QED
      BY <3>2, <3>3, <3>4 DEF SoundShop, SoundTables
  <2>2. CASE \E ms \in SUBSET Methods : shop' = [shop EXCEPT !.methods = ms]
    <3>1. PICK ms \in SUBSET Methods : shop' = [shop EXCEPT !.methods = ms]
      BY <2>2
    <3>2. ms \in SUBSET Method /\ (NothingNegative => \A m \in ms : m.feePct \in Nat)
      BY DEF StorefrontAssumption, NothingNegative, SoundTables
    <3>3. shop' \in Shop
      BY <3>1, <3>2 DEF Shop
    <3>4. /\ shop'.methods = ms /\ shop'.product = shop.product /\ shop'.tiers = shop.tiers
          /\ shop'.variant = shop.variant
          /\ shop'.zones = shop.zones /\ shop'.promos = shop.promos /\ shop'.rates = shop.rates
      BY <3>1 DEF Shop
    <3> QED
      BY <3>2, <3>3, <3>4 DEF SoundShop, SoundTables
  <2>3. CASE \E ps \in SUBSET PromoRows : shop' = [shop EXCEPT !.promos = ps]
    <3>1. PICK ps \in SUBSET PromoRows : shop' = [shop EXCEPT !.promos = ps]
      BY <2>3
    <3>2. ps \in SUBSET Promo /\ (NothingNegative => \A p \in ps : p.value \in Nat)
      BY DEF StorefrontAssumption, NothingNegative, SoundTables
    <3>3. shop' \in Shop
      BY <3>1, <3>2 DEF Shop
    <3>4. /\ shop'.promos = ps /\ shop'.product = shop.product /\ shop'.tiers = shop.tiers
          /\ shop'.variant = shop.variant
          /\ shop'.zones = shop.zones /\ shop'.methods = shop.methods /\ shop'.rates = shop.rates
      BY <3>1 DEF Shop
    <3> QED
      BY <3>2, <3>3, <3>4 DEF SoundShop, SoundTables
  <2>4. CASE \E rs \in SUBSET Rates : shop' = [shop EXCEPT !.rates = rs]
    <3>1. PICK rs \in SUBSET Rates : shop' = [shop EXCEPT !.rates = rs]
      BY <2>4
    <3>2. rs \in SUBSET Int /\ IsFiniteSet(rs) /\ (NothingNegative => rs \subseteq Nat)
      BY FS_Subset DEF StorefrontAssumption, NothingNegative, SoundTables
    <3>3. rs \in RateSets
      BY <3>2 DEF RateSets
    <3>4. shop' \in Shop
      BY <3>1, <3>3 DEF Shop
    <3>5. /\ shop'.rates = rs /\ shop'.product = shop.product /\ shop'.tiers = shop.tiers
          /\ shop'.variant = shop.variant
          /\ shop'.zones = shop.zones /\ shop'.methods = shop.methods /\ shop'.promos = shop.promos
      BY <3>1 DEF Shop
    <3> QED
      BY <3>2, <3>4, <3>5 DEF SoundShop, SoundTables
  <2> QED
    BY <1>5, <2>1, <2>2, <2>3, <2>4 DEF EditCheckout, Becomes
<1> QED
  BY <1>1, <1>2, <1>3, <1>4, <1>5 DEF Editing


-----------------------------------------------------------------------------
(* The theorem.                                                            *)

\* Whatever is edited while a cart is priced, a quote follows from what it read.
LEMMA QuoteStep ==
    ASSUME StorefrontAssumption, QuoteInv, [StorefrontNext]_storefront
    PROVE  QuoteInv' /\ (NothingNegative /\ SoundInv => SoundInv')
<1>1. shop \in Shop
  BY DEF QuoteInv
<1>2. ASSUME shop' = shop, QuoteInv', SoundInv => SoundQuote'
      PROVE  QuoteInv' /\ (NothingNegative /\ SoundInv => SoundInv')
  BY <1>2 DEF SoundInv
<1>3. CASE Quoting
  <2>1. shop' = shop
    BY <1>3 DEF Quoting, Ask, ReadProducts, ReadTiers, ReadVariants, ReadPromo, ReadMethod, ReadZone,
                ReadTax, Done, QuoteGoes, Refuse
  <2>2. QuoteInv' /\ (SoundInv => SoundQuote')
    BY <1>3, AskStep, GiveUp, ReadProductsStep, ReadTiersStep, ReadVariantsStep, ReadPromoStep,
       ReadMethodStep, ReadZoneStep, ReadTaxStep DEF Quoting
  <2> QED
    BY <1>2, <2>1, <2>2
<1>4. CASE Editing
  <2>1. quote' = quote
    BY <1>4 DEF Editing, EditProduct, EditTiers, EditVariant, RemoveCategory, EditCheckout, Becomes
  <2>2. shop' \in Shop /\ (NothingNegative /\ SoundShop(shop) => SoundShop(shop'))
    BY <1>1, <1>4, EditingStep
  <2>3. QuoteInv' /\ (SoundQuote => SoundQuote')
    BY <2>1, <2>2, QuoteApart
  <2> QED
    BY <2>2, <2>3 DEF SoundInv
<1>5. CASE Publishing \/ UNCHANGED storefront
  <2>1. quote' = quote /\ shop' = shop
    BY <1>5 DEF Publishing, CreatePage, DeletePage, GetPage, SavePage, storefront
  <2>2. QuoteInv' /\ (SoundQuote => SoundQuote')
    BY <1>1, <2>1, QuoteApart
  <2> QED
    BY <2>1, <2>2 DEF SoundInv
<1> QED
  BY <1>3, <1>4, <1>5 DEF StorefrontNext

LEMMA QuoteInit ==
    ASSUME StorefrontAssumption, StorefrontInit
    PROVE  QuoteInv /\ (NothingNegative => SoundInv)
<1>1. shop \in Opening /\ shop \in Shop /\ Starting
  BY DEF StorefrontInit, StorefrontAssumption, Starting
<1>2. QuoteInv /\ SoundQuote
  BY <1>1, QuoteStarts
<1> QED
  BY <1>1, <1>2 DEF SoundInv, NothingNegative

LEMMA QuoteExplained == QuoteInv /\ SoundInv => QuoteIsExplained
<1> SUFFICES ASSUME QuoteInv, SoundInv, quote.pc = "quoted"
             PROVE  LET cut == quote.discount - quote.savings IN
                    /\ quote.savings >= 0 /\ cut >= 0 /\ cut <= Selling
                    /\ quote.applied \/ cut = 0
                    /\ quote.delivery >= 0 /\ quote.tax >= 0 /\ quote.charge >= 0
                    /\ quote.total = Selling - cut + quote.delivery + quote.tax + quote.charge
  BY DEF QuoteIsExplained, On
<1>1. /\ quote.savings \in Int /\ quote.discount \in Int /\ quote.total \in Int
      /\ quote.delivery \in Int /\ quote.tax \in Int /\ quote.charge \in Int
  BY DEF QuoteInv, QuoteRecord
<1>2. Subtotal \in Int /\ Selling \in Int /\ Selling <= Subtotal
  <2>1. quote.lines \in Lines
    BY DEF QuoteInv, QuoteRead, Priceable
  <2> QED
    BY <2>1, LinesAddUp, Totals
<1>3. /\ quote.savings = Subtotal - Selling /\ quote.discount <= Subtotal
      /\ quote.total = Subtotal - quote.discount + quote.delivery + quote.tax + quote.charge
  BY DEF QuoteInv, QuoteReduced, QuoteSummed, Reduced
<1>4. /\ quote.discount >= quote.savings /\ (quote.applied \/ quote.discount = quote.savings)
      /\ quote.delivery \in Nat /\ quote.tax \in Nat /\ quote.charge \in Nat
  BY DEF SoundInv, SoundQuote, Reduced
<1>5. quote.applied \/ quote.discount - quote.savings = 0
  BY <1>1, <1>4
<1> HIDE DEF Subtotal, Selling
<1> QED
  BY <1>1, <1>2, <1>3, <1>4, <1>5

\* Where no amount was entered as a negative one, a quote is what its lines cost
\* less what the promo takes, plus delivery, tax and the surcharge, for any
\* catalogue, any carts and any edits between its statements (priceCart).
THEOREM QuotesAreExplained ==
    ASSUME NothingNegative PROVE StorefrontSpec => []QuoteIsExplained
<1>1. StorefrontInit => QuoteInv /\ SoundInv
  BY StorefrontAssumption, QuoteInit
<1>2. (QuoteInv /\ SoundInv) /\ [StorefrontNext]_storefront => (QuoteInv /\ SoundInv)'
  BY StorefrontAssumption, QuoteStep
<1> QED
  BY <1>1, <1>2, QuoteExplained, PTL DEF StorefrontSpec


-----------------------------------------------------------------------------
(* Pages: a date is lost only to a request that never saw it.              *)

LivePage == [exists : {TRUE}, shown : BOOLEAN, stamp : Nat]
Saving == [pc : {"save"}, of : Pages, shown : BOOLEAN, saw : LivePage, since : Nat]

PagesTyped ==
    /\ edits \in Nat
    /\ page \in [Pages -> LivePage \cup {NoPage}]
    /\ editor \in [Editors -> Saving \cup {EditorIdle}]

\* Nothing is dated later than the last transaction, and a request that saw an
\* undated page began before whatever dated it since.
DatesInOrder ==
    /\ \A g \in Pages : page[g].exists => page[g].stamp <= edits
    /\ \A e \in Editors : editor[e].pc = "save" =>
          LET g == editor[e].of IN
          /\ editor[e].since <= edits
          /\ editor[e].saw.stamp = 0 /\ page[g].exists /\ page[g].stamp # 0 =>
                editor[e].since < page[g].stamp
PagesInv == PagesTyped /\ DatesInOrder

LEMMA PageShape ==
    ASSUME PagesTyped, NEW g \in Pages
    PROVE  /\ page[g].exists => page[g] \in LivePage /\ page[g].stamp \in Nat
           /\ ~page[g].exists => page[g] = NoPage
<1>1. page[g] \in LivePage \/ page[g] = NoPage
  BY DEF PagesTyped
<1>2. NoPage.exists = FALSE
  BY DEF NoPage
<1>3. ASSUME NEW r \in LivePage PROVE r.exists = TRUE /\ r.stamp \in Nat
  BY DEF LivePage
<1> QED
  BY <1>1, <1>2, <1>3

LEMMA EditorShape ==
    ASSUME PagesTyped, NEW e \in Editors
    PROVE  /\ editor[e].pc = "save" =>
                 /\ editor[e] \in Saving /\ editor[e].of \in Pages /\ editor[e].since \in Nat
                 /\ editor[e].saw \in LivePage /\ editor[e].saw.stamp \in Nat
                 /\ editor[e].shown \in BOOLEAN
           /\ editor[e].pc # "save" => editor[e] = EditorIdle
<1>1. editor[e] \in Saving \/ editor[e] = EditorIdle
  BY DEF PagesTyped
<1>2. EditorIdle.pc = "idle"
  BY DEF EditorIdle
<1>3. ASSUME NEW r \in Saving
      PROVE  /\ r.pc = "save" /\ r.of \in Pages /\ r.since \in Nat /\ r.shown \in BOOLEAN
             /\ r.saw \in LivePage
  BY DEF Saving
<1>4. ASSUME NEW r \in LivePage PROVE r.stamp \in Nat
  BY DEF LivePage
<1> QED
  BY <1>1, <1>2, <1>3, <1>4

LEMMA PagesInit == ASSUME StorefrontAssumption, StorefrontInit PROVE PagesInv
BY DEF StorefrontInit, PagesInv, PagesTyped, DatesInOrder, NoPage, EditorIdle

LEMMA CreatePageStep ==
    ASSUME PagesInv, NEW g \in Pages, CreatePage(g)
    PROVE  PagesInv'
<1>1. PICK shown \in BOOLEAN, stamp \in {0, edits + 1} :
         page' = [page EXCEPT ![g] = [exists |-> TRUE, shown |-> shown, stamp |-> stamp]]
  BY DEF CreatePage
<1>2. edits' = edits + 1 /\ editor' = editor /\ edits \in Nat
  BY DEF CreatePage, Edits, PagesInv, PagesTyped
<1> DEFINE new == [exists |-> TRUE, shown |-> shown, stamp |-> stamp]
<1>3. new \in LivePage /\ new.exists /\ new.stamp = stamp /\ stamp \in Nat
  BY <1>2 DEF LivePage
<1>4. /\ page' \in [Pages -> LivePage \cup {NoPage}] /\ page'[g] = new
      /\ \A h \in Pages \ {g} : page'[h] = page[h]
  BY <1>1, <1>3 DEF PagesInv, PagesTyped
<1> HIDE DEF new
<1>5. PagesTyped'
  BY <1>2, <1>4 DEF PagesInv, PagesTyped
<1>6. ASSUME NEW h \in Pages, page'[h].exists PROVE page'[h].stamp <= edits'
  <2>1. CASE h = g
    BY <1>2, <1>3, <1>4, <2>1
  <2>2. CASE h # g
    BY <1>2, <1>4, <1>6, <2>2, PageShape DEF PagesInv, DatesInOrder
  <2> QED
    BY <2>1, <2>2
<1>7. ASSUME NEW e \in Editors, editor'[e].pc = "save"
      PROVE  LET h == editor'[e].of IN
             /\ editor'[e].since <= edits'
             /\ editor'[e].saw.stamp = 0 /\ page'[h].exists /\ page'[h].stamp # 0 =>
                   editor'[e].since < page'[h].stamp
  <2> DEFINE h == editor[e].of
  <2>1. editor'[e] = editor[e] /\ h \in Pages /\ editor[e].since \in Nat /\ editor[e].since <= edits
    BY <1>2, <1>7, EditorShape DEF PagesInv, DatesInOrder
  <2>2. CASE h = g
    BY <1>2, <1>3, <1>4, <2>1, <2>2
  <2>3. CASE h # g
    BY <1>2, <1>4, <1>7, <2>1, <2>3 DEF PagesInv, DatesInOrder
  <2> QED
    BY <2>2, <2>3
<1> QED
  BY <1>5, <1>6, <1>7 DEF PagesInv, DatesInOrder

LEMMA DeletePageStep ==
    ASSUME PagesInv, NEW g \in Pages, DeletePage(g)
    PROVE  PagesInv'
<1>1. edits' = edits + 1 /\ editor' = editor /\ edits \in Nat
  BY DEF DeletePage, Edits, PagesInv, PagesTyped
<1>2. /\ page' \in [Pages -> LivePage \cup {NoPage}] /\ page'[g] = NoPage
      /\ \A h \in Pages \ {g} : page'[h] = page[h]
  BY DEF DeletePage, PagesInv, PagesTyped
<1>3. PagesTyped'
  BY <1>1, <1>2 DEF PagesInv, PagesTyped
<1>4. \A h \in Pages : page'[h].exists => page'[h] = page[h]
  BY <1>2 DEF NoPage
<1>5. ASSUME NEW h \in Pages, page'[h].exists PROVE page'[h].stamp <= edits'
  BY <1>1, <1>4, <1>5, PageShape DEF PagesInv, DatesInOrder
<1>6. ASSUME NEW e \in Editors, editor'[e].pc = "save"
      PROVE  LET h == editor'[e].of IN
             /\ editor'[e].since <= edits'
             /\ editor'[e].saw.stamp = 0 /\ page'[h].exists /\ page'[h].stamp # 0 =>
                   editor'[e].since < page'[h].stamp
  <2> DEFINE h == editor[e].of
  <2>1. editor'[e] = editor[e] /\ h \in Pages /\ editor[e].since \in Nat /\ editor[e].since <= edits
    BY <1>1, <1>6, EditorShape DEF PagesInv, DatesInOrder
  <2> QED
    BY <1>1, <1>4, <1>6, <2>1 DEF PagesInv, DatesInOrder
<1> QED
  BY <1>3, <1>5, <1>6 DEF PagesInv, DatesInOrder

LEMMA GetPageStep ==
    ASSUME PagesInv, NEW e \in Editors, NEW g \in Pages, GetPage(e, g)
    PROVE  PagesInv'
<1>1. edits' = edits /\ page' = page /\ page[g].exists /\ edits \in Nat
  BY DEF GetPage, PagesInv, PagesTyped
<1>2. PICK shown \in BOOLEAN : editor' = [editor EXCEPT ![e] =
         [pc |-> "save", of |-> g, shown |-> shown, saw |-> page[g], since |-> edits]]
  BY DEF GetPage, Saves
<1> DEFINE new == [pc |-> "save", of |-> g, shown |-> shown, saw |-> page[g], since |-> edits]
<1>3. page[g] \in LivePage /\ page[g].stamp \in Nat
  BY <1>1, PageShape DEF PagesInv
<1>4. new \in Saving /\ new.of = g /\ new.saw = page[g] /\ new.since = edits
  BY <1>1, <1>3 DEF Saving
<1>5. /\ editor' \in [Editors -> Saving \cup {EditorIdle}] /\ editor'[e] = new
      /\ \A k \in Editors \ {e} : editor'[k] = editor[k]
  BY <1>2, <1>4 DEF PagesInv, PagesTyped
<1> HIDE DEF new
<1>6. PagesTyped'
  BY <1>1, <1>5 DEF PagesInv, PagesTyped
<1>7. ASSUME NEW k \in Editors, editor'[k].pc = "save"
      PROVE  LET h == editor'[k].of IN
             /\ editor'[k].since <= edits'
             /\ editor'[k].saw.stamp = 0 /\ page'[h].exists /\ page'[h].stamp # 0 =>
                   editor'[k].since < page'[h].stamp
  <2>1. CASE k = e
    BY <1>1, <1>4, <1>5, <2>1
  <2>2. CASE k # e
    BY <1>1, <1>5, <1>7, <2>2 DEF PagesInv, DatesInOrder
  <2> QED
    BY <2>1, <2>2
<1> QED
  BY <1>1, <1>6, <1>7 DEF PagesInv, DatesInOrder

LEMMA SavePageStep ==
    ASSUME PagesInv, NEW e \in Editors, SavePage(e)
    PROVE  PagesInv'
<1> DEFINE g == editor[e].of
<1>1. editor[e].pc = "save" /\ g \in Pages /\ editor[e].shown \in BOOLEAN /\ edits \in Nat
  BY EditorShape DEF SavePage, PagesInv, PagesTyped
<1>2. /\ editor' \in [Editors -> Saving \cup {EditorIdle}] /\ editor'[e] = EditorIdle
      /\ \A k \in Editors \ {e} : editor'[k] = editor[k]
  BY DEF SavePage, Saves, PagesInv, PagesTyped
<1>3. \A k \in Editors : editor'[k].pc = "save" => editor'[k] = editor[k] /\ editor[k].pc = "save"
  BY <1>2 DEF EditorIdle
<1>4. CASE ~page[g].exists
  <2>1. page' = page /\ edits' = edits
    BY <1>4 DEF SavePage
  <2>2. PagesTyped'
    BY <1>2, <2>1 DEF PagesInv, PagesTyped
  <2> QED
    BY <1>3, <2>1, <2>2 DEF PagesInv, DatesInOrder
<1>5. CASE page[g].exists
  <2> DEFINE stamp == IF StampIfNever(e) THEN edits + 1 ELSE page[g].stamp
             new == [exists |-> TRUE, shown |-> editor[e].shown, stamp |-> stamp]
  <2>1. page[g] \in LivePage /\ page[g].stamp \in Nat
    BY <1>1, <1>5, PageShape DEF PagesInv
  <2>2. edits' = edits + 1 /\ page' = [page EXCEPT ![g] = new]
    BY <1>5 DEF SavePage, Edits, PagesInv, PagesTyped
  <2>3. /\ stamp \in Nat
        /\ stamp = edits + 1 \/ stamp = page[g].stamp
    BY <1>1, <2>1
  <2> HIDE DEF stamp
  <2>4. new \in LivePage /\ new.stamp = stamp /\ new.exists
    BY <1>1, <2>3 DEF LivePage
  <2> HIDE DEF new
  <2>5. /\ page' \in [Pages -> LivePage \cup {NoPage}] /\ page'[g] = new
        /\ \A h \in Pages \ {g} : page'[h] = page[h]
    BY <1>1, <2>2, <2>4 DEF PagesInv, PagesTyped
  <2>6. PagesTyped'
    BY <1>1, <1>2, <2>2, <2>5 DEF PagesInv, PagesTyped
  <2>7. ASSUME NEW h \in Pages, page'[h].exists PROVE page'[h].stamp <= edits'
    <3>1. CASE h = g
      <4>1. page[g].stamp <= edits
        BY <1>1, <1>5 DEF PagesInv, DatesInOrder
      <4> QED
        BY <1>1, <2>1, <2>2, <2>3, <2>4, <2>5, <3>1, <4>1
    <3>2. CASE h # g
      BY <1>1, <2>2, <2>5, <2>7, <3>2, PageShape DEF PagesInv, DatesInOrder
    <3> QED
      BY <3>1, <3>2
  <2>8. ASSUME NEW k \in Editors, editor'[k].pc = "save"
        PROVE  LET h == editor'[k].of IN
               /\ editor'[k].since <= edits'
               /\ editor'[k].saw.stamp = 0 /\ page'[h].exists /\ page'[h].stamp # 0 =>
                     editor'[k].since < page'[h].stamp
    <3> DEFINE h == editor[k].of
    <3>1. editor'[k] = editor[k] /\ editor[k].pc = "save"
      BY <1>3, <2>8
    <3>2. h \in Pages /\ editor[k].since \in Nat /\ editor[k].since <= edits
      BY <3>1, EditorShape DEF PagesInv, DatesInOrder
    <3>3. editor[k].saw.stamp = 0 /\ page[h].exists /\ page[h].stamp # 0 =>
             editor[k].since < page[h].stamp
      BY <3>1 DEF PagesInv, DatesInOrder
    <3>4. CASE h = g
      BY <1>1, <1>5, <2>2, <2>3, <2>4, <2>5, <3>1, <3>2, <3>3, <3>4
    <3>5. CASE h # g
      BY <1>1, <2>2, <2>5, <3>1, <3>2, <3>3, <3>5
    <3> QED
      BY <3>4, <3>5
  <2> QED
    BY <2>6, <2>7, <2>8 DEF PagesInv, DatesInOrder
<1> QED
  BY <1>4, <1>5

LEMMA PagesStep ==
    ASSUME PagesInv, [StorefrontNext]_storefront
    PROVE  PagesInv'
<1>1. CASE Publishing
  BY <1>1, CreatePageStep, DeletePageStep, GetPageStep, SavePageStep DEF Publishing
<1>2. CASE Editing
  <2>1. page' = page /\ editor' = editor /\ edits' = edits + 1 /\ edits \in Nat
    BY <1>2 DEF Editing, EditProduct, EditTiers, EditVariant, RemoveCategory, EditCheckout, Becomes,
                Edits, PagesInv, PagesTyped
  <2>2. PagesTyped'
    BY <2>1 DEF PagesInv, PagesTyped
  <2>3. ASSUME NEW g \in Pages, page'[g].exists PROVE page'[g].stamp <= edits'
    BY <2>1, <2>3, PageShape DEF PagesInv, DatesInOrder
  <2>4. ASSUME NEW e \in Editors, editor'[e].pc = "save" PROVE editor'[e].since <= edits'
    BY <2>1, <2>4, EditorShape DEF PagesInv, DatesInOrder
  <2> QED
    BY <2>1, <2>2, <2>3, <2>4 DEF PagesInv, DatesInOrder
<1>3. CASE Quoting \/ UNCHANGED storefront
  <2>1. page' = page /\ editor' = editor /\ edits' = edits
    BY <1>3 DEF Quoting, Ask, ReadProducts, ReadTiers, ReadVariants, ReadPromo, ReadMethod, ReadZone,
                ReadTax, Done, QuoteGoes, Refuse, storefront
  <2> QED
    BY <2>1 DEF PagesInv, PagesTyped, DatesInOrder
<1> QED
  BY <1>1, <1>2, <1>3 DEF StorefrontNext

\* What a step may do to the date of a page.
StampKept ==
    \A g \in Pages :
        page[g].exists /\ page'[g].exists /\ page[g].stamp # 0 /\ page'[g].stamp # page[g].stamp =>
            \E e \in Editors : editor[e].pc = "save" /\ editor[e].of = g
                                  /\ editor[e].since < page[g].stamp

LEMMA StampStep ==
    ASSUME PagesInv, [StorefrontNext]_storefront
    PROVE  StampKept
<1> SUFFICES ASSUME NEW g \in Pages, page[g].exists, page'[g].exists, page[g].stamp # 0,
                    page'[g].stamp # page[g].stamp
             PROVE  \E e \in Editors : editor[e].pc = "save" /\ editor[e].of = g
                                          /\ editor[e].since < page[g].stamp
  BY DEF StampKept
<1>1. page'[g] # page[g]
  OBVIOUS
<1>2. CASE Quoting \/ Editing \/ UNCHANGED storefront
  BY <1>1, <1>2 DEF Quoting, Ask, ReadProducts, ReadTiers, ReadVariants, ReadPromo, ReadMethod,
     ReadZone, ReadTax, Done, QuoteGoes, Refuse, storefront, Editing, EditProduct, EditTiers, EditVariant,
     RemoveCategory, EditCheckout, Becomes
<1>3. CASE Publishing
  <2>1. ASSUME NEW h \in Pages, CreatePage(h) PROVE FALSE
    BY <1>1, <2>1 DEF CreatePage, PagesInv, PagesTyped
  <2>2. ASSUME NEW h \in Pages, DeletePage(h) PROVE FALSE
    BY <1>1, <2>2 DEF DeletePage, PagesInv, PagesTyped, NoPage
  <2>3. ASSUME NEW h \in Pages, NEW e \in Editors, GetPage(e, h) PROVE FALSE
    BY <1>1, <2>3 DEF GetPage
  <2>4. ASSUME NEW e \in Editors, SavePage(e)
        PROVE  editor[e].pc = "save" /\ editor[e].of = g /\ editor[e].since < page[g].stamp
    <3>1. editor[e].pc = "save" /\ editor[e].of \in Pages
      BY <2>4, EditorShape DEF SavePage, PagesInv
    <3>2. editor[e].of = g
      BY <1>1, <2>4, <3>1 DEF SavePage, PagesInv, PagesTyped
    <3>3. page[g] \in LivePage
      BY PageShape DEF PagesInv
    <3>4. StampIfNever(e)
      BY <2>4, <3>2, <3>3 DEF SavePage, PagesInv, PagesTyped, LivePage
    <3> QED
      BY <3>1, <3>2, <3>4 DEF StampIfNever, PagesInv, DatesInOrder
  <2> QED
    BY <1>3, <2>1, <2>2, <2>3, <2>4 DEF Publishing
<1> QED
  BY <1>2, <1>3 DEF StorefrontNext

\* The date of a page's first publication is replaced only by a request that read
\* the page before that publication, however many pages and editors there are
\* (updatePage: stamped once, on the false to true transition).
THEOREM StampsSurvive == StorefrontSpec => StampSurvivesRepublish
<1>1. StorefrontInit => PagesInv
  BY StorefrontAssumption, PagesInit
<1>2. PagesInv /\ [StorefrontNext]_storefront => PagesInv'
  BY PagesStep
<1>3. PagesInv /\ [StorefrontNext]_storefront => [StampKept]_storefront
  BY StampStep
<1>4. StorefrontSpec => [][StampKept]_storefront
  BY <1>1, <1>2, <1>3, PTL DEF StorefrontSpec
<1> QED
  BY <1>4 DEF StampSurvivesRepublish, StampKept


-----------------------------------------------------------------------------
(* Counting off a list: the places in a total order of a finite set, and   *)
(* how many of them a page takes.                                          *)

Orders(R, S) ==
    /\ \A a \in S : <<a, a>> \notin R
    /\ \A a, b \in S : a # b => <<a, b>> \in R \/ <<b, a>> \in R
    /\ \A a, b, c \in S : <<a, b>> \in R /\ <<b, c>> \in R => <<a, c>> \in R
Places(R, S) == [p \in S |-> Cardinality({r \in S : <<r, p>> \in R})]

\* A total order gives each of n elements a place of its own among 0 .. n - 1.
LEMMA PlacesDiffer ==
    ASSUME NEW S, IsFiniteSet(S), NEW R, Orders(R, S)
    PROVE  /\ Places(R, S) \in Injection(S, 0 .. Cardinality(S) - 1)
           /\ Places(R, S) \in Surjection(S, 0 .. Cardinality(S) - 1)
<1> DEFINE n == Cardinality(S)
           f == Places(R, S)
           Before(p) == {r \in S : <<r, p>> \in R}
<1>1. n \in Nat
  BY FS_CardinalityType
<1>2. ASSUME NEW p \in S
      PROVE  /\ IsFiniteSet(Before(p)) /\ Cardinality(Before(p)) \in Nat
             /\ IsFiniteSet(Before(p) \cup {p})
             /\ Cardinality(Before(p) \cup {p}) = Cardinality(Before(p)) + 1
             /\ f[p] = Cardinality(Before(p))
  <2>1. Before(p) \in SUBSET S /\ p \notin Before(p)
    BY DEF Orders
  <2>2. IsFiniteSet(Before(p)) /\ Cardinality(Before(p)) \in Nat
    BY <2>1, FS_Subset, FS_CardinalityType
  <2>3. f[p] = Cardinality(Before(p))
    BY DEF Places
  <2> HIDE DEF Before, f
  <2>4. /\ IsFiniteSet(Before(p) \cup {p})
        /\ Cardinality(Before(p) \cup {p}) = Cardinality(Before(p)) + 1
    BY <2>1, <2>2, FS_AddElement
  <2> QED
    BY <2>2, <2>3, <2>4
<1>3. ASSUME NEW p \in S, NEW T, IsFiniteSet(T), Before(p) \cup {p} \subseteq T
      PROVE  f[p] < Cardinality(T)
  <2>1. Cardinality(Before(p) \cup {p}) <= Cardinality(T) /\ Cardinality(T) \in Nat
    BY <1>3, FS_Subset, FS_CardinalityType
  <2> HIDE DEF Before, f
  <2> QED
    BY <1>2, <2>1
<1>4. ASSUME NEW p \in S PROVE f[p] \in 0 .. n - 1
  <2>1. Before(p) \cup {p} \subseteq S
    OBVIOUS
  <2>2. f[p] < n
    BY <1>3, <2>1
  <2> HIDE DEF Before, f, n
  <2>3. f[p] \in Nat
    BY <1>2
  <2> QED
    BY <1>1, <2>2, <2>3
<1>5. ASSUME NEW p \in S, NEW q \in S, <<p, q>> \in R PROVE f[p] < f[q]
  <2>1. Before(p) \cup {p} \subseteq Before(q)
    BY <1>5 DEF Orders
  <2> HIDE DEF Before, f
  <2> QED
    BY <1>2, <1>3, <2>1
<1>6. ASSUME NEW p \in S, NEW q \in S, p # q PROVE f[p] # f[q]
  <2>1. <<p, q>> \in R \/ <<q, p>> \in R
    BY <1>6 DEF Orders
  <2> HIDE DEF f, n
  <2>2. f[p] \in Int /\ f[q] \in Int
    BY <1>1, <1>4
  <2> QED
    BY <1>5, <2>1, <2>2
<1>7. f \in [S -> 0 .. n - 1]
  <2>1. f = [p \in S |-> f[p]]
    BY DEF Places
  <2> HIDE DEF f
  <2> QED
    BY <1>4, <2>1
<1> HIDE DEF f, n
<1>8. f \in Injection(S, 0 .. n - 1)
  BY <1>6, <1>7 DEF Injection, IsInjective
<1>9. IsFiniteSet(0 .. n - 1) /\ Cardinality(0 .. n - 1) = n
  <2>1. /\ IsFiniteSet(0 .. n - 1)
        /\ Cardinality(0 .. n - 1) = IF 0 > n - 1 THEN 0 ELSE n - 1 - 0 + 1
    BY <1>1, FS_Interval
  <2> QED
    BY <1>1, <2>1
<1>10. f \in Surjection(S, 0 .. n - 1)
  BY <1>8, <1>9, FS_Injection DEF n
<1> QED
  BY <1>8, <1>10 DEF f, n

\* Of n places, those from a up to b are b - a.
LEMMA PlacesTaken ==
    ASSUME NEW S, NEW n \in Nat, NEW f,
           f \in Injection(S, 0 .. n - 1), f \in Surjection(S, 0 .. n - 1),
           NEW a \in Nat, NEW b \in Nat, a <= b, b <= n
    PROVE  Cardinality({p \in S : a <= f[p] /\ f[p] < b}) = b - a
<1> DEFINE T == {p \in S : a <= f[p] /\ f[p] < b}
           g == [p \in T |-> f[p]]
           I == a .. b - 1
<1>1. ASSUME NEW p \in S PROVE f[p] \in Int
  BY DEF Injection
<1>2. g \in [T -> I]
  BY <1>1
<1>3. g \in Injection(T, I)
  BY <1>2 DEF Injection, IsInjective
<1>4. ASSUME NEW k \in I PROVE \E p \in T : g[p] = k
  <2>1. PICK p \in S : f[p] = k
    BY DEF Surjection
  <2> QED
    BY <2>1
<1>5. g \in Surjection(T, I)
  BY <1>2, <1>4 DEF Surjection
<1>6. IsFiniteSet(I) /\ Cardinality(I) = b - a
  <2>1. IsFiniteSet(I) /\ Cardinality(I) = IF a > b - 1 THEN 0 ELSE b - 1 - a + 1
    BY FS_Interval
  <2> QED
    BY <2>1
<1> HIDE DEF T, g, I
<1>7. Cardinality(T) = Cardinality(I)
  BY <1>3, <1>5, <1>6, FS_Injection
<1> QED
  BY <1>6, <1>7 DEF T


-----------------------------------------------------------------------------
(* The order of a listing.                                                 *)

Fraction == Int \X (Nat \ {0})

\* Fractions with positive denominators are ordered like the numbers they stand for.
LEMMA AheadThrough ==
    ASSUME NEW j \in Fraction, NEW k \in Fraction, NEW l \in Fraction
    PROVE  /\ ~Ahead(k, j) /\ ~Ahead(l, k) => ~Ahead(l, j)
           /\ Ahead(j, k) /\ ~Ahead(l, k) => Ahead(j, l)
           /\ ~Ahead(k, j) /\ Ahead(k, l) => Ahead(j, l)
           /\ Ahead(j, k) => ~Ahead(k, j)
<1> DEFINE a == j[1]
           A == j[2]
           b == k[1]
           B == k[2]
           c == l[1]
           C == l[2]
<1>1. a \in Int /\ b \in Int /\ c \in Int /\ A \in Nat \ {0} /\ B \in Nat \ {0} /\ C \in Nat \ {0}
  BY DEF Fraction
<1>2. /\ Ahead(j, k) <=> a * B < b * A
      /\ Ahead(k, j) <=> b * A < a * B
      /\ Ahead(k, l) <=> b * C < c * B
      /\ Ahead(l, k) <=> c * B < b * C
      /\ Ahead(j, l) <=> a * C < c * A
      /\ Ahead(l, j) <=> c * A < a * C
  BY DEF Ahead
<1> HIDE DEF a, b, c, A, B, C
<1> DEFINE ab == a * B
           ba == b * A
           bc == b * C
           cb == c * B
           ac == a * C
           ca == c * A
<1>3. /\ ab \in Int /\ ba \in Int /\ bc \in Int /\ cb \in Int /\ ac \in Int /\ ca \in Int
  BY <1>1
<1>4. ab * C = ac * B /\ ba * C = bc * A /\ cb * A = ca * B
  BY <1>1
<1> HIDE DEF ab, ba, bc, cb, ac, ca
<1>5. ASSUME NEW x \in Int, NEW y \in Int, NEW z \in Nat \ {0}
      PROVE  (x < y <=> x * z < y * z) /\ (x <= y <=> x * z <= y * z)
  OBVIOUS
<1>6. /\ ab <= ba <=> ab * C <= ba * C
      /\ ab < ba <=> ab * C < ba * C
      /\ bc <= cb <=> bc * A <= cb * A
      /\ bc < cb <=> bc * A < cb * A
      /\ ac <= ca <=> ac * B <= ca * B
      /\ ac < ca <=> ac * B < ca * B
  BY <1>1, <1>3, <1>5
<1> DEFINE x == ab * C
           y == ba * C
           z == cb * A
<1>7. x \in Int /\ y \in Int /\ z \in Int
  BY <1>1, <1>3
<1>8. /\ ab <= ba <=> x <= y
      /\ ab < ba <=> x < y
      /\ bc <= cb <=> y <= z
      /\ bc < cb <=> y < z
      /\ ac <= ca <=> x <= z
      /\ ac < ca <=> x < z
  BY <1>4, <1>6
<1> HIDE DEF x, y, z
<1>9. /\ Ahead(j, k) <=> x < y
      /\ Ahead(k, j) <=> y < x
      /\ Ahead(k, l) <=> y < z
      /\ Ahead(l, k) <=> z < y
      /\ Ahead(j, l) <=> x < z
      /\ Ahead(l, j) <=> z < x
  <2>1. /\ Ahead(j, k) <=> ab < ba
        /\ Ahead(k, j) <=> ba < ab
        /\ Ahead(k, l) <=> bc < cb
        /\ Ahead(l, k) <=> cb < bc
        /\ Ahead(j, l) <=> ac < ca
        /\ Ahead(l, j) <=> ca < ac
    BY <1>2 DEF ab, ba, bc, cb, ac, ca
  <2> QED
    BY <1>3, <1>7, <1>8, <2>1
<1> QED
  BY <1>7, <1>9

\* What a listing may hold: rows with a price that is no less than nothing.
Sellable(p) ==
    /\ p \in Products /\ shop.product[p] \in ProductRow
    /\ shop.product[p].price \in Nat

LEMMA KeyIsFraction ==
    ASSUME StorefrontAssumption, NEW p, Sellable(p), NEW q
    PROVE  Key(p, q) \in Fraction
<1> DEFINE r == shop.product[p]
           fp == r.offer - r.price
           one == 1
<1>1. /\ EffectivePrice(p) \in Int /\ Made[p] \in Int /\ r.price \in Nat
      /\ r.offer # None => r.offer \in Int
  BY DEF Sellable, ProductRow, EffectivePrice, StorefrontAssumption
<1>2. r.offer # None => fp \in Int
  BY <1>1
<1>3. -EffectivePrice(p) \in Int /\ -Made[p] \in Int
  BY <1>1
<1>4. ASSUME NEW n \in Int, NEW d \in Nat \ {0} PROVE <<n, d>> \in Fraction
  BY DEF Fraction
<1>5. CASE q.sort = "lo"
  BY <1>1, <1>4, <1>5 DEF Key
<1>6. CASE q.sort = "hi"
  BY <1>3, <1>4, <1>6 DEF Key
<1>7. CASE q.sort = "discount"
  <2>1. Key(p, q) = IF r.offer = None \/ r.price = 0 THEN <<0, 1>> ELSE <<fp, r.price>>
    BY <1>7 DEF Key
  <2> HIDE DEF r, fp
  <2>2. CASE r.offer = None \/ r.price = 0
    BY <1>4, <2>1, <2>2
  <2>3. CASE ~(r.offer = None \/ r.price = 0)
    BY <1>1, <1>2, <1>4, <2>1, <2>3
  <2> QED
    BY <2>2, <2>3
<1>8. CASE q.sort \notin {"lo", "hi", "discount"}
  BY <1>3, <1>4, <1>8 DEF Key
<1> QED
  BY <1>5, <1>6, <1>7, <1>8

Listing(q, S) == {e \in S \X S : Sorted(e[1], e[2], q)}

\* The order of a listing is total: the id settles what the keys leave open.
LEMMA ListingIsOrdered ==
    ASSUME StorefrontAssumption, NEW S, \A p \in S : Sellable(p), NEW q
    PROVE  Orders(Listing(q, S), S)
<1> DEFINE R == Listing(q, S)
           K(p) == Key(p, q)
<1>1. \A a, b \in S : <<a, b>> \in R <=>
         Ahead(K(a), K(b)) \/ (~Ahead(K(b), K(a)) /\ a < b)
  BY DEF Listing, Sorted
<1>2. \A p \in S : K(p) \in Fraction /\ p \in Nat
  BY KeyIsFraction DEF Sellable, StorefrontAssumption
<1> HIDE DEF R, K
<1>3. ASSUME NEW a \in S PROVE <<a, a>> \notin R
  BY <1>1, <1>2, AheadThrough
<1>4. ASSUME NEW a \in S, NEW b \in S, a # b PROVE <<a, b>> \in R \/ <<b, a>> \in R
  BY <1>1, <1>2, <1>4
<1>5. ASSUME NEW a \in S, NEW b \in S, NEW c \in S, <<a, b>> \in R, <<b, c>> \in R
      PROVE  <<a, c>> \in R
  <2>1. /\ Ahead(K(a), K(b)) => ~Ahead(K(b), K(a))
        /\ Ahead(K(b), K(c)) => ~Ahead(K(c), K(b))
    BY <1>2, AheadThrough
  <2>2. ~Ahead(K(b), K(a)) /\ ~Ahead(K(c), K(b))
    BY <1>1, <1>5, <2>1
  <2>3. CASE Ahead(K(a), K(b)) \/ Ahead(K(b), K(c))
    <3>1. Ahead(K(a), K(c))
      BY <1>2, <2>2, <2>3, AheadThrough
    <3> QED
      BY <1>1, <3>1
  <2>4. CASE ~Ahead(K(a), K(b)) /\ ~Ahead(K(b), K(c))
    <3>1. a < b /\ b < c
      BY <1>1, <1>5, <2>4
    <3>2. ~Ahead(K(c), K(a))
      BY <1>2, <2>2, AheadThrough
    <3>3. a < c
      BY <1>2, <3>1
    <3> QED
      BY <1>1, <3>2, <3>3
  <2> QED
    BY <2>3, <2>4
<1> QED
  BY <1>3, <1>4, <1>5 DEF Orders, R


-----------------------------------------------------------------------------
(* The pages of a listing, and the counts that lead to them.               *)

\* Of N products, P to a page, page n takes those from (n - 1) * P, and stops at N.
LEMMA PageBounds ==
    ASSUME NEW N \in Nat, NEW P \in Nat \ {0}, NEW n \in 1 .. (N + P - 1) \div P
    PROVE  /\ (n - 1) * P \in Nat /\ n * P \in Nat
           /\ Least(n * P, N) \in Nat /\ Least(n * P, N) <= N
           /\ (n - 1) * P <= Least(n * P, N)
           /\ Least(n * P, N) - (n - 1) * P = Least(P, N - (n - 1) * P)
<1> DEFINE M == N + P - 1
           d == M \div P
           a == (n - 1) * P
           b == n * P
<1>1. M \in Nat /\ d \in Nat /\ d * P <= M
  OBVIOUS
<1> HIDE DEF d
<1>2. n \in Nat /\ 1 <= n /\ n <= d
  BY <1>1 DEF d
<1>3. a \in Nat /\ b \in Nat /\ b = a + P
  BY <1>2
<1>4. b <= d * P
  BY <1>1, <1>2
<1> HIDE DEF a, b
<1>5. b <= N + P - 1
  <2> DEFINE m == d * P
  <2>1. m \in Int /\ m <= M /\ b <= m
    BY <1>1, <1>4
  <2> HIDE DEF m
  <2> QED
    BY <1>3, <2>1
<1>6. CASE b <= N
  BY <1>3, <1>6 DEF Least, a, b
<1>7. CASE N < b
  BY <1>3, <1>5, <1>7 DEF Least, a, b
<1> QED
  BY <1>3, <1>6, <1>7

\* What the pages of a list of so many products are.
PagesOf(q, count) ==
    LET pages == 1 .. (count + PageSize - 1) \div PageSize IN
    /\ publicProducts(q, 1).total = count
    /\ \A n \in pages :
          Cardinality(publicProducts(q, n).items) = Least(PageSize, count - (n - 1) * PageSize)
    /\ \A n, m \in pages :
          n # m => publicProducts(q, n).items \cap publicProducts(q, m).items = {}

\* A list is cut into its pages, whatever it is sorted by.
LEMMA ListIsPaged ==
    ASSUME StorefrontAssumption, NEW q, \A p \in catalogueFilters(q) : Sellable(p)
    PROVE  PagesOf(q, Cardinality(catalogueFilters(q)))
<1> DEFINE S == catalogueFilters(q)
           R == Listing(q, S)
           f == Places(R, S)
           N == Cardinality(S)
           P == PageSize
           items(n) == publicProducts(q, n).items
<1>1. S \subseteq Products
  BY DEF Sellable
<1>2. IsFiniteSet(S) /\ N \in Nat /\ P \in Nat \ {0}
  BY <1>1, FS_Subset, FS_CardinalityType DEF StorefrontAssumption
<1>3. f \in Injection(S, 0 .. N - 1) /\ f \in Surjection(S, 0 .. N - 1)
  BY <1>2, ListingIsOrdered, PlacesDiffer
<1>4. publicProducts(q, 1).total = N
  BY DEF publicProducts
<1>5. ASSUME NEW n \in Int PROVE items(n) = {p \in S : (n - 1) * P <= f[p] /\ f[p] < n * P}
  <2>1. ASSUME NEW p \in S PROVE f[p] = Cardinality({r \in S : Sorted(r, p, q)})
    <3>1. {r \in S : Sorted(r, p, q)} = {r \in S : <<r, p>> \in R}
      BY DEF Listing
    <3> QED
      BY <3>1 DEF Places
  <2>2. items(n) = {p \in S : /\ (n - 1) * P <= Cardinality({r \in S : Sorted(r, p, q)})
                              /\ Cardinality({r \in S : Sorted(r, p, q)}) < n * P}
    BY DEF publicProducts
  <2> HIDE DEF S, f, items
  <2> QED
    BY <2>1, <2>2
<1> HIDE DEF S, f, N, P, items, R
<1>6. \A p \in S : f[p] \in Int /\ 0 <= f[p] /\ f[p] < N
  BY <1>2, <1>3 DEF Injection
<1>7. ASSUME NEW n \in 1 .. (N + P - 1) \div P
      PROVE  Cardinality(items(n)) = Least(P, N - (n - 1) * P)
  <2> DEFINE a == (n - 1) * P
             c == n * P
             b == Least(c, N)
  <2>0. n \in Int
    OBVIOUS
  <2>1. a \in Nat /\ c \in Nat /\ b \in Nat /\ b <= N /\ a <= b /\ b - a = Least(P, N - a)
    BY <1>2, PageBounds
  <2>2. items(n) = {p \in S : a <= f[p] /\ f[p] < c}
    BY <1>5, <2>0
  <2>3. b = IF c < N THEN c ELSE N
    BY DEF Least
  <2> HIDE DEF a, b, c
  <2>4. items(n) = {p \in S : a <= f[p] /\ f[p] < b}
    BY <1>2, <1>6, <2>1, <2>2, <2>3
  <2>5. Cardinality({p \in S : a <= f[p] /\ f[p] < b}) = b - a
    <3>1. a \in Nat /\ b \in Nat /\ a <= b /\ b <= N /\ N \in Nat
      BY <1>2, <2>1
    <3> QED
      BY ONLY <1>3, <3>1, PlacesTaken
  <2> QED
    BY <2>1, <2>4, <2>5 DEF a
<1>8. ASSUME NEW n \in Int, NEW m \in Int, n < m PROVE items(n) \cap items(m) = {}
  <2>1. n * P \in Int /\ (m - 1) * P \in Int /\ n * P <= (m - 1) * P
    BY <1>2, <1>8
  <2> DEFINE x == n * P
             y == (m - 1) * P
  <2>2. \A p \in items(n) : f[p] < x
    BY <1>5
  <2>3. \A p \in items(m) : y <= f[p] /\ f[p] \in Int
    BY <1>5, <1>6
  <2> HIDE DEF x, y
  <2> QED
    BY <2>1, <2>2, <2>3 DEF x, y
<1>9. ASSUME NEW n \in 1 .. (N + P - 1) \div P, NEW m \in 1 .. (N + P - 1) \div P, n # m
      PROVE  items(n) \cap items(m) = {}
  <2>1. n \in Int /\ m \in Int /\ (n < m \/ m < n)
    BY <1>9
  <2> QED
    BY <1>8, <2>1
<1> QED
  BY <1>4, <1>7, <1>9 DEF PagesOf, S, N, P, items


\* What a list shows does not depend on how it is sorted.
LEMMA SortedAnyWay ==
    ASSUME NEW q \in Query, NEW sort \in {"lo", "hi", "discount", "pop"}
    PROVE  /\ [q EXCEPT !.sort = sort] \in Query
           /\ catalogueFilters([q EXCEPT !.sort = sort]) = catalogueFilters(q)
<1> DEFINE r == [q EXCEPT !.sort = sort]
<1>1. r \in Query
  BY DEF Query
<1>2. /\ r.category = q.category /\ r.categorySlug = q.categorySlug
      /\ r.sub = q.sub /\ r.subSlug = q.subSlug /\ r.brands = q.brands /\ r.onSale = q.onSale
      /\ r.low = q.low /\ r.high = q.high
  BY DEF Query
<1> HIDE DEF r
<1>3. Missing(r) = Missing(q)
  BY <1>2 DEF Missing
<1>4. \A p : InCategory(p, r) = InCategory(p, q) /\ Filtered(p, r) = Filtered(p, q)
  BY <1>2 DEF InCategory, Filtered
<1>5. catalogueFilters(r) = catalogueFilters(q)
  BY <1>3, <1>4 DEF catalogueFilters
<1> QED
  BY <1>1, <1>5 DEF r

LEMMA PagedByCount ==
    ASSUME StorefrontAssumption, SoundShop(shop), shop \in Shop, NEW q \in Query
    PROVE  Paged(q, Cardinality(catalogueFilters(q)))
<1>1. ASSUME NEW sort \in {"lo", "hi", "discount", "pop"}
      PROVE  PagesOf([q EXCEPT !.sort = sort], Cardinality(catalogueFilters(q)))
  <2>1. \A p \in catalogueFilters(q) : Sellable(p)
    BY DEF catalogueFilters, Active, Sellable, Shop, SoundShop, SoundProduct
  <2>2. catalogueFilters([q EXCEPT !.sort = sort]) = catalogueFilters(q)
    BY SortedAnyWay
  <2> DEFINE r == [q EXCEPT !.sort = sort]
  <2>3. \A p \in catalogueFilters(r) : Sellable(p)
    BY <2>1, <2>2
  <2>4. catalogueFilters(r) = catalogueFilters(q)
    BY <2>2
  <2> HIDE DEF r
  <2>5. PagesOf(r, Cardinality(catalogueFilters(r)))
    BY <2>3, ListIsPaged
  <2> QED
    BY <2>4, <2>5 DEF r
<1> QED
  BY <1>1 DEF Paged, PagesOf

\* A facet leaves out every filter but the category, so what it counts is what
\* its brand's list holds.
LEMMA BrandCounts ==
    ASSUME NEW q \in Query, NEW b \in Brands
    PROVE  /\ BrandList(q, b) \in Query
           /\ publicBrands(q)[b] = Cardinality(catalogueFilters(BrandList(q, b)))
<1> DEFINE s == Scope(q)
           r == BrandList(q, b)
<1>1. /\ s \in Query
      /\ s.category = q.category /\ s.categorySlug = q.categorySlug
      /\ s.sub = q.sub /\ s.subSlug = q.subSlug /\ s.brands = {} /\ s.onSale = FALSE
      /\ s.low = None /\ s.high = None
  BY DEF Query, Scope
<1>2. /\ r \in Query
      /\ r.category = s.category /\ r.categorySlug = s.categorySlug
      /\ r.sub = s.sub /\ r.subSlug = s.subSlug /\ r.brands = {b} /\ r.onSale = s.onSale
      /\ r.low = s.low /\ r.high = s.high
  <2> HIDE DEF s
  <2>1. r = [s EXCEPT !.brands = {b}]
    BY DEF BrandList, s
  <2> QED
    BY <1>1, <2>1 DEF Query
<1>3. publicBrands(q)[b] = Cardinality({p \in catalogueFilters(s) : shop.product[p].brand = b})
  BY DEF publicBrands
<1> HIDE DEF r, s
<1>4. Missing(r) = Missing(s)
  BY <1>2 DEF Missing
<1>5. \A p : InCategory(p, r) = InCategory(p, s)
  BY <1>2 DEF InCategory
<1>6. \A p : Filtered(p, s) /\ (Filtered(p, r) <=> shop.product[p].brand = b)
  BY <1>1, <1>2 DEF Filtered
<1>7. {p \in catalogueFilters(s) : shop.product[p].brand = b} = catalogueFilters(r)
  BY <1>4, <1>5, <1>6 DEF catalogueFilters
<1> QED
  BY <1>2, <1>3, <1>7 DEF r

\* The same of a category.
LEMMA CategoryCounts ==
    ASSUME StorefrontAssumption, shop \in Shop, NEW q \in Query, NEW c \in DOMAIN publicCategories
    PROVE  /\ CategoryList(q, c) \in Query
           /\ publicCategories[c] = Cardinality(catalogueFilters(CategoryList(q, c)))
<1> DEFINE s == Scope(q)
           r == CategoryList(q, c)
<1>1. /\ s \in Query
      /\ s.brands = {} /\ s.onSale = FALSE /\ s.low = None /\ s.high = None
  BY DEF Query, Scope
<1>2. /\ DOMAIN shop.category \subseteq Categories
      /\ c \in DOMAIN shop.category
      /\ publicCategories[c] =
            Cardinality({p \in Products : Active(p) /\ shop.product[p].category = c})
  BY DEF publicCategories, Shop
<1>3. c \in Categories /\ c # None /\ None \notin DOMAIN shop.category
  BY <1>2 DEF StorefrontAssumption
<1>4. /\ r \in Query
      /\ r.category = None /\ r.categorySlug = c
      /\ r.sub = None /\ r.subSlug = None /\ r.brands = {} /\ r.onSale = FALSE
      /\ r.low = None /\ r.high = None
  <2> HIDE DEF s
  <2>1. r = [s EXCEPT !.category = None, !.categorySlug = c, !.sub = None, !.subSlug = None]
    BY DEF CategoryList, s
  <2> QED
    BY <1>1, <1>3, <2>1 DEF Query
<1> HIDE DEF r, s
<1>5. ~Missing(r)
  BY <1>2, <1>3, <1>4 DEF Missing, Resolved
<1>6. \A p : InCategory(p, r) <=> shop.product[p].category = c
  BY <1>2, <1>3, <1>4 DEF InCategory, Resolved
<1>7. \A p : Filtered(p, r)
  BY <1>4 DEF Filtered
<1>8. {p \in Products : Active(p) /\ shop.product[p].category = c} = catalogueFilters(r)
  BY <1>5, <1>6, <1>7 DEF catalogueFilters
<1> QED
  BY <1>2, <1>4, <1>8 DEF r

LEMMA CountsExplained ==
    ASSUME StorefrontAssumption PROVE QuoteInv /\ SoundInv => CountsLeadToPages
<1> SUFFICES ASSUME QuoteInv, SoundInv PROVE CountsLeadToPages
  OBVIOUS
<1>1. shop \in Shop /\ SoundShop(shop) /\ Queries \subseteq Query
  BY DEF QuoteInv, SoundInv, StorefrontAssumption
<1>2. ASSUME NEW q \in Queries, NEW b \in Brands PROVE Paged(BrandList(q, b), publicBrands(q)[b])
  <2>1. q \in Query
    BY <1>1
  <2> DEFINE r == BrandList(q, b)
  <2>2. r \in Query /\ publicBrands(q)[b] = Cardinality(catalogueFilters(r))
    BY <2>1, BrandCounts
  <2> HIDE DEF r
  <2>3. Paged(r, Cardinality(catalogueFilters(r)))
    BY <1>1, <2>2, PagedByCount
  <2> QED
    BY <2>2, <2>3 DEF r
<1>3. ASSUME NEW q \in Queries, NEW c \in DOMAIN publicCategories
      PROVE  Paged(CategoryList(q, c), publicCategories[c])
  <2>1. q \in Query
    BY <1>1
  <2> DEFINE r == CategoryList(q, c)
  <2>2. r \in Query /\ publicCategories[c] = Cardinality(catalogueFilters(r))
    BY <1>1, <2>1, CategoryCounts
  <2> HIDE DEF r
  <2>3. Paged(r, Cardinality(catalogueFilters(r)))
    BY <1>1, <2>2, PagedByCount
  <2> QED
    BY <2>2, <2>3 DEF r
<1> QED
  BY <1>2, <1>3 DEF CountsLeadToPages

\* Where no price was entered as a negative one, every count the storefront shows
\* is the number of products its listing pages through, each on one page only, for
\* any catalogue, any size of page and whatever is edited (publicBrands, publicProducts).
THEOREM CountsArePaged ==
    ASSUME NothingNegative PROVE StorefrontSpec => []CountsLeadToPages
<1>1. StorefrontInit => QuoteInv /\ SoundInv
  BY StorefrontAssumption, QuoteInit
<1>2. (QuoteInv /\ SoundInv) /\ [StorefrontNext]_storefront => (QuoteInv /\ SoundInv)'
  BY StorefrontAssumption, QuoteStep
<1>3. QuoteInv /\ SoundInv => CountsLeadToPages
  BY StorefrontAssumption, CountsExplained
<1> QED
  BY <1>1, <1>2, <1>3, PTL DEF StorefrontSpec
=============================================================================
