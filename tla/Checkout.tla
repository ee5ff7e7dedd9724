------------------------------ MODULE Checkout ------------------------------
(***************************************************************************)
(* Placing an order: PublicCheckoutService.placeOrder                      *)
(* (src/src/storefront/public-checkout.service.ts), the admin's            *)
(* CrudService.create on orders, the allocation of order codes             *)
(* (src/src/workflows/order-code.ts), the lookup by code and token, and    *)
(* the job that keeps promotion statuses in step with their window.        *)
(*                                                                         *)
(* A request runs in one READ COMMITTED transaction on a connection        *)
(* (Slots).  `run` is where it stands: what its SELECTs returned, and by   *)
(* its pc which rows it has written or locked.  Its writes become visible  *)
(* at Commit.  Goods are units that may still be promised: Fulfilment is   *)
(* how they are reserved.  Money is the cart's total, priced in Pricing.   *)
(***************************************************************************)
EXTENDS Integers, FiniteSets

CONSTANTS
    Requests,      \* the carts that are submitted, each once
    Slots,
    Skus, Promos,
    CartOf,        \* what a request asks for, see Cart
    Phones, Emails,
    NoPromo, NoEmail, NoCode,
    Digitless,     \* a hand-typed code without a digit
    Stock,         \* units free when the model starts
    Limit,         \* usage_limit of a promotion; 0 is none
    Window,        \* valid_from and valid_to, as days
    Days           \* bound: the days the model runs

FirstCode == 1000

\* What an order code comes down to: its number, or no digit at all.
Codes == Nat \cup {Digitless}

\* by: who places it.  A customer's order names a phone and maybe an email;
\* the admin's may name a code and says nothing to promotions or customers.
Cart == [by : {"customer", "admin"}, phone : Phones, email : Emails \cup {NoEmail},
         wants : [Skus -> Nat], promo : Promos \cup {NoPromo},
         code : Codes \cup {NoCode}, total : Nat]

ASSUME ConstantsAssumption ==
    /\ IsFiniteSet(Requests) /\ IsFiniteSet(Slots)
    /\ CartOf \in [Requests -> Cart]
    /\ NoCode \notin Codes /\ NoPromo \notin Promos /\ NoEmail \notin Emails
    /\ Digitless \notin Nat
    /\ Stock \in [Skus -> Nat] /\ Limit \in [Promos -> Nat]
    /\ Window \in [Promos -> [from : Nat, to : Nat]] /\ Days \in Nat \ {0}

VARIABLES
    order,     \* committed orders, by the request that placed each
    customer,  \* committed customer rows, by the request that created each
    free,      \* units of each sku that may still be promised
    promo,     \* status and uses of each promotion
    today,
    run,       \* what each connection is doing
    fate       \* what became of each request, and the receipt it returned

vars == <<order, customer, free, promo, today, run, fate>>

NoOrder == [placed |-> FALSE]
NoCustomer == [exists |-> FALSE]
Idle == [pc |-> "idle"]
Fresh == [is |-> "new"]

Booked == {r \in Requests : order[r].placed}
Known == {r \in Requests : customer[r].exists}
Running == {t \in Slots : run[t] # Idle}

Busy(t, pc) == t \in Running /\ run[t].pc = pc
My(t) == run[t].req
MyCart(t) == CartOf[My(t)]
Customer(r) == CartOf[r].by = "customer"

-----------------------------------------------------------------------------
(* nextOrderCode, over the orders its SELECT sees.                         *)

\* The row ORDER BY ... DESC puts first: a code without digits sorts as NULL,
\* before every number.
Front(rows) ==
    LET wordy == {r \in rows : order[r].code = Digitless} IN
    IF wordy # {} THEN wordy
    ELSE {r \in rows : \A q \in rows : order[r].code >= order[q].code}

\* Mutant: the number of orders instead of the highest number.
CountedCode(rows) == FirstCode + Cardinality(rows)

NextCode(rows) ==
    LET highest == order[CHOOSE r \in Front(rows) : TRUE].code IN
    IF rows # {} /\ highest # Digitless /\ highest >= FirstCode THEN highest + 1
    ELSE FirstCode

\* The rows a slot's locking SELECT still finds: those it saw, less the deleted.
Found(t) == run[t].seen \cap Booked

\* Rows and keys a slot holds until its transaction ends.
Coded(t) == t \in Running /\ run[t].pc \in {"insert", "reserve", "commit"}
Locks(t) == IF Coded(t) THEN run[t].locked ELSE {}
Inserted(t) == t \in Running /\ run[t].pc \in {"reserve", "commit"}
Wanted(r) == {s \in Skus : CartOf[r].wants[s] > 0}
HoldsLevels(t) == IF Busy(t, "commit") THEN Wanted(My(t)) ELSE {}

-----------------------------------------------------------------------------
Init ==
    /\ order = [r \in Requests |-> NoOrder]
    /\ customer = [r \in Requests |-> NoCustomer]
    /\ free = Stock
    /\ promo = [p \in Promos |-> [status |-> "scheduled", used |-> 0]]
    /\ today = 1
    /\ run = [t \in Slots |-> Idle]
    /\ fate = [r \in Requests |-> Fresh]

Goes(t, next) == run' = [run EXCEPT ![t] = next]

\* The transaction ends without effect.
Ends(t, how) ==
    /\ fate' = [fate EXCEPT ![My(t)] = [is |-> how]]
    /\ Goes(t, Idle)
    /\ UNCHANGED <<order, customer, free, promo, today>>

Stays == UNCHANGED <<order, customer, free, promo, today, fate>>

Begin(t, r) ==
    /\ run[t] = Idle /\ fate[r] = Fresh
    /\ fate' = [fate EXCEPT ![r] = [is |-> "running"]]
    /\ Goes(t, [pc |-> IF Customer(r) THEN "price" ELSE "code", req |-> r,
                who |-> r, seen |-> {}, locked |-> {}, code |-> CartOf[r].code])
    /\ UNCHANGED <<order, customer, free, promo, today>>

\* Mutant: the usage limit is not read.
RedeemableEver(p) ==
    promo[p].status = "active" /\ Window[p].from <= today /\ today <= Window[p].to

\* resolvePromo: decided from an unlocked read.
Redeemable(p) ==
    /\ promo[p].status = "active"
    /\ Window[p].from <= today /\ today <= Window[p].to
    /\ Limit[p] > 0 => promo[p].used < Limit[p]

\* upsertCustomer: any row with the phone or the email, or a new one.
Matching(r) ==
    {k \in Known : \/ customer[k].phone = CartOf[r].phone
                   \/ /\ CartOf[r].email # NoEmail
                      /\ customer[k].email = CartOf[r].email}

\* priceCart and the customer's lookup: plain SELECTs, taken at one instant.
Price(t) ==
    /\ Busy(t, "price")
    /\ IF MyCart(t).promo = NoPromo \/ Redeemable(MyCart(t).promo)
       THEN /\ \E k \in IF Matching(My(t)) = {} THEN {My(t)} ELSE Matching(My(t)) :
                  Goes(t, [run[t] EXCEPT !.pc = "code", !.who = k])
            /\ Stays
       ELSE Ends(t, "refused")

\* The statement's snapshot: the orders it will sort.
ReadHighest(t) ==
    /\ Busy(t, "code")
    /\ Goes(t, IF MyCart(t).code # NoCode THEN [run[t] EXCEPT !.pc = "insert"]
               ELSE [run[t] EXCEPT !.pc = "lock", !.seen = Booked])
    /\ Stays

\* FOR UPDATE: waits for whoever holds the highest row it saw.
LockHighest(t) ==
    /\ Busy(t, "lock")
    /\ \A u \in Slots \ {t} : Locks(u) \cap Front(Found(t)) = {}
    /\ Goes(t, [run[t] EXCEPT !.pc = "insert", !.locked = Front(Found(t)),
                              !.code = NextCode(Found(t))])
    /\ Stays

Taken(c) == \E r \in Booked : order[r].code = c

\* Mutant: no unique index on (tenant, code).
InsertAnyway(t) ==
    Busy(t, "insert") /\ Goes(t, [run[t] EXCEPT !.pc = "reserve"]) /\ Stays

\* Mutant: a collision asks for another code for as long as it takes.
InsertRetrying(t) ==
    /\ Busy(t, "insert")
    /\ \A u \in Slots \ {t} : Inserted(u) => run[u].code # run[t].code
    /\ Goes(t, [run[t] EXCEPT !.pc = IF Taken(run[t].code) THEN "code" ELSE "reserve"])
    /\ Stays

\* The unique index waits for an uncommitted row with the same code.  On a
\* collision withOrderCode asks for another code in a transaction the database
\* has already aborted, so the request fails.
InsertOrder(t) ==
    /\ Busy(t, "insert")
    /\ \A u \in Slots \ {t} : Inserted(u) => run[u].code # run[t].code
    /\ IF Taken(run[t].code) THEN Ends(t, "collided")
       ELSE Goes(t, [run[t] EXCEPT !.pc = "reserve"]) /\ Stays

\* Mutant: a shortage does not throw.
ReserveSome(t) ==
    Busy(t, "reserve") /\ Goes(t, [run[t] EXCEPT !.pc = "commit"]) /\ Stays

\* reserveOrder: every line on its locked level, or the request throws.
Reserve(t) ==
    /\ Busy(t, "reserve")
    /\ \A u \in Slots \ {t} : HoldsLevels(u) \cap Wanted(My(t)) = {}
    /\ IF \A s \in Skus : MyCart(t).wants[s] <= free[s]
       THEN Goes(t, [run[t] EXCEPT !.pc = "commit"]) /\ Stays
       ELSE Ends(t, "refused")

\* Mutant: the count is written from the value read when the cart was priced.
RedeemedOnce(r) ==
    [p \in Promos |-> IF Customer(r) /\ CartOf[r].promo = p
                      THEN [promo[p] EXCEPT !.used = 1] ELSE promo[p]]

\* used = used + 1, on the row as it is now.
Redeemed(r) ==
    [p \in Promos |-> IF Customer(r) /\ CartOf[r].promo = p
                      THEN [promo[p] EXCEPT !.used = @ + 1] ELSE promo[p]]

\* bumpCustomerTotals, on the row found or the one this transaction inserted.
Bumped(k, r) ==
    LET row == IF customer[k].exists THEN customer[k]
               ELSE [exists |-> TRUE, phone |-> CartOf[r].phone,
                     email |-> CartOf[r].email, orders |-> 0, spent |-> 0]
    IN  [row EXCEPT !.orders = @ + 1, !.spent = @ + CartOf[r].total]

Commit(t) ==
    LET r == My(t)
        token == IF Customer(r) THEN {r} ELSE {}   \* publicToken; null for the admin's
    IN
    /\ Busy(t, "commit")
    /\ order' = [order EXCEPT ![r] = [placed |-> TRUE, code |-> run[t].code,
                                      who |-> run[t].who, token |-> token]]
    /\ free' = [s \in Skus |-> free[s] - CartOf[r].wants[s]]
    /\ promo' = Redeemed(r)
    /\ customer' = IF Customer(r)
                   THEN [customer EXCEPT ![run[t].who] = Bumped(run[t].who, r)]
                   ELSE customer
    /\ fate' = [fate EXCEPT ![r] = [is |-> "placed", code |-> run[t].code,
                                    token |-> token, who |-> run[t].who]]
    /\ Goes(t, Idle)
    /\ UNCHANGED today

\* The process or the connection dies before COMMIT.
Crash(t) == run[t] # Idle /\ Ends(t, "lost")

\* The admin deletes an order; the row may not be locked.
Remove(r) ==
    /\ order[r].placed
    /\ \A t \in Slots : r \notin Locks(t)
    /\ order' = [order EXCEPT ![r] = NoOrder]
    /\ UNCHANGED <<customer, free, promo, today, run, fate>>

\* syncPromoCodeStatus: expire what has lapsed, then open what is in its window.
Synced(p) ==
    LET status == IF promo[p].status # "expired" /\ Window[p].to < today THEN "expired"
                  ELSE promo[p].status
    IN  IF status = "scheduled" /\ Window[p].from <= today /\ today <= Window[p].to
        THEN "active" ELSE status

SyncPromos ==
    /\ \E p \in Promos : Synced(p) # promo[p].status
    /\ promo' = [p \in Promos |-> [promo[p] EXCEPT !.status = Synced(p)]]
    /\ UNCHANGED <<order, customer, free, today, run, fate>>

Midnight ==
    /\ today < Days
    /\ today' = today + 1
    /\ UNCHANGED <<order, customer, free, promo, run, fate>>

Step(t) ==
    \/ Price(t) \/ ReadHighest(t) \/ LockHighest(t)
    \/ InsertOrder(t) \/ Reserve(t) \/ Commit(t)

Next ==
    \/ \E t \in Slots : Step(t) \/ Crash(t) \/ \E r \in Requests : Begin(t, r)
    \/ \E r \in Requests : Remove(r)
    \/ SyncPromos \/ Midnight

\* A handler that has started goes on, and the hourly job runs; nothing makes
\* anybody check out, crash, or the day end.
Fairness == WF_vars(SyncPromos) /\ \A t \in Slots : WF_vars(Step(t))

Spec == Init /\ [][Next]_vars /\ Fairness

-----------------------------------------------------------------------------
(* findOrder: the order of this code, if the token is its own.             *)

\* Mutant: the code alone opens an order.
FindOrderByCode(code, token) == {r \in Booked : order[r].code = code}

FindOrder(code, token) ==
    {r \in Booked : order[r].code = code /\ order[r].token = token /\ token # {}}

-----------------------------------------------------------------------------
(* Properties                                                              *)

Placed == {r \in Requests : fate[r].is = "placed"}
PlacedByCustomers == {r \in Placed : Customer(r)}

Txn == [pc : {"price", "code", "lock", "insert", "reserve", "commit"},
        req : Requests, who : Requests, seen : SUBSET Requests,
        locked : SUBSET Requests, code : Codes \cup {NoCode}]

TypeOK ==
    /\ order \in [Requests -> {NoOrder} \cup
          [placed : {TRUE}, code : Codes, who : Requests, token : SUBSET Requests]]
    /\ customer \in [Requests -> {NoCustomer} \cup
          [exists : {TRUE}, phone : Phones, email : Emails \cup {NoEmail},
           orders : Nat, spent : Nat]]
    /\ free \in [Skus -> Nat]
    /\ promo \in [Promos -> [status : {"scheduled", "active", "expired"}, used : Nat]]
    /\ today \in 1 .. Days
    /\ run \in [Slots -> {Idle} \cup Txn]
    /\ fate \in [Requests -> {Fresh} \cup
          [is : {"running", "refused", "collided", "lost"}] \cup
          [is : {"placed"}, code : Codes, who : Requests, token : SUBSET Requests]]

\* Two tables and a counter kept by different statements agree: a promotion's
\* uses and a customer's orders are exactly the storefront orders that committed,
\* and each order went to a customer row with the shopper's phone or email.
CountersAgree ==
    /\ \A p \in Promos :
          promo[p].used = Cardinality({r \in PlacedByCustomers : CartOf[r].promo = p})
    /\ \A k \in Known :
          customer[k].orders = Cardinality({r \in PlacedByCustomers : fate[r].who = k})
    /\ \A r \in PlacedByCustomers :
          LET row == customer[fate[r].who] IN
          row.exists /\ (row.phone = CartOf[r].phone \/ row.email = CartOf[r].email)

\* The limit is checked long before the use is counted, so simultaneous
\* checkouts exceed it - but never by more than the other connections.
OvershootIsBounded ==
    \A p \in Promos :
        Limit[p] > 0 => promo[p].used <= Limit[p] + Cardinality(Slots) - 1

\* A receipt (code and token) opens the order it was issued for while that
\* order exists, and never another one, although codes are used again after
\* the highest order is deleted.
ReceiptOpensOwnOrder ==
    \A r \in PlacedByCustomers :
        FindOrder(fate[r].code, fate[r].token) = {r} \cap Booked

\* nextOrderCode never hands out a number it has seen: a request it served
\* fails on the unique index only because a rival's order was not yet visible,
\* or because the highest row it locked has no number.
CollisionNeedsRival ==
    [][\A t \in Slots :
          Busy(t, "insert") /\ MyCart(t).code = NoCode
            /\ fate'[My(t)].is = "collided" =>
             \/ \E q \in Booked \ run[t].seen : order[q].code = run[t].code
             \/ \E q \in run[t].locked : order[q].code = Digitless]_vars

\* Placing an order is one step of the order book, or nothing.
Book == INSTANCE OrderBook WITH
    code <- [r \in Booked |-> order[r].code],
    used <- [p \in Promos |-> promo[p].used],
    counted <- Cardinality(PlacedByCustomers),
    Wants <- [r \in Requests |-> CartOf[r].wants],
    PromoOf <- [r \in Requests |-> IF Customer(r) THEN CartOf[r].promo ELSE NoPromo],
    CustomerOrder <- [r \in Requests |-> Customer(r)]

PlacedWhole == Book!Spec

\* Every checkout that starts is answered.
CheckoutsEnd == \A t \in Slots : run[t] # Idle ~> run[t] = Idle

\* What withOrderCode's comment says of a collision: one retry turns it into a
\* slower order rather than a failed one.
CollisionIsRetried == \A r \in Requests : Customer(r) => fate[r].is # "collided"
=============================================================================
