----------------------------- MODULE OrderBook -----------------------------
(***************************************************************************)
(* What placing an order promises, whoever else is placing one: at one     *)
(* instant the order is in the book under a code nobody has, its goods are *)
(* held, and its promotion and its customer count it - or nothing happened *)
(* at all.  The abstract specification Checkout is shown to implement.     *)
(***************************************************************************)
EXTENDS Integers

CONSTANTS Requests, Codes, Skus, Promos, Wants, PromoOf, CustomerOrder

VARIABLES
    code,    \* the code of each order in the book
    free,    \* units that may still be promised
    used,    \* uses of each promotion
    counted  \* orders that some customer row counts

vars == <<code, free, used, counted>>

Book == DOMAIN code

Init ==
    /\ code = [r \in {} |-> 0]
    /\ free \in [Skus -> Nat]
    /\ used = [p \in Promos |-> 0]
    /\ counted = 0

Extended(f, r, v) == [q \in DOMAIN f \cup {r} |-> IF q = r THEN v ELSE f[q]]

\* The order is in the book under the code the step gives it.
Place(r) ==
    LET c == code'[r] IN
    /\ r \notin Book /\ r \in DOMAIN code'
    /\ c \in Codes /\ \A q \in Book : code[q] # c
    /\ \A s \in Skus : Wants[r][s] <= free[s]
    /\ code' = Extended(code, r, c)
    /\ free' = [s \in Skus |-> free[s] - Wants[r][s]]
    /\ used' = [p \in Promos |-> used[p] + (IF PromoOf[r] = p THEN 1 ELSE 0)]
    /\ counted' = counted + (IF CustomerOrder[r] THEN 1 ELSE 0)

Remove(r) ==
    /\ r \in Book
    /\ code' = [q \in Book \ {r} |-> code[q]]
    /\ UNCHANGED <<free, used, counted>>

Next == \E r \in Requests : Remove(r) \/ Place(r)

Spec == Init /\ [][Next]_vars
=============================================================================
