----------------------------- MODULE MCCheckout -----------------------------
(* Two shoppers who share an email address, one of them twice, and an order  *)
(* the admin enters under a code of its own.                                 *)
EXTENDS Checkout

CONSTANTS r1, r2, r3, r4, x, y, spring, phoneA, phoneB, mail

Units(m, n) == [s \in Skus |-> IF s = x THEN m ELSE n]

MCCartOf ==
    LET cart == [by |-> "customer", phone |-> phoneA, email |-> mail, promo |-> spring,
                 wants |-> Units(1, 0), code |-> NoCode, total |-> 3]
    IN  [r \in Requests |->
            CASE r = r1 -> cart
              [] r = r2 -> [cart EXCEPT !.phone = phoneB]
              [] r = r3 -> [cart EXCEPT !.email = NoEmail,
                                        !.wants = Units(1, 1), !.total = 5]
              [] r = r4 -> [cart EXCEPT !.by = "admin", !.promo = NoPromo,
                                        !.wants = Units(0, 1), !.code = 1001]]

MCStock == Units(3, 1)
MCLimit == [p \in Promos |-> 1]
MCWindow == [p \in Promos |-> [from |-> 1, to |-> 1]]
=============================================================================
