---------------------------- MODULE MCStorefront ----------------------------
(* A shop of three products, two created at once, and a little of everything. *)
EXTENDS Storefront, TLC

MCMade == 1 :> 1 @@ 2 :> 1 @@ 3 :> 2

Row(status, category, sub, brand, price, offer) ==
    [status |-> status, category |-> category, sub |-> sub, brand |-> brand,
     price |-> price, offer |-> offer, min |-> 1, max |-> 2]
MCProductRows == {Row("active", "shirts", None, "acme", 1000, 1333),
                  Row("draft", "shirts", "polo", "acme", 1000, 750)}
MCVariantRows == {[product |-> 1, price |-> 999, original |-> 500]}
MCTiers == {[product |-> 2, minQty |-> 1, unit |-> 1205], [product |-> 2, minQty |-> 2, unit |-> 333]}
MCZones == {[district |-> None, fee |-> 120, sort |-> 1], [district |-> "dhaka", fee |-> 60, sort |-> 2]}
MCMethods == {[code |-> "card", feePct |-> 3, skipsDelivery |-> FALSE],
              [code |-> "pickup", feePct |-> 0, skipsDelivery |-> TRUE]}
MCPromos == {[code |-> "TEN", kind |-> "percent", value |-> 13, open |-> TRUE],
             [code |-> "BIG", kind |-> "fixed", value |-> 1500, open |-> TRUE]}

MCOpening ==
    {[product |-> 1 :> Row("active", "shirts", None, "acme", 1000, None)
                  @@ 2 :> Row("active", "shirts", "polo", "acme", 1000, 750)
                  @@ 3 :> Row("active", "shoes", None, "other", 0, None),
      category |-> "shirts" :> "active" @@ "shoes" :> "active" @@ "polo" :> "hidden",
      variant |-> "v" :> [product |-> 1, price |-> 900, original |-> 1100],
      tiers |-> MCTiers, zones |-> MCZones, methods |-> MCMethods,
      promos |-> MCPromos, rates |-> {5}]}

Bought(p, qty, v) == [product |-> p, qty |-> qty, variant |-> v]
Basket(lines, promo, method, district) ==
    [lines |-> lines, promo |-> promo, method |-> method, district |-> district]
MCCarts ==
    {Basket(<<Bought(1, 1, "v"), Bought(2, 2, None)>>, "TEN", "card", "dhaka"),
     Basket(<<Bought(1, 1, None), Bought(2, 1, None)>>, "BIG", "pickup", "sylhet"),
     Basket(<<Bought(1, 2, "v")>>, None, None, None),
     Basket(<<Bought(2, 1, None)>>, "BIG", "card", "sylhet")}

Search(category, categorySlug, sub, subSlug) ==
    [category |-> category, categorySlug |-> categorySlug, sub |-> sub, subSlug |-> subSlug,
     brands |-> {}, onSale |-> FALSE, low |-> None, high |-> None, sort |-> "pop"]
MCQueries ==
    {Search(None, None, None, None), Search("shirts", "shoes", None, None),
     Search(None, "shirts", None, "polo"), [Search(None, "polo", None, None) EXCEPT !.onSale = TRUE]}

\* No amount of these rows is negative.
ASSUME NothingNegative
===============================================================================
