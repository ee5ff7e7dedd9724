------------------------------ MODULE Storefront ------------------------------
(* The storefront of one workspace: what the catalogue shows, what a cart    *)
(* costs, and the pages the tenant publishes (storefront.service.ts and      *)
(* priceCart of public-checkout.service.ts).                                 *)
(*                                                                           *)
(* A quote is read one SELECT at a time, and under READ COMMITTED every      *)
(* SELECT sees the catalogue as it is by then: the admin's edits fall in     *)
(* between.  A page is saved in two transactions, one that reads it and one  *)
(* that writes it.  A catalogue query is an operator on the shop.            *)
(*                                                                           *)
(* Money is in cents; a price with more decimals does not fit its column.    *)
EXTENDS Integers, FiniteSets, Sequences, Functions

CONSTANTS
    Products,      \* ids, in the order the database sorts them
    Made,          \* created_at of each
    Categories, Brands, Variants, Pages,
    ProductRows, VariantRows, Tiers, Zones, Methods, PromoRows, Rates,
                   \* bound: the rows an edit may write
    Opening,       \* the shops the model starts from
    Aspects,       \* bound: what of the storefront a behaviour is about
    Carts, Queries, PageSize,
    Editors,       \* admin requests that save a page
    MaxEdits,      \* bound: transactions that change something
    None

\* The rows, by the columns that matter here.
ProductRow == [status : {"active", "draft"}, category : Categories \cup {None},
               sub : Categories \cup {None}, brand : Brands \cup {None},
               price : Int, offer : Int \cup {None}, min : Int, max : Int \cup {None}]
VariantRow == [product : Products, price : Int, original : Int \cup {None}]
Tier == [product : Products, minQty : Int, unit : Int]
Zone == [district : STRING \cup {None}, fee : Int, sort : Int]
Method == [code : STRING, feePct : Int, skipsDelivery : BOOLEAN]
Promo == [code : STRING, kind : {"percent", "fixed"}, value : Int, open : BOOLEAN]
RateSets == {R \in SUBSET Int : IsFiniteSet(R)}
Shop == [product : [Products -> ProductRow \cup {None}],
         category : UNION {[C -> {"active", "hidden"}] : C \in SUBSET Categories},
         variant : [Variants -> VariantRow \cup {None}], tiers : SUBSET Tier,
         zones : SUBSET Zone, methods : SUBSET Method, promos : SUBSET Promo,
         rates : RateSets]

\* What a shopper sends: the products of a cart, and a question to the catalogue.
Line == [product : Products, qty : Nat \ {0}, variant : Variants \cup {None}]
CartSent == [lines : Seq(Line), promo : STRING \cup {None}, method : STRING \cup {None},
             district : STRING \cup {None}]
Query == [category : Categories \cup {None}, categorySlug : Categories \cup {None},
          sub : Categories \cup {None}, subSlug : Categories \cup {None},
          brands : SUBSET Brands, onSale : BOOLEAN, low : Nat \cup {None}, high : Nat \cup {None},
          sort : {"lo", "hi", "discount", "pop"}]

ASSUME StorefrontAssumption ==
    /\ Products \subseteq Nat /\ IsFiniteSet(Products) /\ Made \in [Products -> Nat]
    /\ None \notin Categories
    /\ ProductRows \subseteq ProductRow /\ VariantRows \subseteq VariantRow /\ Tiers \subseteq Tier
    /\ Zones \subseteq Zone /\ Methods \subseteq Method /\ PromoRows \subseteq Promo
    /\ Rates \subseteq Int /\ IsFiniteSet(Rates)
    /\ Opening \subseteq Shop /\ Carts \subseteq CartSent /\ Queries \subseteq Query
    /\ PageSize \in Nat \ {0} /\ MaxEdits \in Nat

VARIABLES
    aspect,    \* carts and the catalogue share the shop, pages nothing with either
    shop,      \* the tables a shopper's requests read
    quote,     \* a shopper's request for the price of a cart
    page,      \* storefront_pages
    editor,    \* what each request that saves a page is doing
    edits      \* transactions so far, which date what they write

storefront == <<aspect, shop, quote, page, editor, edits>>

\* x / d rounded to a whole number, halves up.
Rounded(x, d) == (2 * x + d) \div (2 * d)
Percent(x, pct) == Rounded(x * pct, 100)
Least(a, b) == IF a < b THEN a ELSE b
Most(a, b) == IF a > b THEN a ELSE b

-----------------------------------------------------------------------------
(* The catalogue.                                                          *)

Active(p) == shop.product[p] # None /\ shop.product[p].status = "active"
EffectivePrice(p) == IF shop.product[p].offer = None THEN shop.product[p].price
                     ELSE shop.product[p].offer

\* A category is named by its id or by its slug, and the id wins.
Resolved(id, slug) == IF id # None THEN id ELSE IF slug \in DOMAIN shop.category THEN slug ELSE None
Missing(q) ==
    \/ q.categorySlug # None /\ Resolved(q.category, q.categorySlug) = None
    \/ q.subSlug # None /\ Resolved(q.sub, q.subSlug) = None

\* The filters the listing and its facets share, and the listing's own.
InCategory(p, q) ==
    LET c == Resolved(q.category, q.categorySlug)
        s == Resolved(q.sub, q.subSlug)
    IN  /\ c = None \/ shop.product[p].category = c
        /\ s = None \/ shop.product[p].sub = s
OnSale(p) == shop.product[p].offer # None /\ shop.product[p].offer < shop.product[p].price
Filtered(p, q) ==
    /\ q.brands = {} \/ shop.product[p].brand \in q.brands
    /\ q.onSale => OnSale(p)
    /\ q.low = None \/ EffectivePrice(p) >= q.low
    /\ q.high = None \/ EffectivePrice(p) <= q.high

catalogueFilters(q) ==
    IF Missing(q) THEN {} ELSE {p \in Products : Active(p) /\ InCategory(p, q) /\ Filtered(p, q)}

\* Keys sort ascending; the discount is a fraction of the price.
Key(p, q) ==
    LET r == shop.product[p] IN
    CASE q.sort = "lo" -> <<EffectivePrice(p), 1>>
      [] q.sort = "hi" -> <<-EffectivePrice(p), 1>>
      [] q.sort = "discount" -> IF r.offer = None \/ r.price = 0 THEN <<0, 1>>
                                ELSE <<r.offer - r.price, r.price>>
      [] OTHER -> <<-Made[p], 1>>
Ahead(k, l) == k[1] * l[2] < l[1] * k[2]

\* Mutant: products with the same key come in no order.
SortedByKey(a, b, q) == Ahead(Key(a, q), Key(b, q))
Sorted(a, b, q) ==
    Ahead(Key(a, q), Key(b, q)) \/ (~Ahead(Key(b, q), Key(a, q)) /\ a < b)

publicProducts(q, n) ==
    LET hits == catalogueFilters(q)
        rank(p) == Cardinality({r \in hits : Sorted(r, p, q)})
    IN  [total |-> Cardinality(hits),
         items |-> {p \in hits : (n - 1) * PageSize <= rank(p) /\ rank(p) < n * PageSize}]

\* Facets drop what is not a category filter.
Scope(q) == [q EXCEPT !.brands = {}, !.onSale = FALSE, !.low = None, !.high = None]
publicBrands(q) ==
    [b \in Brands |-> Cardinality({p \in catalogueFilters(Scope(q)) : shop.product[p].brand = b})]

publicCategories ==
    [c \in {k \in DOMAIN shop.category : shop.category[k] = "active"} |->
        Cardinality({p \in Products : Active(p) /\ shop.product[p].category = c})]

-----------------------------------------------------------------------------
(* The price of a cart.  A tie the database leaves open is an \E.           *)

QuoteIdle == [pc |-> "idle", cart |-> None, rows |-> <<>>, tiers |-> {}, lines |-> <<>>,
              applied |-> FALSE, savings |-> 0, discount |-> 0, method |-> None,
              delivery |-> 0, tax |-> 0, charge |-> 0, total |-> 0]
On(pc) == quote.pc = pc
QuoteGoes(next) == quote' = next /\ UNCHANGED <<aspect, shop, page, editor, edits>>
Refuse == QuoteGoes([QuoteIdle EXCEPT !.pc = "refused"])

Ask ==
    /\ aspect = "cart" /\ On("idle")
    /\ \E c \in Carts : QuoteGoes([QuoteIdle EXCEPT !.pc = "products", !.cart = c])
Done == quote.pc \in {"quoted", "refused"} /\ QuoteGoes(QuoteIdle)

\* resolveLines: the products,
ReadProducts ==
    /\ On("products")
    /\ LET wanted == {l.product : l \in Range(quote.cart.lines)} IN
       IF \E p \in wanted : ~Active(p) THEN Refuse
       ELSE QuoteGoes([quote EXCEPT !.pc = "tiers", !.rows = [p \in wanted |-> shop.product[p]]])

\* then their tiers,
ReadTiers ==
    /\ On("tiers")
    /\ QuoteGoes([quote EXCEPT !.pc = "variants",
                           !.tiers = {t \in shop.tiers : t.product \in DOMAIN quote.rows}])

\* Mutant: the list price is what the row says, below what is charged or not.
PricedAsListed(unit, list, qty) == [unit |-> unit, list |-> list, qty |-> qty]
Priced(unit, list, qty) == [unit |-> unit, list |-> Most(list, unit), qty |-> qty]

\* A chosen variant, then the last tier the quantity reaches, then the offer,
\* then the price.
TiersFor(l) == {t \in quote.tiers : t.product = l.product /\ t.minQty <= l.qty}
LastTiers(l) == {t \in TiersFor(l) : \A u \in TiersFor(l) : u.minQty <= t.minQty}
Charged(l) ==
    LET r == quote.rows[l.product] IN
    IF l.variant # None
    THEN LET v == shop.variant[l.variant] IN
         {Priced(v.price, IF v.original = None THEN v.price ELSE v.original, l.qty)}
    ELSE {Priced(u, r.price, l.qty) :
             u \in IF TiersFor(l) # {} THEN {t.unit : t \in LastTiers(l)}
                   ELSE {IF r.offer # None THEN r.offer ELSE r.price}}
Orderable(l) ==
    LET r == quote.rows[l.product] IN
    /\ l.qty >= r.min /\ (r.max = None \/ l.qty <= r.max)
    /\ l.variant # None => /\ shop.variant[l.variant] # None
                           /\ shop.variant[l.variant].product = l.product

\* then their variants, after which every line has its price.
ReadVariants ==
    /\ On("variants")
    /\ IF \E l \in Range(quote.cart.lines) : ~Orderable(l) THEN Refuse
       ELSE \E lines \in [DOMAIN quote.cart.lines -> UNION {Charged(l) : l \in Range(quote.cart.lines)}] :
              /\ \A i \in DOMAIN lines : lines[i] \in Charged(quote.cart.lines[i])
              /\ QuoteGoes([quote EXCEPT !.pc = "promo", !.lines = lines])

Subtotal == SumFunction([i \in DOMAIN quote.lines |-> quote.lines[i].list * quote.lines[i].qty])
Selling == SumFunction([i \in DOMAIN quote.lines |-> quote.lines[i].unit * quote.lines[i].qty])

\* resolvePromo; a code that is not valid takes nothing off.
PromoAmount(p) == Least(IF p.kind = "percent" THEN Percent(Selling, p.value) ELSE p.value, Selling)
ReadPromo ==
    /\ On("promo")
    /\ LET found == {p \in shop.promos : p.code = quote.cart.promo /\ p.open}
           saved == Subtotal - Selling
           off == IF found = {} THEN 0 ELSE PromoAmount(CHOOSE p \in found : TRUE)
       IN  QuoteGoes([quote EXCEPT !.pc = "method", !.applied = found # {}, !.savings = saved,
                                !.discount = Least(saved + off, Subtotal)])

\* resolvePaymentMethod; a method that is gone is an error.
ReadMethod ==
    /\ On("method")
    /\ LET found == {m \in shop.methods : m.code = quote.cart.method} IN
       IF quote.cart.method = None THEN QuoteGoes([quote EXCEPT !.pc = "zone"])
       ELSE IF found = {} THEN Refuse
       ELSE \E m \in found : QuoteGoes([quote EXCEPT !.pc = "zone", !.method = m])

\* resolveDeliveryFee: the district's own zone before the catch-all.
Nearest(district) ==
    LET served == {z \in shop.zones : z.district \in {district, None}}
        own == {z \in served : z.district = district}
        best == IF own # {} THEN own ELSE served
    IN  {z \in best : \A y \in best : z.sort <= y.sort}
ReadZone ==
    /\ On("zone")
    /\ LET next(fee) == QuoteGoes([quote EXCEPT !.pc = "tax", !.delivery = fee]) IN
       IF \/ quote.method # None /\ quote.method.skipsDelivery
          \/ quote.cart.district = None
          \/ Nearest(quote.cart.district) = {}
       THEN next(0)
       ELSE \E z \in Nearest(quote.cart.district) : next(z.fee)

\* resolveTax, and the total; the surcharge is a whole unit of 100 cents.
Surcharge(payable) ==
    IF quote.method = None THEN 0 ELSE 100 * Rounded(payable * quote.method.feePct, 10000)
ReadTax ==
    /\ On("tax")
    /\ LET taxable == Most(0, Subtotal - quote.discount)
           tax == Percent(taxable, SumFunction([r \in shop.rates |-> r]))
           payable == taxable + quote.delivery + tax
       IN  QuoteGoes([quote EXCEPT !.pc = "quoted", !.tax = tax, !.charge = Surcharge(payable),
                                !.total = payable + Surcharge(payable)])

-----------------------------------------------------------------------------
(* The admin's edits.                                                      *)

Edits == edits < MaxEdits /\ edits' = edits + 1
Becomes(s) == aspect # "pages" /\ shop' = s /\ Edits /\ UNCHANGED <<aspect, quote, page, editor>>

EditProduct ==
    \E p \in Products, r \in ProductRows \cup {None} :
        /\ r # None => {r.category, r.sub} \subseteq DOMAIN shop.category \cup {None}
        /\ r # shop.product[p] /\ Becomes([shop EXCEPT !.product[p] = r])
\* A product's tiers and variants are saved with it.
EditTiers == \E ts \in SUBSET Tiers \ {shop.tiers} : Becomes([shop EXCEPT !.tiers = ts])
EditVariant ==
    \E v \in Variants, r \in VariantRows \cup {None} :
        r # shop.variant[v] /\ Becomes([shop EXCEPT !.variant[v] = r])

\* The foreign keys set what named the category to null.
Freed(r, c) ==
    IF r = None THEN None
    ELSE [r EXCEPT !.category = IF @ = c THEN None ELSE @, !.sub = IF @ = c THEN None ELSE @]
RemoveCategory ==
    \E c \in DOMAIN shop.category :
        Becomes([shop EXCEPT !.category = [k \in DOMAIN shop.category \ {c} |-> shop.category[k]],
                             !.product = [p \in Products |-> Freed(shop.product[p], c)]])
EditCheckout ==
    \/ \E zs \in SUBSET Zones \ {shop.zones} : Becomes([shop EXCEPT !.zones = zs])
    \/ \E ms \in SUBSET Methods \ {shop.methods} : Becomes([shop EXCEPT !.methods = ms])
    \/ \E ps \in SUBSET PromoRows \ {shop.promos} : Becomes([shop EXCEPT !.promos = ps])
    \/ \E rs \in SUBSET Rates \ {shop.rates} : Becomes([shop EXCEPT !.rates = rs])

-----------------------------------------------------------------------------
(* Pages.  A stamp is the transaction that dates it; 0 is null.            *)

NoPage == [exists |-> FALSE]
EditorIdle == [pc |-> "idle"]
Saves(e, next) == editor' = [editor EXCEPT ![e] = next]

CreatePage(g) ==
    /\ aspect = "pages" /\ ~page[g].exists
    /\ \E shown \in BOOLEAN :
          page' = [page EXCEPT ![g] = [exists |-> TRUE, shown |-> shown,
                                       stamp |-> IF shown THEN edits + 1 ELSE 0]]
    /\ Edits /\ UNCHANGED <<aspect, shop, quote, editor>>
DeletePage(g) ==
    /\ page[g].exists /\ page' = [page EXCEPT ![g] = NoPage]
    /\ Edits /\ UNCHANGED <<aspect, shop, quote, editor>>

\* updatePage: getPage in a transaction of its own,
GetPage(e, g) ==
    /\ editor[e].pc = "idle" /\ page[g].exists
    /\ \E shown \in BOOLEAN :
          Saves(e, [pc |-> "save", of |-> g, shown |-> shown, saw |-> page[g], since |-> edits])
    /\ UNCHANGED <<aspect, shop, quote, page, edits>>

\* Mutant: stamped whenever a page that is not shown becomes shown.
StampIfHidden(e) == editor[e].shown /\ ~editor[e].saw.shown
StampIfNever(e) == editor[e].shown /\ editor[e].saw.stamp = 0
\* then the update, of the page as it is by now.
SavePage(e) ==
    /\ editor[e].pc = "save"
    /\ LET g == editor[e].of IN
       IF page[g].exists
       THEN /\ page' = [page EXCEPT ![g] =
                  [exists |-> TRUE, shown |-> editor[e].shown,
                   stamp |-> IF StampIfNever(e) THEN edits + 1 ELSE @.stamp]]
            /\ Edits
       ELSE UNCHANGED <<page, edits>>
    /\ Saves(e, EditorIdle) /\ UNCHANGED <<aspect, shop, quote>>

-----------------------------------------------------------------------------
StorefrontInit ==
    /\ aspect \in Aspects
    /\ shop \in Opening
    /\ quote = QuoteIdle
    /\ page = [g \in Pages |-> NoPage]
    /\ editor = [e \in Editors |-> EditorIdle]
    /\ edits = 0

Quoting ==
    \/ Ask \/ ReadProducts \/ ReadTiers \/ ReadVariants \/ ReadPromo
    \/ ReadMethod \/ ReadZone \/ ReadTax \/ Done
Editing == EditProduct \/ EditTiers \/ EditVariant \/ RemoveCategory \/ EditCheckout
Publishing ==
    \/ \E g \in Pages : CreatePage(g) \/ DeletePage(g) \/ \E e \in Editors : GetPage(e, g)
    \/ \E e \in Editors : SavePage(e)

StorefrontNext == Quoting \/ Editing \/ Publishing
StorefrontSpec == StorefrontInit /\ [][StorefrontNext]_storefront

-----------------------------------------------------------------------------
(* An admin who enters no negative amount: what the properties presume of   *)
(* the rows.  The import refuses one; the generic CRUD and the tables do not. *)

SoundProduct(r) == r # None => r.price \in Nat /\ r.offer \in Nat \cup {None}
SoundVariant(r) == r # None => r.price \in Nat /\ r.original \in Nat \cup {None}
SoundTables(tiers, zones, methods, promos, rates) ==
    /\ \A t \in tiers : t.unit \in Nat
    /\ \A z \in zones : z.fee \in Nat
    /\ \A m \in methods : m.feePct \in Nat
    /\ \A p \in promos : p.value \in Nat
    /\ rates \subseteq Nat
SoundShop(s) ==
    /\ \A p \in Products : SoundProduct(s.product[p])
    /\ \A v \in Variants : SoundVariant(s.variant[v])
    /\ SoundTables(s.tiers, s.zones, s.methods, s.promos, s.rates)
NothingNegative ==
    /\ \A s \in Opening : SoundShop(s)
    /\ \A r \in ProductRows : SoundProduct(r)
    /\ \A r \in VariantRows : SoundVariant(r)
    /\ SoundTables(Tiers, Zones, Methods, PromoRows, Rates)

-----------------------------------------------------------------------------
(* Properties.                                                             *)

\* What a shopper is asked to pay is what the lines cost, less what the promo
\* takes, plus delivery, tax and the surcharge, and no part is negative,
\* whatever was edited while the cart was priced (priceCart).
QuoteIsExplained ==
    On("quoted") =>
        LET promo == quote.discount - quote.savings IN
        /\ quote.savings >= 0 /\ promo >= 0 /\ promo <= Selling
        /\ quote.applied \/ promo = 0
        /\ quote.delivery >= 0 /\ quote.tax >= 0 /\ quote.charge >= 0
        /\ quote.total = Selling - promo + quote.delivery + quote.tax + quote.charge

\* A listing, however it is sorted, has so many products, and its pages show
\* each of them once.
Paged(q, count) ==
    \A sort \in {"lo", "hi", "discount", "pop"} :
        LET list(n) == publicProducts([q EXCEPT !.sort = sort], n)
            pages == 1 .. (count + PageSize - 1) \div PageSize
        IN  /\ list(1).total = count
            /\ \A n \in pages :
                  Cardinality(list(n).items) = Least(PageSize, count - (n - 1) * PageSize)
            /\ \A n, m \in pages : n # m => list(n).items \cap list(m).items = {}

\* The listings that a brand's facet and a category's count lead to.
BrandList(q, b) == [Scope(q) EXCEPT !.brands = {b}]
CategoryList(q, c) ==
    [Scope(q) EXCEPT !.category = None, !.categorySlug = c, !.sub = None, !.subSlug = None]

\* Every count the storefront shows, next to a brand or a category, is the
\* number of products its listing then pages through, each on one page only
\* (publicBrands: a facet can never offer a brand that would return nothing).
CountsLeadToPages ==
    aspect = "catalogue" =>
        /\ \A q \in Queries : \A b \in Brands : Paged(BrandList(q, b), publicBrands(q)[b])
        /\ \A q \in Queries : \A c \in DOMAIN publicCategories :
              Paged(CategoryList(q, c), publicCategories[c])

\* The date of a page's first publication is replaced only by a request that
\* read the page before that publication (updatePage: stamped once).
StampSurvivesRepublish ==
    [][\A g \in Pages :
          page[g].exists /\ page'[g].exists /\ page[g].stamp # 0 /\ page'[g].stamp # page[g].stamp =>
              \E e \in Editors : editor[e].pc = "save" /\ editor[e].of = g
                                    /\ editor[e].since < page[g].stamp]_storefront
===============================================================================
