-------------------------------- MODULE SkuPlan --------------------------------
(* One style of the catalogue, the SKUs its stock lives on, and what a       *)
(* packing list that packs it moves (ensureSkusForProduct and resolveSku of  *)
(* inventory.service.ts, packing-stock.service.ts, size-match.ts).           *)
(*                                                                           *)
(* A save that carries variants replaces the rows, and the foreign keys      *)
(* decide what goes with them.  A packing request reads mappings, variants   *)
(* and SKUs one SELECT at a time, under READ COMMITTED, and what it writes   *)
(* is seen by others when it commits.  Codes, names and the status of a SKU  *)
(* are left out: nothing here reads them.                                    *)
EXTENDS Integers, FiniteSets

CONSTANTS
    Styles,      \* sets of labels; a label is a set of words, what split leaves of it
    Sizes,       \* words a person's decision names
    Colours,
    CartonLists, \* packing lists: sets of cells
    MaxSaves,    \* bound: saves that carry variants
    MaxChosen,   \* bound: decisions of a person
    MaxMoves     \* bound: movements there are when something moves again

\* A word is its letters and the scale, if any, written before them.
Words == Sizes \cup Colours \cup UNION UNION Styles
Blank == [scale |-> "", text |-> ""]
ASSUME SkuPlanAssumption ==
    /\ \A labels \in Styles : IsFiniteSet(labels) /\ {} \notin labels
    /\ \A w \in Words : DOMAIN w = DOMAIN Blank
    /\ {MaxSaves, MaxChosen, MaxMoves} \subseteq Nat

VARIABLES
    mode,        \* products.stock_mode
    variant,     \* product_variants: a row is the save that made it and its label
    sku,         \* skus, each named by its variant
    pinned,      \* SKUs on a receipt, transfer or count line
    ledger,      \* stock_movements
    map,         \* packing_sku_map
    req,         \* the request of the packing desk
    saves, chosen

product == <<mode, variant, sku, pinned, ledger, saves>>
style == <<mode, variant, sku, pinned, ledger, map, req, saves, chosen>>

Std == [made |-> 0, label |-> {}]
None == [made |-> 0, label |-> {Blank}]

-----------------------------------------------------------------------------
(* size-match.ts                                                           *)

SizeAliases ==
    [XXL |-> "2XL", XXXL |-> "3XL", XXXXL |-> "4XL", SMALL |-> "S", MEDIUM |-> "M",
     LARGE |-> "L", XSMALL |-> "XS", XLARGE |-> "XL", EXTRALARGE |-> "XL"]

\* A size loses its scale, a colour keeps those letters.
normalizeSize(w) ==
    [Blank EXCEPT !.text = IF w.text \in DOMAIN SizeAliases THEN SizeAliases[w.text] ELSE w.text]
normalizeColor(w) == w
labelTokens(label) == {normalizeSize(w) : w \in label} \ {Blank}

BySize(vs, size) == {v \in vs : normalizeSize(size) \in labelTokens(v.label)}
ByColor(vs, color, size) ==
    IF color = Blank THEN {} ELSE {v \in BySize(vs, size) : normalizeColor(color) \in labelTokens(v.label)}

\* The variant in a set, which is empty when none matched or several did.
\* Mutant: the first of several is taken.
MatchFirst(vs, color, size) ==
    IF BySize(vs, size) = {} THEN {} ELSE {CHOOSE v \in BySize(vs, size) : TRUE}
matchVariant(vs, color, size) ==
    IF Cardinality(BySize(vs, size)) = 1 THEN BySize(vs, size)
    ELSE IF Cardinality(ByColor(vs, color, size)) = 1 THEN ByColor(vs, color, size)
    ELSE {}
ambiguous(vs, color, size) == BySize(vs, size) # {} /\ matchVariant(vs, color, size) = {}

-----------------------------------------------------------------------------
(* SKUs                                                                    *)

\* What reconciling adds: one per variant and the default.
ensured(vs) == vs \cup {Std}

\* resolveSku for a variant, or for the product when v is the default, which is
\* what a variant without a SKU falls back to.
resolveSku(v) ==
    IF v \in sku THEN {v} ELSE IF Std \in sku THEN {Std}
    ELSE IF v \in ensured(variant) THEN {v} ELSE variant \cup (IF variant = {} THEN {Std} ELSE {})
Resolving(v) ==
    sku' = IF {v, Std} \cap sku = {} THEN sku \cup ensured(variant) ELSE sku

-----------------------------------------------------------------------------
(* packing_sku_map                                                         *)

RowKey(r) == <<r.color, r.size>>
Key(color, size) == <<normalizeColor(color), normalizeSize(size)>>

\* Rows whose size is spelt differently share a key, and one of them is kept.
mappings(rows) ==
    LET keyed(k) == {r \in rows : Key(r.color, r.size) = k} IN
    {h \in [{Key(r.color, r.size) : r \in rows} -> {r.sku : r \in rows}] :
        \A k \in DOMAIN h : \E r \in keyed(k) : r.sku = h[k]}

\* The exact colour, else the row that is for any colour.
Mapped(h, color, size) ==
    LET own == Key(color, size)
        any == Key(Blank, size)
    IN  IF own \in DOMAIN h THEN {h[own]} ELSE IF any \in DOMAIN h THEN {h[any]} ELSE {}

\* Mutant: a guess is kept for every colour.
AutoForAny(color, size, s) == [color |-> Blank, size |-> size, sku |-> s, source |-> "auto"]
Guess(color, size, s) == [color |-> normalizeColor(color), size |-> size, sku |-> s, source |-> "auto"]
\* Mutant: a guess replaces what is there.
Overwriting(rows, r) == {o \in rows : RowKey(o) # RowKey(r)} \cup {r}
OrNothing(rows, r) == IF \E o \in rows : RowKey(o) = RowKey(r) THEN rows ELSE rows \cup {r}

-----------------------------------------------------------------------------
(* The product's writers.                                                  *)

MovesOf(s) == Cardinality({m \in ledger : m.sku = s})
MovedOnce(ss) == {[sku |-> s, n |-> MovesOf(s) + 1] : s \in ss}
Mine == req.mine
\* The mappings as the request sees them, with what it wrote itself.
MapSeen == {o \in map : \A r \in Mine : RowKey(o) # RowKey(r)} \cup Mine

\* writeChildren deletes every variant; skus, and through them movements and
\* mappings, cascade, unless a document's line restricts it.
CanDrop(ss) == ss \cap pinned = {} /\ ss \cap {r.sku : r \in Mine} = {}
SaveVariants ==
    /\ saves < MaxSaves
    /\ CanDrop(sku \ {Std})
    /\ \E labels \in Styles, m \in {"tracked", "always"} :
          /\ mode' = m
          /\ variant' = {[made |-> saves + 1, label |-> l] : l \in labels}
          /\ sku' = (sku \cap {Std}) \cup IF m = "tracked" THEN ensured(variant') ELSE {}
    /\ ledger' = {r \in ledger : r.sku = Std}
    /\ map' = {r \in map : r.sku = Std}
    /\ saves' = saves + 1
    /\ UNCHANGED <<pinned, req, chosen>>

\* A save without variants has no SKU consequence.
SaveMode ==
    /\ mode' \in {"tracked", "always"} \ {mode}
    /\ UNCHANGED <<variant, sku, pinned, ledger, map, req, saves, chosen>>

GenerateSkus ==
    /\ sku' = sku \cup ensured(variant)
    /\ UNCHANGED <<mode, variant, pinned, ledger, map, req, saves, chosen>>

\* Stock that arrives on a receipt, which names the SKU, or by an adjustment.
Move ==
    /\ Cardinality(ledger) < MaxMoves
    /\ \E s \in sku :
          /\ ledger' = ledger \cup MovedOnce({s})
          /\ pinned' \in {pinned, pinned \cup {s}}
    /\ UNCHANGED <<mode, variant, sku, map, req, saves, chosen>>

\* A person says which SKU a size is; the row waits for one being written.
SetMapping ==
    /\ chosen < MaxChosen
    /\ \E color \in Colours, size \in Sizes, s \in sku :
          LET r == [color |-> normalizeColor(color), size |-> size, sku |-> s, source |-> "manual"] IN
          /\ \A o \in Mine : RowKey(o) # RowKey(r)
          /\ map' = {o \in map : RowKey(o) # RowKey(r)} \cup {r}
    /\ chosen' = chosen + 1
    /\ UNCHANGED <<product, req>>

-----------------------------------------------------------------------------
(* The packing desk: looking at the plan, or holding or confirming it, which *)
(* remembers what it guessed first.                                          *)

DeskIdle == [pc |-> "idle", moves |-> FALSE, remembered |-> FALSE, list |-> {}, mine |-> {},
         heard |-> <<>>, vs |-> {}, left |-> {}, sized |-> FALSE, lines |-> {}]
At(pc) == req.pc = pc
Reads(next) == req' = next /\ UNCHANGED <<product, map, chosen>>

\* A line names a SKU that there is, until the foreign key sets it to null.
Real(l) == \A c \in l : c.own \in sku \cup {None} \/ c.own.made \in 1 .. saves - 1
Begin ==
    /\ At("idle")
    /\ \E l \in {l \in CartonLists : Real(l)}, moves \in BOOLEAN :
          /\ moves => Cardinality(ledger) < MaxMoves
          /\ Reads([DeskIdle EXCEPT !.pc = "maps", !.moves = moves, !.remembered = ~moves,
                                   !.list = l])
ReadMaps ==
    /\ At("maps")
    /\ \E h \in mappings(MapSeen) : Reads([req EXCEPT !.pc = "variants", !.heard = h])
ReadVariants ==
    /\ At("variants")
    /\ Reads([req EXCEPT !.pc = IF req.remembered THEN "count" ELSE "remember",
                         !.vs = variant, !.left = req.list])

\* rememberAutoMatches, a cell at a time.
Guessed(c) ==
    IF c.linked /\ normalizeSize(c.size) # Blank /\ Mapped(req.heard, c.color, c.size) = {}
    THEN matchVariant(req.vs, c.color, c.size) ELSE {}
Remember ==
    /\ At("remember") /\ req.left # {}
    /\ \E c \in req.left :
          LET next(rows) == req' = [req EXCEPT !.left = @ \ {c}, !.mine = rows \ map] IN
          IF Guessed(c) = {} THEN next(MapSeen) /\ UNCHANGED sku
          ELSE \E v \in Guessed(c) : \E s \in resolveSku(v) :
                  next(OrNothing(MapSeen, Guess(c.color, c.size, s))) /\ Resolving(v)
    /\ UNCHANGED <<mode, variant, pinned, ledger, map, saves, chosen>>
Remembered ==
    /\ At("remember") /\ req.left = {}
    /\ Reads([req EXCEPT !.pc = "maps", !.remembered = TRUE])
ReadCount ==
    /\ At("count")
    /\ Reads([req EXCEPT !.pc = "resolve", !.sized = variant # {}])

\* resolveCell: whose SKU the cell is to be given, None when it stays unlinked,
\* and whether SKUs have to be looked for.
Wanted(c) ==
    LET mapped == Mapped(req.heard, c.color, c.size)
        match == matchVariant(req.vs, c.color, c.size)
    IN  IF c.own \in sku THEN [via |-> "mapping", skus |-> {c.own}]
        ELSE IF ~c.linked \/ normalizeSize(c.size) = Blank THEN [via |-> "none", skus |-> {None}]
        ELSE IF mapped # {} THEN [via |-> "mapping", skus |-> mapped]
        ELSE IF match # {} THEN [via |-> "auto", skus |-> match]
        ELSE IF ambiguous(req.vs, c.color, c.size) \/ req.sized THEN [via |-> "none", skus |-> {None}]
        ELSE [via |-> "product-default", skus |-> {Std}]
Pieces(c) == c.qty * (IF c.to > c.from THEN c.to - c.from + 1 ELSE 1)
Resolve ==
    /\ At("resolve") /\ req.left # {}
    /\ \E c \in req.left :
          LET next(s) == req' = [req EXCEPT !.left = @ \ {c},
                                   !.lines = @ \cup {[cell |-> c, sku |-> s, qty |-> Pieces(c)]}]
          IN  \E v \in Wanted(c).skus :
                 IF Wanted(c).via \in {"mapping", "none"} THEN next(v) /\ UNCHANGED sku
                 ELSE Resolving(v) /\ \E s \in resolveSku(v) : next(s)
    /\ UNCHANGED <<mode, variant, pinned, ledger, map, saves, chosen>>

\* The movements name the SKUs, and a SKU that is gone fails the request.
Linked == {l.sku : l \in req.lines} \ {None}
Commit ==
    /\ At("resolve") /\ req.left = {}
    /\ req' = DeskIdle
    /\ IF req.moves /\ Linked \subseteq sku
       THEN /\ map' = MapSeen
            /\ ledger' = ledger \cup IF mode = "tracked" THEN MovedOnce(Linked) ELSE {}
       ELSE UNCHANGED <<map, ledger>>
    /\ UNCHANGED <<mode, variant, sku, pinned, saves, chosen>>

-----------------------------------------------------------------------------
SkuInit ==
    /\ mode \in {"tracked", "always"}
    /\ \E labels \in Styles : variant = {[made |-> 1, label |-> l] : l \in labels}
    /\ sku = IF mode = "tracked" THEN ensured(variant) ELSE {}
    /\ pinned = {} /\ ledger = {} /\ map = {} /\ req = DeskIdle
    /\ saves = 1 /\ chosen = 0

Desk == Begin \/ ReadMaps \/ ReadVariants \/ Remember \/ Remembered \/ ReadCount \/ Resolve \/ Commit
SkuNext == SaveVariants \/ SaveMode \/ GenerateSkus \/ Move \/ SetMapping \/ Desk
SkuSpec == SkuInit /\ [][SkuNext]_style

-----------------------------------------------------------------------------
(* Properties.                                                             *)

Steady ==
    /\ req.vs = variant /\ req.heard \in mappings(map)
    /\ \A r \in Mine : r.sku \in UNION {resolveSku(v) : v \in matchVariant(variant, r.color, r.size)}
Noted == req'.mine \ Mine
Notes == At("remember") /\ req'.pc = "remember" /\ req'.left # req.left

\* One variant answers to the row's size and colour.
Sole(r) ==
    LET sized == {v \in variant : normalizeSize(r.size) \in labelTokens(v.label)}
        tinted == {v \in sized : r.color \in labelTokens(v.label)}
    IN  /\ r.sku \in sized \/ r.sku = Std
        /\ sized # {} /\ ((\A v, w \in sized : v = w) \/ \E v \in sized : tinted = {v})

\* A guess is kept only for a size and colour that one variant answers to, so
\* no stock moves on a choice between two; a variant without a SKU stands for
\* the default.  Excused: variants replaced while the request was matching
\* (matchVariant, rememberAutoMatches).
GuessIsSole == [][Notes /\ req.vs = variant => \A r \in Noted : Sole(r)]_style

\* A person's decision gives way to another one or goes with its SKU, never to
\* a guess, however the requests overlap (setMapping, rememberAutoMatches).
ManualStands ==
    [][\A r \in map : r.source = "manual" /\ r.sku \in sku' =>
          \E o \in map' : RowKey(o) = RowKey(r) /\ o.source = "manual"]_style

\* The SKUs a cell may resolve to, given the mappings.
Answers(c, rows) ==
    LET sure(v) == IF c.own \in sku THEN {c.own} ELSE v
        say(h) ==
            LET match == matchVariant(variant, c.color, c.size) IN
            IF ~c.linked \/ normalizeSize(c.size) = Blank THEN {None}
            ELSE IF Mapped(h, c.color, c.size) # {} THEN Mapped(h, c.color, c.size)
            ELSE IF match # {} THEN UNION {resolveSku(v) : v \in match}
            ELSE IF variant = {} THEN resolveSku(Std) ELSE {None}
    IN  sure(UNION {say(h) : h \in mappings(rows)})

\* Every cell of every list resolves to what it did.
Unmoved == \A c \in UNION {l \in CartonLists : Real(l)} : Answers(c, MapSeen)' = Answers(c, MapSeen)

\* What every cell of every list resolves to is the same before and after a
\* guess is kept: the plan the builder was shown is the one that is held.
\* Excused: mappings, variants or SKUs changed since the request read them
\* (rememberAutoMatches, resolveCell).
MemoryIsNeutral == [][Notes /\ Steady => Unmoved]_style

\* "movements reference it, and a stock history that can vanish is not a stock
\* history": no step removes a movement (ensureSkusForProduct).
HistoryStays == [][ledger \subseteq ledger']_style
================================================================================
