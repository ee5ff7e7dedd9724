----------------------------- MODULE Documents -----------------------------
(***************************************************************************)
(* The stock documents: warehouse transfers (transfers.controller.ts),     *)
(* goods-received notes (receipts.controller.ts and the direct receive of  *)
(* inventory.controller.ts), cycle counts (counts.controller.ts) and       *)
(* manual adjustments, over the levels they move.                          *)
(*                                                                         *)
(* A request is one transaction in two steps.  Read takes what its SELECTs *)
(* of the document and of the levels see, none of them under a lock; Act   *)
(* does its writes, the level rows locked by applyMovement, and commits,   *)
(* or throws and leaves nothing.  Reservations stand still here: they move *)
(* in Fulfilment and Packing.                                              *)
(***************************************************************************)
EXTENDS Integers, FiniteSetsExt

CONSTANTS
    Transfers, Receipts, Counts,   \* documents a tenant may come to have
    NoDoc,                         \* an adjustment has no document
    Skus, Warehouses, Tx,
    Uncounted,     \* the SQL null of a count line
    Opening,       \* on-hand of <<sku, warehouse>>; 0 means no level row
    Reserved,      \* units of it that reservations hold
    Quantities,    \* what a new document may list: units of each sku
    Units,         \* quantities declared as arrived, or found in a count
    Deltas,        \* what an adjustment may add
    Kinds,         \* the requests the model sends
    MaxRequests    \* bound

Docs == Transfers \cup Receipts \cup Counts
Cells == Skus \X Warehouses
Creates == {"createTransfer", "createReceipt", "receiveStock", "openCount"}
AllKinds == Creates \cup {"dispatch", "receive", "cancelTransfer", "confirm",
    "cancelReceipt", "saveLines", "post", "cancelCount", "adjust"}

\* Transfers, receipts and counts are rows of different tables.
ASSUME DocumentsAssumption ==
    /\ Transfers \cap Receipts = {} /\ Transfers \cap Counts = {} /\ Receipts \cap Counts = {}
    /\ IsFiniteSet(Skus) /\ IsFiniteSet(Warehouses)
    /\ NoDoc \notin Docs /\ Uncounted \notin Nat /\ Kinds \subseteq AllKinds
    /\ Quantities \subseteq [Skus -> Nat]
    /\ \A q \in Quantities : \E s \in Skus : q[s] > 0
    /\ Units \subseteq Nat /\ Deltas \subseteq Int
    /\ Opening \in [Cells -> Nat] /\ Reserved \in [Cells -> Nat]
    /\ \A c \in Cells : Reserved[c] <= Opening[c]
    /\ MaxRequests \in Nat

VARIABLES
    db,        \* the committed rows, see Rows
    run,       \* each transaction's request and what it read
    torn,      \* transfers and receipts written over a stale read (history)
    begun      \* requests in flight or committed with a change (bound)

vars == <<db, run, torn, begun>>

\* A document row with its items; qty 0 means no item for the sku.
Nothing == [status |-> "none"]
Transfer == [status : {"draft", "in_transit", "received", "cancelled"},
             from : Warehouses, to : Warehouses,
             qty : [Skus -> Nat], received : [Skus -> Nat]]
Receipt == [status : {"draft", "received", "cancelled"}, to : Warehouses,
            qty : [Skus -> Nat], received : [Skus -> Nat]]
Count == [status : {"counting", "posted", "cancelled"}, at : Warehouses,
          lines : SUBSET Skus, counted : [Skus -> Nat \cup {Uncounted}]]

Level == [exists : BOOLEAN, onHand : Nat, incoming : Nat]

\* `corrected` is the net of the count, adjust and scrap rows of the ledger.
Rows == [doc : [Docs -> {Nothing} \cup Transfer \cup Receipt \cup Count],
         level : [Cells -> Level],
         corrected : [Skus -> Int]]

Table(d) == CASE d \in Transfers -> Transfers
              [] d \in Receipts  -> Receipts
              [] d \in Counts    -> Counts
              [] OTHER           -> {}

Existing(docs) == {d \in docs : db.doc[d].status # "none"}

Items(row) == {s \in Skus : row.qty[s] > 0}
Owing(row, s) == row.qty[s] - row.received[s]

Positive(n) == IF n > 0 THEN n ELSE 0
Lesser(m, n) == IF m < n THEN m ELSE n

-----------------------------------------------------------------------------
(***************************************************************************)
(* A request's progress: `row`, `level` and `made` are what its SELECTs    *)
(* returned, `db` what its writes make of the committed rows; ok falls     *)
(* when it throws.                                                         *)
(***************************************************************************)

LevelsRead(kind) == IF kind \in {"openCount", "post"} THEN Cells ELSE {}

\* A create reads the references of its table, to take the next one.
Snapshot(kind, d) ==
    [row   |-> IF d = NoDoc THEN Nothing ELSE db.doc[d],
     level |-> [c \in LevelsRead(kind) |-> db.level[c]],
     made  |-> IF kind \in Creates THEN Existing(Table(d)) ELSE {}]

Start(seen) == [ok |-> TRUE, db |-> db, seen |-> seen]

Rejected(x) == [x EXCEPT !.ok = FALSE]

\* Mutant: applyMovement without its checks.
MovedUnchecked(x, s, w, qty) ==
    [x EXCEPT !.db.level[<<s, w>>] = [@ EXCEPT !.exists = TRUE, !.onHand = @ + qty]]

Moved(x, s, w, qty) ==
    LET onHand == x.db.level[<<s, w>>].onHand + qty IN
    [x EXCEPT !.ok = @ /\ onHand >= 0 /\ Reserved[<<s, w>>] <= onHand,
              !.db.level[<<s, w>>] = [@ EXCEPT !.exists = TRUE, !.onHand = onHand]]

\* Mutant: what arrives is never taken off what is expected.
IncomingUp(x, s, w, n) ==
    [x EXCEPT !.db.level[<<s, w>>] =
        [@ EXCEPT !.exists = TRUE, !.incoming = @ + Positive(n)]]

Incoming(x, s, w, n) ==
    LET due == x.db.level[<<s, w>>].incoming + n IN
    [x EXCEPT !.db.level[<<s, w>>] =
        [@ EXCEPT !.exists = TRUE, !.incoming = Positive(due)]]

\* nextRef takes the highest reference plus one, and references are unique:
\* of two documents created at once the later insert fails.
Created(x, d, row) ==
    IF Existing(Table(d)) # x.seen.made THEN Rejected(x)
    ELSE [x EXCEPT !.db.doc[d] = row]

-----------------------------------------------------------------------------
(* Transfers                                                               *)

CreateTransfer(x, d, arg) ==
    IF arg.from = arg.to THEN Rejected(x)
    ELSE Created(x, d, [status |-> "draft", from |-> arg.from, to |-> arg.to,
                        qty |-> arg.qty, received |-> [s \in Skus |-> 0]])

Dispatch(x, d) ==
    LET row == x.seen.row
        send(s, acc) == Incoming(Moved(acc, s, row.from, -row.qty[s]),
                                 s, row.to, row.qty[s])
    IN  CASE row.status # "draft" -> x
          [] Items(row) = {}      -> Rejected(x)
          [] OTHER -> [FoldSet(send, x, Items(row))
                        EXCEPT !.db.doc[d].status = "in_transit"]

AllArrived(row) == \A s \in Items(row) : Owing(row, s) <= 0

\* `declared` is what the caller says arrived so far; an item it leaves out
\* arrived as sent.  received_qty is written from the row as it was read,
\* `complete` computed from the rows as they are after the writes.
Receive(x, d, declared) ==
    LET row == x.seen.row
        arriving(s) == declared[s] - row.received[s]
        land(s, acc) ==
            IF arriving(s) <= 0 THEN acc
            ELSE [Incoming(Moved(acc, s, row.to, arriving(s)), s, row.to, -arriving(s))
                    EXCEPT !.db.doc[d].received[s] = declared[s]]
        after == FoldSet(land, x, Items(row))
    IN  CASE row.status = "received"   -> x
          [] row.status # "in_transit" -> Rejected(x)
          [] OTHER -> [after EXCEPT !.db.doc[d].status =
                          IF AllArrived(after.db.doc[d]) THEN "received" ELSE "in_transit"]

\* Mutant: everything that was sent goes back, landed or not.
ReturnedAll(x, row, s) ==
    Incoming(Moved(x, s, row.from, row.qty[s]), s, row.to, -row.qty[s])

Returned(x, row, s) ==
    IF Owing(row, s) <= 0 THEN x
    ELSE Incoming(Moved(x, s, row.from, Owing(row, s)), s, row.to, -Owing(row, s))

CancelTransfer(x, d) ==
    LET row == x.seen.row
        back(s, acc) == Returned(acc, row, s)
        home == IF row.status = "in_transit" THEN FoldSet(back, x, Items(row)) ELSE x
    IN  CASE row.status = "cancelled" -> x
          [] row.status = "received"  -> Rejected(x)
          [] OTHER -> [home EXCEPT !.db.doc[d].status = "cancelled"]

-----------------------------------------------------------------------------
(* Goods-received notes                                                    *)

Confirmed(x, d, row) ==
    LET land(s, acc) ==
            IF Owing(row, s) <= 0 THEN acc
            ELSE [Moved(acc, s, row.to, Owing(row, s))
                    EXCEPT !.db.doc[d].received[s] = row.qty[s]]
    IN  [FoldSet(land, x, Items(row)) EXCEPT !.db.doc[d].status = "received"]

Confirm(x, d) ==
    LET row == x.seen.row IN
    CASE row.status = "received"  -> x
      [] row.status = "cancelled" -> Rejected(x)
      [] Items(row) = {}          -> Rejected(x)
      [] OTHER                    -> Confirmed(x, d, row)

Draft(arg) == [status |-> "draft", to |-> arg.to, qty |-> arg.qty,
               received |-> [s \in Skus |-> 0]]

\* With confirm:true the note is received in the transaction that creates it.
CreateReceipt(x, d, arg) ==
    LET drafted == Created(x, d, Draft(arg)) IN
    IF arg.confirm /\ drafted.ok THEN Confirmed(drafted, d, Draft(arg)) ELSE drafted

\* The direct receive: its note is written received, then the goods move.
RecordPurchase(x, d, arg) ==
    Created(x, d, [status |-> "received", to |-> arg.to, qty |-> arg.qty,
                   received |-> arg.qty])

ReceiveStock(x, d, arg) ==
    FoldSet(LAMBDA s, acc : Moved(acc, s, arg.to, arg.qty[s]),
            RecordPurchase(x, d, arg), Items(arg))

CancelReceipt(x, d) ==
    IF x.seen.row.status = "received" THEN Rejected(x)
    ELSE [x EXCEPT !.db.doc[d].status = "cancelled"]

-----------------------------------------------------------------------------
(* Counts, and adjustments by hand                                         *)

\* One line per level the warehouse has, among the skus asked for, if any.
OpenCount(x, d, arg) ==
    LET lines == {s \in Skus : /\ x.seen.level[<<s, arg.at>>].exists
                               /\ arg.skus = {} \/ s \in arg.skus}
    IN  IF lines = {} THEN Rejected(x)
        ELSE Created(x, d, [status |-> "counting", at |-> arg.at, lines |-> lines,
                            counted |-> [s \in Skus |-> Uncounted]])

\* Mutant: saving progress reopens the sheet, whatever it was.
SaveLinesReopening(x, d, arg) ==
    [x EXCEPT !.db.doc[d].counted[arg.sku] = arg.found,
              !.db.doc[d].status = "counting"]

\* The status it writes is the one it read.
SaveLines(x, d, arg) ==
    IF x.seen.row.status = "posted" THEN Rejected(x)
    ELSE [x EXCEPT !.db.doc[d].counted[arg.sku] =
                        IF arg.sku \in x.seen.row.lines THEN arg.found ELSE @,
                   !.db.doc[d].status = x.seen.row.status]

Corrected(x, s, w, qty) ==
    [Moved(x, s, w, qty) EXCEPT !.db.corrected[s] = @ + qty]

\* Mutant: a line nobody counted is a line where nothing was found.
FoundOrZero(row) ==
    [s \in row.lines |-> IF row.counted[s] = Uncounted THEN 0 ELSE row.counted[s]]

\* What was found, on the lines that were counted.
Found(row) == [s \in {l \in row.lines : row.counted[l] # Uncounted} |-> row.counted[s]]

\* The difference posted is against the level as the request read it.
PostCount(x, d) ==
    LET row == x.seen.row
        delta(s) == Found(row)[s] - x.seen.level[<<s, row.at>>].onHand
        correct(s, acc) == IF delta(s) = 0 THEN acc
                           ELSE Corrected(acc, s, row.at, delta(s))
    IN  CASE row.status = "posted"    -> x
          [] row.status = "cancelled" -> Rejected(x)
          [] DOMAIN Found(row) = {}   -> Rejected(x)
          [] OTHER -> [FoldSet(correct, x, DOMAIN Found(row))
                        EXCEPT !.db.doc[d].status = "posted"]

CancelCount(x, d) ==
    IF x.seen.row.status = "posted" THEN Rejected(x)
    ELSE [x EXCEPT !.db.doc[d].status = "cancelled"]

Adjust(x, arg) == IF arg.delta = 0 THEN x ELSE Corrected(x, arg.sku, arg.at, arg.delta)

-----------------------------------------------------------------------------
Inputs(kind) ==
    CASE kind = "createTransfer" -> [from : Warehouses, to : Warehouses, qty : Quantities]
      [] kind = "receive"        -> [Skus -> Units]
      [] kind = "createReceipt"  -> [to : Warehouses, qty : Quantities, confirm : BOOLEAN]
      [] kind = "receiveStock"   -> [to : Warehouses, qty : Quantities]
      [] kind = "openCount"      -> [at : Warehouses, skus : SUBSET Skus]
      [] kind = "saveLines"      -> [sku : Skus, found : Units \cup {Uncounted}]
      [] kind = "adjust"         -> [sku : Skus, at : Warehouses, delta : Deltas]
      [] OTHER                   -> {"none"}

\* The documents a request names: one that exists, or the one it creates.
Targets(kind) ==
    CASE kind = "createTransfer" -> Transfers \ Existing(Transfers)
      [] kind \in {"createReceipt", "receiveStock"} -> Receipts \ Existing(Receipts)
      [] kind = "openCount"      -> Counts \ Existing(Counts)
      [] kind \in {"dispatch", "receive", "cancelTransfer"} -> Existing(Transfers)
      [] kind \in {"confirm", "cancelReceipt"} -> Existing(Receipts)
      [] kind = "adjust"         -> {NoDoc}
      [] OTHER                   -> Existing(Counts)

Outcome(kind, x, d, arg) ==
    CASE kind = "createTransfer" -> CreateTransfer(x, d, arg)
      [] kind = "dispatch"       -> Dispatch(x, d)
      [] kind = "receive"        -> Receive(x, d, arg)
      [] kind = "cancelTransfer" -> CancelTransfer(x, d)
      [] kind = "createReceipt"  -> CreateReceipt(x, d, arg)
      [] kind = "confirm"        -> Confirm(x, d)
      [] kind = "receiveStock"   -> ReceiveStock(x, d, arg)
      [] kind = "cancelReceipt"  -> CancelReceipt(x, d)
      [] kind = "openCount"      -> OpenCount(x, d, arg)
      [] kind = "saveLines"      -> SaveLines(x, d, arg)
      [] kind = "post"           -> PostCount(x, d)
      [] kind = "cancelCount"    -> CancelCount(x, d)
      [] kind = "adjust"         -> Adjust(x, arg)

Idle == [kind |-> "idle"]

Init ==
    /\ db = [doc       |-> [d \in Docs |-> Nothing],
             level     |-> [c \in Cells |-> [exists |-> Opening[c] > 0,
                                            onHand |-> Opening[c], incoming |-> 0]],
             corrected |-> [s \in Skus |-> 0]]
    /\ run = [t \in Tx |-> Idle]
    /\ torn = {}
    /\ begun = 0

Read(t, kind, d) ==
    /\ run[t] = Idle /\ begun < MaxRequests
    /\ begun' = begun + 1
    /\ run' = [run EXCEPT ![t] = [kind |-> kind, doc |-> d, seen |-> Snapshot(kind, d)]]
    /\ UNCHANGED <<db, torn>>

\* No handler locks its document's row, nor looks at it again: what it writes
\* may rest on a row another request has written since.
Stale(r) == r.doc \in Transfers \cup Receipts /\ r.seen.row # db.doc[r.doc]

Act(t) ==
    /\ run[t] # Idle
    /\ \E arg \in Inputs(run[t].kind) :
          LET x == Outcome(run[t].kind, Start(run[t].seen), run[t].doc, arg) IN
          IF x.ok /\ x.db # db
          THEN /\ db' = x.db
               /\ torn' = IF Stale(run[t]) THEN torn \cup {run[t].doc} ELSE torn
               /\ UNCHANGED begun
          ELSE UNCHANGED <<db, torn>> /\ begun' = begun - 1
    /\ run' = [run EXCEPT ![t] = Idle]

\* The process dies, or the database aborts the transaction.
Abort(t) ==
    /\ run[t] # Idle
    /\ run' = [run EXCEPT ![t] = Idle]
    /\ begun' = begun - 1
    /\ UNCHANGED <<db, torn>>

Next ==
    \E t \in Tx :
        \/ \E kind \in Kinds : \E d \in Targets(kind) : Read(t, kind, d)
        \/ Act(t)
        \/ Abort(t)

Spec == Init /\ [][Next]_vars
-----------------------------------------------------------------------------
(* Properties                                                              *)

\* Types; no level below zero, or below what is reserved of it.
TypeOK ==
    /\ db \in Rows
    /\ \A c \in Cells : Reserved[c] <= db.level[c].onHand
    /\ \A d \in Existing(Docs) :
          db.doc[d] \in CASE d \in Transfers -> Transfer
                         [] d \in Receipts  -> Receipt
                         [] d \in Counts    -> Count
    /\ \A t \in Tx : run[t] = Idle \/ run[t].kind \in Kinds
    /\ torn \subseteq Existing(Transfers \cup Receipts)
    /\ begun \in 0 .. MaxRequests

\* Units of a sku a transfer has taken off a shelf and not put on another;
\* negative when more arrived than was sent.
Away(row, s) ==
    CASE row.status \in {"in_transit", "received"} -> Owing(row, s)
      [] row.status = "cancelled" -> Lesser(0, Owing(row, s))
      [] OTHER -> 0

OnHand(s) == MapThenSumSet(LAMBDA w : db.level[<<s, w>>].onHand, Warehouses)

Conserved(s) ==
    OnHand(s) + MapThenSumSet(LAMBDA d : Away(db.doc[d], s), Existing(Transfers))
    = MapThenSumSet(LAMBDA w : Opening[<<s, w>>], Warehouses) + db.corrected[s]
      + MapThenSumSet(LAMBDA d : db.doc[d].qty[s],
                      {d \in Receipts : db.doc[d].status = "received"})

\* No document with items of the sku was written over a stale read.
Untorn(s) == \A d \in torn : s \notin Items(db.doc[d])

\* Goods are conserved: what is on the shelves and on the road is what there
\* was at first, what notes received, and what counts and adjustments wrote -
\* over any order of dispatches, part receipts, cancellations and posts that
\* share levels, whichever overlap, for every sku of which no transfer or
\* receipt was written by a request that had read it before another wrote it.
GoodsConserved == \A s \in Skus : Untorn(s) => Conserved(s)

\* The same of every sku: what it would take two requests on one document to
\* exclude each other.
AlwaysConserved == \A s \in Skus : Conserved(s)

\* The transfers on their way to a warehouse.
Inbound(w) == {d \in Existing(Transfers) : /\ db.doc[d].status = "in_transit"
                                           /\ db.doc[d].to = w}

\* A level's incoming is never a phantom: at most what transfers in transit
\* still owe it, and exactly that unless one of them delivered more than sent;
\* of the skus GoodsConserved speaks of.
IncomingIsOwed ==
    \A s \in Skus, w \in Warehouses : Untorn(s) =>
        LET owed == MapThenSumSet(LAMBDA d : Positive(Owing(db.doc[d], s)), Inbound(w))
            exceeded == \E d \in Existing(Transfers) : Owing(db.doc[d], s) < 0
        IN  IF exceeded THEN db.level[<<s, w>>].incoming <= owed
            ELSE db.level[<<s, w>>].incoming = owed

\* The step in which a request ends with its writes committed.
Commit(t) == run[t] # Idle /\ run'[t] = Idle /\ db' # db

\* A document that was received, posted or cancelled stays so, whatever request
\* comes for it, save one that had read it in another status before it closed:
\* a save that overlaps a post does reopen the sheet, and nothing later can.
ClosedStaysClosed ==
    [][\A d \in Docs :
          /\ db.doc[d].status \in {"received", "posted", "cancelled"}
          /\ db'.doc[d].status # db.doc[d].status
          => \E t \in Tx : /\ Commit(t) /\ run[t].doc = d
                           /\ run[t].seen.row.status # db.doc[d].status]_vars

\* A post brings on-hand to what was found, plus whatever moved there since the
\* request read the level, and leaves every other level as it is: a line nobody
\* counted is not a line where nothing was found, nor is a movement undone.
PostFindsCounted ==
    [][\A t \in Tx : Commit(t) /\ run[t].kind = "post" =>
          LET sheet == run[t].seen.row
              read  == run[t].seen.level
          IN  \A c \in Cells :
                 IF c[2] = sheet.at /\ c[1] \in sheet.lines /\ sheet.counted[c[1]] # Uncounted
                 THEN db'.level[c].onHand
                      = sheet.counted[c[1]] + (db.level[c].onHand - read[c].onHand)
                 ELSE db'.level[c] = db.level[c]]_vars
=============================================================================
