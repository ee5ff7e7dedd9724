---------------------------- MODULE StockLedger ----------------------------
(***************************************************************************)
(* The stock truth of one tenant: inventory_levels, the append-only        *)
(* stock_movements ledger, and the products.stock mirror, as               *)
(* InventoryService (src/src/inventory/inventory.service.ts) writes them   *)
(* from concurrent requests.                                               *)
(*                                                                         *)
(* A request is one READ COMMITTED transaction (TenantDb.forTenant).  It   *)
(* applies a list of lines; each line locks its level row (lockLevel),     *)
(* checks and writes it (applyMovement or applyIncoming), and at the end   *)
(* the request may refresh the mirror (syncProductStock) and commits.      *)
(* Steps are SQL statements: what another transaction has not committed    *)
(* is invisible, and a locked row makes the statement wait.                *)
(***************************************************************************)
EXTENDS Integers, Sequences, Functions

CONSTANTS
    Levels,       \* (sku, warehouse) pairs
    Products,
    ProductOf,    \* the product a level's sku belongs to
    Tx,           \* request slots: as many requests run at once
    NoTx,
    Requests,     \* what a request may ask for
    MaxRequests   \* bound: requests the model starts in all

Ops == {"move", "incoming"}

Line == [op : Ops, lvl : Levels, qty : Int, res : Int]

Request == [lines : Seq(Line), sync : BOOLEAN]

NoRequest == [lines |-> <<>>, sync |-> FALSE]

ASSUME NoTxAssumption == NoTx \notin Tx
ASSUME ProductAssumption == ProductOf \in [Levels -> Products]
ASSUME RequestsAssumption ==
    /\ Requests \subseteq Request
    /\ \A r \in Requests : r.lines # <<>>
ASSUME BoundAssumption == MaxRequests \in Nat

VARIABLES
    level,        \* committed inventory_levels rows
    ledger,       \* committed stock_movements rows, per level in commit order
    stock,        \* committed products.stock
    owner,        \* transaction holding the level's row lock or pending insert
    work,         \* the owner's uncommitted version of the row
    pend,         \* the owner's uncommitted ledger rows
    mirrorOwner,  \* transaction holding the product's row lock
    mirrorWork,   \* its uncommitted products.stock
    pc, req, at,  \* a transaction's progress: request and current line
    agg, todo,    \* syncProductStock: aggregate read, products left to write
    begun         \* requests started (bound only)

rows == <<level, ledger>>
locks == <<owner, work, pend>>
mirror == <<stock, mirrorOwner, mirrorWork>>
sync == <<agg, todo>>
vars == <<level, ledger, stock, owner, work, pend, mirrorOwner, mirrorWork,
          pc, req, at, agg, todo, begun>>

PCs == {"idle", "lock", "insert", "apply", "sync", "mirror", "commit"}

-----------------------------------------------------------------------------
(* Rows and balances                                                       *)

NoRow == [exists |-> FALSE, onHand |-> 0, reserved |-> 0, incoming |-> 0]
NewRow == [NoRow EXCEPT !.exists = TRUE]

Row == [exists : BOOLEAN, onHand : Nat, reserved : Nat, incoming : Nat]

\* A ledger row carries the deltas and the balances after them.
Movement == [qty : Int, res : Int, onHand : Nat, reserved : Nat]

\* The balance a ledger starting at `start` ends with.
Balance(start, log) == IF log = <<>> THEN start ELSE log[Len(log)]

\* Every row's after-balances are the previous row's plus its own deltas.
RunningBalance(start, log) ==
    \A i \in DOMAIN log :
        LET prev == IF i = 1 THEN start ELSE log[i - 1] IN
        /\ log[i].onHand = prev.onHand + log[i].qty
        /\ log[i].reserved = prev.reserved + log[i].res

SameBalance(a, b) == a.onHand = b.onHand /\ a.reserved = b.reserved

Current(t) == req[t].lines[at[t]]

LevelsOf(p) == {l \in Levels : ProductOf[l] = p}

Touched(t) == {ProductOf[l] : l \in {k \in Levels :
                 \E i \in DOMAIN req[t].lines : /\ req[t].lines[i].op = "move"
                                                /\ req[t].lines[i].lvl = k}}

\* A row as the statements of t see it: its own writes over committed data.
Seen(t, l) == IF owner[l] = t THEN work[l] ELSE level[l]

\* sum(on_hand) over the skus of p in t's statement snapshot.
OnHandSeen(t, p) ==
    SumFunction([l \in LevelsOf(p) |-> Seen(t, l).onHand])

-----------------------------------------------------------------------------
Init ==
    /\ level = [l \in Levels |-> NoRow]
    /\ ledger = [l \in Levels |-> <<>>]
    /\ stock = [p \in Products |-> 0]
    /\ owner = [l \in Levels |-> NoTx]
    /\ work = [l \in Levels |-> NoRow]
    /\ pend = [l \in Levels |-> <<>>]
    /\ mirrorOwner = [p \in Products |-> NoTx]
    /\ mirrorWork = [p \in Products |-> 0]
    /\ pc = [t \in Tx |-> "idle"]
    /\ req = [t \in Tx |-> NoRequest]
    /\ at = [t \in Tx |-> 1]
    /\ agg = [t \in Tx |-> [p \in Products |-> 0]]
    /\ todo = [t \in Tx |-> {}]
    /\ begun = 0

-----------------------------------------------------------------------------
(* A request begins.  At most MaxRequests do, in all.                      *)

Begin(t) ==
    /\ pc[t] = "idle" /\ begun < MaxRequests
    /\ begun' = begun + 1
    /\ \E r \in Requests : req' = [req EXCEPT ![t] = r]
    /\ at' = [at EXCEPT ![t] = 1]
    /\ pc' = [pc EXCEPT ![t] = "lock"]
    /\ UNCHANGED <<rows, locks, mirror, sync>>

(***************************************************************************)
(* lockLevel.  SELECT ... FOR UPDATE returns the newest version of a row   *)
(* the statement can see, once no other transaction holds it.  A row that  *)
(* is missing, or only inserted by someone uncommitted, comes back empty.  *)
(***************************************************************************)

Visible(t, l) == level[l].exists \/ owner[l] = t

Grab(t, l, row) ==
    /\ owner' = [owner EXCEPT ![l] = t]
    /\ work' = [work EXCEPT ![l] = row]
    /\ UNCHANGED pend

\* Mutant: the row is read without waiting for its lock.
LockRowUnwaited(t) ==
    LET l == Current(t).lvl IN
    /\ pc[t] = "lock" /\ Visible(t, l)
    /\ Grab(t, l, Seen(t, l))
    /\ pc' = [pc EXCEPT ![t] = "apply"]
    /\ UNCHANGED <<rows, mirror, sync, req, at, begun>>

LockRow(t) ==
    LET l == Current(t).lvl IN
    /\ pc[t] = "lock" /\ Visible(t, l)
    /\ owner[l] \in {NoTx, t}
    /\ Grab(t, l, Seen(t, l))
    /\ pc' = [pc EXCEPT ![t] = "apply"]
    /\ UNCHANGED <<rows, mirror, sync, req, at, begun>>

MissRow(t) ==
    /\ pc[t] = "lock" /\ ~Visible(t, Current(t).lvl)
    /\ pc' = [pc EXCEPT ![t] = "insert"]
    /\ UNCHANGED <<rows, locks, mirror, sync, req, at, begun>>

(***************************************************************************)
(* INSERT ... ON CONFLICT DO NOTHING.  It waits for another transaction's  *)
(* uncommitted insert of the same key; when that one committed, nothing is *)
(* inserted and lockLevel starts over.                                     *)
(***************************************************************************)

InsertRow(t) ==
    LET l == Current(t).lvl IN
    /\ pc[t] = "insert" /\ ~level[l].exists
    /\ owner[l] = NoTx
    /\ Grab(t, l, NewRow)
    /\ pc' = [pc EXCEPT ![t] = "apply"]
    /\ UNCHANGED <<rows, mirror, sync, req, at, begun>>

\* Mutant: the loser inserts again instead of locking the winner's row.
InsertLostAgain(t) ==
    /\ pc[t] = "insert" /\ level[Current(t).lvl].exists
    /\ UNCHANGED vars

InsertLost(t) ==
    /\ pc[t] = "insert" /\ level[Current(t).lvl].exists
    /\ pc' = [pc EXCEPT ![t] = "lock"]
    /\ UNCHANGED <<rows, locks, mirror, sync, req, at, begun>>

-----------------------------------------------------------------------------
(* applyMovement and applyIncoming on the locked row.                      *)

AfterLine(t) ==
    IF at[t] < Len(req[t].lines) THEN "lock"
    ELSE IF req[t].sync THEN "sync" ELSE "commit"

Advance(t) ==
    /\ at' = [at EXCEPT ![t] = IF @ < Len(req[t].lines) THEN @ + 1 ELSE @]
    /\ pc' = [pc EXCEPT ![t] = AfterLine(t)]

\* Mutant: promises are not compared with the goods.
AllowedOversold(onHand, reserved) == onHand >= 0 /\ reserved >= 0

\* The balances applyMovement accepts.
Allowed(onHand, reserved) ==
    /\ onHand >= 0
    /\ reserved >= 0
    /\ reserved <= onHand

ApplyMovement(t) ==
    LET c == Current(t)
        onHand == work[c.lvl].onHand + c.qty
        reserved == work[c.lvl].reserved + c.res
    IN
    /\ pc[t] = "apply" /\ c.op = "move"
    /\ Allowed(onHand, reserved)
    /\ work' = [work EXCEPT ![c.lvl] =
                  [@ EXCEPT !.onHand = onHand, !.reserved = reserved]]
    /\ pend' = [pend EXCEPT ![c.lvl] =
                  Append(@, [qty |-> c.qty, res |-> c.res,
                             onHand |-> onHand, reserved |-> reserved])]
    /\ Advance(t)
    /\ UNCHANGED <<rows, owner, mirror, sync, req, begun>>

\* Mutant: incoming is not clamped.
UnclampedIncoming(n) == n

ClampedIncoming(n) == IF n > 0 THEN n ELSE 0

ApplyIncoming(t) ==
    LET c == Current(t)
        incoming == work[c.lvl].incoming + c.qty
    IN
    /\ pc[t] = "apply" /\ c.op = "incoming"
    /\ work' = [work EXCEPT ![c.lvl].incoming = ClampedIncoming(incoming)]
    /\ Advance(t)
    /\ UNCHANGED <<rows, owner, pend, mirror, sync, req, begun>>

-----------------------------------------------------------------------------
(***************************************************************************)
(* syncProductStock: one UPDATE ... FROM (aggregate).  The aggregate comes *)
(* from the statement's snapshot.  A product row another transaction holds *)
(* makes the update wait; afterwards Postgres re-checks that row, but the  *)
(* aggregate is not read again (EvalPlanQual keeps the other relations).   *)
(***************************************************************************)

SyncRead(t) ==
    /\ pc[t] = "sync"
    /\ agg' = [agg EXCEPT ![t] = [p \in Products |-> OnHandSeen(t, p)]]
    /\ todo' = [todo EXCEPT ![t] = {p \in Touched(t) : stock[p] # OnHandSeen(t, p)}]
    /\ pc' = [pc EXCEPT ![t] = "mirror"]
    /\ UNCHANGED <<rows, locks, mirror, req, at, begun>>

SyncWrite(t) ==
    /\ pc[t] = "mirror"
    /\ \E p \in todo[t] :
          /\ mirrorOwner[p] = NoTx
          /\ mirrorOwner' = [mirrorOwner EXCEPT ![p] = t]
          /\ mirrorWork' = [mirrorWork EXCEPT ![p] = agg[t][p]]
          /\ todo' = [todo EXCEPT ![t] = @ \ {p}]
    /\ UNCHANGED <<rows, locks, stock, pc, req, at, agg, begun>>

SyncDone(t) ==
    /\ pc[t] = "mirror" /\ todo[t] = {}
    /\ pc' = [pc EXCEPT ![t] = "commit"]
    /\ UNCHANGED <<rows, locks, mirror, sync, req, at, begun>>

-----------------------------------------------------------------------------
(* The end of a transaction: its locks go and, if it commits, its versions *)
(* become the committed ones.                                              *)

Finish(t) ==
    /\ owner' = [l \in Levels |-> IF owner[l] = t THEN NoTx ELSE owner[l]]
    /\ work' = [l \in Levels |-> IF owner[l] = t THEN NoRow ELSE work[l]]
    /\ pend' = [l \in Levels |-> IF owner[l] = t THEN <<>> ELSE pend[l]]
    /\ mirrorOwner' = [p \in Products |->
                         IF mirrorOwner[p] = t THEN NoTx ELSE mirrorOwner[p]]
    /\ mirrorWork' = [p \in Products |->
                         IF mirrorOwner[p] = t THEN 0 ELSE mirrorWork[p]]
    /\ pc' = [pc EXCEPT ![t] = "idle"]
    /\ req' = [req EXCEPT ![t] = NoRequest]
    /\ at' = [at EXCEPT ![t] = 1]
    /\ agg' = [agg EXCEPT ![t] = [p \in Products |-> 0]]
    /\ todo' = [todo EXCEPT ![t] = {}]
    /\ UNCHANGED begun

Commit(t) ==
    /\ pc[t] = "commit"
    /\ level' = [l \in Levels |-> IF owner[l] = t THEN work[l] ELSE level[l]]
    /\ ledger' = [l \in Levels |->
                    IF owner[l] = t THEN ledger[l] \o pend[l] ELSE ledger[l]]
    /\ stock' = [p \in Products |->
                   IF mirrorOwner[p] = t THEN mirrorWork[p] ELSE stock[p]]
    /\ Finish(t)

Rollback(t) ==
    /\ UNCHANGED <<level, ledger, stock>>
    /\ Finish(t)

\* Mutant: a refused line ends the request, which keeps the lines before it.
RejectKeeping(t) ==
    LET c == Current(t) IN
    /\ pc[t] = "apply" /\ c.op = "move"
    /\ ~Allowed(work[c.lvl].onHand + c.qty, work[c.lvl].reserved + c.res)
    /\ level' = [l \in Levels |-> IF owner[l] = t THEN work[l] ELSE level[l]]
    /\ ledger' = [l \in Levels |->
                    IF owner[l] = t THEN ledger[l] \o pend[l] ELSE ledger[l]]
    /\ UNCHANGED stock
    /\ Finish(t)

\* applyMovement throws: the whole request is rolled back.
Reject(t) ==
    LET c == Current(t) IN
    /\ pc[t] = "apply" /\ c.op = "move"
    /\ ~Allowed(work[c.lvl].onHand + c.qty, work[c.lvl].reserved + c.res)
    /\ Rollback(t)

\* The process or its connection dies before the commit.
Crash(t) == pc[t] # "idle" /\ Rollback(t)

-----------------------------------------------------------------------------
(* Lock waits, and the deadlocks the database breaks by aborting a member. *)

WaitsFor(t) ==
    CASE pc[t] = "lock" /\ Visible(t, Current(t).lvl) ->
            {owner[Current(t).lvl]} \ {NoTx, t}
      [] pc[t] = "insert" /\ ~level[Current(t).lvl].exists ->
            {owner[Current(t).lvl]} \ {NoTx, t}
      [] pc[t] = "mirror" /\ todo[t] # {} ->
            IF \E p \in todo[t] : mirrorOwner[p] = NoTx THEN {}
            ELSE {mirrorOwner[p] : p \in todo[t]}
      [] OTHER -> {}

Deadlocked(t) ==
    \E D \in SUBSET Tx :
        /\ t \in D
        /\ \A u \in D : /\ WaitsFor(u) \cap D # {}
                        /\ \E v \in D : u \in WaitsFor(v)

DeadlockAbort(t) == Deadlocked(t) /\ Rollback(t)

Step(t) ==
    \/ LockRow(t) \/ MissRow(t) \/ InsertRow(t) \/ InsertLost(t)
    \/ ApplyMovement(t) \/ ApplyIncoming(t) \/ Reject(t)
    \/ SyncRead(t) \/ SyncWrite(t) \/ SyncDone(t)
    \/ Commit(t) \/ DeadlockAbort(t)

Next == \E t \in Tx : Begin(t) \/ Step(t) \/ Crash(t)

Spec == Init /\ [][Next]_vars

\* Every started request keeps executing its next statement.
Fairness == \A t \in Tx : WF_vars(Step(t))

FairSpec == Spec /\ Fairness

-----------------------------------------------------------------------------
(* Properties                                                              *)

\* Types of the rows, the locks and the requests' progress.
TypeOK ==
    /\ level \in [Levels -> Row]
    /\ ledger \in [Levels -> Seq(Movement)]
    /\ owner \in [Levels -> Tx \cup {NoTx}]
    /\ work \in [Levels -> Row]
    /\ pend \in [Levels -> Seq(Movement)]
    /\ mirrorOwner \in [Products -> Tx \cup {NoTx}]
    /\ pc \in [Tx -> PCs]
    /\ req \in [Tx -> Requests \cup {NoRequest}]
    /\ at \in [Tx -> Nat \ {0}]
    /\ todo \in [Tx -> SUBSET Products]

\* The oversell guard: however requests for the same stock interleave, no
\* level ever holds more promises than goods, committed or in progress
\* (lockLevel's row lock, applyMovement's three checks).
ReservedIsCovered ==
    \A l \in Levels : /\ level[l].reserved <= level[l].onHand
                      /\ work[l].reserved <= work[l].onHand

\* The ledger reconciles: each committed row carries the balance of the row
\* before it plus its own deltas, and the level equals the last balance, so
\* on_hand is the sum of the movements (the closing test of
\* test/20-inventory-ledger.spec.ts), whatever the interleaving.
LedgerExplainsLevels ==
    \A l \in Levels : /\ RunningBalance(NoRow, ledger[l])
                      /\ SameBalance(level[l], Balance(NoRow, ledger[l]))

\* Isolation and atomicity: the committed rows only ever change by serving one
\* request whole against the committed stock (lockLevel + the transaction).
Promise == INSTANCE AtomicStock WITH
    Levels <- Levels, Requests <- Requests, level <- level, ledger <- ledger
ServedWhole == Promise!Spec

\* Every request ends, although requests lock the levels of their lines in
\* line order and can wait for each other in a circle.
RequestsEnd == \A t \in Tx : pc[t] # "idle" ~> pc[t] = "idle"

\* products.stock equals the on-hand of the product's skus whenever no
\* request is running: what syncProductStock's comment says of the mirror.
MirrorInStep ==
    (\A t \in Tx : pc[t] = "idle") =>
        \A p \in Products : stock[p] = SumFunction([l \in LevelsOf(p) |-> level[l].onHand])
=============================================================================
