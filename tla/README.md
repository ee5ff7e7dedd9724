# Verification of the multi-tenant CMS backend

TLA+ models, model-checking runs and machine-checked proofs for the backend in
`src/` (a NestJS application over one PostgreSQL database and the GoTrue identity
provider). The code moves physical stock on behalf of many concurrent users, sells
it, and decides who may do so from caches and from two systems that share no
transaction. The project models the core of each: the stock ledger and every
document that moves stock, checkout and the storefront, and accounts, caches and
rights.

- [The system](#the-system): components, state, interactions, hard behaviours
- [The modules](#the-modules): what each models and how it corresponds to the code
- [The runs](#the-runs): what each checks and shows, with bounds and fairness
- [Disagreements met](#disagreements-met): where the code differs from what it says
- [The proofs](#the-proofs)
- [Limits](#limits) and [Not modelled](#not-modelled)
- [Plan](#plan)

## The system

### Components

| Component | State | Operations | Correct when |
|---|---|---|---|
| Stock ledger (`inventory/inventory.service.ts`) | `inventory_levels` (on_hand, reserved, incoming), `stock_movements`, mirror `products.stock` | `applyMovement`, `applyIncoming`, `syncProductStock`, `lockLevel` | reserved ≤ on_hand at every instant; the ledger is a running balance that ends at the level |
| Fulfilment (`fulfilment.service.ts`, `fulfilment.controller.ts`) | `inventory_reservations`, `order_items.warehouse_id` | `reserveOrder`, `releaseOrder`, `deduct`, the three endpoints | `reserved` is what active reservations hold; each unit settled once |
| Orders (`crud/crud.service.ts`) | `orders`, `order_items` | create / update / remove, with the stock effects of a status transition | an order exists only with its stock held; a cancelled one holds nothing |
| Packing (`workflows/packing.controller.ts`) | `packing_lists`, cartons, the list's holds | hold, release-hold, confirm, reopen, delete, ship-events, PATCH | goods leave once per signature, come back when the document goes |
| Size matching (`packing-stock.service.ts`, `size-match.ts`, SKUs of `inventory.service.ts`) | `product_variants`, `skus`, `packing_sku_map` | saving variants, ensuring SKUs, resolving a cell, choosing and remembering a mapping | a carton moves the goods it names; a decision stands; history stays |
| Transfers, receipts, counts (`inventory/*.controller.ts`) | document rows with a status, lines with quantities | dispatch / receive / cancel, confirm / cancel, post / cancel | a document moves stock once; what left arrives or comes back |
| Checkout (`storefront/public-checkout.service.ts`, `workflows/order-code.ts`) | orders and their codes, promotion use, customers | placing an order, reading it back | whole or not at all; counted once; a receipt opens its own order |
| Storefront (`storefront/storefront.service.ts`) | pages, config; reads the catalogue | quotes, listings, counts, saving pages | a quote adds up; counts lead to pages |
| Access (`auth/`, `tenant/*.guard.ts`) | caches of tenants, access and domains (30 s) | guards, invalidation | a revoked right is gone after a bound |
| Rights (`auth/capabilities.ts`, `platform/module-presets.ts`, `role-templates.ts`, `scripts/backfill-rbac.ts`) | entitlements, role permissions | provisioning, updates of a workspace, role editing, backfill | taking away never gives; a type's ceiling is crossed only on purpose |
| Accounts (`platform/`, `tenant/staff-invite.controller.ts`, `auth/`) | `staff_users` and GoTrue's identities | create, update, status, move, remove, promote, demote, invite | the two systems agree when nothing is under way |
| Maintenance (`maintenance/`) | none of its own | reservation expiry, promotion status | running it twice changes nothing |
| Dashboard, search, alerts, uploads, chat, import | see [Not modelled](#not-modelled) | | |

### Interactions

Every request runs in one transaction, `TenantDb.forTenant`, at PostgreSQL's
READ COMMITTED: each statement sees what was committed when it started, plus the
transaction's own writes. Components share state only through rows. Fulfilment,
packing, transfers, receipts and counts all write levels through
`applyMovement`, which locks the level row first. Orders and checkout call fulfilment
inside their own transaction; packing settles an order's reservations directly; the
maintenance job calls `releaseOrder` from every running instance. The services that
manage people call GoTrue over HTTP inside or between their transactions. Guards read
rows through caches that each API process has for itself.

### What is hard

- A plain SELECT takes no lock. Whatever is decided from one (an order's status,
  a reservation's outstanding quantity, `alreadyProcessed`, a promotion's use, a page's
  first publication) can be stale when it is used. Only levels, the row of the
  highest order code and, in packing, the list's own row are read through a lock.
- Settling a reservation writes absolute values computed from such a read.
- A request holds row locks to its commit, in the order of its lines: circles of
  waits occur and the database aborts a member.
- Documents have a status, a stock state and rows in other tables that must move
  together over long sequences of calls (confirm, reopen, edit, confirm again).
- Cascading deletes remove reservations, SKUs and movements without a trace.
- A person is a row and a login; no transaction covers both, so what one failed call
  leaves is undone by another call, which can fail too.
- A cache entry is stored after the reads it is made of, so a drop in between is lost;
  other processes never hear of it.
- A role with no capability at all binds nobody, so every edit of keys, modules or
  types may cross from bound to unbound.
- The process can die anywhere; what is not committed is gone.

`PROJECT.json` lists every hazard at its line, with the properties that cover it and
what they leave out.

## The modules

| Module | Models |
|---|---|
| `StockLedger` | concurrent requests as SQL statements on levels, ledger and mirror |
| `AtomicStock` | the abstract promise: a request's lines take effect whole, at one instant |
| `Fulfilment` | orders, reservations and levels under the requests that touch them |
| `Packing` | packing lists, their holds and the order's, levels and what was taken |
| `Documents` | transfers, receipts, counts and adjustments, and the levels they move |
| `SkuPlan` | a style's variants and SKUs, and how a packing list's cells find them |
| `Checkout` | checkouts as statements on orders, codes, promotions, customers and stock |
| `OrderBook` | the abstract promise: an order is entered whole, at one instant, under a free code |
| `Storefront` | the catalogue, the price of a cart, the pages |
| `Workspace` | the guards and their caches while the records change |
| `Accounts` | people as rows and logins under every request that writes them |
| `Rights` | entitlements, roles and the source's tables of modules, capabilities, templates and gates |
| `StockLedger_proofs`, `Fulfilment_proofs`, `Documents_proofs`, `Accounts_proofs` | theorems about each |
| `Packing_proofs` | theorems about `Packing` and `SkuPlan`, which names a list's SKUs |
| `Storefront_proofs` | theorems about `Checkout` and `Storefront`, both of which it extends |
| `Access_proofs` | theorems about `Workspace` and `Rights` |
| `FoldFacts` | what sums and folds over finite sets compute, for the proofs |
| `MC…` | constants for TLC |

### StockLedger

`level`, `ledger` and `stock` are the committed rows. A transaction's versions
live in `work` and `pend` while `owner` says who holds a level's row lock;
`mirrorOwner` and `mirrorWork` do the same for the product row. `pc` is the
statement a request executes next. A request is a list of lines
(`applyMovement` or `applyIncoming` calls) and whether it ends with
`syncProductStock`.

| Action | Code |
|---|---|
| `LockRow`, `MissRow` | `SELECT … FOR UPDATE` in `lockLevel`: waits for the holder, returns the newest version, or nothing when there is no committed row |
| `InsertRow`, `InsertLost` | `INSERT … ON CONFLICT DO NOTHING` and the recursive call of the loser |
| `ApplyMovement`, `Reject` | the three checks, the update and the ledger row; a throw rolls everything back |
| `ApplyIncoming` | the clamp at zero |
| `SyncRead`, `SyncWrite`, `SyncDone` | one `UPDATE … FROM (aggregate)`: the sum is read with the statement's snapshot, product rows are locked one by one, in any order |
| `Commit`, `Crash`, `DeadlockAbort` | end of the transaction |

### Fulfilment

A request is two steps. `Read` stores what the request's unlocked SELECTs will
return; `Act` performs its writes against the committed rows and commits, or
throws and leaves nothing. This is where the code's races are: between the
unlocked read and the locked write. `Outcome` is the whole handler: `Create`
includes `reserveOrder`, `Cancel` includes `releaseOrder`, `Rewrite` and
`RemoveOrder` include the cascade of the reservations. In `x` the field `seen`
is what SELECTs return (own writes included), `db` what the writes make of the
committed rows. A level's movement uses `db` (its row is locked first, which
`StockLedger` models); a reservation's uses `seen`, as the code does.
Nothing locks an order: requests for one overlap like any others, and `lineId` tells
whether an item is still the row that was read. Two history variables are written by
no code: `orphaned`, the units whose reservation a delete cascaded away, which the code
leaves reserved, and `torn`, the orders a request wrote after another had changed their
rows since it read them.

### Packing

The same two steps. The requests of `Locked` take the list's row lock at `Read`,
so they run one at a time per list and read the list's own rows fresh (`x.db`);
levels and the order's reservations are read without a lock (`x.seen`).
`Unlocked` requests (the generic PATCH of cartons or header, ship-events) read
the row freely and wait only when they write. `pick` is the order in which the
database returns rows where the code keeps the last of several.
`taken` is the net of a list's deduct and adjust movements, which
`deductedFor` reads back from the ledger. `astray` is history: the cartons, as they were
then, of a list that was lost track of since all it took was last put back. That happens in
two ways (`LosesTrack`): a release-hold resets the stock state of a signed list, or a PATCH or
courier's event writes back a status it had read before a confirm or reopen changed it. The carton plan is abstracted to units
per SKU: `SkuPlan` has how a carton's SKU is found before any stock moves.

### Documents

The same two steps again, and here nothing locks the document row: every handler
checks a status that `load` read without a lock (`x.seen.row`). `db.doc` holds a
row per document with its items; a document that does not exist yet is
`Nothing`. `Outcome` picks the handler.

| Definition | Code |
|---|---|
| `CreateTransfer`, `Dispatch`, `Receive`, `CancelTransfer` | the four endpoints of `transfers.controller.ts`; `Receive` takes what the caller declares, which may be less or more than was sent, and computes `complete` from the rows after its writes |
| `CreateReceipt`, `Confirm`, `CancelReceipt` | `receipts.controller.ts`; `confirm:true` confirms in the creating transaction |
| `ReceiveStock`, `RecordPurchase`, `Adjust` | the direct receive and the adjustment of `inventory.controller.ts` |
| `OpenCount`, `SaveLines`, `PostCount`, `CancelCount` | `counts.controller.ts`; the difference a post writes is against the level it read |
| `Created` | `nextRef` and the unique index: of two documents of a kind created at once, the second fails |
| `Moved`, `Incoming` | `applyMovement` with its checks and `applyIncoming` with its clamp, on the committed level |

`corrected` is the net of the ledger's count, adjust and scrap rows. A document
has at most one item per SKU: items of one SKU add up in every formula here.
Reservations are constant (`Reserved`); they bound what a dispatch, a count or an
adjustment may take. Requests for one document overlap like any others. `torn` is history:
the transfers and receipts written by a request that had read the row before another
wrote it (`Stale`).

### SkuPlan

One style of the catalogue. A label (`"Red-38"`, `"XXL"`) is the set of words that
splitting leaves, so `labelTokens` and `matchVariant` are the code's on sets; a word keeps
the scale prefix (`EU 38`) and the aliases of `size-match.ts`. A variant is the save that
made its row and its label, which is how a reinserted variant is a different row. A
request of the packing desk is one SELECT a step.

| Definition | Code |
|---|---|
| `SaveVariants` | `CrudService.writeChildren` (delete all, insert all) with the foreign keys that cascade or restrict, then `ensureSkusForProduct` |
| `SaveMode`, `GenerateSkus`, `Move` | a PATCH without variants, `POST /inventory/skus`, stock that arrives |
| `SetMapping` | a person's decision, an upsert with source `manual` |
| `Remember`, `Remembered` | `rememberAutoMatches`, which never updates a row |
| `ReadMaps`, `ReadVariants`, `ReadCount`, `Resolve`, `Commit` | `resolveCell` and the plan for hold and confirm, and what they move |

### Checkout and OrderBook

A connection (`Slots`) runs one transaction; `run[t]` is the statement it executes next and
what its SELECTs returned, `fate` how each cart ended. `Codes` are the numeric tails of
order codes, any number, and one code without a digit, which the descending sort puts
first.

| Action | Code |
|---|---|
| `Begin`, `Price` | `placeOrder`'s reads: `resolvePromo`, the customer with this phone or email |
| `ReadHighest`, `LockHighest` | `nextOrderCode`: the snapshot it sorts, and `FOR UPDATE`, which waits and re-reads one row only |
| `InsertOrder` | the INSERT under `withOrderCode`: waits for an uncommitted rival, fails on a committed one; the retry runs in an aborted transaction |
| `Reserve` | `reserveOrder`: all lines or a throw |
| `Commit` | order, `promos.used + 1`, customer counters, together |
| `Remove`, `SyncPromos`, `Midnight`, `Crash` | `CrudService.remove` on an order, the hourly job, the date, the process |
| `FindOrder` | `findOrder` by code and token |

`OrderBook` has one action for all of it, `Place`. `PlacedWhole` is
`OrderBook!Spec` under the mapping of `Book`, where an order's code is its row's, and
customers are counted over all customer rows.

### Storefront

`aspect` splits behaviours by what they are about; carts and the catalogue share the shop,
pages share nothing with either. Prices are in cents and the rounding is the code's: money
to two decimals, the surcharge to a whole unit. `ProductRow` … `Query` are the types of rows,
carts and questions; the rows an edit may write are constants of these types.
`NothingNegative` says that none of them has a negative amount, which the import refuses and
the generic CRUD does not; TLC evaluates it on the shop of the run.

| Definition | Code |
|---|---|
| `catalogueFilters`, `publicProducts`, `publicBrands`, `publicCategories` | the listing with its filters, sorts and page, and the counts, as operators on the shop |
| `ReadProducts` … `ReadTax` | `priceCart`, one SELECT a step: lines, tiers, variants, promo, method, zone, tax |
| `EditProduct`, `EditTiers`, `EditVariant`, `RemoveCategory`, `EditCheckout` | what the admin may commit between two of them |
| `CreatePage`, `GetPage`, `SavePage`, `DeletePage` | pages; `updatePage` reads in one transaction and writes in another |

### Workspace

One API process. A request of a member passes `TenantGuard`, `AccessGuard`,
`EntitlementGuard`, `CapabilityGuard`; a visitor's passes `resolveHost` and `assertLive`.
Each cache hit, database read and store is a step; `behind` marks an entry, or a fill under
way, that is older than a change of this process. `Elsewhere` is a change by another process
or by a writer that drops nothing. `lost[x]` counts the ticks since the database last met
condition `x`.

| Action | Code |
|---|---|
| `HostHit`, `ReadHost`, `KeepHost`; `TenantHit`, `ReadRow`, `ReadModules`, `KeepTenant`; `AccessHit`, `ReadAccess`, `KeepAccess` | the three caches: hit, the reads, the store |
| `ReadConfig` | `assertLive`, never cached |
| `UpdateRow`, `ReplaceEntitlements`, `EntitlementsFail`, `Invalidate`, `InvalidateAgain` | `TenantService.update` and the platform controller's second drop |
| `Revoke`, `InvalidateAccess`; `UpdateConfig`, `ClearDomains` | the other writers that drop |
| `Tick`, `Restart` | time; the process |

### Accounts

`staff` and `role` are rows, `login` GoTrue's identities, whose `app_metadata` is merged key
by key. A request's first step stores what it read (`seen`); each call to GoTrue and each
transaction after it is a step. `Call` is a call that succeeds, is refused, cannot be made, or
succeeds without an answer; `Tx` a transaction that commits or fails; `Undo` the compensation
and what it logs; `Crash` the process. `adrift` are the logins a request left half changed
in a way the code only logs or cannot know. `KeepProfile` adds two: the profile writes its
login into a row it found by email without asking whether the row has one by then, so a login
that got there first loses its row, and a move, demotion or removal of that row that has read
`authUserId` as null goes on without the new login.

| Definitions | Code |
|---|---|
| `BeginCreate`, `CreateUser`, `Adopt`, `InsertUser`, `UndoCreate` | `create` of users, and staff invitations, which end in it |
| `BeginUpdate`, `PatchIdentity`, `SaveUser`, `UndoPatch` | `update`; only the email is compensated |
| `BeginStatus`, `Ban`, `StampStatus`; `BeginClose`, `EachMember` | suspend and restore one person, or everyone of a closed workspace |
| `BeginReset`, `BeginPassword`, `Reissue` | password resets |
| `BeginMove`, `LoadMove`, `Unclaim`, `LockRow`, `ClaimTenant`, `CommitMove`, `UndoClaim` | `moveTenant`, whose call is inside its transaction; `LoadMove` is its first read when `demote` calls it |
| `BeginRemove`, `DeleteUser`, `EraseRow` | removal, login first |
| `BeginPromote`, `Grant`, `RecordGrant`, `UndoGrant`; `BeginDemote`, `Land`, `Revoke`, `RecordRevoke` | `platform-admins.controller.ts` with its guards |
| `BeginProfile`, `KeepProfile`, `BeginEvent`, `AcceptInvite`, `EditStaff`, `AddRole`, `RenameRole`, `RemoveRole` | the profile, the first sign-in's event, the workspace's own edits |

### Rights

The tables of the source are definitions: `presetFor`, `allowedFor`, `CAPABILITIES`,
`templatesFor`, and `RESOURCES`, which gives every generic resource its module and its keys
for reading and writing. `Reach` is the set of generic calls a member gets through, computed
as the guards do; `Menu` what the menu shows.

| Definitions | Code |
|---|---|
| `CreateTenant` | provisioning with the roles of the type's templates |
| `BeginUpdate`, `WriteRow`, `replaceEntitlements`, `FailUpdate` | `PATCH /api/admin/tenants/:id`: validated against what was read, written by two transactions |
| `replacePermissions`, `CreateRole`, `RemoveRole`, `AssignRole`, `Invite` | role and staff edits by members with the keys, or by the platform |
| `BackfillReads`, `BackfillRoles`, `BackfillStaff` | the passes of `scripts/backfill-rbac.ts` |

## The runs

Passing runs:

| Run | Shows | Bounds |
|---|---|---|
| `stock_ledger` | `ReservedIsCovered`, `LedgerExplainsLevels`; `ServedWhole`: the committed levels and ledger only change by serving one request whole (`StockLedger` implements `AtomicStock`); `RequestsEnd`: every request ends | two levels of one product, two requests at a time, five in all: receipt, reservations over both levels in both orders, deduction, dispatch and landing |
| `fulfilment` | `ReservedMatchesHolds` for the SKUs of orders that are not torn, `PlacedMeansHeld`, `CancelFreesEverything` of what the request could see, `GoodsLeaveOnceShipped`: once, or once for each connection if retries overlap | a two-line order that one warehouse can cover only in part, a rival order for the same goods, two warehouses, two requests at a time, five in all, one restock |
| `packing` | `OffShelfIsDeducted`, `TakenAtMostContents`, `ReopenKeepsHeld`, each up to what `astray` says was lost track of | a list that packs no order and one that packs a partly reserved order, one SKU, two warehouses, two requests at a time, five committed in all |
| `documents` | for the SKUs of documents that are not torn, `GoodsConserved`: the goods on shelves and on the road are what was there, what notes received and what counts and adjustments wrote; and `IncomingIsOwed`. `ClosedStaysClosed`: only who read a document open can reopen it; `PostFindsCounted`: what was found, plus what moved since the level was read | two transfers, a receipt and a count over two SKUs and two warehouses, one unit reserved, quantities up to two, two requests at a time, five with an effect in all |
| `checkout` | `CountersAgree`; `OvershootIsBounded`: a limit is exceeded by at most the other connections; `ReceiptOpensOwnOrder` although codes are reused; `CollisionNeedsRival`: a code is handed out twice only while its owner was not visible, or after a code without digits; `PlacedWhole` (`Checkout` implements `OrderBook`); `CheckoutsEnd` | three customers' carts (two share an email, two a phone) and one admin order under a code of its own, two connections, a promotion of one use that is valid on the first of two days, three units of one SKU and one of another |
| `accounts` | `ClaimFollowsRow`, `NoOrphans`, `FailureUndone`: what a failure leaves is as it was, or the one exception is stated | two requests of any kind, one fault (a failed or unanswered call, a failed transaction, a crash), three logins and two rows to begin with, two workspaces, two roles |
| `workspace` | `DropsCoverOwnWrites`; `StaleIsBounded`: whoever is let in met every condition within an entry's life and two loads before; `AnswersCatchUp`: no answer outlives its reason for ever | two requests of a member, or of a visitor, and one change by any writer; an entry lives two ticks, a load one |
| `storefront` | `QuoteIsExplained`, `CountsLeadToPages`, `StampSurvivesRepublish` | three products, two of the same date, four carts, four queries, pages of two, three edits, two editors |
| `skuplan` | `GuessIsSole`, `ManualStands`, `MemoryIsNeutral` | a style sold in red 38 and 2XL, in red and blue 38, or without variants; two saves, one decision, one movement |
| `rights` | `CeilingIsCrossedOnPurpose`, `NarrowingNarrows`, `BackfillTakesNothing` | every type, template, capability and resource of the source; a list of modules that mixes and one that brings no key; a role from before the model and one with a retired key; two admins, two members, two requests |

Two levels and two requests are the least with lock-order deadlocks, lost insert
races and stale aggregates; a third level or request adds no new kind of wait.
Five requests are enough for an order to be placed, deducted in part, cancelled,
reinstated and released, and for a list to be confirmed, reopened, edited,
confirmed and deleted. In `documents` two transfers are sent and one delivers more than
was sent, or one is sent, received in parts and cancelled while a count is opened.
`packing` has one SKU because the lines of different SKUs touch disjoint rows. In `checkout`
two connections are enough for a collision, an overshoot and two first orders of one phone,
and four carts for a code to be deleted and reused while another is being allocated.
A fifth cart, placed by an admin under a code without
digits, multiplies the states beyond the run's time; the theorems about `Checkout` cover it.
`accounts` has one fault because a second one can only hit the undoing of the first, which
the single fault already fails. `workspace` allows one change: a second can only shorten how long a
condition is unmet, and one is enough for a fill, a drop and the change in every order.
Slots that are interchangeable are a symmetry set in the runs that check safety only.
Deadlock checking is off where the model stops once its bound is used up.

*Fairness.* `stock_ledger` and `checkout` assume weak fairness of each request's next
statement: Node keeps issuing the statements of a handler it has started
and the database grants a lock that is free; `checkout` also that the hourly job runs.
Nothing forces a request to begin, and crashes are never required. `DeadlockAbort` is part
of the step because the database's deadlock detector always runs. `workspace` assumes that
time passes and that what each request has begun goes on; nobody has to ask or to write.

*Overlap.* No run and no theorem keeps two requests apart: whatever the code does not lock
overlaps. Where an overlap breaks what the code promises, a history variable marks the rows it
broke, the property excuses those and no others, and a cfg shows the break:

| History | Marked are | Excused there | What breaks |
|---|---|---|---|
| `torn` (`Fulfilment`) | orders a request wrote after another had changed their rows since its read | `ReservedMatchesHolds` for their SKUs; one deduction for each connection instead of one | `release_race.cfg` |
| `torn` (`Documents`) | transfers and receipts, likewise | `GoodsConserved` and `IncomingIsOwed` for their SKUs | `documents_race.cfg` |
| `astray` (`Packing`) | units of lists lost track of, until all is put back | as many units more off the shelf | `packing_twice.cfg` |
| `adrift` (`Accounts`) | logins, listed under [Limits](#limits) | `ClaimFollowsRow`, `NoOrphans` | |
| `mixed` (`Rights`) | updates that overlapped or failed half-way, until one runs alone | `CeilingIsCrossedOnPurpose` | |

The one restriction left is `Singleton = FALSE` in `accounts`: the index for a single
administrator was not created, so that promotions succeed; `seat_lost.cfg` has it.

Violation runs, each a disagreement between code and what the code says of itself
(quoted in `PROJECT.json`):

| Run | What TLC finds |
|---|---|
| `reinstate` | a reinstated order finds its released reservation row and holds nothing |
| `history_lost` | saving a tracked product with its variants takes their SKUs, levels and movements along |

## Disagreements met

These were met while modelling. For the first table there is a cfg that reproduces the
disagreement (`tlc -config <cfg> <module>`); they are kept out of the suite, which is
limited to a dozen runs.

| cfg, module | Property | What TLC finds | What the code says |
|---|---|---|---|
| `stock_mirror`, `MCStockLedger` | `MirrorInStep` | two receipts of one product at different warehouses lock different levels; each UPDATE at `inventory.service.ts:449` sums in its own snapshot, and `products.stock` ends one receipt short | "nothing writes it directly any more, which is what keeps it from drifting" (`:439-441`) |
| `release_race`, `MCFulfilment` | `EveryLevelMatches` | two overlapping releases of one order both read its rows as active (`fulfilment.service.ts:175`) and free units another order holds | "Safe to call more than once." (`fulfilment.controller.ts:83`) |
| `packing_twice`, `MCPacking` | `MovesOnce` | confirm, release-hold, confirm takes the goods twice: release-hold resets `stock_state` on a signed list (`packing.controller.ts:138`) | "the thing whose state machine must not run twice" (`:389-390`) |
| `packing_blocked`, `MCPacking` | `ConfirmNeverBlocked` | the deduction is clamped to on-hand, not to what is available, and the confirm fails when the units are promised elsewhere (`:672`) | "Nothing here throws on a shortage. Signing is never blocked" (`:626-627`) |
| `packing_leak`, `MCPacking` | `NoneHoldsNothing` | hold, release-hold, hold, release-hold leaves units reserved: the upsert keeps `releasedQty` (`:584`) | "Give back everything this draft is holding" (`:129`) |
| `documents_race`, `MCDocuments` | `AlwaysConserved` | two overlapping dispatches of one draft both take the goods (`transfers.controller.ts:122`) | "Idempotent — re-dispatching an already-sent transfer returns it unchanged." (`:115`) |
| `checkout_code`, `MCCheckout` | `CollisionIsRetried` | two orders that wait for the same highest row get the same number; the retry (`order-code.ts:62`) runs in an aborted transaction and the order fails | "One retry turns that into a slower order rather than a failed one" (`:48-49`) |
| `seat_lost`, `MCAccounts` | `SeatKept` | `update()` with an `appRole` (`platform-users.service.ts:404`) takes the only administrator's role with neither guard | the comments on `assertNotSelf` and `assertNotLastPlatformAdmin` (`:718-733`) |

Others, read in the code and left out of the properties:

- *Checkout.* A hand-typed code without a digit sorts first and makes every next code 1000.
  `upsertCustomer` is "Matched on phone first" but asks for phone or email with a limit of
  one; two first orders of one phone create two customers. `orders.discount` holds savings
  and promotion where the schema speaks of the promotion; no column holds the tax. A
  checkout that is sent again is a second order.
- *Storefront.* Two overlapping first publications stamp a page twice; a quote can mix two
  versions of the catalogue; the price filter ignores a tier that starts at one unit.
- *SkuPlan.* A variant without a SKU falls back to the product's default SKU, and
  remembering keeps that, although the comment on resolving a cell reserves the default
  for products without variants. Switching a product to tracked without sending variants creates no SKU. A person's
  mappings go with their SKU.
- *Workspace.* The writers of a person's status, a role's permissions and a first sign-in
  drop no entry, `invalidateAll` has no caller, and `assertLive` does not look at the
  workspace's status. When the modules' transaction fails the changed row stays hidden
  behind its entry.
- *Documents.* Two updates of one document are not kept apart either: a save that overlaps a
  post reopens a posted sheet, which can then be posted again.
- *Accounts.* A failed create that adopted a login restores its `app_metadata` by a merge
  (`platform-users.service.ts:326-331`), which cannot remove a key: a login that had no role,
  no tenant or no password mark keeps the one the create gave it, the call succeeds and nothing is
  logged. The comment at `:263-268` says that leaving it rewritten is not right, because a failed create
  would "strand a live account [...] under whatever role and tenant this request asked
  for". `FailureUndone` states what stays (`Filled`). Suspension does not drop the access entry; the lock of `moveTenant` is taken by no other writer of claims; a removal
  that failed between its halves cannot be sent again; a creation whose answer was lost
  leaves a login.
- *Rights.* A role whose last capability is removed, or a template cut down to none by the
  modules, binds nobody (`NarrowingNarrows` says what its members can then do), although `capability.guard.ts` holds that state impossible after
  the backfill. The backfill ends with an error when a workspace's modules leave nothing to grant.
  Saving a role does not intersect with the entitlements as its helper says; an update does
  not record in the audit log that the ceiling was crossed, as a creation does. "Nobody LOSES access"
  fails for resources whose key belongs to a module the workspace does not have.

## The proofs

Each theorem holds for every value of the constants: any number of requests, lines,
documents, warehouses and connections, where a run has two or three. Every invariant was
first checked by TLC on the component's run.

| Module | Theorems | Hold for |
|---|---|---|
| `StockLedger_proofs` | `TypeCorrect`, `NeverOversold` (`ReservedIsCovered`), `LedgerReconciles` (`LedgerExplainsLevels`), `ServingIsAtomic` (`ServedWhole`) | any levels, products, transactions and well-typed requests of any length |
| `Fulfilment_proofs` | `TypeCorrect`, `ReservedIsHeld`, `GoodsLeaveOnce`, `PlacedHolds`, `CancelFrees` | any orders whose lines are their own, warehouses, transactions and overlaps; the first three except torn orders as in [The runs](#the-runs) |
| `Packing_proofs` | `TypeCorrect`, `OffShelfIsSigned` (`OffShelfIsDeducted`), `TakenOncePerDocument` (`TakenAtMostContents`), `ReopenHoldsAgain` (`ReopenKeepsHeld`) | any lists, orders, SKUs, warehouses, contents, number of requests and overlaps; up to what is astray |
| `Packing_proofs`, on `SkuPlan` | `DecisionsStand` (`ManualStands`), `GuessesAreSole` (`GuessIsSole`), `GuessesAreNeutral` (`MemoryIsNeutral`) | any styles with finitely many labels, words, lists, decisions, saves and movements, in any interleaving |
| `Documents_proofs` | `TypeCorrect`, `GoodsAreConserved`, `IncomingIsNoPhantom`, `ClosedDocumentsStay`, `PostsFindCounts` | any documents, SKUs, warehouses, quantities and overlaps; the goods of SKUs on no torn document |
| `Storefront_proofs`, on `Checkout` | `TypeCorrect`, `CountersAlwaysAgree`, `LimitOvershootIsBounded`, `ReceiptsOpenTheirOrder`, `CollisionsNeedRivals`, `PlacingIsAtomic` (`PlacedWhole`) | any carts, promotions, limits, days and pool of connections |
| `Storefront_proofs`, on `Storefront` | `QuotesAreExplained` (`QuoteIsExplained`), `CountsArePaged` (`CountsLeadToPages`), `StampsSurvive` (`StampSurvivesRepublish`) | any catalogue without negative amounts, carts, queries, size of page, pages and editors, and any edits |
| `Access_proofs`, on `Workspace` | `TypeCorrect`, `DropsCover`, `StalenessIsBounded` | any lifetime of an entry, bound on a load, number of requests and writes |
| `Access_proofs`, on `Rights` | `CeilingHolds` (`CeilingIsCrossedOnPurpose`), `NarrowingIsMonotone` (`NarrowingNarrows`), `BackfillOnlyGives` (`BackfillTakesNothing`) | any members, admins, lists of modules, permissions of old roles and number of requests; the source's tables |
| `Accounts_proofs` | `TypeCorrect`, `ClaimsFollowRows` (`ClaimFollowsRow`), `NoneOrphaned` (`NoOrphans`), `FailuresUndone` (`FailureUndone`) | any requests, roles, workspaces, addresses and number of faults |

Each component also has its inductive invariant, `Inductive` (`RightsInductive` for `Rights`, `SkuInductive` for `SkuPlan`), which
the others rest on; for the storefront these are `QuoteInv`, `SoundInv` and `PagesInv`.

### The stock ledger

The assumptions: `NoTx` is not a transaction, every level has a product, requests are well
typed and have at least one line.

Neither safety property is inductive alone. A commit installs `work` and appends
`pend`, so the invariant has to say what these are: `WorkContinues` (a locked
row's version continues the committed one by exactly the uncommitted ledger
rows; an unlocked row has neither), `HoldsLock` (whoever applies a line owns its
level), `AbsentIsEmpty` (no row means zero balances) and `Progress` (the current
line exists). `IInv` is their conjunction with the properties. Two lemmas
carry the data: `AppendBalance` (a row with the right balances extends a running
ledger) and `ConcatBalance` (a ledger followed by one that starts where it ends
is a ledger). The row lock is used in exactly one place: `GrabInv` needs that
no other transaction owns the row, which is `LockRow`'s guard.

`ServingIsAtomic` is the refinement of `AtomicStock`. The abstract request is a recursive
function over the lines; `Replay` is that function for given rows, and `Whole(t)` says that
what transaction `t` has written so far is the replay of its first lines on the rows
committed *now*: the lines were not rejected (`Asked`), it owns the levels they wrote
(`LocksAreWrites`) and its versions are the replay's (`WorkIsServed`). A commit of another
transaction keeps this because it touches only levels that one owns (`ReplayAgrees`: a replay
depends on the levels it names). So a commit is one step `Serve` of the abstract
specification (`CommitServes`) and every other step stutters.

### Order fulfilment

The assumptions: finite sets of orders, lines, SKUs and warehouses (the properties add them
up), quantities that are positive, and that a line belongs to one order, once: an
`order_items` row has one `order_id`.

A request is a fold of writes over lines and rows whose intermediate states no invariant
sees. Each loop is followed once with two things kept. `Touches` holds of any request: it
writes rows and levels of its own order only, and what left the shelves is what it shipped. `Keeps`
holds of a request whose rows are as it read them (`UpToDate`): each level's reserved moved as the rows that
hold it did. `AdvanceTouches` and `AdvanceKeeps` show that one movement with one settled row keeps both, and
`ReleaseKeeps`, `ReserveKeeps`, `DeductKeeps` carry it through the loops (`FoldKeeps`), each with
what its loop achieves: nothing left active that it could see, every line held in full, no more
taken than asked. What each of the nine requests then commits is `Leaves` for any of them and
`Delivers` for those that are up to date, the cascades of `Rewrite` and `RemoveOrder` included
(`CascadeLoses`: what a cascade takes off the rows is what it orphans).

`IInv` holds between requests, however they overlap:

- `Placed`: a request that creates an order is alone on it; any other was sent for one that exists.
- `Tidied`: the rows of an order that is not torn are sound, and it shipped no more than its lines.
- `Balanced`: where no torn order has a line, reserved is what rows hold plus what was orphaned.
- `Accounted`: shelves and shipments add up, torn orders included.
- `Bounded`: what an order shipped, and what the deductions under way that have read it as not yet
  shipped (`Firing`) can still ship, is at most its lines once for each connection. A deduction
  spends the one it had, and a connection gets a new one only while nothing is shipped.

`TypeCorrect` and `GoodsLeaveOnce` follow between requests; the two action properties
from `Leaves` and `Delivers`, because only a request's commit changes an order's row. An order
that is being created is `Alone`, hence up to date, which is why `PlacedHolds` excuses nothing.

### Packing

The assumptions: finite sets, contents and opening levels that are natural numbers, and orders that
hold at most what a level has. Requests overlap as they like: the check in `Moved` keeps every level in
range, which is `TypeCorrect`.

The invariant between requests is `Honest`, for each list: what it took is not negative, is never more
than its contents plus what is astray, and, unless the list is signed and says "deducted", is no
more than what is astray. It needs no knowledge of other requests: what a request that holds
the list's lock reads of it is the committed row, and one that does not lock it changes
nothing but the row and the cartons, and loses track of the list if the status it read is no longer
there (`Overtaken`). `StrayedIsHonest` and `RepaidIsHonest` are the two ways `astray` moves. The
signature's loop is the set `Deducting`: nothing is taken of the SKUs it has not come to, at most the
contents of those it has, and only at the list's own warehouse. `TakeOwnTook`, `TakeOrdersTook` and
`TakeRestTook` follow the three movements of a line, which share what is left to take (`Took`).
`Freeing` and `Restoring` are the loops of the release and of putting back. `Delivers` is what each kind
of request commits, other lists untouched (`OthersAreHonest`). Without the debt the theorems are
false: `packing_twice.cfg`.

`ReopenHoldsAgain` compares availability before and after. `Restoring` returns what was taken; `Synced`
says that holding again reserves the list's contents as far as they are available, since the old
holds were zeroed; and the contents are, but for what is astray, at least what was taken, which is where `Honest` is needed.

### SKUs and packing plans

The assumption is that a style has finitely many labels, none of them empty. `SkuInv` is small:
`Dated` says that the variants are of the last save and nothing else knows of a later one,
`Guesses` that what a request has noted and not committed are guesses for keys without a row.
Every action keeps both; a commit is the only one that needs the second.

- `DecisionsStand`: a save that drops a decision drops its SKU, because the new variants have
  a date no SKU had (`Dated`), and a commit adds rows to the map and takes none away
  (`Guesses`).
- `GuessesAreSole`: only remembering a cell takes notes (`NotesRemember`), and what
  `matchVariant` returns is none or the one element of a set (`MatchIsOne`).
- `GuessesAreNeutral`: `AnswersAre` replaces the choice among rows that share a key by what all
  of them say (`Says`), and `AnswersPrimed` is the same of the next state. A guess is noted only
  where the map read had neither the cell's key nor its size for any colour, so rows there are
  the request's own and name the guess already; cells of that key would have resolved to it by
  matching, since a match depends on the key (`MatchKey`) and one by size alone holds in every
  colour (`GuessSpeaks`). Hence one more row says nothing new (`ToldStays`). SKUs created on
  the way are those that were named before they existed (`ResolvedStays`), and none that a line
  could name already (`OwnStays`).

With a guess kept for every colour (`AutoForAny`) the last step of `GuessesAreNeutral` is no
longer provable, and with one that overwrites (`Overwriting`) the description of a remembered cell
(`RememberIs`) is not, in line with TLC's counterexamples.

### Stock documents

The assumptions: a document is of one kind, SKUs and warehouses are finite, an opening level
covers its reservations. Requests on one document overlap as they like.

Every handler's loop is one of five sorts of movement (`Applied`), and `Explained` says, for each kind
of request, which new row of its document goes with which movement; `Sound` says that the two
balance, if the row written over is the one that was read. If it is not, the document is torn from then on.
What has to be shown is that the damage stops there, and this is what `IInv` is for beside
the types: `Arrivals` (nothing of a draft, and nothing a document does not list, has
arrived) and `SameItems` (a document lists what it listed when a request read it, because no handler
changes a transfer's or a receipt's items), so that a SKU is written to by requests on documents that list it
and no others (`UnlistedInStep`). `InStep` is the balance of one SKU across a step: it holds for
every SKU when the row is fresh, and for every SKU the document does not list when it is stale.

Conservation and `IncomingIsOwed` sum over documents, which may be created without end: the sums are
taken over any finite set that covers the existing ones (`TallyTells`, `MatchTells`), and the
property is the invariant `Tallied` or `Matched` over such a set, for one SKU at a time.
`documents_race.cfg` shows that the SKUs of torn documents have to be excepted. `ClosesOnce` and `PostShifts`
look at one commit each: the only writes of a status follow the status that was read, and a post adds
to the committed level the difference to the level it read.

### Checkout

The assumptions: carts are finitely many and of their type, limits and windows are
numbers, and the values that stand for "none" are none of the others. `IInv` says that a
request is carried out by one connection (`OneRun`), that the book agrees with the receipts
(`Receipts`), that codes inserted and committed differ (`CodesDiffer`, which the unique
index keeps), that an allocated code is on no order its connection saw (`CodesAreNew`),
that goods are held for what is booked (`GoodsHeld`), that counters are the cardinality or sum of what they count
(`RowsMatch`), and that `uses` plus the connections past
their check stay within limit and pool (`UsesAreLimited`): a connection that has checked and
not yet counted is one of the others that can overshoot. `CollisionsNeedRivals` follows from
`CodesAreNew`: the index refuses a code only if an order holds it that the connection had not
seen, or if the row it locked had no number to add one to. `PlacingIsAtomic` maps a commit to
`Place` and an administrator's removal to the book's; every other step stutters.

### Storefront

The assumptions: products are finitely many numbers, the order in which the database sorts their
ids, and rows, carts and queries have their types. The theorems on quotes and counts also assume
`NothingNegative`: nothing but the import keeps a negative price out, and with one the statement is
false.

`QuoteInv` says what a quote has read so far (`QuoteRead`), that the discount it has worked out is at most the
subtotal and the savings are the subtotal less the selling price (`QuoteReduced`), and what the
total adds up (`QuoteSummed`). The rows of different statements may come from different versions of the
catalogue, so nothing in it compares a quote with the shop. `SoundInv` says that no amount
read, or still to be read, is negative; it is where every edit has to be looked at
(`EditingStep`). The arithmetic is in `LinesAddUp` and `Totals`, that lines charged at most their list price add up to at
most the subtotal, and in `RoundedType`.

`CountsArePaged` is about a total order. `AheadThrough` shows that comparing two sort keys, which
are fractions, by cross multiplication is transitive; the id settles ties, so `Sorted` is total
(`ListingIsOrdered`). In a finite total order the number of elements before one is its place, and
every place from 0 on is taken once (`PlacesDiffer`, `PlacesTaken`); a page is an interval of
places (`PageBounds`), which gives its size and that two pages share nothing (`ListIsPaged`).
What is left is that a facet's number counts the listing it leads to (`BrandCounts`,
`CategoryCounts`): without the id as last key, or with a filter in one and not in the other,
these fail.

`PagesInv` dates everything: an editor that read a page without a stamp did so before the stamp
the page has now. `StampsSurvive` follows at the one step that writes a stamp.

### Accounts

The assumption is that the constants for the first logins and rows are different from each other
and from the requests, after which new ones are named. Any number of requests of every kind may
overlap, fail and die; there is no restriction.

The two properties are about moments when nothing is under way, so `IInv` has to say what each
request still owes, at each of its stages, to a row and a login that others write in between. It
is about logins that are `Sound`, there and not adrift.

- `Claims`: a login claims its row's workspace or none, unless a creation has it
  (`Contested`) or a move has told GoTrue and not yet ended (`Moving`).
- `Homes`: a login that opens a workspace is on a row, or a creation has it.
- `Linked`, `Follows`, `Awaits`: the login a request knows is the one on its row; what it is
  about to write to GoTrue is the workspace its row has, or is about to get; and one that is
  about to enter a row knows what its login claims, unless the login has a row or another
  creation is at it.
- `Unique`, `Locks`, `Rivals`, `Identities`: a login is on one row, which the unique index keeps; a move
  holds its row to its end; two requests know one login, one of them to write its claims
  without a lock, only if the other is a creation or a closing that came upon it later (the
  earlier comers are adrift, see `Begin`); and nobody speaks of a login or a row that has not been created.
- `Began`: a request that has met no other knows how every login was when it began, and its
  own is as it was or as the request has written it, stage by stage.

`StepKeeps` splits a step: what it leaves of the *other* requests follows from a handful of
conditions on what it changes (`LinksStay`, `TenantsStay`, `LeavesAlone`, `Conserves`, `MayKnow`, …),
and its own request is looked at by itself. Each action has a lemma `…Keeps` that gives the
conditions; those that change neither a claim nor a link go through `QuietStep`. The hard ones
are those that write a claim while somebody else may be writing it (`ClaimTenantKeeps`,
`AdoptKeeps`), enter a row (`RowEntered`), and the profile's claim of an invited row, whose proof
fails without the logins that `KeepProfile` sets adrift.

`FailuresUndone` rests on `Began`: a request that is still alone has `before`, and each compensation
writes back what `Began` says was there. A create restores exactly that, but for the keys an
adopted login did not have, which the merge leaves (`Filled`); a move or a promotion
writes the role it has read, or the default for a login without one, and the row's
workspace, which is what the property allows.

### Access caches

`IInv` gives every cache entry and every read under way a date. What an entry says held within
its age and a load before (`EntriesAreRecent`); what a request has read itself held within the
request's own age, and what it took from an entry within `Past`, the entry's last possible age,
a load and its own (`ReadsAreRecent`). `StalenessIsBounded` adds these up at the guards, where
the answer is given. `OvertakenIsDropped` says that an entry or a fill marked `behind` has a writer
that will still drop it, from which `DropsCover` follows when no writer is left. The assumptions are positive
lifetimes and loads, and `Audiences` that name kinds of requests.

### Rights

The assumption is that `None` is no row. `IInv` has two parts. `Types` says that whoever has a
role has one that is there, which `ON DELETE SET NULL` keeps. `Ceilings` says of an update under
way that it was `Checked` with what it leaves alone: before its first write the pair it will leave
passes the ceiling; between its writes its modules pass with the type already stored, while the
stored modules need not. That is why two overlapping updates, or one that fails there, are excused
(`mixed`), until an update that nothing accompanied has written both: it was checked as a whole.

`NarrowingIsMonotone` needs only `Types`, before and after the step: a role that keeps a
capability stays configured, because a key is a capability by its form, so `unconfigured` lets nobody in who
was kept out. One that loses its last capability becomes unconfigured, and then `Reach` is all
that the modules offer (`Sold`); the same of menus. It holds whatever the table of gates is. `BackfillOnlyGives` does depend on tables:
`GrantIs` says that the first template of every type names every capability (`ManagerHasAll`),
and that no capability is a menu key, so a filled role is a configured one with every key its
workspace's modules bring.

### Facts about folds

The stock modules fold over sets and add up functions. The library's induction theorems are
stated with an operator as a parameter, which the installed provers cannot instantiate;
`FoldFacts` states the same with a *set* of naturals or of subsets (`CountingUp`,
`FiniteInduction`), which they can. From there: a recursive function over the
subsets of a finite set exists (`FoldExists`, `FoldInto`); a fold keeps a loop invariant
given as a function from the part done to the states allowed (`FoldMeets`, `FoldKeeps`);
sums of integers may be split, compared, added and changed at a point (`SumRemove`,
`SumChange`, `SumPlus`, `SumPart`, `SumOrder`, …). A module whose loop folds with an operator
shows that it agrees with a function on the states met, then cites these.

### Only model-checked

- Liveness (`RequestsEnd`, `CheckoutsEnd`, `AnswersCatchUp`): the prover has no rule for
  `ENABLED`, on which fairness rests.
- Nothing else of the passing runs. Where a property excuses torn rows, units astray or logins adrift,
  the cfgs under [Disagreements met](#disagreements-met) show what happens to these.

## Limits

- What is only model-checked is listed [there](#only-model-checked). `TypeOK` of `Packing`
  and `Accounts` is proved (`TypeCorrect`); no run lists it.
- In `Fulfilment`, `Packing` and `Documents` all unlocked reads of a request happen at one
  instant. The code issues them one after another; a later one can only be
  fresher than the model's. `Checkout` merges `priceCart`'s reads in the same way, and
  `Storefront` has them one by one.
- What overlaps break is excused as [The runs](#the-runs) list it, and nothing more is said of
  those rows. `PostFindsCounted` excuses nothing: it says that a movement between the post's read of a level
  and its write is kept on top of what was found. The code has no lock there, although its comment
  wants the difference taken against the level as it is now (`counts.controller.ts:184`).
- `ClosedStaysClosed` says who can reopen a closed document, a request that had read it open, and
  not that this is harmless: a sheet reopened so can be posted twice.
- `StampSurvivesRepublish` excuses
  a request that read the page before its first publication, `GuessIsSole` and
  `MemoryIsNeutral` variants replaced during matching, `CeilingIsCrossedOnPurpose` updates
  that overlapped or failed half-way, `DropsCoverOwnWrites` a fill that was under way when
  the entry was dropped, `BackfillTakesNothing` keys of modules the workspace lacks.
- `ClaimFollowsRow` and `NoOrphans` excuse the logins in `adrift`, and `NoOrphans` the login
  `Stray`, which a script made for nobody. Adrift are: logins whose compensation failed (the code
  logs them) or met another request; those whose request crashed or got no answer; those a failed create
  adopted and could not give back as they were, because they lacked a key (the code logs nothing); and those
  that two requests without a common lock wrote at once, among them a login whose row a profile
  took and one that a profile entered under a move or removal of the row. `FailureUndone` is
  about requests that met no other, and says what a login adrift looks like after a
  create.
- The generic PATCH and DELETE of transfers, receipts, counts and levels
  (`crud/resource-registry.ts`) can rewrite status and quantities without a stock
  movement, although the comment there says otherwise. They are not modelled: no
  property over documents survives a row edited by hand.
- In the stock modules products whose stock is not tracked, SKU creation, low-stock warnings
  and the activity log are left out: they do not decide a stock write once a line's SKU is
  known. `SkuPlan` has SKU creation and resolution, and the two modes, for one style; its
  codes, names and statuses are left out, a SKU created on the way is visible at once, the
  packing desk serves one request at a time, and deleting the product is not modelled.
- `deduct` is modelled for an order's own lines, as its callers use it;
  `returnToStock` has no caller.
- The sign-off's header fields (carrier, customer) and PATCHes of a list's
  status are not modelled.
- `Workspace` has one workspace, one member and one domain; an archived workspace is treated
  as a suspended one, a deactivated person as a suspended one, a person without a role as
  one without capabilities, and the owner's bypass is in `Rights`.
- In `Accounts` a request that is refused at its first checks changes nothing and is no
  step; a commit whose acknowledgement is lost is not modelled; new rows and logins are
  named after their request.
- In `Rights` a role's list of menu entries is one key, an invited person is a member at
  once (acceptance is in `Accounts`), the backfill's reads of roles happen with its writes,
  and endpoints with a capability of their own other than the invitation are left out.

## Not modelled

- Dashboard, search, alerts, product statistics and the purchase log: read-only SQL. A model
  of a query has nothing but the query to be checked against.
- Landed cost: one closed formula per line.
- Uploads, bootstrap, environment validation, error mapping: I/O and wiring.
- Chat: an INSERT with `unread + 1` in place, and a reset to 0. The two can overlap, and no
  statement of the code says what the counter should then be.
- Shipments and packing creation: one appended event, and one insert behind a unique index
  (the pattern `Documents` has in `Created`).
- Products import: parsing, and inserts in one transaction.
- Row-level security: every query of the code filters by tenant as well, so a policy would
  only matter for a query that forgot to; that is a question about the text of
  every query, not about states.
- JWT verification, impersonation, audit rows, listings.

## Plan

All the modules are written, and every property of every passing run but the three of
liveness is a theorem. A next step would be the requests the model excuses: the generic PATCH
and DELETE of stock documents, once the code says what they may do.
