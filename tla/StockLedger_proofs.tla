------------------------- MODULE StockLedger_proofs -------------------------
(* Proofs about StockLedger for every set of levels, requests and          *)
(* concurrent transactions.                                                *)
EXTENDS StockLedger, FoldFacts, SequenceTheorems

\* A transaction on a line has a request and a line of it.
Progress ==
    \A t \in Tx : pc[t] \in {"lock", "insert", "apply"} =>
        /\ req[t] \in Requests
        /\ at[t] \in 1 .. Len(req[t].lines)

\* Whoever is about to apply a line holds the row lock of its level.
HoldsLock == \A t \in Tx : pc[t] = "apply" => owner[Current(t).lvl] = t

\* A level without a row is an empty one.
AbsentIsEmpty == \A l \in Levels : ~level[l].exists => level[l] = NoRow

\* The uncommitted version of a locked row continues the committed one by
\* exactly the uncommitted ledger rows; an unlocked row has neither.
WorkContinues ==
    \A l \in Levels :
        IF owner[l] = NoTx
        THEN work[l] = NoRow /\ pend[l] = <<>>
        ELSE /\ work[l].exists
             /\ RunningBalance(level[l], pend[l])
             /\ SameBalance(work[l], Balance(level[l], pend[l]))

IInv == /\ TypeOK /\ Progress /\ HoldsLock /\ AbsentIsEmpty
        /\ ReservedIsCovered /\ LedgerExplainsLevels /\ WorkContinues

-----------------------------------------------------------------------------
(* Ledgers                                                                 *)

\* A row that carries the right balances extends a ledger.
LEMMA AppendBalance ==
    ASSUME NEW start, NEW log \in Seq(Movement), NEW m \in Movement,
           RunningBalance(start, log),
           m.onHand = Balance(start, log).onHand + m.qty,
           m.reserved = Balance(start, log).reserved + m.res
    PROVE  /\ RunningBalance(start, Append(log, m))
           /\ Balance(start, Append(log, m)) = m
<1> DEFINE new == Append(log, m)
<1>1. /\ new \in Seq(Movement) /\ Len(new) = Len(log) + 1
      /\ new[Len(log) + 1] = m
      /\ \A i \in 1 .. Len(log) : new[i] = log[i]
      /\ DOMAIN new = 1 .. Len(log) + 1 /\ DOMAIN log = 1 .. Len(log)
      /\ Len(log) \in Nat
  OBVIOUS
<1>2. Balance(start, new) = m
  BY <1>1 DEF Balance
<1>3. ASSUME NEW i \in DOMAIN new
      PROVE  LET prev == IF i = 1 THEN start ELSE new[i - 1] IN
             /\ new[i].onHand = prev.onHand + new[i].qty
             /\ new[i].reserved = prev.reserved + new[i].res
  <2>1. CASE i \in 1 .. Len(log)
    BY <2>1, <1>1 DEF RunningBalance
  <2>2. CASE i = Len(log) + 1
    <3>1. CASE log = <<>>
      BY <2>2, <3>1, <1>1 DEF Balance
    <3>2. CASE log # <<>>
      <4>1. Len(log) \in 1 .. Len(log)
        BY <3>2
      <4>2. i # 1 /\ i - 1 = Len(log)
        BY <2>2, <4>1, <1>1
      <4>3. new[i - 1] = log[Len(log)]
        BY <4>1, <4>2, <1>1
      <4>4. QED BY <4>2, <4>3, <2>2, <3>2, <1>1 DEF Balance
    <3>3. QED BY <3>1, <3>2
  <2>3. QED BY <2>1, <2>2, <1>1
<1>4. QED BY <1>2, <1>3 DEF RunningBalance

\* A ledger followed by one that starts where it ends is a ledger.
LEMMA ConcatBalance ==
    ASSUME NEW start, NEW mid, NEW s \in Seq(Movement), NEW t \in Seq(Movement),
           RunningBalance(start, s), RunningBalance(mid, t),
           SameBalance(mid, Balance(start, s))
    PROVE  /\ RunningBalance(start, s \o t)
           /\ SameBalance(Balance(mid, t), Balance(start, s \o t))
<1> DEFINE new == s \o t
<1>1. /\ new \in Seq(Movement) /\ Len(new) = Len(s) + Len(t)
      /\ \A i \in 1 .. Len(s) : new[i] = s[i]
      /\ \A i \in 1 .. Len(t) : new[Len(s) + i] = t[i]
      /\ DOMAIN new = 1 .. Len(s) + Len(t)
      /\ DOMAIN s = 1 .. Len(s) /\ DOMAIN t = 1 .. Len(t)
      /\ Len(s) \in Nat /\ Len(t) \in Nat
  OBVIOUS
<1>2. ASSUME NEW i \in DOMAIN new
      PROVE  LET prev == IF i = 1 THEN start ELSE new[i - 1] IN
             /\ new[i].onHand = prev.onHand + new[i].qty
             /\ new[i].reserved = prev.reserved + new[i].res
  <2>1. CASE i \in 1 .. Len(s)
    BY <2>1, <1>1 DEF RunningBalance
  <2>2. CASE i = Len(s) + 1
    <3>1. /\ 1 \in DOMAIN t /\ new[i] = t[1]
          /\ t[1].onHand = mid.onHand + t[1].qty
          /\ t[1].reserved = mid.reserved + t[1].res
      BY <2>2, <1>1 DEF RunningBalance
    <3>2. CASE s = <<>>
      BY <3>1, <3>2, <2>2, <1>1 DEF SameBalance, Balance
    <3>3. CASE s # <<>>
      <4>1. Len(s) >= 1 /\ i # 1 /\ new[i - 1] = s[Len(s)]
        BY <2>2, <3>3, <1>1
      <4>2. QED BY <4>1, <3>1, <3>3 DEF SameBalance, Balance
    <3>4. QED BY <3>2, <3>3
  <2>3. CASE i \in Len(s) + 2 .. Len(s) + Len(t)
    <3>1. PICK j \in 2 .. Len(t) : i = Len(s) + j
      <4>1. i - Len(s) \in 2 .. Len(t) /\ i = Len(s) + (i - Len(s))
        BY <2>3, <1>1
      <4>2. QED BY <4>1
    <3>2. new[i] = t[j] /\ new[i - 1] = t[j - 1] /\ i # 1 /\ j # 1
      <4>1. j - 1 \in 1 .. Len(t) /\ j \in 1 .. Len(t) /\ i - 1 = Len(s) + (j - 1)
        BY <3>1, <1>1
      <4>2. i # 1 /\ j # 1
        BY <3>1, <1>1
      <4>3. QED BY <4>1, <4>2, <3>1, <1>1
    <3>3. /\ t[j].onHand = t[j - 1].onHand + t[j].qty
          /\ t[j].reserved = t[j - 1].reserved + t[j].res
      BY <3>1, <3>2, <1>1 DEF RunningBalance
    <3>4. QED BY <3>2, <3>3
  <2>4. QED BY <2>1, <2>2, <2>3, <1>1
<1>3. RunningBalance(start, new)
  BY <1>2 DEF RunningBalance
<1>4. SameBalance(Balance(mid, t), Balance(start, new))
  <2>1. CASE t = <<>>
    <3>1. new = s
      BY <2>1
    <3>2. QED BY <2>1, <3>1 DEF SameBalance, Balance
  <2>2. CASE t # <<>>
    <3>1. Len(t) \in 1 .. Len(t) /\ new # <<>> /\ new[Len(new)] = t[Len(t)]
      BY <2>2, <1>1
    <3>2. QED BY <2>2, <3>1 DEF SameBalance, Balance
  <2>3. QED BY <2>1, <2>2
<1>5. QED BY <1>3, <1>4

-----------------------------------------------------------------------------
(* The invariant, action by action                                         *)

RowsInv == AbsentIsEmpty /\ ReservedIsCovered /\ LedgerExplainsLevels /\ WorkContinues

\* The empty stock of a fresh tenant satisfies the invariant.
LEMMA InitInv == Init => IInv
<1> SUFFICES ASSUME Init PROVE IInv
  OBVIOUS
<1>1. TypeOK
  BY DEF Init, TypeOK, Row, NoRow, PCs
<1>2. Progress /\ HoldsLock
  BY DEF Init, Progress, HoldsLock
<1>3. RowsInv
  BY DEF Init, RowsInv, AbsentIsEmpty, ReservedIsCovered, LedgerExplainsLevels,
         WorkContinues, RunningBalance, SameBalance, Balance, NoRow
<1>4. QED BY <1>1, <1>2, <1>3 DEF IInv, RowsInv

\* The row part of the invariant speaks of rows and locks only.
LEMMA RowsStutter ==
    ASSUME RowsInv, UNCHANGED <<rows, locks>>
    PROVE  RowsInv'
BY DEF RowsInv, rows, locks, AbsentIsEmpty, ReservedIsCovered,
       LedgerExplainsLevels, WorkContinues

\* A line in progress is a line of a known request.
LEMMA CurrentLine ==
    ASSUME IInv, NEW t \in Tx, pc[t] \in {"lock", "insert", "apply"}
    PROVE  /\ Current(t) \in Line
           /\ Current(t).lvl \in Levels
           /\ req[t].lines \in Seq(Line)
<1>1. req[t] \in Request /\ at[t] \in 1 .. Len(req[t].lines)
  BY RequestsAssumption DEF IInv, Progress
<1>2. req[t].lines \in Seq(Line)
  BY <1>1 DEF Request
<1>3. Current(t) \in Line
  BY <1>1, <1>2 DEF Current
<1>4. QED BY <1>2, <1>3 DEF Line

\* A request that arrives has lines to apply and touches no row.
LEMMA BeginInv ==
    ASSUME IInv, NEW t \in Tx, Begin(t)
    PROVE  IInv'
<1>1. PICK r \in Requests : req' = [req EXCEPT ![t] = r]
  BY DEF Begin
<1>2. r.lines \in Seq(Line) /\ r.lines # <<>>
  BY RequestsAssumption DEF Request
<1>3. Len(r.lines) \in Nat /\ Len(r.lines) # 0
  BY <1>2
<1>4. TypeOK'
  BY <1>1 DEF IInv, TypeOK, Begin, rows, locks, mirror, sync, PCs
<1>5. Progress'
  BY <1>1, <1>3 DEF IInv, TypeOK, Progress, Begin
<1>6. HoldsLock'
  BY <1>1 DEF IInv, TypeOK, HoldsLock, Begin, locks, Current
<1>7. RowsInv'
  BY RowsStutter DEF Begin, IInv, RowsInv
<1>8. QED BY <1>4, <1>5, <1>6, <1>7 DEF IInv, RowsInv

\* Taking a free (or one's own) row lock.
LEMMA GrabInv ==
    ASSUME IInv, NEW t \in Tx, NEW row \in Row,
           pc[t] \in {"lock", "insert"},
           owner[Current(t).lvl] \in {NoTx, t},
           owner[Current(t).lvl] = t => row = work[Current(t).lvl],
           owner[Current(t).lvl] = NoTx => row = [level[Current(t).lvl] EXCEPT !.exists = TRUE],
           Grab(t, Current(t).lvl, row),
           pc' = [pc EXCEPT ![t] = "apply"],
           UNCHANGED <<rows, mirror, sync, req, at, begun>>
    PROVE  IInv'
<1> DEFINE l == Current(t).lvl
<1>0. l \in Levels /\ t # NoTx
  BY CurrentLine, NoTxAssumption
<1>1. TypeOK'
  BY <1>0 DEF IInv, TypeOK, Grab, rows, mirror, sync, PCs
<1>2. Progress'
  BY DEF IInv, TypeOK, Progress
<1>3. HoldsLock'
  <2> SUFFICES ASSUME NEW u \in Tx, pc'[u] = "apply"
               PROVE  owner'[Current(u)'.lvl] = u
    BY DEF HoldsLock
  <2>1. Current(u)' = Current(u)
    BY DEF Current
  <2>2. CASE u = t
    BY <2>1, <2>2, <1>0 DEF Grab, IInv, TypeOK
  <2>3. CASE u # t
    <3>1. pc[u] = "apply"
      BY <2>3 DEF IInv, TypeOK
    <3>2. owner[Current(u).lvl] = u /\ u # NoTx
      BY <3>1, NoTxAssumption DEF IInv, HoldsLock
    <3>3. Current(u).lvl # l /\ Current(u).lvl \in Levels
      BY <3>1, <3>2, <2>3, CurrentLine
    <3>4. QED BY <2>1, <3>2, <3>3, <1>0 DEF Grab, IInv, TypeOK
  <2>4. QED BY <2>2, <2>3
<1>4. row.exists /\ row.reserved <= row.onHand
  BY <1>0 DEF IInv, ReservedIsCovered, WorkContinues, TypeOK, Row
<1>5. AbsentIsEmpty' /\ LedgerExplainsLevels'
  BY DEF IInv, AbsentIsEmpty, LedgerExplainsLevels, rows
<1>6. ReservedIsCovered'
  BY <1>0, <1>4 DEF IInv, TypeOK, ReservedIsCovered, Grab, rows
<1>7. WorkContinues'
  <2> SUFFICES ASSUME NEW k \in Levels
               PROVE  IF owner'[k] = NoTx
                      THEN work'[k] = NoRow /\ pend'[k] = <<>>
                      ELSE /\ work'[k].exists
                           /\ RunningBalance(level'[k], pend'[k])
                           /\ SameBalance(work'[k], Balance(level'[k], pend'[k]))
    BY DEF WorkContinues
  <2>1. CASE k = l
    <3>1. owner'[k] = t /\ work'[k] = row /\ pend' = pend /\ level' = level
      BY <2>1, <1>0 DEF Grab, IInv, TypeOK, rows
    <3>2. CASE owner[k] = t
      <4>1. row = work[k]
        BY <3>2, <2>1
      <4>2. QED BY <4>1, <3>1, <3>2, <2>1, <1>0 DEF IInv, WorkContinues
    <3>3. CASE owner[k] = NoTx
      <4>1. pend[k] = <<>> /\ row = [level[k] EXCEPT !.exists = TRUE]
        BY <3>3, <2>1 DEF IInv, WorkContinues
      <4>2. SameBalance(row, level[k])
        BY <4>1 DEF SameBalance, IInv, TypeOK, Row
      <4>3. QED BY <4>1, <4>2, <3>1, <1>0, <1>4 DEF RunningBalance, SameBalance, Balance
    <3>4. QED BY <3>2, <3>3, <2>1
  <2>2. CASE k # l
    BY <2>2, <1>0 DEF IInv, TypeOK, Grab, rows, WorkContinues
  <2>3. QED BY <2>1, <2>2
<1>8. QED BY <1>1, <1>2, <1>3, <1>5, <1>6, <1>7 DEF IInv

\* lockLevel's SELECT ... FOR UPDATE: the newest version of a free row, or the
\* request's own.
LEMMA LockRowInv ==
    ASSUME IInv, NEW t \in Tx, LockRow(t)
    PROVE  IInv'
<1> DEFINE l == Current(t).lvl
<1>1. l \in Levels /\ t # NoTx /\ pc[t] = "lock"
  BY CurrentLine, NoTxAssumption DEF LockRow
<1>2. Seen(t, l) \in Row
  BY <1>1 DEF Seen, IInv, TypeOK
<1>3. owner[l] = t => Seen(t, l) = work[l]
  BY DEF Seen
<1>4. owner[l] = NoTx => Seen(t, l) = [level[l] EXCEPT !.exists = TRUE]
  BY <1>1 DEF Seen, LockRow, Visible, IInv, TypeOK, Row
<1>5. QED BY <1>1, <1>2, <1>3, <1>4, GrabInv DEF LockRow

\* lockLevel's INSERT of a missing level starts it empty.
LEMMA InsertRowInv ==
    ASSUME IInv, NEW t \in Tx, InsertRow(t)
    PROVE  IInv'
<1> DEFINE l == Current(t).lvl
<1>1. l \in Levels /\ t # NoTx /\ pc[t] = "insert"
  BY CurrentLine, NoTxAssumption DEF InsertRow
<1>2. NewRow \in Row
  BY DEF NewRow, NoRow, Row
<1>3. level[l] = NoRow /\ owner[l] = NoTx
  BY <1>1 DEF InsertRow, IInv, AbsentIsEmpty
<1>4. NewRow = [level[l] EXCEPT !.exists = TRUE]
  BY <1>3 DEF NewRow
<1>5. QED BY <1>1, <1>2, <1>3, <1>4, GrabInv DEF InsertRow

\* Steps of a transaction that leave rows, locks and requests alone and do
\* not reach the application of a line.
LEMMA QuietInv ==
    ASSUME IInv, NEW t \in Tx,
           UNCHANGED <<rows, locks, req, at>>,
           NEW c \in PCs, pc' = [pc EXCEPT ![t] = c], c # "apply",
           c \in {"lock", "insert"} => pc[t] \in {"lock", "insert"},
           mirrorOwner' \in [Products -> Tx \cup {NoTx}],
           todo' \in [Tx -> SUBSET Products]
    PROVE  IInv'
<1>1. TypeOK'
  BY DEF IInv, TypeOK, rows, locks
<1>2. Progress'
  BY DEF IInv, TypeOK, Progress
<1>3. HoldsLock'
  BY DEF IInv, TypeOK, HoldsLock, Current, locks
<1>4. RowsInv'
  BY RowsStutter DEF IInv, RowsInv
<1>5. QED BY <1>1, <1>2, <1>3, <1>4 DEF IInv, RowsInv

\* A missing row, or an insert lost to another request, changes no row.
LEMMA MissInv ==
    ASSUME IInv, NEW t \in Tx, MissRow(t) \/ InsertLost(t)
    PROVE  IInv'
<1>1. UNCHANGED <<rows, locks, mirrorOwner, todo, req, at>>
  BY DEF MissRow, InsertLost, mirror, sync
<1>2. CASE MissRow(t)
  BY <1>1, <1>2, QuietInv DEF MissRow, IInv, TypeOK, PCs
<1>3. CASE InsertLost(t)
  BY <1>1, <1>3, QuietInv DEF InsertLost, IInv, TypeOK, PCs
<1>4. QED BY <1>2, <1>3

\* Refreshing the mirror (syncProductStock) changes no level and no ledger.
LEMMA SyncInv ==
    ASSUME IInv, NEW t \in Tx, SyncRead(t) \/ SyncWrite(t) \/ SyncDone(t)
    PROVE  IInv'
<1>1. CASE SyncRead(t)
  <2>1. Touched(t) \subseteq Products
    BY ProductAssumption DEF Touched
  <2>2. todo' \in [Tx -> SUBSET Products] /\ UNCHANGED mirrorOwner
    BY <1>1, <2>1 DEF SyncRead, IInv, TypeOK, mirror
  <2>3. QED BY <1>1, <2>2, QuietInv DEF SyncRead, IInv, TypeOK, PCs
<1>2. CASE SyncWrite(t)
  <2>1. PICK p \in todo[t] :
             /\ mirrorOwner' = [mirrorOwner EXCEPT ![p] = t]
             /\ todo' = [todo EXCEPT ![t] = @ \ {p}]
    BY <1>2 DEF SyncWrite
  <2>2. /\ mirrorOwner' \in [Products -> Tx \cup {NoTx}]
        /\ todo' \in [Tx -> SUBSET Products]
    BY <2>1 DEF IInv, TypeOK
  <2>3. pc' = [pc EXCEPT ![t] = "mirror"]
    BY <1>2 DEF SyncWrite, IInv, TypeOK
  <2>4. UNCHANGED <<rows, locks, req, at>>
    BY <1>2 DEF SyncWrite
  <2>5. QED BY <2>2, <2>3, <2>4, QuietInv DEF PCs
<1>3. CASE SyncDone(t)
  <2>1. UNCHANGED <<rows, locks, req, at, mirrorOwner, todo>>
    BY <1>3 DEF SyncDone, mirror, sync
  <2>2. QED BY <1>3, <2>1, QuietInv DEF SyncDone, IInv, TypeOK, PCs
<1>4. QED BY <1>1, <1>2, <1>3

\* A line is applied: only the lock owner's version of one row changes.
LEMMA ApplyInv ==
    ASSUME IInv, NEW t \in Tx, NEW row \in Row, NEW log \in Seq(Movement),
           pc[t] = "apply",
           row.exists = work[Current(t).lvl].exists, row.reserved <= row.onHand,
           RunningBalance(level[Current(t).lvl], log),
           SameBalance(row, Balance(level[Current(t).lvl], log)),
           work' = [work EXCEPT ![Current(t).lvl] = row],
           pend' = [pend EXCEPT ![Current(t).lvl] = log],
           Advance(t),
           UNCHANGED <<rows, owner, mirror, sync, req, begun>>
    PROVE  IInv'
<1> DEFINE l == Current(t).lvl
<1>0. /\ l \in Levels /\ owner[l] = t /\ t # NoTx
      /\ req[t] \in Requests /\ at[t] \in 1 .. Len(req[t].lines)
      /\ Len(req[t].lines) \in Nat
  BY CurrentLine, NoTxAssumption DEF IInv, HoldsLock, Progress
<1>1. TypeOK'
  BY <1>0 DEF IInv, TypeOK, Advance, AfterLine, PCs, rows, mirror, sync
<1>2. Progress'
  <2> SUFFICES ASSUME NEW u \in Tx, pc'[u] \in {"lock", "insert", "apply"}
               PROVE  req'[u] \in Requests /\ at'[u] \in 1 .. Len(req'[u].lines)
    BY DEF Progress
  <2>1. CASE u = t
    BY <2>1, <1>0 DEF Advance, AfterLine, IInv, TypeOK
  <2>2. CASE u # t
    BY <2>2 DEF Advance, IInv, TypeOK, Progress
  <2>3. QED BY <2>1, <2>2
<1>3. HoldsLock'
  <2> SUFFICES ASSUME NEW u \in Tx, pc'[u] = "apply"
               PROVE  owner'[Current(u)'.lvl] = u
    BY DEF HoldsLock
  <2>1. u # t
    BY DEF Advance, AfterLine, IInv, TypeOK
  <2>2. pc[u] = "apply" /\ Current(u)' = Current(u)
    BY <2>1 DEF Advance, IInv, TypeOK, Current
  <2>3. QED BY <2>2 DEF IInv, HoldsLock
<1>4. AbsentIsEmpty' /\ LedgerExplainsLevels'
  BY DEF IInv, AbsentIsEmpty, LedgerExplainsLevels, rows
<1>5. ReservedIsCovered'
  BY <1>0 DEF IInv, TypeOK, ReservedIsCovered, rows
<1>6. WorkContinues'
  BY <1>0 DEF IInv, TypeOK, WorkContinues, rows
<1>7. QED BY <1>1, <1>2, <1>3, <1>4, <1>5, <1>6 DEF IInv

\* applyMovement: what its checks accept extends the uncommitted ledger with a
\* row that carries the right balances.
LEMMA ApplyMovementInv ==
    ASSUME IInv, NEW t \in Tx, ApplyMovement(t)
    PROVE  IInv'
<1> DEFINE c == Current(t)
           l == c.lvl
           onHand == work[l].onHand + c.qty
           reserved == work[l].reserved + c.res
           m == [qty |-> c.qty, res |-> c.res, onHand |-> onHand, reserved |-> reserved]
           row == [work[l] EXCEPT !.onHand = onHand, !.reserved = reserved]
<1>1. /\ c \in Line /\ l \in Levels /\ owner[l] = t /\ t # NoTx
      /\ work[l] \in Row /\ pend[l] \in Seq(Movement)
  BY CurrentLine, NoTxAssumption DEF ApplyMovement, IInv, HoldsLock, TypeOK
<1>2. onHand \in Nat /\ reserved \in Nat /\ reserved <= onHand
  BY <1>1 DEF ApplyMovement, Allowed, Line, Row
<1>3. m \in Movement /\ row \in Row
  BY <1>1, <1>2 DEF Movement, Row, Line
<1>4. /\ RunningBalance(level[l], pend[l])
      /\ SameBalance(work[l], Balance(level[l], pend[l]))
  BY <1>1 DEF IInv, WorkContinues
<1>5. /\ RunningBalance(level[l], Append(pend[l], m))
      /\ Balance(level[l], Append(pend[l], m)) = m
  BY <1>1, <1>3, <1>4, AppendBalance DEF SameBalance
<1>6. SameBalance(row, m) /\ row.exists = work[l].exists /\ row.reserved <= row.onHand
  BY <1>1, <1>2 DEF SameBalance, Row
<1>7. Append(pend[l], m) \in Seq(Movement)
  BY <1>1, <1>3
<1>8. /\ work' = [work EXCEPT ![l] = row]
      /\ pend' = [pend EXCEPT ![l] = Append(pend[l], m)]
      /\ Advance(t) /\ pc[t] = "apply"
      /\ UNCHANGED <<rows, owner, mirror, sync, req, begun>>
  BY DEF ApplyMovement
<1>9. QED
  <2> HIDE DEF m, row, onHand, reserved
  <2>1. QED BY <1>3, <1>5, <1>6, <1>7, <1>8, ApplyInv

\* applyIncoming changes neither balance the ledger speaks of.
LEMMA ApplyIncomingInv ==
    ASSUME IInv, NEW t \in Tx, ApplyIncoming(t)
    PROVE  IInv'
<1> DEFINE c == Current(t)
           l == c.lvl
           row == [work[l] EXCEPT !.incoming = ClampedIncoming(work[l].incoming + c.qty)]
<1>1. /\ c \in Line /\ l \in Levels /\ owner[l] = t /\ t # NoTx
      /\ work[l] \in Row /\ pend[l] \in Seq(Movement)
  BY CurrentLine, NoTxAssumption DEF ApplyIncoming, IInv, HoldsLock, TypeOK
<1>2. /\ row \in Row /\ row.exists = work[l].exists
      /\ row.onHand = work[l].onHand /\ row.reserved = work[l].reserved
  BY <1>1 DEF Row, Line, ClampedIncoming
<1>3. /\ RunningBalance(level[l], pend[l])
      /\ SameBalance(row, Balance(level[l], pend[l]))
      /\ row.reserved <= row.onHand
  BY <1>1, <1>2 DEF IInv, WorkContinues, SameBalance, ReservedIsCovered
<1>4. /\ work' = [work EXCEPT ![l] = row]
      /\ pend' = [pend EXCEPT ![l] = pend[l]]
      /\ Advance(t) /\ pc[t] = "apply"
      /\ UNCHANGED <<rows, owner, mirror, sync, req, begun>>
  BY DEF ApplyIncoming, IInv, TypeOK
<1>5. QED
  <2> HIDE DEF row
  <2>1. QED BY <1>1, <1>2, <1>3, <1>4, ApplyInv

\* The end of a transaction, whatever it publishes: a level it held is free
\* again and has the version it published, the others are as they were.
LEMMA FinishInv ==
    ASSUME IInv, NEW t \in Tx, Finish(t),
           level' \in [Levels -> Row], ledger' \in [Levels -> Seq(Movement)],
           AbsentIsEmpty', LedgerExplainsLevels',
           \A l \in Levels : /\ owner[l] # t => level'[l] = level[l]
                             /\ level'[l].reserved <= level'[l].onHand
    PROVE  IInv'
<1>0. t # NoTx
  BY NoTxAssumption
<1>1. TypeOK'
  <2>1. NoRow \in Row /\ <<>> \in Seq(Movement) /\ NoRequest \in Requests \cup {NoRequest}
    BY DEF NoRow, Row
  <2>2. QED BY <2>1 DEF IInv, TypeOK, Finish, PCs
<1>2. Progress'
  BY DEF IInv, TypeOK, Progress, Finish
<1>3. HoldsLock'
  <2> SUFFICES ASSUME NEW u \in Tx, pc'[u] = "apply"
               PROVE  owner'[Current(u)'.lvl] = u
    BY DEF HoldsLock
  <2>1. u # t /\ pc[u] = "apply"
    BY DEF Finish, IInv, TypeOK
  <2>2. Current(u)' = Current(u)
    BY <2>1 DEF Finish, IInv, TypeOK, Current
  <2>3. Current(u).lvl \in Levels /\ owner[Current(u).lvl] = u
    BY <2>1, CurrentLine DEF IInv, HoldsLock
  <2>4. QED BY <2>1, <2>2, <2>3 DEF Finish
<1>4. ReservedIsCovered'
  BY DEF IInv, ReservedIsCovered, Finish, NoRow
<1>5. WorkContinues'
  <2> SUFFICES ASSUME NEW l \in Levels
               PROVE  IF owner'[l] = NoTx
                      THEN work'[l] = NoRow /\ pend'[l] = <<>>
                      ELSE /\ work'[l].exists
                           /\ RunningBalance(level'[l], pend'[l])
                           /\ SameBalance(work'[l], Balance(level'[l], pend'[l]))
    BY DEF WorkContinues
  <2>1. CASE owner[l] = t
    BY <2>1, <1>0 DEF Finish
  <2>2. CASE owner[l] # t
    BY <2>2 DEF Finish, IInv, WorkContinues
  <2>3. QED BY <2>1, <2>2
<1>6. QED BY <1>1, <1>2, <1>3, <1>4, <1>5 DEF IInv

\* A commit publishes the locked rows and their ledger rows together.
LEMMA CommitInv ==
    ASSUME IInv, NEW t \in Tx, Commit(t)
    PROVE  IInv'
<1>0. t # NoTx
  BY NoTxAssumption
<1>1. /\ level' = [l \in Levels |-> IF owner[l] = t THEN work[l] ELSE level[l]]
      /\ ledger' = [l \in Levels |-> IF owner[l] = t THEN ledger[l] \o pend[l] ELSE ledger[l]]
      /\ Finish(t)
  BY DEF Commit
<1>2. level' \in [Levels -> Row] /\ ledger' \in [Levels -> Seq(Movement)]
  BY <1>1 DEF IInv, TypeOK
<1>3. AbsentIsEmpty'
  BY <1>0, <1>1 DEF IInv, AbsentIsEmpty, WorkContinues
<1>4. LedgerExplainsLevels'
  <2> SUFFICES ASSUME NEW l \in Levels
               PROVE  /\ RunningBalance(NoRow, ledger'[l])
                      /\ SameBalance(level'[l], Balance(NoRow, ledger'[l]))
    BY DEF LedgerExplainsLevels
  <2>1. /\ RunningBalance(NoRow, ledger[l])
        /\ SameBalance(level[l], Balance(NoRow, ledger[l]))
        /\ ledger[l] \in Seq(Movement) /\ pend[l] \in Seq(Movement)
    BY DEF IInv, LedgerExplainsLevels, TypeOK
  <2>2. CASE owner[l] = t
    <3>1. /\ RunningBalance(level[l], pend[l])
          /\ SameBalance(work[l], Balance(level[l], pend[l]))
      BY <2>2, <1>0 DEF IInv, WorkContinues
    <3>2. /\ RunningBalance(NoRow, ledger[l] \o pend[l])
          /\ SameBalance(Balance(level[l], pend[l]), Balance(NoRow, ledger[l] \o pend[l]))
      BY <2>1, <3>1, ConcatBalance
    <3>3. level'[l] = work[l] /\ ledger'[l] = ledger[l] \o pend[l]
      BY <2>2, <1>1
    <3>4. QED BY <3>1, <3>2, <3>3 DEF SameBalance
  <2>3. CASE owner[l] # t
    BY <2>1, <2>3, <1>1
  <2>4. QED BY <2>2, <2>3
<1>5. \A l \in Levels : /\ owner[l] # t => level'[l] = level[l]
                        /\ level'[l].reserved <= level'[l].onHand
  BY <1>1 DEF IInv, ReservedIsCovered
<1>6. QED BY <1>1, <1>2, <1>3, <1>4, <1>5, FinishInv

\* A rollback, for whatever reason, publishes nothing and frees the locks.
LEMMA RollbackInv ==
    ASSUME IInv, NEW t \in Tx, Rollback(t)
    PROVE  IInv'
<1>1. UNCHANGED <<level, ledger>> /\ Finish(t)
  BY DEF Rollback
<1>2. /\ AbsentIsEmpty' /\ LedgerExplainsLevels'
      /\ level' \in [Levels -> Row] /\ ledger' \in [Levels -> Seq(Movement)]
  BY <1>1 DEF IInv, TypeOK, AbsentIsEmpty, LedgerExplainsLevels
<1>3. \A l \in Levels : /\ owner[l] # t => level'[l] = level[l]
                        /\ level'[l].reserved <= level'[l].onHand
  BY <1>1 DEF IInv, ReservedIsCovered
<1>4. QED BY <1>1, <1>2, <1>3, FinishInv

\* Every step of every request keeps the invariant.
LEMMA StepInv == IInv /\ [Next]_vars => IInv'
<1> SUFFICES ASSUME IInv, [Next]_vars PROVE IInv'
  OBVIOUS
<1>1. ASSUME NEW t \in Tx, Begin(t) PROVE IInv'
  BY <1>1, BeginInv
<1>2. ASSUME NEW t \in Tx, LockRow(t) \/ InsertRow(t) PROVE IInv'
  BY <1>2, LockRowInv, InsertRowInv
<1>3. ASSUME NEW t \in Tx, MissRow(t) \/ InsertLost(t) PROVE IInv'
  BY <1>3, MissInv
<1>4. ASSUME NEW t \in Tx, ApplyMovement(t) \/ ApplyIncoming(t) PROVE IInv'
  BY <1>4, ApplyMovementInv, ApplyIncomingInv
<1>5. ASSUME NEW t \in Tx, SyncRead(t) \/ SyncWrite(t) \/ SyncDone(t) PROVE IInv'
  BY <1>5, SyncInv
<1>6. ASSUME NEW t \in Tx, Commit(t) PROVE IInv'
  BY <1>6, CommitInv
<1>7. ASSUME NEW t \in Tx, Reject(t) \/ DeadlockAbort(t) \/ Crash(t) PROVE IInv'
  BY <1>7, RollbackInv DEF Reject, DeadlockAbort, Crash
<1>8. CASE UNCHANGED vars
  <2>1. UNCHANGED <<rows, locks>> /\ RowsInv
    BY <1>8 DEF vars, rows, locks, IInv, RowsInv
  <2>2. TypeOK' /\ Progress' /\ HoldsLock'
    BY <1>8 DEF vars, IInv, TypeOK, Progress, HoldsLock, Current
  <2>3. QED BY <2>1, <2>2, RowsStutter DEF IInv, RowsInv
<1>9. QED
  BY <1>1, <1>2, <1>3, <1>4, <1>5, <1>6, <1>7, <1>8 DEF Next, Step

\* The invariant holds in every reachable state of every instance.
THEOREM Inductive == Spec => []IInv
<1>1. Init => IInv
  BY InitInv
<1>2. IInv /\ [Next]_vars => IInv'
  BY StepInv
<1>3. QED BY <1>1, <1>2, PTL DEF Spec

\* Types are kept, for every set of requests the API may send.
THEOREM TypeCorrect == Spec => []TypeOK
<1>1. IInv => TypeOK
  BY DEF IInv
<1>2. QED BY <1>1, Inductive, PTL

\* No interleaving of requests, crashes and deadlock victims ever promises
\* more goods than a level has (applyMovement under lockLevel's row lock).
THEOREM NeverOversold == Spec => []ReservedIsCovered
<1>1. IInv => ReservedIsCovered
  BY DEF IInv
<1>2. QED BY <1>1, Inductive, PTL

\* Every committed level is the running balance of its ledger: the ledger can
\* be audited without replaying it, whatever ran concurrently.
THEOREM LedgerReconciles == Spec => []LedgerExplainsLevels
<1>1. IInv => LedgerExplainsLevels
  BY DEF IInv
<1>2. QED BY <1>1, Inductive, PTL
-----------------------------------------------------------------------------
(***************************************************************************)
(* StockLedger implements AtomicStock.  A transaction's uncommitted rows   *)
(* are what serving its lines so far against the committed stock gives:    *)
(* the levels it has served are locked, so no commit of another one can    *)
(* change what they start from.                                            *)
(***************************************************************************)

Served(o, c) ==
    IF c.op = "move" THEN Promise!Moved(o, c) ELSE Promise!Expected(o, c)

\* The outcomes of the first lines of a request.
Replay(lev, led, lines) ==
    LET upTo[i \in 0 .. Len(lines)] ==
            IF i = 0 THEN [ok |-> TRUE, level |-> lev, ledger |-> led]
            ELSE Served(upTo[i - 1], lines[i])
    IN  upTo

\* The lines of a transaction's request that are applied.
Applied(t) ==
    IF pc[t] \in {"lock", "insert", "apply"} THEN at[t] - 1 ELSE Len(req[t].lines)

SoFar(t) == Replay(level, ledger, req[t].lines)[Applied(t)]

Wrote(t, l) ==
    \/ \E j \in 1 .. Applied(t) : req[t].lines[j].lvl = l
    \/ pc[t] = "apply" /\ Current(t).lvl = l

\* A transaction holds exactly the levels it wrote or is about to.
LocksAreWrites(t) == \A l \in Levels : owner[l] = t <=> Wrote(t, l)

\* Its versions of their rows are those of its lines so far, all accepted.
WorkIsServed(t) ==
    /\ SoFar(t).ok
    /\ \A l \in Levels : owner[l] = t =>
          /\ work[l] = [SoFar(t).level[l] EXCEPT !.exists = TRUE]
          /\ ledger[l] \o pend[l] = SoFar(t).ledger[l]

Asked(t) == IF pc[t] = "idle" THEN req[t] = NoRequest ELSE req[t] \in Requests

Whole(t) == Asked(t) /\ LocksAreWrites(t) /\ WorkIsServed(t)
AllWhole == \A t \in Tx : Whole(t)

-----------------------------------------------------------------------------
(* Serving lines                                                           *)

\* What the abstract specification makes of a request is its replay.
LEMMA OutcomeIsReplay ==
    \A r : Promise!Outcome(r) = Replay(level, ledger, r.lines)[Len(r.lines)]
BY DEF Promise!Outcome, Replay, Served

ReplayRule(lev, led, lines, g, n) ==
    g = [i \in 0 .. n |-> IF i = 0 THEN [ok |-> TRUE, level |-> lev, ledger |-> led]
                          ELSE Served(g[i - 1], lines[i])]

\* There is such a function, for any number of lines.
LEMMA ReplayExists ==
    ASSUME NEW lev, NEW led, NEW lines, NEW n \in Nat
    PROVE  \E g : ReplayRule(lev, led, lines, g, n)
<1> DEFINE base == [ok |-> TRUE, level |-> lev, ledger |-> led]
           P == {k \in Nat : \E g : ReplayRule(lev, led, lines, g, k)}
<1> HIDE DEF base
<1>1. 0 \in P
  <2> DEFINE g == [i \in 0 .. 0 |-> base]
  <2>1. g = [i \in 0 .. 0 |-> IF i = 0 THEN base ELSE Served(g[i - 1], lines[i])]
    OBVIOUS
  <2> QED
    BY <2>1 DEF ReplayRule, base
<1>2. ASSUME NEW k \in P PROVE k + 1 \in P
  <2>1. PICK g : g = [i \in 0 .. k |-> IF i = 0 THEN base ELSE Served(g[i - 1], lines[i])]
    BY <1>2 DEF ReplayRule, base
  <2> DEFINE h == [i \in 0 .. k + 1 |-> IF i <= k THEN g[i] ELSE Served(g[k], lines[k + 1])]
  <2>2. \A i \in 0 .. k : h[i] = g[i]
    OBVIOUS
  <2>3. ASSUME NEW i \in 0 .. k + 1
        PROVE  h[i] = IF i = 0 THEN base ELSE Served(h[i - 1], lines[i])
    <3>1. CASE i = k + 1
      <4>1. h[i] = Served(g[k], lines[k + 1]) /\ i # 0 /\ h[k] = g[k] /\ i - 1 = k
        BY <3>1
      <4> QED
        BY <3>1, <4>1
    <3>2. CASE i \in 0 .. k
      <4>1. h[i] = g[i] /\ (i # 0 => h[i - 1] = g[i - 1])
        BY <3>2
      <4>2. g[i] = IF i = 0 THEN base ELSE Served(g[i - 1], lines[i])
        BY <2>1, <3>2
      <4> HIDE DEF h
      <4> QED
        BY <4>1, <4>2
    <3> QED
      BY <3>1, <3>2
  <2>4. h = [i \in 0 .. k + 1 |-> IF i = 0 THEN base ELSE Served(h[i - 1], lines[i])]
    <3>1. h = [i \in 0 .. k + 1 |-> h[i]]
      OBVIOUS
    <3> HIDE DEF h
    <3> QED
      BY <2>3, <3>1
  <2> HIDE DEF h
  <2> QED
    BY <2>4 DEF ReplayRule, base
<1> HIDE DEF P
<1>3. P = Nat
  <2>1. P \in SUBSET Nat
    BY DEF P
  <2> QED
    BY <1>1, <1>2, <2>1, CountingUp
<1> QED
  BY <1>3 DEF P

\* A replay follows its rule: it starts with the rows and serves a line at a
\* time.
LEMMA ReplayIs ==
    ASSUME NEW lev, NEW led, NEW lines, Len(lines) \in Nat
    PROVE  ReplayRule(lev, led, lines, Replay(lev, led, lines), Len(lines))
<1>1. Replay(lev, led, lines) = CHOOSE f : ReplayRule(lev, led, lines, f, Len(lines))
  BY DEF Replay, ReplayRule
<1> QED
  BY <1>1, ReplayExists

LEMMA ReplayStarts ==
    ASSUME NEW lev, NEW led, NEW lines, Len(lines) \in Nat
    PROVE  Replay(lev, led, lines)[0] = [ok |-> TRUE, level |-> lev, ledger |-> led]
<1> DEFINE g == Replay(lev, led, lines)
<1>1. g = [i \in 0 .. Len(lines) |-> IF i = 0 THEN [ok |-> TRUE, level |-> lev, ledger |-> led]
                                     ELSE Served(g[i - 1], lines[i])]
  BY ReplayIs DEF ReplayRule
<1>2. 0 \in 0 .. Len(lines)
  OBVIOUS
<1> HIDE DEF g
<1>3. g[0] = [ok |-> TRUE, level |-> lev, ledger |-> led]
  BY <1>1, <1>2
<1> QED
  BY <1>3 DEF g

LEMMA ReplayStep ==
    ASSUME NEW lev, NEW led, NEW lines, Len(lines) \in Nat, NEW i \in 1 .. Len(lines)
    PROVE  Replay(lev, led, lines)[i] = Served(Replay(lev, led, lines)[i - 1], lines[i])
<1> DEFINE g == Replay(lev, led, lines)
<1>1. g = [j \in 0 .. Len(lines) |-> IF j = 0 THEN [ok |-> TRUE, level |-> lev, ledger |-> led]
                                     ELSE Served(g[j - 1], lines[j])]
  BY ReplayIs DEF ReplayRule
<1>2. i \in 0 .. Len(lines) /\ i # 0
  OBVIOUS
<1> HIDE DEF g
<1>3. g[i] = Served(g[i - 1], lines[i])
  BY <1>1, <1>2
<1> QED
  BY <1>3 DEF g

LooseRow == [exists : BOOLEAN, onHand : Int, reserved : Int, incoming : Int]
LooseMove == [qty : Int, res : Int, onHand : Int, reserved : Int]
Result == [ok : BOOLEAN, level : [Levels -> LooseRow], ledger : [Levels -> Seq(LooseMove)]]

\* What a line makes of the row of its level, what it appends, and when it is
\* accepted.
RowAfter(row, c) ==
    IF c.op = "move"
    THEN [row EXCEPT !.exists = TRUE, !.onHand = row.onHand + c.qty,
                     !.reserved = row.reserved + c.res]
    ELSE [row EXCEPT !.exists = TRUE, !.incoming = ClampedIncoming(row.incoming + c.qty)]

Entry(row, c) ==
    [qty |-> c.qty, res |-> c.res,
     onHand |-> row.onHand + c.qty, reserved |-> row.reserved + c.res]

Accepted(row, c) ==
    c.op = "move" => /\ 0 <= row.reserved + c.res
                     /\ row.reserved + c.res <= row.onHand + c.qty

\* A line serves the row of its level and leaves the others alone.
LEMMA ServedIs ==
    ASSUME NEW o \in Result, NEW c \in Line
    PROVE  /\ Served(o, c) \in Result
           /\ Served(o, c).ok = (o.ok /\ Accepted(o.level[c.lvl], c))
           /\ Served(o, c).level[c.lvl] = RowAfter(o.level[c.lvl], c)
           /\ Served(o, c).ledger[c.lvl] = IF c.op = "move"
                  THEN Append(o.ledger[c.lvl], Entry(o.level[c.lvl], c))
                  ELSE o.ledger[c.lvl]
           /\ \A l \in Levels \ {c.lvl} : /\ Served(o, c).level[l] = o.level[l]
                                          /\ Served(o, c).ledger[l] = o.ledger[l]
<1>1. /\ c.op \in Ops /\ c.lvl \in Levels /\ c.qty \in Int /\ c.res \in Int
      /\ o.ok \in BOOLEAN /\ o.level \in [Levels -> LooseRow]
      /\ o.ledger \in [Levels -> Seq(LooseMove)]
      /\ o = [ok |-> o.ok, level |-> o.level, ledger |-> o.ledger]
  BY DEF Line, Result
<1> DEFINE l == c.lvl
           row == o.level[l]
           new == RowAfter(row, c)
           log == Append(o.ledger[l], Entry(row, c))
<1>2. row \in LooseRow /\ new \in LooseRow /\ Entry(row, c) \in LooseMove
  <2>1. row \in LooseRow
    BY <1>1
  <2> HIDE DEF row
  <2>2. /\ row.exists \in BOOLEAN /\ row.onHand \in Int /\ row.reserved \in Int
        /\ row.incoming \in Int
    BY <2>1 DEF LooseRow
  <2>3. RowAfter(row, c) \in LooseRow
    <3>1. /\ row.onHand + c.qty \in Int /\ row.reserved + c.res \in Int
          /\ ClampedIncoming(row.incoming + c.qty) \in Int
      BY <1>1, <2>2 DEF ClampedIncoming
    <3> QED
      BY <2>1, <3>1 DEF LooseRow, RowAfter
  <2>4. Entry(row, c) \in LooseMove
    BY <1>1, <2>2 DEF Entry, LooseMove
  <2> QED
    BY <2>1, <2>3, <2>4
<1>3. log \in Seq(LooseMove)
  BY <1>1, <1>2
<1>4. CASE c.op = "move"
  <2>1. Served(o, c) = [ok |-> o.ok /\ Accepted(row, c),
                        level |-> [o.level EXCEPT ![l] = new],
                        ledger |-> [o.ledger EXCEPT ![l] = log]]
    BY <1>1, <1>4 DEF Served, Promise!Moved, Accepted, RowAfter, Entry
  <2> HIDE DEF new, log
  <2> QED
    BY <1>1, <1>2, <1>3, <1>4, <2>1 DEF Result, new, log
<1>5. CASE c.op = "incoming"
  <2>1. Served(o, c) = [ok |-> o.ok, level |-> [o.level EXCEPT ![l] = new], ledger |-> o.ledger]
    BY <1>1, <1>5 DEF Served, Promise!Expected, RowAfter, ClampedIncoming
  <2>2. Accepted(row, c)
    BY <1>5 DEF Accepted
  <2>3. c.op # "move"
    BY <1>5
  <2> HIDE DEF new, log
  <2> QED
    BY <1>1, <1>2, <2>1, <2>2, <2>3 DEF Result, new
<1> QED
  BY <1>1, <1>4, <1>5 DEF Ops

\* A line's effect on its level depends on nothing but that level.
Start(lev, led) == lev \in [Levels -> LooseRow] /\ led \in [Levels -> Seq(LooseMove)]

\* The rows of a replay stay rows.
LEMMA ReplayTyped ==
    ASSUME NEW lev, NEW led, Start(lev, led), NEW lines \in Seq(Line)
    PROVE  /\ Replay(lev, led, lines)[0] = [ok |-> TRUE, level |-> lev, ledger |-> led]
           /\ \A k \in 0 .. Len(lines) : Replay(lev, led, lines)[k] \in Result
           /\ \A k \in 1 .. Len(lines) :
                 Replay(lev, led, lines)[k] = Served(Replay(lev, led, lines)[k - 1], lines[k])
<1> DEFINE g == Replay(lev, led, lines)
           P == {k \in Nat : k <= Len(lines) => g[k] \in Result}
<1>1. /\ Len(lines) \in Nat /\ g[0] = [ok |-> TRUE, level |-> lev, ledger |-> led]
      /\ \A k \in 1 .. Len(lines) : g[k] = Served(g[k - 1], lines[k]) /\ lines[k] \in Line
  <2>1. Len(lines) \in Nat
    OBVIOUS
  <2>2. g[0] = [ok |-> TRUE, level |-> lev, ledger |-> led]
    BY <2>1, ReplayStarts
  <2>3. ASSUME NEW k \in 1 .. Len(lines) PROVE g[k] = Served(g[k - 1], lines[k]) /\ lines[k] \in Line
    BY <2>1, ReplayStep
  <2> HIDE DEF g
  <2> QED
    BY <2>1, <2>2, <2>3
<1> HIDE DEF g
<1>2. 0 \in P
  <2>1. [ok |-> TRUE, level |-> lev, ledger |-> led] \in Result
    BY DEF Start, Result
  <2>2. g[0] \in Result
    BY <1>1, <2>1
  <2> QED
    BY <2>2
<1>3. ASSUME NEW k \in P PROVE k + 1 \in P
  <2>1. ASSUME k + 1 <= Len(lines) PROVE g[k + 1] \in Result
    <3>1. k + 1 \in 1 .. Len(lines) /\ k + 1 - 1 = k /\ g[k] \in Result
      BY <1>1, <2>1
    <3>2. g[k + 1] = Served(g[k], lines[k + 1]) /\ lines[k + 1] \in Line
      BY <1>1, <3>1
    <3> QED
      BY <3>1, <3>2, ServedIs
  <2> QED
    BY <2>1
<1>4. P = Nat
  <2>1. P \in SUBSET Nat
    OBVIOUS
  <2> HIDE DEF P
  <2> QED
    BY <1>2, <1>3, <2>1, CountingUp
<1> QED
  BY <1>1, <1>4 DEF g

\* Lines that name other levels leave a level as it was; one that names it
\* leaves a row.
Touches(lev, led, lines, l, k) ==
    IF \E j \in 1 .. k : lines[j].lvl = l
    THEN Replay(lev, led, lines)[k].level[l].exists = TRUE
    ELSE /\ Replay(lev, led, lines)[k].level[l] = lev[l]
         /\ Replay(lev, led, lines)[k].ledger[l] = led[l]

\* A level no line names is left alone; one that is named has a row.
LEMMA ReplayTouches ==
    ASSUME NEW lev, NEW led, Start(lev, led), NEW lines \in Seq(Line), NEW l \in Levels,
           NEW k \in 0 .. Len(lines)
    PROVE  Touches(lev, led, lines, l, k)
<1> DEFINE g == Replay(lev, led, lines)
           Tells(i) == IF \E j \in 1 .. i : lines[j].lvl = l
                       THEN g[i].level[l].exists = TRUE
                       ELSE g[i].level[l] = lev[l] /\ g[i].ledger[l] = led[l]
           P == {i \in Nat : i <= Len(lines) => Tells(i)}
<1>1. /\ Len(lines) \in Nat /\ g[0] = [ok |-> TRUE, level |-> lev, ledger |-> led]
      /\ \A i \in 0 .. Len(lines) : g[i] \in Result
      /\ \A i \in 1 .. Len(lines) : g[i] = Served(g[i - 1], lines[i]) /\ lines[i] \in Line
  BY ReplayTyped
<1> HIDE DEF g
<1>2. 0 \in P
  BY <1>1
<1>3. ASSUME NEW i \in P PROVE i + 1 \in P
  <2>1. ASSUME i + 1 <= Len(lines) PROVE Tells(i + 1)
    <3> DEFINE c == lines[i + 1]
    <3>1. i + 1 \in 1 .. Len(lines) /\ i + 1 - 1 = i /\ i \in 0 .. Len(lines) /\ Tells(i)
      BY <1>1, <2>1
    <3>2. g[i + 1] = Served(g[i], c) /\ c \in Line /\ g[i] \in Result
      BY <1>1, <3>1
    <3>3. 1 .. (i + 1) = (1 .. i) \cup {i + 1}
      OBVIOUS
    <3>4. CASE c.lvl = l
      <4>1. g[i + 1].level[l] = RowAfter(g[i].level[l], c) /\ g[i].level[l] \in LooseRow
        <5>1. Served(g[i], c).level[c.lvl] = RowAfter(g[i].level[c.lvl], c)
          BY <3>2, ServedIs
        <5>2. g[i].level[l] \in LooseRow
          BY <3>2 DEF Result
        <5> QED
          BY <3>2, <3>4, <5>1, <5>2
      <4>2. g[i + 1].level[l].exists = TRUE
        BY <4>1 DEF RowAfter, LooseRow
      <4> QED
        BY <3>3, <3>4, <4>2
    <3>5. CASE c.lvl # l
      <4>1. g[i + 1].level[l] = g[i].level[l] /\ g[i + 1].ledger[l] = g[i].ledger[l]
        <5>1. \A m \in Levels \ {c.lvl} : /\ Served(g[i], c).level[m] = g[i].level[m]
                                          /\ Served(g[i], c).ledger[m] = g[i].ledger[m]
          BY <3>2, ServedIs
        <5>2. l \in Levels \ {c.lvl}
          BY <3>5
        <5> QED
          BY <3>2, <5>1, <5>2
      <4>2. (\E j \in 1 .. (i + 1) : lines[j].lvl = l) <=> (\E j \in 1 .. i : lines[j].lvl = l)
        BY <3>3, <3>5
      <4> QED
        BY <3>1, <4>1, <4>2
    <3> QED
      BY <3>4, <3>5
  <2> HIDE DEF Tells
  <2> QED
    BY <2>1
<1>4. P = Nat
  <2>1. P \in SUBSET Nat
    OBVIOUS
  <2> HIDE DEF P
  <2> QED
    BY <1>2, <1>3, <2>1, CountingUp
<1> HIDE DEF Tells
<1>5. Tells(k)
  BY <1>1, <1>4
<1> QED
  BY <1>5 DEF Tells, g, Touches

\* What a request makes of a level depends on that level only, and whether it
\* is accepted on the levels it names.
LEMMA ReplayAgrees ==
    ASSUME NEW lev, NEW led, Start(lev, led), NEW lev2, NEW led2, Start(lev2, led2),
           NEW lines \in Seq(Line), NEW k \in 0 .. Len(lines),
           \A j \in 1 .. k : /\ lev2[lines[j].lvl] = lev[lines[j].lvl]
                             /\ led2[lines[j].lvl] = led[lines[j].lvl]
    PROVE  /\ Replay(lev2, led2, lines)[k].ok = Replay(lev, led, lines)[k].ok
           /\ \A l \in Levels : lev2[l] = lev[l] /\ led2[l] = led[l] =>
                 /\ Replay(lev2, led2, lines)[k].level[l] = Replay(lev, led, lines)[k].level[l]
                 /\ Replay(lev2, led2, lines)[k].ledger[l] = Replay(lev, led, lines)[k].ledger[l]
<1> DEFINE g == Replay(lev, led, lines)
           h == Replay(lev2, led2, lines)
           Same(l) == lev2[l] = lev[l] /\ led2[l] = led[l]
           Agree(i, l) == h[i].level[l] = g[i].level[l] /\ h[i].ledger[l] = g[i].ledger[l]
           Tells(i) == h[i].ok = g[i].ok /\ \A l \in Levels : Same(l) => Agree(i, l)
           P == {i \in Nat : i <= k => Tells(i)}
<1>1. /\ Len(lines) \in Nat /\ g[0] = [ok |-> TRUE, level |-> lev, ledger |-> led]
      /\ \A i \in 0 .. Len(lines) : g[i] \in Result
      /\ \A i \in 1 .. Len(lines) : g[i] = Served(g[i - 1], lines[i]) /\ lines[i] \in Line
  BY ReplayTyped
<1>2. /\ h[0] = [ok |-> TRUE, level |-> lev2, ledger |-> led2]
      /\ \A i \in 0 .. Len(lines) : h[i] \in Result
      /\ \A i \in 1 .. Len(lines) : h[i] = Served(h[i - 1], lines[i])
  BY ReplayTyped
<1> HIDE DEF g, h
<1>3. 0 \in P
  <2>1. h[0].ok = g[0].ok
    BY <1>1, <1>2
  <2>2. h[0].level = lev2 /\ h[0].ledger = led2 /\ g[0].level = lev /\ g[0].ledger = led
    BY <1>1, <1>2
  <2> QED
    BY <2>1, <2>2
<1>4. ASSUME NEW i \in P PROVE i + 1 \in P
  <2>1. ASSUME i + 1 <= k PROVE Tells(i + 1)
    <3> DEFINE c == lines[i + 1]
    <3>1. /\ i + 1 \in 1 .. Len(lines) /\ i + 1 - 1 = i /\ i \in 0 .. Len(lines)
          /\ i + 1 \in 1 .. k /\ Tells(i)
      BY <1>1, <2>1
    <3>2. /\ g[i + 1] = Served(g[i], c) /\ c \in Line /\ g[i] \in Result
          /\ h[i + 1] = Served(h[i], c) /\ h[i] \in Result
      BY <1>1, <1>2, <3>1
    <3>3. c.lvl \in Levels /\ Same(c.lvl)
      BY <3>1, <3>2 DEF Line
    <3> HIDE DEF c
    <3>4. Agree(i, c.lvl) /\ h[i].ok = g[i].ok
      BY <3>1, <3>3
    <3>5. h[i + 1].ok = g[i + 1].ok
      <4>1. Served(g[i], c).ok = (g[i].ok /\ Accepted(g[i].level[c.lvl], c))
        BY <3>2, ServedIs
      <4>2. Served(h[i], c).ok = (h[i].ok /\ Accepted(h[i].level[c.lvl], c))
        BY <3>2, ServedIs
      <4> QED
        BY <3>2, <3>4, <4>1, <4>2
    <3>6. Agree(i + 1, c.lvl)
      <4>1. /\ Served(g[i], c).level[c.lvl] = RowAfter(g[i].level[c.lvl], c)
            /\ Served(g[i], c).ledger[c.lvl] = IF c.op = "move"
                  THEN Append(g[i].ledger[c.lvl], Entry(g[i].level[c.lvl], c))
                  ELSE g[i].ledger[c.lvl]
        BY <3>2, ServedIs
      <4>2. /\ Served(h[i], c).level[c.lvl] = RowAfter(h[i].level[c.lvl], c)
            /\ Served(h[i], c).ledger[c.lvl] = IF c.op = "move"
                  THEN Append(h[i].ledger[c.lvl], Entry(h[i].level[c.lvl], c))
                  ELSE h[i].ledger[c.lvl]
        BY <3>2, ServedIs
      <4> QED
        BY <3>2, <3>4, <4>1, <4>2
    <3>7. ASSUME NEW l \in Levels, Same(l), l # c.lvl PROVE Agree(i + 1, l)
      <4>1. \A m \in Levels \ {c.lvl} : /\ Served(g[i], c).level[m] = g[i].level[m]
                                        /\ Served(g[i], c).ledger[m] = g[i].ledger[m]
        BY <3>2, ServedIs
      <4>2. \A m \in Levels \ {c.lvl} : /\ Served(h[i], c).level[m] = h[i].level[m]
                                        /\ Served(h[i], c).ledger[m] = h[i].ledger[m]
        BY <3>2, ServedIs
      <4>3. Agree(i, l) /\ l \in Levels \ {c.lvl}
        BY <3>1, <3>7
      <4> QED
        BY <3>2, <4>1, <4>2, <4>3
    <3> HIDE DEF Agree, Same
    <3> QED
      BY <3>5, <3>6, <3>7
  <2> HIDE DEF Tells
  <2> QED
    BY <2>1
<1>5. P = Nat
  <2>1. P \in SUBSET Nat
    OBVIOUS
  <2> HIDE DEF P
  <2> QED
    BY <1>3, <1>4, <2>1, CountingUp
<1> HIDE DEF Tells
<1>6. Tells(k)
  BY <1>1, <1>5
<1> QED
  BY <1>6 DEF Tells, g, h

\* Committed rows are ones a request can be replayed on.
LEMMA RowsStart == TypeOK => Start(level, ledger)
<1> SUFFICES ASSUME TypeOK PROVE Start(level, ledger)
  OBVIOUS
<1>1. Row \subseteq LooseRow /\ Movement \subseteq LooseMove
  BY DEF Row, LooseRow, Movement, LooseMove
<1>2. Seq(Movement) \subseteq Seq(LooseMove)
  BY <1>1
<1> QED
  BY <1>1, <1>2 DEF TypeOK, Start

-----------------------------------------------------------------------------
(* The uncommitted rows of every transaction are those of its lines.       *)

\* What is known of a transaction's lines.
LEMMA LinesAre ==
    ASSUME TypeOK, Progress, NEW t \in Tx
    PROVE  /\ req[t].lines \in Seq(Line) /\ Len(req[t].lines) \in Nat
           /\ Applied(t) \in 0 .. Len(req[t].lines)
           /\ pc[t] \in {"lock", "insert", "apply"} =>
                 /\ at[t] \in 1 .. Len(req[t].lines) /\ Applied(t) = at[t] - 1
                 /\ Current(t) = req[t].lines[at[t]] /\ Current(t) \in Line
                 /\ Current(t).lvl \in Levels
           /\ \A j \in 1 .. Len(req[t].lines) : req[t].lines[j].lvl \in Levels
<1>1. req[t].lines \in Seq(Line)
  <2>1. NoRequest.lines = <<>> /\ <<>> \in Seq(Line)
    BY DEF NoRequest
  <2>2. CASE req[t] \in Requests
    BY <2>2, RequestsAssumption DEF Request
  <2>3. CASE req[t] = NoRequest
    BY <2>1, <2>3
  <2> QED
    BY <2>2, <2>3 DEF TypeOK
<1>2. Len(req[t].lines) \in Nat
  BY <1>1
<1>3. pc[t] \in {"lock", "insert", "apply"} =>
          /\ at[t] \in 1 .. Len(req[t].lines) /\ Applied(t) = at[t] - 1
  BY DEF Progress, Applied
<1>4. Applied(t) \in 0 .. Len(req[t].lines)
  <2>1. CASE pc[t] \in {"lock", "insert", "apply"}
    BY <1>2, <1>3, <2>1
  <2>2. CASE pc[t] \notin {"lock", "insert", "apply"}
    BY <1>2, <2>2 DEF Applied
  <2> QED
    BY <2>1, <2>2
<1>5. ASSUME NEW j \in 1 .. Len(req[t].lines)
      PROVE  req[t].lines[j] \in Line /\ req[t].lines[j].lvl \in Levels
  <2>1. req[t].lines[j] \in Line
    BY <1>1, <1>5
  <2> QED
    BY <2>1 DEF Line
<1> QED
  BY <1>1, <1>2, <1>3, <1>4, <1>5 DEF Current

\* A step leaves a transaction whole that has made no progress by it and whose
\* levels it leaves alone.
LEMMA OthersWhole ==
    ASSUME TypeOK, Progress, TypeOK', NEW u \in Tx, Whole(u),
           pc'[u] = pc[u], req'[u] = req[u], at'[u] = at[u],
           \A l \in Levels : /\ owner'[l] = u <=> owner[l] = u
                             /\ owner[l] = u => /\ level'[l] = level[l]
                                                /\ ledger'[l] = ledger[l]
                                                /\ work'[l] = work[l]
                                                /\ pend'[l] = pend[l]
    PROVE  Whole(u)'
<1> DEFINE lines == req[u].lines
           k == Applied(u)
<1>1. /\ lines \in Seq(Line) /\ k \in 0 .. Len(lines) /\ Len(lines) \in Nat
      /\ \A j \in 1 .. Len(lines) : lines[j].lvl \in Levels
  BY LinesAre
<1>2. Applied(u)' = k /\ Asked(u)' /\ \A l : Wrote(u, l)' <=> Wrote(u, l)
  BY DEF Applied, Asked, Whole, Wrote, Current
<1>3. \A l \in Levels : owner[l] = u <=> Wrote(u, l)
  BY DEF Whole, LocksAreWrites
<1>4. LocksAreWrites(u)'
  BY <1>2, <1>3 DEF LocksAreWrites
<1>5. ASSUME NEW j \in 1 .. k PROVE owner[lines[j].lvl] = u
  <2>1. j \in 1 .. Len(lines) /\ lines[j].lvl \in Levels
    BY <1>1
  <2> QED
    BY <1>3, <2>1 DEF Wrote
<1>6. ASSUME NEW j \in 1 .. k
      PROVE  level'[lines[j].lvl] = level[lines[j].lvl] /\ ledger'[lines[j].lvl] = ledger[lines[j].lvl]
  <2>1. j \in 1 .. Len(lines) /\ lines[j].lvl \in Levels
    BY <1>1
  <2> QED
    BY <1>5, <2>1
<1>7. Start(level, ledger)
  BY RowsStart
<1>8. Start(level', ledger')
  <2>1. Start(level, ledger)'
    BY RowsStart, PTL
  <2> QED
    BY <2>1 DEF Start
<1> HIDE DEF lines, k
<1> DEFINE o == Replay(level, ledger, lines)[k]
           p == Replay(level', ledger', lines)[k]
<1>9. p.ok = o.ok
  BY <1>1, <1>6, <1>7, <1>8, ReplayAgrees
<1>10. \A l \in Levels : level'[l] = level[l] /\ ledger'[l] = ledger[l] =>
           p.level[l] = o.level[l] /\ p.ledger[l] = o.ledger[l]
  BY <1>1, <1>6, <1>7, <1>8, ReplayAgrees
<1>11. SoFar(u) = o /\ SoFar(u)' = p
  BY <1>2 DEF SoFar, lines, k
<1> HIDE DEF o, p
<1>12. o.ok /\ \A l \in Levels : owner[l] = u =>
                 /\ work[l] = [o.level[l] EXCEPT !.exists = TRUE]
                 /\ ledger[l] \o pend[l] = o.ledger[l]
  BY <1>11 DEF Whole, WorkIsServed
<1>13. WorkIsServed(u)'
  <2>1. SoFar(u)'.ok
    BY <1>9, <1>11, <1>12
  <2>2. ASSUME NEW l \in Levels, owner'[l] = u
        PROVE  /\ work'[l] = [SoFar(u)'.level[l] EXCEPT !.exists = TRUE]
               /\ ledger'[l] \o pend'[l] = SoFar(u)'.ledger[l]
    <3>1. /\ level'[l] = level[l] /\ ledger'[l] = ledger[l]
          /\ work'[l] = work[l] /\ pend'[l] = pend[l] /\ owner[l] = u
      BY <2>2
    <3>2. p.level[l] = o.level[l] /\ p.ledger[l] = o.ledger[l]
      BY <1>10, <3>1
    <3>3. work[l] = [o.level[l] EXCEPT !.exists = TRUE] /\ ledger[l] \o pend[l] = o.ledger[l]
      BY <1>12, <3>1
    <3> QED
      BY <1>11, <3>1, <3>2, <3>3
  <2> QED
    BY <2>1, <2>2 DEF WorkIsServed
<1> QED
  BY <1>2, <1>4, <1>13 DEF Whole

\* An idle transaction is whole.
LEMMA IdleWhole ==
    ASSUME TypeOK, NEW t \in Tx, pc[t] = "idle", req[t] = NoRequest,
           \A l \in Levels : owner[l] # t
    PROVE  Whole(t)
<1>1. req[t].lines = <<>> /\ Len(req[t].lines) = 0 /\ Applied(t) = 0 /\ <<>> \in Seq(Line)
  BY DEF NoRequest, Applied
<1>2. SoFar(t) = [ok |-> TRUE, level |-> level, ledger |-> ledger]
  <2>1. Start(level, ledger) /\ req[t].lines \in Seq(Line)
    BY <1>1, RowsStart
  <2>2. Replay(level, ledger, req[t].lines)[0] = [ok |-> TRUE, level |-> level, ledger |-> ledger]
    BY <2>1, ReplayTyped
  <2> QED
    BY <1>1, <2>2 DEF SoFar
<1>3. \A l : ~Wrote(t, l)
  BY <1>1 DEF Wrote
<1>4. SoFar(t).ok
  BY <1>2
<1> QED
  BY <1>3, <1>4 DEF Whole, Asked, LocksAreWrites, WorkIsServed

\* A request that begins has done nothing yet.
LEMMA BeginWhole ==
    ASSUME IInv, IInv', NEW t \in Tx, Whole(t), Begin(t)
    PROVE  Whole(t)'
<1>1. PICK r \in Requests : req' = [req EXCEPT ![t] = r]
  BY DEF Begin
<1>2. req'[t] = r /\ pc'[t] = "lock" /\ at'[t] = 1 /\ pc[t] = "idle"
  BY <1>1 DEF IInv, TypeOK, Begin
<1>3. Applied(t)' = 0 /\ Asked(t)' /\ \A l : ~Wrote(t, l)'
  BY <1>2 DEF Applied, Asked, Wrote
<1>4. req[t] = NoRequest /\ Applied(t) = 0 /\ \A l : ~Wrote(t, l)
  BY <1>2 DEF Whole, Asked, NoRequest, Applied, Wrote
<1>5. \A l \in Levels : owner[l] # t /\ owner'[l] # t
  BY <1>4 DEF Whole, LocksAreWrites, Begin, locks
<1>6. r.lines \in Seq(Line)
  BY RequestsAssumption DEF Request
<1>7. Start(level, ledger) /\ level' = level /\ ledger' = ledger
  BY RowsStart DEF IInv, Begin, rows
<1>8. Replay(level, ledger, r.lines)[0].ok
  <2>1. Replay(level, ledger, r.lines)[0] = [ok |-> TRUE, level |-> level, ledger |-> ledger]
    BY <1>6, <1>7, ReplayTyped
  <2> QED
    BY <2>1
<1>9. SoFar(t)'.ok
  BY <1>2, <1>3, <1>7, <1>8 DEF SoFar
<1> QED
  BY <1>3, <1>5, <1>9 DEF Whole, LocksAreWrites, WorkIsServed

\* A transaction that takes a row lock.
LEMMA GrabWhole ==
    ASSUME IInv, NEW t \in Tx, Whole(t), NEW row \in Row,
           pc[t] \in {"lock", "insert"},
           owner[Current(t).lvl] \in {NoTx, t},
           owner[Current(t).lvl] = t => row = work[Current(t).lvl],
           owner[Current(t).lvl] = NoTx => row = [level[Current(t).lvl] EXCEPT !.exists = TRUE],
           Grab(t, Current(t).lvl, row),
           pc' = [pc EXCEPT ![t] = "apply"],
           UNCHANGED <<rows, mirror, sync, req, at, begun>>
    PROVE  Whole(t)'
<1> DEFINE l == Current(t).lvl
           o == SoFar(t)
<1>1. /\ req[t].lines \in Seq(Line) /\ Applied(t) \in 0 .. Len(req[t].lines)
      /\ l \in Levels /\ Len(req[t].lines) \in Nat
  BY LinesAre DEF IInv
<1>2. pc'[t] = "apply" /\ req' = req /\ at' = at /\ level' = level /\ ledger' = ledger
  BY DEF IInv, TypeOK, rows
<1>3. Applied(t)' = Applied(t) /\ Current(t)' = Current(t)
  BY <1>2 DEF Applied, Current
<1>4. SoFar(t)' = o
  BY <1>2, <1>3 DEF SoFar
<1>5. Asked(t)'
  <2>1. pc[t] # "idle"
    OBVIOUS
  <2> QED
    BY <1>2, <2>1 DEF Asked, Whole
<1>6. \A k \in Levels : owner'[k] = IF k = l THEN t ELSE owner[k]
  BY <1>1 DEF Grab, IInv, TypeOK
<1>7. \A k \in Levels : Wrote(t, k)' <=> (Wrote(t, k) \/ k = l)
  BY <1>2, <1>3 DEF Wrote
<1>8. \A k \in Levels : owner[k] = t <=> Wrote(t, k)
  BY DEF Whole, LocksAreWrites
<1>9. LocksAreWrites(t)'
  BY <1>6, <1>7, <1>8 DEF LocksAreWrites
<1>10. o.ok /\ \A k \in Levels : owner[k] = t =>
                 /\ work[k] = [o.level[k] EXCEPT !.exists = TRUE]
                 /\ ledger[k] \o pend[k] = o.ledger[k]
  BY DEF Whole, WorkIsServed
<1>11. \A k \in Levels : pend'[k] = pend[k] /\ work'[k] = IF k = l THEN row ELSE work[k]
  BY <1>1 DEF Grab, IInv, TypeOK
<1>12. row = [o.level[l] EXCEPT !.exists = TRUE] /\ ledger[l] \o pend[l] = o.ledger[l]
  <2>1. CASE owner[l] = t
    BY <1>1, <1>10, <2>1
  <2>2. CASE owner[l] = NoTx
    <3>1. ~Wrote(t, l)
      BY <1>1, <1>8, <2>2, NoTxAssumption
    <3>2. ~ \E j \in 1 .. Applied(t) : req[t].lines[j].lvl = l
      BY <3>1 DEF Wrote
    <3>3. Start(level, ledger)
      BY RowsStart DEF IInv
    <3>4. o.level[l] = level[l] /\ o.ledger[l] = ledger[l]
      <4>1. Touches(level, ledger, req[t].lines, l, Applied(t))
        BY <1>1, <3>3, ReplayTouches
      <4> QED
        BY <3>2, <4>1 DEF SoFar, Touches
    <3>5. pend[l] = <<>> /\ ledger[l] \in Seq(Movement)
      BY <1>1, <2>2 DEF IInv, WorkContinues, TypeOK
    <3>6. ledger[l] \o pend[l] = ledger[l]
      BY <3>5
    <3> QED
      BY <2>2, <3>4, <3>6
  <2> QED
    BY <2>1, <2>2
<1> HIDE DEF o, l
<1>13. WorkIsServed(t)'
  <2>1. SoFar(t)'.ok
    BY <1>4, <1>10
  <2>2. ASSUME NEW k \in Levels, owner'[k] = t
        PROVE  /\ work'[k] = [SoFar(t)'.level[k] EXCEPT !.exists = TRUE]
               /\ ledger'[k] \o pend'[k] = SoFar(t)'.ledger[k]
    <3>1. CASE k = l
      <4>1. work'[k] = row /\ pend'[k] = pend[l] /\ ledger'[k] = ledger[l]
        BY <1>2, <1>11, <3>1
      <4> QED
        BY <1>4, <1>12, <3>1, <4>1
    <3>2. CASE k # l
      <4>1. work'[k] = work[k] /\ pend'[k] = pend[k] /\ ledger'[k] = ledger[k] /\ owner[k] = t
        BY <1>2, <1>6, <1>11, <2>2, <3>2
      <4> QED
        BY <1>4, <1>10, <4>1
    <3> QED
      BY <3>1, <3>2
  <2> QED
    BY <2>1, <2>2 DEF WorkIsServed
<1> QED
  BY <1>5, <1>9, <1>13 DEF Whole

\* A lock, taken on a row that exists or on the row inserted for it.
LEMMA LockWhole ==
    ASSUME IInv, NEW t \in Tx, Whole(t), LockRow(t) \/ InsertRow(t)
    PROVE  Whole(t)'
<1> DEFINE l == Current(t).lvl
<1>0. l \in Levels /\ t # NoTx
  BY CurrentLine, NoTxAssumption DEF LockRow, InsertRow
<1>1. CASE LockRow(t)
  <2>0. Seen(t, l) \in Row
    BY <1>0 DEF Seen, IInv, TypeOK
  <2>1. owner[l] = t => Seen(t, l) = work[l]
    BY DEF Seen
  <2>2. owner[l] = NoTx => Seen(t, l) = [level[l] EXCEPT !.exists = TRUE]
    BY <1>0, <1>1 DEF Seen, LockRow, Visible, IInv, TypeOK, Row
  <2> QED
    <3>1. /\ pc[t] = "lock" /\ owner[l] \in {NoTx, t} /\ Grab(t, l, Seen(t, l))
          /\ pc' = [pc EXCEPT ![t] = "apply"]
          /\ UNCHANGED <<rows, mirror, sync, req, at, begun>>
      BY <1>1 DEF LockRow
    <3> QED
      BY <2>0, <2>1, <2>2, <3>1, GrabWhole
<1>2. CASE InsertRow(t)
  <2>1. level[l] = NoRow /\ owner[l] = NoTx
    BY <1>0, <1>2 DEF InsertRow, IInv, AbsentIsEmpty
  <2>2. NewRow = [level[l] EXCEPT !.exists = TRUE]
    BY <2>1 DEF NewRow
  <2> QED
    <3>1. /\ pc[t] = "insert" /\ Grab(t, l, NewRow) /\ owner[l] # t
          /\ pc' = [pc EXCEPT ![t] = "apply"]
          /\ UNCHANGED <<rows, mirror, sync, req, at, begun>>
      BY <1>0, <1>2, <2>1 DEF InsertRow
    <3>2. NewRow \in Row
      BY DEF NewRow, NoRow, Row
    <3> QED
      BY <2>1, <2>2, <3>1, <3>2, GrabWhole
<1> QED
  BY <1>1, <1>2

\* A step of a transaction that applies no line and leaves the rows alone.
LEMMA QuietWhole ==
    ASSUME NEW t \in Tx, Whole(t), UNCHANGED <<rows, locks, req, at>>,
           Asked(t)', Applied(t)' = Applied(t), pc[t] # "apply", pc'[t] # "apply"
    PROVE  Whole(t)'
<1>1. \A l : Wrote(t, l)' <=> Wrote(t, l)
  BY DEF Wrote
<1>2. SoFar(t)' = SoFar(t)
  BY DEF SoFar, rows
<1> QED
  BY <1>1, <1>2 DEF Whole, LocksAreWrites, WorkIsServed, rows, locks

\* The steps of a transaction that apply no line.
LEMMA ElseWhole ==
    ASSUME IInv, NEW t \in Tx, Whole(t),
           MissRow(t) \/ InsertLost(t) \/ SyncRead(t) \/ SyncWrite(t) \/ SyncDone(t)
    PROVE  Whole(t)'
<1>1. UNCHANGED <<rows, locks, req, at>>
  BY DEF MissRow, InsertLost, SyncRead, SyncWrite, SyncDone
<1>2. \/ pc[t] \in {"lock", "insert"} /\ pc'[t] \in {"lock", "insert"}
      \/ pc[t] \in {"sync", "mirror"} /\ pc'[t] \in {"mirror", "commit"}
  BY DEF IInv, TypeOK, MissRow, InsertLost, SyncRead, SyncWrite, SyncDone
<1>3. Applied(t)' = Applied(t)
  BY <1>1, <1>2 DEF Applied
<1>4. Asked(t)'
  <2>1. pc[t] # "idle" /\ pc'[t] # "idle"
    BY <1>2
  <2> QED
    BY <1>1, <2>1 DEF Asked, Whole
<1> QED
  BY <1>1, <1>2, <1>3, <1>4, QuietWhole

\* A transaction that applies a line serves it.
LEMMA ApplyWhole ==
    ASSUME IInv, NEW t \in Tx, Whole(t), ApplyMovement(t) \/ ApplyIncoming(t)
    PROVE  Whole(t)'
<1> DEFINE c == Current(t)
           l == c.lvl
           lines == req[t].lines
           k == at[t]
           o == SoFar(t)
<1>1. /\ lines \in Seq(Line) /\ Len(lines) \in Nat /\ k \in 1 .. Len(lines)
      /\ Applied(t) = k - 1 /\ c = lines[k] /\ c \in Line /\ l \in Levels
  BY LinesAre DEF IInv, ApplyMovement, ApplyIncoming
<1>2. /\ req' = req /\ level' = level /\ ledger' = ledger /\ owner' = owner
      /\ pc[t] = "apply" /\ Advance(t)
  BY DEF ApplyMovement, ApplyIncoming, rows
<1>3. /\ pc'[t] = IF k < Len(lines) THEN "lock" ELSE IF req[t].sync THEN "sync" ELSE "commit"
      /\ at'[t] = IF k < Len(lines) THEN k + 1 ELSE k
  BY <1>2 DEF Advance, AfterLine, IInv, TypeOK
<1>4. Applied(t)' = k
  <2>1. CASE k < Len(lines)
    BY <1>1, <1>2, <1>3, <2>1 DEF Applied
  <2>2. CASE ~(k < Len(lines))
    <3>1. k = Len(lines) /\ pc'[t] \notin {"lock", "insert", "apply"}
      BY <1>1, <1>3, <2>2
    <3> QED
      BY <1>2, <3>1 DEF Applied
  <2> QED
    BY <2>1, <2>2
<1>5. pc'[t] # "apply" /\ pc'[t] # "idle"
  BY <1>3
<1>6. Asked(t)'
  BY <1>2, <1>5 DEF Asked, Whole
<1>7. \A m \in Levels : Wrote(t, m)' <=> Wrote(t, m)
  <2>1. 1 .. k = (1 .. (k - 1)) \cup {k}
    BY <1>1
  <2> QED
    BY <1>1, <1>2, <1>4, <1>5, <2>1 DEF Wrote
<1>8. LocksAreWrites(t)'
  BY <1>2, <1>7 DEF LocksAreWrites, Whole
<1>9. owner[l] = t
  BY <1>2 DEF IInv, HoldsLock
<1>10. Start(level, ledger)
  BY RowsStart DEF IInv
<1>11. /\ o \in Result /\ SoFar(t)' = Served(o, c)
  <2>0. lines \in Seq(Line)
    BY <1>1
  <2>1. /\ \A i \in 0 .. Len(lines) : Replay(level, ledger, lines)[i] \in Result
        /\ \A i \in 1 .. Len(lines) :
              Replay(level, ledger, lines)[i] = Served(Replay(level, ledger, lines)[i - 1], lines[i])
    <3> HIDE DEF lines
    <3>1. \A i \in 0 .. Len(lines) : Replay(level, ledger, lines)[i] \in Result
      BY <1>10, <2>0, ReplayTyped
    <3>2. \A i \in 1 .. Len(lines) :
              Replay(level, ledger, lines)[i] = Served(Replay(level, ledger, lines)[i - 1], lines[i])
      <4>1. Len(lines) \in Nat
        BY <2>0
      <4> QED
        BY <4>1, ReplayStep
    <3> QED
      BY <3>1, <3>2
  <2>2. o = Replay(level, ledger, lines)[k - 1]
    BY <1>1 DEF SoFar
  <2>3. SoFar(t)' = Replay(level, ledger, lines)[k]
    BY <1>2, <1>4 DEF SoFar
  <2>4. k - 1 \in 0 .. Len(lines)
    BY <1>1
  <2> HIDE DEF o, c, lines, k
  <2> QED
    BY <1>1, <2>1, <2>2, <2>3, <2>4
<1>12. o.ok /\ \A m \in Levels : owner[m] = t =>
                 /\ work[m] = [o.level[m] EXCEPT !.exists = TRUE]
                 /\ ledger[m] \o pend[m] = o.ledger[m]
  BY DEF Whole, WorkIsServed
<1> DEFINE row == o.level[l]
           q == Served(o, c)
<1>13. row \in LooseRow /\ work[l] = [row EXCEPT !.exists = TRUE]
       /\ ledger[l] \o pend[l] = o.ledger[l] /\ work[l] \in Row
       /\ ledger[l] \in Seq(Movement) /\ pend[l] \in Seq(Movement)
  BY <1>1, <1>9, <1>11, <1>12 DEF Result, IInv, TypeOK
<1>14. /\ q.ok = (o.ok /\ Accepted(row, c))
       /\ q.level[l] = RowAfter(row, c)
       /\ q.ledger[l] = IF c.op = "move" THEN Append(o.ledger[l], Entry(row, c)) ELSE o.ledger[l]
  BY <1>1, <1>11, ServedIs
<1>15. \A m \in Levels \ {l} : q.level[m] = o.level[m] /\ q.ledger[m] = o.ledger[m]
  BY <1>1, <1>11, ServedIs
<1>16. work[l].onHand = row.onHand /\ work[l].reserved = row.reserved
       /\ work[l].incoming = row.incoming /\ work[l].exists = TRUE
  BY <1>13 DEF LooseRow
<1> HIDE DEF q, o
<1>17. /\ Accepted(row, c)
       /\ \A m \in Levels : work'[m] = IF m = l THEN RowAfter(row, c) ELSE work[m]
       /\ \A m \in Levels \ {l} : pend'[m] = pend[m]
       /\ ledger[l] \o pend'[l] = q.ledger[l]
  <2>1. CASE ApplyMovement(t)
    <3>1. /\ c.op = "move" /\ Allowed(work[l].onHand + c.qty, work[l].reserved + c.res)
          /\ work' = [work EXCEPT ![l] = [work[l] EXCEPT !.onHand = work[l].onHand + c.qty,
                                                        !.reserved = work[l].reserved + c.res]]
          /\ pend' = [pend EXCEPT ![l] = Append(pend[l], Entry(work[l], c))]
      BY <2>1 DEF ApplyMovement, Entry
    <3>2. Entry(work[l], c) = Entry(row, c)
      BY <1>16 DEF Entry
    <3>3. Accepted(row, c)
      BY <1>16, <3>1 DEF Accepted, Allowed
    <3>4. [work[l] EXCEPT !.onHand = work[l].onHand + c.qty,
                          !.reserved = work[l].reserved + c.res] = RowAfter(row, c)
      <4>1. work[l] = [row EXCEPT !.exists = TRUE]
        BY <1>13
      <4> HIDE DEF row, c, l
      <4> QED
        BY <1>13, <1>16, <3>1, <4>1 DEF RowAfter, LooseRow
    <3>5. \A m \in Levels : work'[m] = IF m = l THEN RowAfter(row, c) ELSE work[m]
      <4>1. work \in [Levels -> Row]
        BY DEF IInv, TypeOK
      <4> HIDE DEF row, c, l
      <4> QED
        BY <1>1, <3>1, <3>4, <4>1
    <3>6. pend'[l] = Append(pend[l], Entry(row, c)) /\ \A m \in Levels \ {l} : pend'[m] = pend[m]
      <4>1. pend \in [Levels -> Seq(Movement)]
        BY DEF IInv, TypeOK
      <4> HIDE DEF row, c, l
      <4> QED
        BY <1>1, <3>1, <3>2, <4>1
    <3>7. ledger[l] \o Append(pend[l], Entry(row, c)) = Append(ledger[l] \o pend[l], Entry(row, c))
      <4> DEFINE e == Entry(row, c)
      <4>1. e \in LooseMove
        <5>1. c.qty \in Int /\ c.res \in Int
          BY <1>1 DEF Line
        <5>2. row.onHand \in Int /\ row.reserved \in Int
          BY <1>13 DEF LooseRow
        <5> QED
          BY <5>1, <5>2 DEF Entry, LooseMove
      <4>2. ledger[l] \in Seq(LooseMove) /\ pend[l] \in Seq(LooseMove)
        <5>1. Movement \subseteq LooseMove
          BY DEF Movement, LooseMove
        <5> QED
          BY <1>13, <5>1
      <4> HIDE DEF e, l
      <4>3. Append(pend[l], e) = pend[l] \o <<e>> /\ <<e>> \in Seq(LooseMove)
        BY <4>1, <4>2, AppendIsConcat
      <4>4. ledger[l] \o pend[l] \in Seq(LooseMove)
        BY <4>2, ConcatProperties
      <4>5. Append(ledger[l] \o pend[l], e) = (ledger[l] \o pend[l]) \o <<e>>
        BY <4>1, <4>4, AppendIsConcat
      <4>6. (ledger[l] \o pend[l]) \o <<e>> = ledger[l] \o (pend[l] \o <<e>>)
        <5> DEFINE u == <<e>>
                   a == ledger[l]
                   b == pend[l]
        <5>1. u \in Seq(LooseMove) /\ a \in Seq(LooseMove) /\ b \in Seq(LooseMove)
          BY <4>2, <4>3
        <5> HIDE DEF u, a, b
        <5>2. (a \o b) \o u = a \o (b \o u)
          BY <5>1, ConcatAssociative
        <5> QED
          BY <5>2 DEF u, a, b
      <4> QED
        BY <4>3, <4>5, <4>6 DEF e
    <3>8. ledger[l] \o pend'[l] = q.ledger[l]
      BY <1>13, <1>14, <3>1, <3>6, <3>7
    <3> QED
      BY <3>3, <3>5, <3>6, <3>8
  <2>2. CASE ApplyIncoming(t)
    <3>1. /\ c.op = "incoming" /\ pend' = pend
          /\ work' = [work EXCEPT ![l].incoming = ClampedIncoming(work[l].incoming + c.qty)]
      BY <2>2 DEF ApplyIncoming
    <3>2. [work[l] EXCEPT !.incoming = ClampedIncoming(work[l].incoming + c.qty)] = RowAfter(row, c)
      <4>1. c.op # "move"
        BY <3>1
      <4> HIDE DEF row, c, l
      <4> QED
        BY <1>13, <1>16, <4>1 DEF RowAfter, LooseRow
    <3>3. \A m \in Levels : work'[m] = IF m = l THEN RowAfter(row, c) ELSE work[m]
      <4>1. work \in [Levels -> Row]
        BY DEF IInv, TypeOK
      <4> HIDE DEF row, c, l
      <4> QED
        BY <1>1, <3>1, <3>2, <4>1
    <3>4. Accepted(row, c) /\ c.op # "move"
      BY <3>1 DEF Accepted
    <3>5. ledger[l] \o pend'[l] = q.ledger[l]
      BY <1>13, <1>14, <3>1, <3>4
    <3> QED
      BY <3>1, <3>3, <3>4, <3>5
  <2> QED
    BY <2>1, <2>2
<1>18. RowAfter(row, c) = [q.level[l] EXCEPT !.exists = TRUE]
  <2>1. RowAfter(row, c).exists = TRUE /\ RowAfter(row, c) \in LooseRow
    <3>1. q \in Result
      BY <1>1, <1>11, ServedIs DEF q
    <3>2. RowAfter(row, c) \in LooseRow
      BY <1>1, <1>14, <3>1 DEF Result
    <3> QED
      BY <1>13, <3>2 DEF RowAfter, LooseRow
  <2> HIDE DEF row, c
  <2> QED
    BY <1>14, <2>1 DEF LooseRow
<1>19. WorkIsServed(t)'
  <2>1. SoFar(t)' = q
    BY <1>11 DEF q
  <2>2. SoFar(t)'.ok
    BY <1>12, <1>14, <1>17, <2>1
  <2>3. ASSUME NEW m \in Levels, owner'[m] = t
        PROVE  /\ work'[m] = [SoFar(t)'.level[m] EXCEPT !.exists = TRUE]
               /\ ledger'[m] \o pend'[m] = SoFar(t)'.ledger[m]
    <3> HIDE DEF row, c, l
    <3>1. CASE m = l
      BY <1>2, <1>17, <1>18, <2>1, <2>3, <3>1
    <3>2. CASE m # l
      <4>1. m \in Levels \ {l} /\ owner[m] = t
        BY <1>2, <2>3, <3>2
      <4>2. work'[m] = work[m] /\ pend'[m] = pend[m] /\ ledger'[m] = ledger[m]
        BY <1>2, <1>17, <3>2, <4>1
      <4>3. q.level[m] = o.level[m] /\ q.ledger[m] = o.ledger[m]
        BY <1>15, <4>1
      <4> QED
        BY <1>12, <2>1, <4>1, <4>2, <4>3
    <3> QED
      BY <3>1, <3>2
  <2> QED
    BY <2>2, <2>3 DEF WorkIsServed
<1> QED
  BY <1>6, <1>8, <1>19 DEF Whole

\* The transaction that ends is idle and whole; the rows it published are of
\* levels that no other transaction holds.
LEMMA EndWhole ==
    ASSUME IInv, IInv', NEW t \in Tx, AllWhole, Commit(t) \/ Rollback(t)
    PROVE  AllWhole'
<1>0. t # NoTx
  BY NoTxAssumption
<1>1. Finish(t)
  BY DEF Commit, Rollback
<1>2. \A l \in Levels : owner[l] # t => level'[l] = level[l] /\ ledger'[l] = ledger[l]
  <2>1. CASE Commit(t)
    BY <2>1 DEF Commit
  <2>2. CASE Rollback(t)
    BY <2>2 DEF Rollback
  <2> QED
    BY <2>1, <2>2
<1>3. ASSUME NEW u \in Tx PROVE Whole(u)'
  <2>1. CASE u = t
    <3>1. pc'[t] = "idle" /\ req'[t] = NoRequest /\ \A l \in Levels : owner'[l] # t
      BY <1>0, <1>1 DEF Finish, IInv, TypeOK
    <3>2. TypeOK' /\ t \in Tx
      BY DEF IInv
    <3>3. (pc[t] = "idle")' /\ (req[t] = NoRequest)' /\ (\A l \in Levels : owner[l] # t)'
      BY <3>1
    <3>4. Whole(t)'
      BY <3>2, <3>3, IdleWhole, PTL
    <3> QED
      BY <2>1, <3>4
  <2>2. CASE u # t
    <3>1. pc'[u] = pc[u] /\ req'[u] = req[u] /\ at'[u] = at[u]
      BY <1>1, <2>2 DEF Finish, IInv, TypeOK
    <3>2. u # NoTx
      BY NoTxAssumption
    <3>3. ASSUME NEW l \in Levels
          PROVE  /\ owner'[l] = u <=> owner[l] = u
                 /\ owner[l] = u => /\ level'[l] = level[l] /\ ledger'[l] = ledger[l]
                                    /\ work'[l] = work[l] /\ pend'[l] = pend[l]
      BY <1>1, <1>2, <2>2, <3>2 DEF Finish
    <3>4. TypeOK /\ Progress /\ TypeOK' /\ Whole(u)
      BY DEF IInv, AllWhole
    <3> QED
      BY <3>1, <3>3, <3>4, OthersWhole
  <2> QED
    BY <2>1, <2>2
<1> QED
  BY <1>3 DEF AllWhole

\* Any other step of a transaction leaves the others whole.
LEMMA StepOthers ==
    ASSUME IInv, IInv', NEW t \in Tx, NEW u \in Tx, u # t, Whole(u),
           UNCHANGED rows,
           \A l \in Levels : owner[l] = u <=> owner'[l] = u,
           \A l \in Levels : owner[l] = u => work'[l] = work[l] /\ pend'[l] = pend[l],
           pc'[u] = pc[u], req'[u] = req[u], at'[u] = at[u]
    PROVE  Whole(u)'
<1>1. level' = level /\ ledger' = ledger
  BY DEF rows
<1> QED
  BY <1>1, OthersWhole DEF IInv

\* A step keeps every transaction whole: the one that takes it and the others.
LEMMA NextWhole ==
    ASSUME IInv, IInv', AllWhole, [Next]_vars
    PROVE  AllWhole'
<1>1. ASSUME NEW t \in Tx, Commit(t) PROVE AllWhole'
  BY <1>1, EndWhole
<1>2. ASSUME NEW t \in Tx, Reject(t) \/ DeadlockAbort(t) \/ Crash(t) PROVE AllWhole'
  BY <1>2, EndWhole DEF Reject, DeadlockAbort, Crash
<1>3. ASSUME NEW t \in Tx,
             \/ Begin(t) \/ LockRow(t) \/ InsertRow(t)
             \/ MissRow(t) \/ InsertLost(t) \/ SyncRead(t) \/ SyncWrite(t) \/ SyncDone(t)
             \/ ApplyMovement(t) \/ ApplyIncoming(t)
      PROVE  AllWhole'
  <2>1. Whole(t)'
    <3>1. Whole(t)
      BY DEF AllWhole
    <3>2. CASE Begin(t)
      BY <3>1, <3>2, BeginWhole
    <3>3. CASE LockRow(t) \/ InsertRow(t)
      BY <3>1, <3>3, LockWhole
    <3>4. CASE MissRow(t) \/ InsertLost(t) \/ SyncRead(t) \/ SyncWrite(t) \/ SyncDone(t)
      BY <3>1, <3>4, ElseWhole
    <3>5. CASE ApplyMovement(t) \/ ApplyIncoming(t)
      BY <3>1, <3>5, ApplyWhole
    <3> QED
      BY <1>3, <3>2, <3>3, <3>4, <3>5
  <2>2. ASSUME NEW u \in Tx, u # t PROVE Whole(u)'
    <3>1. Whole(u) /\ u # NoTx /\ t # NoTx
      BY NoTxAssumption DEF AllWhole
    <3>2. UNCHANGED rows /\ pc'[u] = pc[u] /\ req'[u] = req[u] /\ at'[u] = at[u]
      <4>1. TypeOK
        BY DEF IInv
      <4>2. UNCHANGED rows
        BY <1>3 DEF Begin, LockRow, InsertRow, MissRow, InsertLost,
                    SyncRead, SyncWrite, SyncDone, ApplyMovement, ApplyIncoming
      <4>3. req'[u] = req[u]
        BY <1>3, <2>2, <4>1 DEF TypeOK, Begin, LockRow, InsertRow, MissRow, InsertLost,
                    SyncRead, SyncWrite, SyncDone, ApplyMovement, ApplyIncoming
      <4>4. pc'[u] = pc[u] /\ at'[u] = at[u]
        <5>1. CASE ApplyMovement(t) \/ ApplyIncoming(t)
          BY <2>2, <4>1, <5>1 DEF TypeOK, ApplyMovement, ApplyIncoming, Advance
        <5>2. CASE ~(ApplyMovement(t) \/ ApplyIncoming(t))
          BY <1>3, <2>2, <4>1, <5>2 DEF TypeOK, Begin, LockRow, InsertRow, MissRow, InsertLost,
                    SyncRead, SyncWrite, SyncDone
        <5> QED
          BY <5>1, <5>2
      <4> QED
        BY <4>2, <4>3, <4>4
    <3>3. ASSUME NEW l \in Levels
          PROVE  /\ owner[l] = u <=> owner'[l] = u
                 /\ owner[l] = u => work'[l] = work[l] /\ pend'[l] = pend[l]
      <4>1. /\ owner \in [Levels -> Tx \cup {NoTx}] /\ work \in [Levels -> Row]
            /\ pend \in [Levels -> Seq(Movement)]
        BY DEF IInv, TypeOK
      <4>2. CASE LockRow(t) \/ InsertRow(t)
        <5> DEFINE k == Current(t).lvl
        <5>1. k \in Levels /\ owner[k] \in {NoTx, t}
          BY <4>2, CurrentLine DEF LockRow, InsertRow
        <5>2. PICK row : Grab(t, k, row)
          BY <4>2 DEF LockRow, InsertRow
        <5> HIDE DEF k
        <5> QED
          BY <2>2, <3>1, <4>1, <5>1, <5>2 DEF Grab
      <4>3. CASE ApplyMovement(t) \/ ApplyIncoming(t)
        <5> DEFINE k == Current(t).lvl
        <5>1. k \in Levels /\ owner[k] = t /\ owner' = owner
          BY <4>3, CurrentLine DEF ApplyMovement, ApplyIncoming, IInv, HoldsLock
        <5>2. PICK row : work' = [work EXCEPT ![k] = row]
          BY <4>3 DEF ApplyMovement, ApplyIncoming
        <5>3. PICK log : pend' = [pend EXCEPT ![k] = log]
          <6>1. CASE ApplyMovement(t)
            BY <6>1 DEF ApplyMovement
          <6>2. CASE ApplyIncoming(t)
            <7>1. pend' = [pend EXCEPT ![k] = pend[k]]
              BY <4>1, <6>2 DEF ApplyIncoming
            <7> QED
              BY <7>1
          <6> QED
            BY <4>3, <6>1, <6>2
        <5> HIDE DEF k
        <5> QED
          BY <2>2, <4>1, <5>1, <5>2, <5>3
      <4>4. CASE ~(LockRow(t) \/ InsertRow(t) \/ ApplyMovement(t) \/ ApplyIncoming(t))
        BY <1>3, <4>4 DEF Begin, MissRow, InsertLost, SyncRead, SyncWrite, SyncDone, locks
      <4> QED
        BY <4>2, <4>3, <4>4
    <3> QED
      BY <2>2, <3>1, <3>2, <3>3, StepOthers
  <2> QED
    BY <2>1, <2>2 DEF AllWhole
<1>4. CASE UNCHANGED vars
  <2>1. UNCHANGED <<level, ledger, owner, work, pend, pc, req, at>>
    BY <1>4 DEF vars
  <2>2. ASSUME NEW u \in Tx PROVE Whole(u)'
    BY <2>1, OthersWhole DEF IInv, AllWhole
  <2> QED
    BY <2>2 DEF AllWhole
<1> QED
  BY <1>1, <1>2, <1>3, <1>4 DEF Next, Step

\* No transaction has begun.
LEMMA InitWhole == Init => AllWhole
<1> SUFFICES ASSUME Init, NEW t \in Tx PROVE Whole(t)
  BY DEF AllWhole
<1>1. TypeOK /\ pc[t] = "idle" /\ req[t] = NoRequest /\ \A l \in Levels : owner[l] # t
  BY InitInv, NoTxAssumption DEF IInv, Init
<1> QED
  BY <1>1, IdleWhole

\* What a commit publishes is its request, served whole.
LEMMA CommitServes ==
    ASSUME IInv, AllWhole, NEW t \in Tx, Commit(t)
    PROVE  Promise!Next
<1> DEFINE lines == req[t].lines
           o == Promise!Outcome(req[t])
<1>1. /\ lines \in Seq(Line) /\ Len(lines) \in Nat
      /\ pc[t] = "commit" /\ Applied(t) = Len(lines) /\ Whole(t)
  BY LinesAre DEF IInv, Commit, Applied, AllWhole
<1>2. req[t] \in Requests
  BY <1>1 DEF Whole, Asked
<1>3. o = SoFar(t) /\ o = Replay(level, ledger, lines)[Len(lines)]
  BY <1>1, OutcomeIsReplay DEF SoFar
<1>4. Start(level, ledger)
  BY RowsStart DEF IInv
<1>5. o \in Result
  <2> HIDE DEF o, lines
  <2>1. Len(lines) \in 0 .. Len(lines)
    BY <1>1
  <2>2. Replay(level, ledger, lines)[Len(lines)] \in Result
    BY <1>1, <1>4, <2>1, ReplayTyped
  <2> QED
    BY <1>3, <2>2
<1>6. \A l \in Levels : Touches(level, ledger, lines, l, Len(lines))
  <2> HIDE DEF lines
  <2> QED
    BY <1>1, <1>4, ReplayTouches
<1>7. /\ level' = [l \in Levels |-> IF owner[l] = t THEN work[l] ELSE level[l]]
      /\ ledger' = [l \in Levels |-> IF owner[l] = t THEN ledger[l] \o pend[l] ELSE ledger[l]]
  BY DEF Commit
<1>8. \A l \in Levels : owner[l] = t <=> \E j \in 1 .. Len(lines) : lines[j].lvl = l
  BY <1>1 DEF Whole, LocksAreWrites, Wrote
<1>9. o.ok /\ \A l \in Levels : owner[l] = t =>
                 /\ work[l] = [o.level[l] EXCEPT !.exists = TRUE]
                 /\ ledger[l] \o pend[l] = o.ledger[l]
  BY <1>1, <1>3 DEF Whole, WorkIsServed
<1> HIDE DEF o, lines
<1>10. ASSUME NEW l \in Levels PROVE level'[l] = o.level[l] /\ ledger'[l] = o.ledger[l]
  <2>1. CASE owner[l] = t
    <3>1. o.level[l].exists = TRUE /\ o.level[l] \in LooseRow
      BY <1>3, <1>5, <1>6, <1>8, <2>1 DEF Touches, Result
    <3>2. [o.level[l] EXCEPT !.exists = TRUE] = o.level[l]
      BY <3>1 DEF LooseRow
    <3> QED
      BY <1>7, <1>9, <2>1, <3>2
  <2>2. CASE owner[l] # t
    BY <1>3, <1>6, <1>7, <1>8, <2>2 DEF Touches
  <2> QED
    BY <2>1, <2>2
<1>11. level' = o.level /\ ledger' = o.ledger
  <2>1. o.level \in [Levels -> LooseRow] /\ o.ledger \in [Levels -> Seq(LooseMove)]
    BY <1>5 DEF Result
  <2>2. DOMAIN level' = Levels /\ level' = [l \in Levels |-> level'[l]]
    BY <1>7
  <2>3. DOMAIN ledger' = Levels /\ ledger' = [l \in Levels |-> ledger'[l]]
    BY <1>7
  <2> QED
    BY <1>10, <2>1, <2>2, <2>3
<1>12. Promise!Serve(req[t])
  BY <1>9, <1>11 DEF Promise!Serve, o
<1> QED
  BY <1>2, <1>12 DEF Promise!Next

\* Requests take effect whole, at one instant, against the committed stock, or
\* not at all: the statement-by-statement transactions implement AtomicStock,
\* for any requests, levels and number of connections.
THEOREM ServingIsAtomic == Spec => ServedWhole
<1>1. Init => Promise!Init
  BY DEF Init, Promise!Init, NoRow, Promise!NoRow
<1>2. IInv /\ AllWhole /\ [Next]_vars => [Promise!Next]_<<level, ledger>>
  <2> SUFFICES ASSUME IInv, AllWhole, [Next]_vars
               PROVE  Promise!Next \/ UNCHANGED <<level, ledger>>
    OBVIOUS
  <2>1. ASSUME NEW t \in Tx, Commit(t) PROVE Promise!Next
    BY <2>1, CommitServes
  <2>2. ASSUME NEW t \in Tx, Begin(t) \/ Crash(t) \/ (Step(t) /\ ~Commit(t))
        PROVE  UNCHANGED <<level, ledger>>
    BY <2>2 DEF Step, Begin, LockRow, InsertRow, MissRow, InsertLost, SyncRead, SyncWrite,
                SyncDone, ApplyMovement, ApplyIncoming, Reject, DeadlockAbort, Crash,
                Rollback, rows
  <2>3. CASE UNCHANGED vars
    BY <2>3 DEF vars
  <2> QED
    BY <2>1, <2>2, <2>3 DEF Next, Step
<1>3. Init => IInv /\ AllWhole
  BY InitInv, InitWhole
<1>4. IInv /\ AllWhole /\ [Next]_vars => IInv' /\ AllWhole'
  BY StepInv, NextWhole
<1>5. Spec => [](IInv /\ AllWhole)
  BY <1>3, <1>4, PTL DEF Spec
<1> QED
  BY <1>1, <1>2, <1>5, PTL DEF Spec, ServedWhole, Promise!Spec
=============================================================================
