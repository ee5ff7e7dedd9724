-------------------------- MODULE Documents_proofs --------------------------
(* Proofs about Documents for any documents, skus, warehouses, quantities  *)
(* and number of requests at once.                                         *)
EXTENDS Documents, FoldFacts

\* What a row of a document's table may be.
RowsOf(d) ==
    CASE d \in Transfers -> Transfer
      [] d \in Receipts  -> Receipt
      [] d \in Counts    -> Count
      [] OTHER           -> {Nothing}

\* The documents of a kind of request.
Subject(kind) ==
    CASE kind \in {"createTransfer", "dispatch", "receive", "cancelTransfer"} -> Transfers
      [] kind \in {"createReceipt", "receiveStock", "confirm", "cancelReceipt"} -> Receipts
      [] kind = "adjust" -> {NoDoc}
      [] OTHER -> Counts

Revises(kind) == kind \notin Creates /\ kind # "adjust"

\* A create names a document its read did not find; any other request one that
\* exists, and that was there when it was read.
Asked(r) ==
    /\ r.kind \in Kinds /\ r.doc \in Subject(r.kind)
    /\ r.kind \in Creates => r.doc \notin r.seen.made
    /\ Revises(r.kind) => /\ r.seen.row \in RowsOf(r.doc)
                          /\ db.doc[r.doc].status # "none"
    /\ r.kind \in {"openCount", "post"} => r.seen.level \in [Cells -> Level]

Busy == {t \in Tx : run[t] # Idle}

Types ==
    /\ db \in Rows
    /\ \A d \in Docs : db.doc[d] = Nothing \/ db.doc[d] \in RowsOf(d)
    /\ \A c \in Cells : Reserved[c] <= db.level[c].onHand
    /\ IsFiniteSet(Existing(Docs))
    /\ DOMAIN run = Tx
    /\ \A t \in Tx : run[t] = Idle \/ Asked(run[t])
    /\ begun \in 0 .. MaxRequests
    /\ IsFiniteSet(Busy) /\ Cardinality(Busy) <= begun

-----------------------------------------------------------------------------
(***************************************************************************)
(* What a loop over items does.  Every loop of a request moves the skus    *)
(* e.goes at one warehouse, and is one of five sorts by what else it       *)
(* writes; `due` is what it adds to the incoming of e.onto.                *)
(***************************************************************************)
Applied(acc, s, e) ==
    IF s \notin e.goes THEN acc
    ELSE LET m == Moved(acc, s, e.at, e.qty[s])
             i == Incoming(m, s, e.onto, e.due[s])
         IN  CASE e.as = "sent"      -> i
               [] e.as = "landed"    -> [i EXCEPT !.db.doc[e.doc].received[s] = e.received[s]]
               [] e.as = "confirmed" -> [m EXCEPT !.db.doc[e.doc].received[s] = e.received[s]]
               [] e.as = "corrected" -> [m EXCEPT !.db.corrected[s] = @ + e.qty[s]]
               [] OTHER              -> m

Expects(e) == e.as \in {"sent", "landed"}
Books(e) == e.as \in {"landed", "confirmed"}

\* The rows after the skus G moved.
Shifted(c, l, e, G) ==
    [exists   |-> IF c[1] \in G /\ (c[2] = e.at \/ (Expects(e) /\ c[2] = e.onto))
                  THEN TRUE ELSE l.exists,
     onHand   |-> IF c[1] \in G /\ c[2] = e.at THEN l.onHand + e.qty[c[1]] ELSE l.onHand,
     incoming |-> IF c[1] \in G /\ Expects(e) /\ c[2] = e.onto
                  THEN Positive(l.incoming + e.due[c[1]]) ELSE l.incoming]

Booked(row, e, G) ==
    [row EXCEPT !.received = [s \in Skus |-> IF s \in G THEN e.received[s] ELSE row.received[s]]]

Moves(d, e, G) ==
    [doc       |-> IF Books(e) THEN [d.doc EXCEPT ![e.doc] = Booked(d.doc[e.doc], e, G)]
                   ELSE d.doc,
     level     |-> [c \in Cells |-> Shifted(c, d.level[c], e, G)],
     corrected |-> [s \in Skus |-> IF s \in G /\ e.as = "corrected"
                                   THEN d.corrected[s] + e.qty[s] ELSE d.corrected[s]]]

\* No level of them falls below zero, or below what is reserved of it.
Fits(d, e, G) ==
    \A s \in G : LET onHand == d.level[<<s, e.at>>].onHand + e.qty[s] IN
                  onHand >= 0 /\ Reserved[<<s, e.at>>] <= onHand

Done(x, e, G) ==
    [ok |-> x.ok /\ Fits(x.db, e, G), db |-> Moves(x.db, e, G), seen |-> x.seen]

Progress(x) ==
    /\ x = [ok |-> x.ok, db |-> x.db, seen |-> x.seen]
    /\ x.ok \in BOOLEAN /\ x.db \in Rows

Steady(e) ==
    /\ e.goes \subseteq Skus
    /\ \A s \in e.goes : e.at \in Warehouses /\ e.qty[s] \in Int
    /\ Expects(e) => \A s \in e.goes : e.onto \in Warehouses /\ e.due[s] \in Int

Loop(x, e) ==
    /\ Steady(e)
    /\ Books(e) => e.doc \in Docs /\ x.db.doc[e.doc] \in Transfer \cup Receipt

Loose == [exists : BOOLEAN, onHand : Int, incoming : Nat]

\* A record whose fields are known.
LEMMA LevelIs ==
    ASSUME NEW e, NEW o, NEW i, NEW l \in [exists : {e}, onHand : {o}, incoming : {i}]
    PROVE  l = [exists |-> e, onHand |-> o, incoming |-> i]
OBVIOUS
LEMMA RowsAre ==
    ASSUME NEW d, NEW l, NEW k, NEW r \in [doc : {d}, level : {l}, corrected : {k}]
    PROVE  r = [doc |-> d, level |-> l, corrected |-> k]
OBVIOUS
LEMMA ProgressIs ==
    ASSUME NEW o, NEW d, NEW n, NEW x \in [ok : {o}, db : {d}, seen : {n}]
    PROVE  x = [ok |-> o, db |-> d, seen |-> n]
OBVIOUS

Laid(x) ==
    /\ x = [ok |-> x.ok, db |-> x.db, seen |-> x.seen]
    /\ x.db = [doc |-> x.db.doc, level |-> x.db.level, corrected |-> x.db.corrected]

LEMMA LaidOut ==
    ASSUME NEW o, NEW d, NEW l, NEW k, NEW n
    PROVE  Laid([ok |-> o, db |-> [doc |-> d, level |-> l, corrected |-> k], seen |-> n])
BY DEF Laid

\* Writing the levels alone, or the documents, or the corrections.
LEMMA LevelsWritten ==
    ASSUME NEW x, Laid(x), NEW o, NEW c, NEW l
    PROVE  [x EXCEPT !.ok = o, !.db.level[c] = l]
           = [ok |-> o, db |-> [doc |-> x.db.doc, level |-> [x.db.level EXCEPT ![c] = l],
                                corrected |-> x.db.corrected], seen |-> x.seen]
<1> DEFINE L == [x.db.level EXCEPT ![c] = l]
           D == [x.db EXCEPT !.level[c] = l]
           y == [x EXCEPT !.ok = o, !.db.level[c] = l]
<1>1. D \in [doc : {x.db.doc}, level : {L}, corrected : {x.db.corrected}]
  BY DEF Laid
<1>2. y \in [ok : {o}, db : {D}, seen : {x.seen}]
  BY DEF Laid
<1> HIDE DEF y, L, D
<1>3. D = [doc |-> x.db.doc, level |-> L, corrected |-> x.db.corrected]
  BY <1>1, RowsAre
<1>4. y = [ok |-> o, db |-> D, seen |-> x.seen]
  BY <1>2, ProgressIs
<1> QED
  BY <1>3, <1>4 DEF y, L

LEMMA LevelWritten ==
    ASSUME NEW x, Laid(x), NEW c, NEW l
    PROVE  [x EXCEPT !.db.level[c] = l]
           = [ok |-> x.ok, db |-> [doc |-> x.db.doc, level |-> [x.db.level EXCEPT ![c] = l],
                                corrected |-> x.db.corrected], seen |-> x.seen]
<1> DEFINE L == [x.db.level EXCEPT ![c] = l]
           D == [x.db EXCEPT !.level[c] = l]
           y == [x EXCEPT !.db.level[c] = l]
<1>1. D \in [doc : {x.db.doc}, level : {L}, corrected : {x.db.corrected}]
  BY DEF Laid
<1>2. y \in [ok : {x.ok}, db : {D}, seen : {x.seen}]
  BY DEF Laid
<1> HIDE DEF y, L, D
<1>3. D = [doc |-> x.db.doc, level |-> L, corrected |-> x.db.corrected]
  BY <1>1, RowsAre
<1>4. y = [ok |-> x.ok, db |-> D, seen |-> x.seen]
  BY <1>2, ProgressIs
<1> QED
  BY <1>3, <1>4 DEF y, L

LEMMA DocWritten ==
    ASSUME NEW x, Laid(x), NEW D
    PROVE  [x EXCEPT !.db.doc = D]
           = [ok |-> x.ok, db |-> [doc |-> D, level |-> x.db.level,
                                   corrected |-> x.db.corrected], seen |-> x.seen]
<1> DEFINE E == [x.db EXCEPT !.doc = D]
           y == [x EXCEPT !.db.doc = D]
<1>1. E \in [doc : {D}, level : {x.db.level}, corrected : {x.db.corrected}]
  BY DEF Laid
<1>2. y \in [ok : {x.ok}, db : {E}, seen : {x.seen}]
  BY DEF Laid
<1> HIDE DEF y, E
<1>3. E = [doc |-> D, level |-> x.db.level, corrected |-> x.db.corrected]
  BY <1>1, RowsAre
<1>4. y = [ok |-> x.ok, db |-> E, seen |-> x.seen]
  BY <1>2, ProgressIs
<1> QED
  BY <1>3, <1>4 DEF y

LEMMA CorrectedWritten ==
    ASSUME NEW x, Laid(x), NEW K
    PROVE  [x EXCEPT !.db.corrected = K]
           = [ok |-> x.ok, db |-> [doc |-> x.db.doc, level |-> x.db.level,
                                   corrected |-> K], seen |-> x.seen]
<1> DEFINE E == [x.db EXCEPT !.corrected = K]
           y == [x EXCEPT !.db.corrected = K]
<1>1. E \in [doc : {x.db.doc}, level : {x.db.level}, corrected : {K}]
  BY DEF Laid
<1>2. y \in [ok : {x.ok}, db : {E}, seen : {x.seen}]
  BY DEF Laid
<1> HIDE DEF y, E
<1>3. E = [doc |-> x.db.doc, level |-> x.db.level, corrected |-> K]
  BY <1>1, RowsAre
<1>4. y = [ok |-> x.ok, db |-> E, seen |-> x.seen]
  BY <1>2, ProgressIs
<1> QED
  BY <1>3, <1>4 DEF y

\* A movement, and what it adds to what is expected.
LEMMA MovedIs ==
    ASSUME NEW x, Laid(x), x.db.level \in [Cells -> Loose],
           NEW s \in Skus, NEW w \in Warehouses, NEW q \in Int
    PROVE  LET L == x.db.level
               o == L[<<s, w>>].onHand + q IN
           Moved(x, s, w, q)
           = [ok |-> x.ok /\ o >= 0 /\ Reserved[<<s, w>>] <= o,
              db |-> [doc |-> x.db.doc,
                      level |-> [L EXCEPT ![<<s, w>>] =
                         [exists |-> TRUE, onHand |-> o, incoming |-> L[<<s, w>>].incoming]],
                      corrected |-> x.db.corrected],
              seen |-> x.seen]
<1> DEFINE l == x.db.level[<<s, w>>]
           o == l.onHand + q
           n == [l EXCEPT !.exists = TRUE, !.onHand = o]
           ok == x.ok /\ o >= 0 /\ Reserved[<<s, w>>] <= o
<1>1. l \in Loose
  BY DEF Cells
<1>2. n \in [exists : {TRUE}, onHand : {o}, incoming : {l.incoming}]
  <2> HIDE DEF l, o
  <2> QED
    BY <1>1 DEF Loose
<1>3. Moved(x, s, w, q) = [x EXCEPT !.ok = ok, !.db.level[<<s, w>>] = n]
  BY DEF Moved
<1> HIDE DEF n, ok
<1>4. n = [exists |-> TRUE, onHand |-> o, incoming |-> l.incoming]
  <2> HIDE DEF o, l
  <2> QED
    BY <1>2, LevelIs
<1>5. [x EXCEPT !.ok = ok, !.db.level[<<s, w>>] = n]
      = [ok |-> ok, db |-> [doc |-> x.db.doc, level |-> [x.db.level EXCEPT ![<<s, w>>] = n],
                           corrected |-> x.db.corrected], seen |-> x.seen]
  BY LevelsWritten
<1> QED
  BY <1>3, <1>4, <1>5 DEF ok

LEMMA IncomingIs ==
    ASSUME NEW x, Laid(x), x.db.level \in [Cells -> Loose],
           NEW s \in Skus, NEW w \in Warehouses, NEW m \in Int
    PROVE  LET L == x.db.level IN
           Incoming(x, s, w, m)
           = [ok |-> x.ok,
              db |-> [doc |-> x.db.doc,
                      level |-> [L EXCEPT ![<<s, w>>] =
                         [exists |-> TRUE, onHand |-> L[<<s, w>>].onHand,
                          incoming |-> Positive(L[<<s, w>>].incoming + m)]],
                      corrected |-> x.db.corrected],
              seen |-> x.seen]
<1> DEFINE l == x.db.level[<<s, w>>]
           p == Positive(l.incoming + m)
           n == [l EXCEPT !.exists = TRUE, !.incoming = p]
<1>1. l \in Loose
  BY DEF Cells
<1>2. n \in [exists : {TRUE}, onHand : {l.onHand}, incoming : {p}]
  <2> HIDE DEF l, p
  <2> QED
    BY <1>1 DEF Loose
<1>3. Incoming(x, s, w, m) = [x EXCEPT !.db.level[<<s, w>>] = n]
  BY DEF Incoming
<1> HIDE DEF n
<1>4. n = [exists |-> TRUE, onHand |-> l.onHand, incoming |-> p]
  <2> HIDE DEF p, l
  <2> QED
    BY <1>2, LevelIs
<1>5. [x EXCEPT !.db.level[<<s, w>>] = n]
      = [ok |-> x.ok, db |-> [doc |-> x.db.doc, level |-> [x.db.level EXCEPT ![<<s, w>>] = n],
                           corrected |-> x.db.corrected], seen |-> x.seen]
  BY LevelWritten
<1> QED
  BY <1>3, <1>4, <1>5

\* The rows after a loop, with levels that may have gone below zero.
LEMMA MovesType ==
    ASSUME NEW x, Progress(x), NEW e, Loop(x, e), NEW G \in SUBSET e.goes
    PROVE  /\ Laid(Done(x, e, G))
           /\ Moves(x.db, e, G).level \in [Cells -> Loose]
<1>1. Laid(Done(x, e, G))
  BY DEF Laid, Done, Moves
<1>2. ASSUME NEW c \in Cells PROVE Shifted(c, x.db.level[c], e, G) \in Loose
  <2> DEFINE l == x.db.level[c]
  <2>1. l.onHand \in Nat /\ l.incoming \in Nat /\ l.exists \in BOOLEAN
    BY DEF Progress, Rows, Level
  <2>2. c[1] \in G => e.qty[c[1]] \in Int
    BY DEF Loop, Steady
  <2>3. c[1] \in G /\ Expects(e) => e.due[c[1]] \in Int
    BY DEF Loop, Steady
  <2> HIDE DEF l
  <2>4. c[1] \in G /\ Expects(e) => Positive(l.incoming + e.due[c[1]]) \in Nat
    BY <2>1, <2>3 DEF Positive
  <2> DEFINE v == IF c[1] \in G /\ (c[2] = e.at \/ (Expects(e) /\ c[2] = e.onto)) THEN TRUE ELSE l.exists
             o == IF c[1] \in G /\ c[2] = e.at THEN l.onHand + e.qty[c[1]] ELSE l.onHand
             i == IF c[1] \in G /\ Expects(e) /\ c[2] = e.onto
                  THEN Positive(l.incoming + e.due[c[1]]) ELSE l.incoming
  <2>5. v \in BOOLEAN /\ o \in Int /\ i \in Nat
    <3>1. v \in BOOLEAN
      BY <2>1
    <3>2. o \in Int
      BY <2>1, <2>2
    <3>3. i \in Nat
      BY <2>1, <2>4
    <3> QED
      BY <3>1, <3>2, <3>3
  <2>6. Shifted(c, l, e, G) = [exists |-> v, onHand |-> o, incoming |-> i]
    BY DEF Shifted
  <2> HIDE DEF v, o, i
  <2>7. Shifted(c, l, e, G) \in Loose
    BY <2>5, <2>6 DEF Loose
  <2> QED
    BY <2>7 DEF l
<1>3. Moves(x.db, e, G).level \in [Cells -> Loose]
  BY <1>2 DEF Moves
<1> QED
  BY <1>1, <1>3

LEMMA DoneNothing ==
    ASSUME NEW x, Progress(x), NEW e, Loop(x, e)
    PROVE  Done(x, e, {}) = x
<1> DEFINE d == x.db
           m == Moves(d, e, {})
<1>1. d \in Rows /\ d = [doc |-> d.doc, level |-> d.level, corrected |-> d.corrected]
  BY DEF Progress, Rows
<1>2. m.level = d.level
  <2>1. ASSUME NEW c \in Cells PROVE Shifted(c, d.level[c], e, {}) = d.level[c]
    <3>1. d.level[c] \in Level
      BY <1>1 DEF Rows
    <3> QED
      BY <3>1 DEF Shifted, Level
  <2> QED
    BY <1>1, <2>1 DEF Moves, Rows
<1>3. m.corrected = d.corrected
  BY <1>1 DEF Moves, Rows
<1>4. m.doc = d.doc
  <2>1. CASE ~Books(e)
    BY <2>1 DEF Moves
  <2>2. CASE Books(e)
    <3> DEFINE row == d.doc[e.doc]
    <3>1. row \in Transfer \cup Receipt /\ e.doc \in Docs
      BY <2>2 DEF Loop, Steady
    <3>2. row.received \in [Skus -> Nat]
      BY <3>1 DEF Transfer, Receipt
    <3>3. [s \in Skus |-> IF s \in {} THEN e.received[s] ELSE row.received[s]] = row.received
      BY <3>2
    <3>4. [row EXCEPT !.received = row.received] = row
      BY <3>1 DEF Transfer, Receipt
    <3>5. Booked(row, e, {}) = row
      BY <3>3, <3>4 DEF Booked
    <3>6. m.doc = [d.doc EXCEPT ![e.doc] = row]
      BY <2>2, <3>5 DEF Moves
    <3> QED
      BY <1>1, <3>1, <3>6 DEF Rows
  <2> QED
    BY <2>1, <2>2
<1>5. m = [doc |-> m.doc, level |-> m.level, corrected |-> m.corrected]
  BY DEF Moves
<1> HIDE DEF m, d
<1>6. m = d
  BY <1>1, <1>2, <1>3, <1>4, <1>5
<1>7. Fits(d, e, {})
  BY DEF Fits
<1> QED
  BY <1>6, <1>7 DEF Done, Progress, m, d

\* One more sku: the loop's body on what it made of the others.
LEMMA DoneOne ==
    ASSUME NEW x, Progress(x), NEW e, Loop(x, e), NEW H \in SUBSET e.goes,
           NEW s \in e.goes, s \notin H
    PROVE  Applied(Done(x, e, H), s, e) = Done(x, e, H \cup {s})
<1> DEFINE a == Done(x, e, H)
           b == Done(x, e, H \cup {s})
           w == e.at
           q == e.qty[s]
           m == Moved(a, s, w, q)
           i == Incoming(m, s, e.onto, e.due[s])
           L == a.db.level
           o == L[<<s, w>>].onHand + q
           L1 == [L EXCEPT ![<<s, w>>] = [exists |-> TRUE, onHand |-> o,
                                         incoming |-> L[<<s, w>>].incoming]]
           L2 == [L1 EXCEPT ![<<s, e.onto>>] =
                     [exists |-> TRUE, onHand |-> L1[<<s, e.onto>>].onHand,
                      incoming |-> Positive(L1[<<s, e.onto>>].incoming + e.due[s])]]
<1>1. /\ Laid(a) /\ L \in [Cells -> Loose]
      /\ Laid(b) /\ b.db.level \in [Cells -> Loose]
  BY MovesType DEF Done
<1>2. s \in Skus /\ w \in Warehouses /\ q \in Int /\ <<s, w>> \in Cells
  BY DEF Loop, Steady, Cells
<1>3. m = [ok |-> a.ok /\ o >= 0 /\ Reserved[<<s, w>>] <= o,
           db |-> [doc |-> a.db.doc, level |-> L1, corrected |-> a.db.corrected],
           seen |-> a.seen]
  <2> HIDE DEF a, w, q
  <2> QED
    BY <1>1, <1>2, MovedIs
<1>4. Laid(m) /\ L1 \in [Cells -> Loose]
  <2>1. Laid(m)
    BY <1>3 DEF Laid
  <2>2. L[<<s, w>>] \in Loose /\ o \in Int
    <3> HIDE DEF L, w, q
    <3> QED
      BY <1>1, <1>2 DEF Loose
  <2>3. [exists |-> TRUE, onHand |-> o, incoming |-> L[<<s, w>>].incoming] \in Loose
    <3> HIDE DEF L, w, q, o
    <3> QED
      BY <2>2 DEF Loose
  <2> HIDE DEF L, w, o
  <2> QED
    BY <1>1, <2>1, <2>3
<1>5. Expects(e) => i = [ok |-> m.ok, db |-> [doc |-> a.db.doc, level |-> L2,
                                             corrected |-> a.db.corrected], seen |-> a.seen]
  <2> SUFFICES ASSUME Expects(e) PROVE i = [ok |-> m.ok, db |-> [doc |-> a.db.doc, level |-> L2,
                                             corrected |-> a.db.corrected], seen |-> a.seen]
    OBVIOUS
  <2>1. e.onto \in Warehouses /\ e.due[s] \in Int
    BY DEF Loop, Steady
  <2>2. m.db.level = L1 /\ m.db.doc = a.db.doc /\ m.db.corrected = a.db.corrected /\ m.seen = a.seen
    BY <1>3
  <2> HIDE DEF a, w, q, m, L1
  <2>4. m.db.level \in [Cells -> Loose]
    BY <1>4, <2>2
  <2>3. i = [ok |-> m.ok,
             db |-> [doc |-> m.db.doc,
                     level |-> [m.db.level EXCEPT ![<<s, e.onto>>] =
                        [exists |-> TRUE, onHand |-> m.db.level[<<s, e.onto>>].onHand,
                         incoming |-> Positive(m.db.level[<<s, e.onto>>].incoming + e.due[s])]],
                     corrected |-> m.db.corrected],
             seen |-> m.seen]
    <3> HIDE DEF L, L2, o
    <3>1. \A u \in Warehouses, n \in Int :
             Incoming(m, s, u, n)
             = [ok |-> m.ok,
                db |-> [doc |-> m.db.doc,
                        level |-> [m.db.level EXCEPT ![<<s, u>>] =
                           [exists |-> TRUE, onHand |-> m.db.level[<<s, u>>].onHand,
                            incoming |-> Positive(m.db.level[<<s, u>>].incoming + n)]],
                        corrected |-> m.db.corrected],
                seen |-> m.seen]
      BY <1>2, <1>4, <2>4, IncomingIs
    <3> QED
      BY <2>1, <3>1
  <2> QED
    BY <2>2, <2>3
\* The components of what it makes.
<1>6. L[<<s, w>>] = x.db.level[<<s, w>>]
  <2>1. x.db.level[<<s, w>>] \in Level
    BY <1>2 DEF Progress, Rows
  <2>2. L[<<s, w>>] = Shifted(<<s, w>>, x.db.level[<<s, w>>], e, H)
    BY <1>2 DEF Done, Moves
  <2> QED
    BY <2>1, <2>2 DEF Shifted, Level
<1>7. m.ok = b.ok
  <2>1. m.ok = (x.ok /\ Fits(x.db, e, H) /\ o >= 0 /\ Reserved[<<s, w>>] <= o)
    <3>1. a.ok = (x.ok /\ Fits(x.db, e, H))
      BY DEF Done
    <3> HIDE DEF a, o, m, w
    <3>2. m.ok = (a.ok /\ o >= 0 /\ Reserved[<<s, w>>] <= o)
      BY <1>3
    <3> QED
      BY <3>1, <3>2
  <2>2. b.ok = (x.ok /\ Fits(x.db, e, H \cup {s}))
    BY DEF Done
  <2>3. Fits(x.db, e, H \cup {s})
        <=> Fits(x.db, e, H) /\ o >= 0 /\ Reserved[<<s, w>>] <= o
    BY <1>6 DEF Fits
  <2> QED
    BY <2>1, <2>2, <2>3

<1>8. b.db.level = IF Expects(e) THEN L2 ELSE L1
  <2>1. ASSUME NEW c \in Cells PROVE b.db.level[c] = IF Expects(e) THEN L2[c] ELSE L1[c]
    <3> DEFINE l == x.db.level[c]
    <3>1. l = [exists |-> l.exists, onHand |-> l.onHand, incoming |-> l.incoming]
      BY DEF Progress, Rows, Level
    <3>2. L[c] = Shifted(c, l, e, H) /\ b.db.level[c] = Shifted(c, l, e, H \cup {s})
      BY DEF Done, Moves
    <3>3. c = <<c[1], c[2]>> /\ c[1] \in Skus /\ c[2] \in Warehouses
      BY DEF Cells
    <3>4. CASE c[1] # s
      <4>1. Shifted(c, l, e, H \cup {s}) = Shifted(c, l, e, H)
        BY <3>4 DEF Shifted
      <4>2. L1[c] = L[c] /\ L2[c] = L[c]
        <5> HIDE DEF L, w, o
        <5>1. c # <<s, w>> /\ c # <<s, e.onto>>
          BY <3>3, <3>4
        <5> QED
          BY <1>1, <1>4, <5>1
      <4> QED
        BY <3>2, <4>1, <4>2
    <3>5. CASE c[1] = s
      <4>1. Shifted(c, l, e, H) = l
        BY <3>1, <3>5 DEF Shifted
      <4>2. L1[c] = IF c[2] = w
                    THEN [exists |-> TRUE, onHand |-> l.onHand + q, incoming |-> l.incoming]
                    ELSE l
        <5>1. c = <<s, w>> <=> c[2] = w
          BY <3>3, <3>5
        <5>2. c = <<s, w>> => o = l.onHand + q /\ L[<<s, w>>] = l
          BY <3>2, <4>1
        <5> HIDE DEF L, w, o, q, l
        <5>3. L[c] = l
          BY <3>2, <4>1
        <5> QED
          BY <1>1, <5>1, <5>2, <5>3
      <4>3. L2[c] = IF c[2] = e.onto
                    THEN [exists |-> TRUE, onHand |-> L1[c].onHand,
                          incoming |-> Positive(L1[c].incoming + e.due[s])]
                    ELSE L1[c]
        <5>1. c = <<s, e.onto>> <=> c[2] = e.onto
          BY <3>3, <3>5
        <5> HIDE DEF L1
        <5> QED
          BY <1>4, <5>1
      <4>4. c[1] \in H \cup {s}
        BY <3>5
      <4> HIDE DEF L1, L2, l, w, q, b, L, o
      <4>5. CASE ~Expects(e)
        <5>1. CASE c[2] = w
          <6>1. Shifted(c, l, e, H \cup {s})
                = [exists |-> TRUE, onHand |-> l.onHand + q, incoming |-> l.incoming]
            BY <3>5, <4>4, <4>5, <5>1 DEF Shifted, w, q
          <6> QED
            BY <3>2, <4>2, <4>5, <5>1, <6>1
        <5>2. CASE c[2] # w
          <6>1. Shifted(c, l, e, H \cup {s}) = l
            BY <3>1, <4>5, <5>2 DEF Shifted, w
          <6> QED
            BY <3>2, <4>2, <4>5, <5>2, <6>1
        <5> QED
          BY <5>1, <5>2
      <4>6. CASE Expects(e)
        <5>1. CASE c[2] = w /\ c[2] # e.onto
          <6>1. Shifted(c, l, e, H \cup {s})
                = [exists |-> TRUE, onHand |-> l.onHand + q, incoming |-> l.incoming]
            BY <3>5, <4>4, <5>1 DEF Shifted, w, q
          <6> QED
            BY <3>2, <4>2, <4>3, <4>6, <5>1, <6>1
        <5>2. CASE c[2] # w /\ c[2] # e.onto
          <6>1. Shifted(c, l, e, H \cup {s}) = l
            BY <3>1, <5>2 DEF Shifted, w
          <6> QED
            BY <3>2, <4>2, <4>3, <4>6, <5>2, <6>1
        <5>3. CASE c[2] = w /\ c[2] = e.onto
          <6>1. Shifted(c, l, e, H \cup {s})
                = [exists |-> TRUE, onHand |-> l.onHand + q,
                   incoming |-> Positive(l.incoming + e.due[s])]
            BY <3>5, <4>4, <4>6, <5>3 DEF Shifted, w, q
          <6>2. L1[c].onHand = l.onHand + q /\ L1[c].incoming = l.incoming
            BY <4>2, <5>3
          <6> QED
            BY <3>2, <4>3, <4>6, <5>3, <6>1, <6>2
        <5>4. CASE c[2] # w /\ c[2] = e.onto
          <6>1. Shifted(c, l, e, H \cup {s})
                = [exists |-> TRUE, onHand |-> l.onHand,
                   incoming |-> Positive(l.incoming + e.due[s])]
            BY <3>5, <4>4, <4>6, <5>4 DEF Shifted, w
          <6>2. L1[c].onHand = l.onHand /\ L1[c].incoming = l.incoming
            BY <4>2, <5>4
          <6> QED
            BY <3>2, <4>3, <4>6, <5>4, <6>1, <6>2
        <5> QED
          BY <5>1, <5>2, <5>3, <5>4
      <4> QED
        BY <4>5, <4>6
    <3> QED
      BY <3>4, <3>5
  <2> DEFINE N == IF Expects(e) THEN L2 ELSE L1
             B == b.db.level
  <2>2. N = [c \in Cells |-> N[c]]
    <3> HIDE DEF L
    <3> QED
      BY <1>1
  <2>3. B = [c \in Cells |-> B[c]]
    BY <1>1
  <2>4. \A c \in Cells : B[c] = N[c]
    BY <2>1
  <2> HIDE DEF N, B
  <2>5. B = N
    BY <2>2, <2>3, <2>4
  <2> QED
    BY <2>5 DEF B, N
<1>9. /\ ~Books(e) => a.db.doc = x.db.doc /\ b.db.doc = x.db.doc
      /\ Books(e) => b.db.doc = [a.db.doc EXCEPT ![e.doc].received[s] = e.received[s]]
  <2>1. ~Books(e) => a.db.doc = x.db.doc /\ b.db.doc = x.db.doc
    BY DEF Done, Moves
  <2>2. ASSUME Books(e)
        PROVE  b.db.doc = [a.db.doc EXCEPT ![e.doc].received[s] = e.received[s]]
    <3> DEFINE D == x.db.doc
               row == D[e.doc]
               f == [u \in Skus |-> IF u \in H THEN e.received[u] ELSE row.received[u]]
               g == [u \in Skus |-> IF u \in H \cup {s} THEN e.received[u] ELSE row.received[u]]
               y == [row EXCEPT !.received = f]
    <3>1. e.doc \in Docs /\ row \in Transfer \cup Receipt /\ DOMAIN D = Docs
      BY <2>2 DEF Loop, Progress, Rows
    <3>2. a.db.doc = [D EXCEPT ![e.doc] = y] /\ b.db.doc = [D EXCEPT ![e.doc] = [row EXCEPT !.received = g]]
      BY <2>2 DEF Done, Moves, Booked
    <3>3. g = [f EXCEPT ![s] = e.received[s]]
      BY <1>2
    <3> HIDE DEF D, f, g
    <3>4. y.received = f /\ [y EXCEPT !.received[s] = e.received[s]] = [row EXCEPT !.received = g]
      <4>1. CASE row \in Transfer
        BY <3>3, <4>1 DEF Transfer
      <4>2. CASE row \in Receipt
        BY <3>3, <4>2 DEF Receipt
      <4> QED
        BY <3>1, <4>1, <4>2
    <3> HIDE DEF y, row
    <3>5. a.db.doc[e.doc] = y
      BY <3>1, <3>2
    <3>6. [a.db.doc EXCEPT ![e.doc].received[s] = e.received[s]]
          = [a.db.doc EXCEPT ![e.doc] = [y EXCEPT !.received[s] = e.received[s]]]
      BY <3>5
    <3> QED
      BY <3>1, <3>2, <3>4, <3>6
  <2> QED
    BY <2>1, <2>2
<1>10. /\ e.as # "corrected" => a.db.corrected = b.db.corrected
       /\ e.as = "corrected" => b.db.corrected = [a.db.corrected EXCEPT ![s] = @ + q]
  <2>1. e.as # "corrected" => a.db.corrected = b.db.corrected
    BY DEF Done, Moves
  <2>2. ASSUME e.as = "corrected"
        PROVE  b.db.corrected = [a.db.corrected EXCEPT ![s] = @ + q]
    BY <1>2, <2>2 DEF Done, Moves
  <2> QED
    BY <2>1, <2>2
<1>11. a.seen = b.seen /\ b = [ok |-> b.ok, db |-> [doc |-> b.db.doc, level |-> b.db.level,
                                             corrected |-> b.db.corrected], seen |-> b.seen]
  BY <1>1 DEF Done, Laid
<1> HIDE DEF b
<1>12. Applied(a, s, e) = b
  <2>1. Applied(a, s, e) =
          CASE e.as = "sent"      -> i
            [] e.as = "landed"    -> [i EXCEPT !.db.doc[e.doc].received[s] = e.received[s]]
            [] e.as = "confirmed" -> [m EXCEPT !.db.doc[e.doc].received[s] = e.received[s]]
            [] e.as = "corrected" -> [m EXCEPT !.db.corrected[s] = @ + e.qty[s]]
            [] OTHER              -> m
    BY DEF Applied
  <2> HIDE DEF a, i, m, L1, L2, L, o, w, q
  <2>2. CASE e.as = "sent"
    <3>1. Applied(a, s, e) = i
      BY <2>1, <2>2
    <3>2. i = b
      BY <1>5, <1>7, <1>8, <1>9, <1>10, <1>11, <2>2 DEF Expects, Books
    <3> QED
      BY <3>1, <3>2
  <2>3. CASE e.as = "landed"
    <3>1. Applied(a, s, e) = [i EXCEPT !.db.doc[e.doc].received[s] = e.received[s]]
      BY <2>1, <2>3
    <3>2. Laid(i) /\ i.db.doc = a.db.doc
      BY <1>5, <2>3 DEF Expects, Laid
    <3>3. Applied(a, s, e) = [i EXCEPT !.db.doc = [a.db.doc EXCEPT ![e.doc].received[s] = e.received[s]]]
      BY <3>1, <3>2
    <3>4. Applied(a, s, e) = [i EXCEPT !.db.doc = b.db.doc]
      BY <1>9, <2>3, <3>3 DEF Books
    <3>5. [i EXCEPT !.db.doc = b.db.doc]
          = [ok |-> i.ok, db |-> [doc |-> b.db.doc, level |-> i.db.level,
                                  corrected |-> i.db.corrected], seen |-> i.seen]
      BY <3>2, DocWritten
    <3> QED
      BY <1>5, <1>7, <1>8, <1>10, <1>11, <2>3, <3>4, <3>5 DEF Expects
  <2>4. CASE e.as = "confirmed"
    <3>1. Applied(a, s, e) = [m EXCEPT !.db.doc[e.doc].received[s] = e.received[s]]
      BY <2>1, <2>4
    <3>2. m.db.doc = a.db.doc
      BY <1>3
    <3>3. Applied(a, s, e) = [m EXCEPT !.db.doc = [a.db.doc EXCEPT ![e.doc].received[s] = e.received[s]]]
      BY <3>1, <3>2
    <3>4. Applied(a, s, e) = [m EXCEPT !.db.doc = b.db.doc]
      BY <1>9, <2>4, <3>3 DEF Books
    <3>5. [m EXCEPT !.db.doc = b.db.doc]
          = [ok |-> m.ok, db |-> [doc |-> b.db.doc, level |-> m.db.level,
                                  corrected |-> m.db.corrected], seen |-> m.seen]
      BY <1>4, DocWritten
    <3> QED
      BY <1>3, <1>7, <1>8, <1>10, <1>11, <2>4, <3>4, <3>5 DEF Expects
  <2>5. CASE e.as = "corrected"
    <3>1. Applied(a, s, e) = [m EXCEPT !.db.corrected[s] = @ + e.qty[s]]
      BY <2>1, <2>5
    <3>2. m.db.corrected = a.db.corrected
      BY <1>3
    <3>3. Applied(a, s, e) = [m EXCEPT !.db.corrected = [a.db.corrected EXCEPT ![s] = @ + e.qty[s]]]
      BY <3>1, <3>2
    <3>4. Applied(a, s, e) = [m EXCEPT !.db.corrected = b.db.corrected]
      BY <1>10, <2>5, <3>3 DEF q
    <3>5. [m EXCEPT !.db.corrected = b.db.corrected]
          = [ok |-> m.ok, db |-> [doc |-> m.db.doc, level |-> m.db.level,
                                  corrected |-> b.db.corrected], seen |-> m.seen]
      BY <1>4, CorrectedWritten
    <3> QED
      BY <1>3, <1>7, <1>8, <1>9, <1>11, <2>5, <3>4, <3>5 DEF Expects, Books
  <2>6. CASE e.as \notin {"sent", "landed", "confirmed", "corrected"}
    <3>1. Applied(a, s, e) = m
      BY <2>1, <2>6
    <3>2. m = b
      BY <1>3, <1>7, <1>8, <1>9, <1>10, <1>11, <2>6 DEF Expects, Books
    <3> QED
      BY <3>1, <3>2
  <2> QED
    BY <2>2, <2>3, <2>4, <2>5, <2>6
<1> QED
  BY <1>12 DEF b, a

Looped(x, e, S) == FoldSet(LAMBDA s, acc : Applied(acc, s, e), x, S)

\* What a loop makes of the rows, whichever order it takes the skus in.
LEMMA LoopIs ==
    ASSUME NEW x, Progress(x), NEW e, Loop(x, e), NEW S \in SUBSET Skus
    PROVE  Looped(x, e, S) = Done(x, e, S \cap e.goes)
<1> DEFINE Rule(g) == [s \in SUBSET S |-> IF s = {} THEN x
                          ELSE Applied(g[s \ {Picked(s)}], Picked(s), e)]
           R == [T \in SUBSET S |-> Done(x, e, T \cap e.goes)]
           g == CHOOSE f : f = Rule(f)
<1>1. R = Rule(R)
  <2>1. ASSUME NEW T \in SUBSET S, T # {}
        PROVE  R[T] = Applied(R[T \ {Picked(T)}], Picked(T), e)
    <3> DEFINE s == Picked(T)
    <3>1. s \in T
      BY <2>1 DEF Picked
    <3> HIDE DEF s
    <3>2. R[T \ {s}] = Done(x, e, (T \ {s}) \cap e.goes) /\ R[T] = Done(x, e, T \cap e.goes)
      OBVIOUS
    <3>3. CASE s \notin e.goes
      <4>1. (T \ {s}) \cap e.goes = T \cap e.goes
        BY <3>3
      <4>2. Applied(R[T \ {s}], s, e) = R[T \ {s}]
        BY <3>3 DEF Applied
      <4> QED
        BY <3>2, <4>1, <4>2 DEF s
    <3>4. CASE s \in e.goes
      <4> DEFINE H == (T \ {s}) \cap e.goes
      <4>1. H \cup {s} = T \cap e.goes /\ s \notin H /\ H \in SUBSET e.goes
        BY <3>1, <3>4
      <4> HIDE DEF H
      <4>2. Applied(Done(x, e, H), s, e) = Done(x, e, H \cup {s})
        BY <3>4, <4>1, DoneOne
      <4> QED
        BY <3>2, <4>1, <4>2 DEF H, s
    <3> QED
      BY <3>3, <3>4
  <2>2. R[{}] = x
    <3>1. {} \cap e.goes = {}
      OBVIOUS
    <3> QED
      BY <3>1, DoneNothing
  <2>3. \A T \in SUBSET S : R[T] = IF T = {} THEN x ELSE Applied(R[T \ {Picked(T)}], Picked(T), e)
    BY <2>1, <2>2
  <2>4. R = [T \in SUBSET S |-> R[T]]
    OBVIOUS
  <2> HIDE DEF R
  <2>5. [T \in SUBSET S |-> R[T]] = Rule(R)
    BY <2>3
  <2> QED
    BY <2>4, <2>5
<1> HIDE DEF R
<1>2. g = Rule(g)
  BY <1>1
<1> HIDE DEF g
<1> DEFINE P == {T \in SUBSET S : g[T] = R[T]}
<1>3. ASSUME NEW T \in SUBSET S, \A y \in T : T \ {y} \in P PROVE T \in P
  <2>1. CASE T = {}
    <3>1. g[T] = x
      BY <1>2, <2>1
    <3>2. R[T] = x
      BY <1>1, <2>1
    <3> QED
      BY <3>1, <3>2
  <2>2. CASE T # {}
    <3>1. Picked(T) \in T
      BY <2>2 DEF Picked
    <3>2. g[T \ {Picked(T)}] = R[T \ {Picked(T)}]
      BY <1>3, <3>1
    <3>3. g[T] = Applied(g[T \ {Picked(T)}], Picked(T), e)
      BY <1>2, <2>2
    <3>4. R[T] = Applied(R[T \ {Picked(T)}], Picked(T), e)
      BY <1>1, <2>2
    <3> QED
      BY <3>2, <3>3, <3>4
  <2> QED
    BY <2>1, <2>2
<1> HIDE DEF P
<1>4. IsFiniteSet(S)
  BY FS_Subset, DocumentsAssumption
<1>5. \A T \in SUBSET S : T \in P
  BY <1>3, <1>4, FiniteInduction
<1>6. g[S] = R[S]
  BY <1>5 DEF P
<1>7. R[S] = Done(x, e, S \cap e.goes)
  BY DEF R
<1>8. Looped(x, e, S) = g[S]
  BY DEF Looped, FoldSet, MapThenFoldSet, Picked, g
<1> QED
  BY <1>6, <1>7, <1>8

\* What a loop leaves in its parts, and a status written after it.
LEMMA Concludes ==
    ASSUME NEW x, Progress(x), NEW e, Loop(x, e), NEW d \in Docs, NEW v
    PROVE  LET z == Done(x, e, e.goes)
               y == [z EXCEPT !.db.doc[d].status = v]
               m == Moves(x.db, e, e.goes) IN
           /\ y.ok = (x.ok /\ Fits(x.db, e, e.goes))
           /\ y.db = [doc |-> [m.doc EXCEPT ![d] = [m.doc[d] EXCEPT !.status = v]],
                      level |-> m.level, corrected |-> m.corrected]
<1> DEFINE z == Done(x, e, e.goes)
           m == Moves(x.db, e, e.goes)
           D == [m.doc EXCEPT ![d] = [m.doc[d] EXCEPT !.status = v]]
<1>1. Laid(z) /\ z.db = m
  BY MovesType DEF Done
<1>2. z.ok = (x.ok /\ Fits(x.db, e, e.goes))
  BY DEF Done
<1> HIDE DEF z, m
<1>3. [z EXCEPT !.db.doc[d].status = v] = [z EXCEPT !.db.doc = D]
  BY <1>1
<1> HIDE DEF D
<1>4. [z EXCEPT !.db.doc = D]
      = [ok |-> z.ok, db |-> [doc |-> D, level |-> z.db.level, corrected |-> z.db.corrected],
         seen |-> z.seen]
  BY <1>1, DocWritten
<1> QED
  BY <1>1, <1>2, <1>3, <1>4 DEF z, m, D

\* What a request that commits makes of the rows a: the row of its document,
\* and the movements e.
Changes(a, b, d, new, e) ==
    /\ Steady(e) /\ Fits(a, e, e.goes)
    /\ b.doc = IF d = NoDoc THEN a.doc ELSE [a.doc EXCEPT ![d] = new]
    /\ b.level = [c \in Cells |-> Shifted(c, a.level[c], e, e.goes)]
    /\ b.corrected = [s \in Skus |-> IF s \in e.goes /\ e.as = "corrected"
                                     THEN a.corrected[s] + e.qty[s] ELSE a.corrected[s]]
    /\ b = [doc |-> b.doc, level |-> b.level, corrected |-> b.corrected]

\* A document written and nothing moved.
Still == [as |-> "moved", goes |-> {}]

LEMMA StartsWell ==
    ASSUME Types, NEW n
    PROVE  LET x == Start(n) IN
           Progress(x) /\ x.ok = TRUE /\ x.db = db /\ x.seen = n /\ Laid(x)
BY DEF Start, Progress, Laid, Rows, Types

LEMMA StillChanges ==
    ASSUME Types, NEW d \in Docs, NEW new
    PROVE  Changes(db, [doc |-> [db.doc EXCEPT ![d] = new], level |-> db.level,
                        corrected |-> db.corrected], d, new, Still)
<1>1. Progress(Start(0)) /\ Start(0).db = db
  BY StartsWell
<1>2. Steady(Still) /\ Loop(Start(0), Still) /\ Still.goes = {} /\ Fits(db, Still, {})
  BY DEF Steady, Loop, Still, Expects, Books, Fits
<1>3. Done(Start(0), Still, {}) = Start(0)
  BY <1>1, <1>2, DoneNothing
<1>4. Moves(db, Still, {}) = db
  BY <1>1, <1>3 DEF Done
<1>5. /\ db.level = [c \in Cells |-> Shifted(c, db.level[c], Still, {})]
      /\ db.corrected = [s \in Skus |-> IF s \in {} /\ Still.as = "corrected"
                                     THEN db.corrected[s] + Still.qty[s] ELSE db.corrected[s]]
  BY <1>4 DEF Moves
<1>6. d # NoDoc
  BY DocumentsAssumption
<1> QED
  BY <1>2, <1>5, <1>6 DEF Changes

-----------------------------------------------------------------------------
(* Each request that has a loop: the loop as an e, and what it comes to.   *)

Sending(row) ==
    [as |-> "sent", goes |-> Items(row), at |-> row.from, onto |-> row.to,
     qty |-> [s \in Skus |-> -row.qty[s]], due |-> row.qty]

Landing(row, declared, d) ==
    [as |-> "landed", goes |-> {s \in Items(row) : declared[s] - row.received[s] > 0},
     at |-> row.to, onto |-> row.to, doc |-> d, received |-> declared,
     qty |-> [s \in Skus |-> declared[s] - row.received[s]],
     due |-> [s \in Skus |-> -(declared[s] - row.received[s])]]

Returning(row) ==
    [as |-> "sent", goes |-> {s \in Items(row) : Owing(row, s) > 0},
     at |-> row.from, onto |-> row.to,
     qty |-> [s \in Skus |-> Owing(row, s)], due |-> [s \in Skus |-> -Owing(row, s)]]

Confirming(row, d) ==
    [as |-> "confirmed", goes |-> {s \in Items(row) : Owing(row, s) > 0},
     at |-> row.to, doc |-> d, received |-> row.qty, qty |-> [s \in Skus |-> Owing(row, s)]]

Receiving(arg) == [as |-> "moved", goes |-> Items(arg), at |-> arg.to, qty |-> arg.qty]

Correcting(row, level) ==
    [as |-> "corrected", at |-> row.at,
     goes |-> {s \in DOMAIN Found(row) : Found(row)[s] - level[<<s, row.at>>].onHand # 0},
     qty |-> [s \in DOMAIN Found(row) |-> Found(row)[s] - level[<<s, row.at>>].onHand]]

Adjusting(arg) ==
    [as |-> "corrected", goes |-> {arg.sku}, at |-> arg.at, qty |-> [s \in {arg.sku} |-> arg.delta]]

\* The recursive function of a loop.
Round(x, e, S, g) ==
    [T \in SUBSET S |-> IF T = {} THEN x
                        ELSE Applied(g[T \ {Picked(T)}], Picked(T), e)]

LEMMA LoopedIs ==
    ASSUME NEW x, NEW e, NEW S PROVE Looped(x, e, S) = (CHOOSE g : g = Round(x, e, S, g))[S]
BY DEF Looped, FoldSet, MapThenFoldSet, Picked, Round

LEMMA SendingIs ==
    ASSUME NEW x, NEW row \in Transfer
    PROVE  FoldSet(LAMBDA s, acc : Incoming(Moved(acc, s, row.from, -row.qty[s]), s, row.to, row.qty[s]),
                x, Items(row)) = Looped(x, Sending(row), Items(row))
<1> DEFINE S == Items(row)
           e == Sending(row)
           Own(g) == [T \in SUBSET S |-> IF T = {} THEN x
                        ELSE Incoming(Moved(g[T \ {Picked(T)}], Picked(T), row.from, -row.qty[Picked(T)]),
                                      Picked(T), row.to, row.qty[Picked(T)])]
<1>1. ASSUME NEW s \in S, NEW acc
      PROVE  Applied(acc, s, e)
             = Incoming(Moved(acc, s, row.from, -row.qty[s]), s, row.to, row.qty[s])
  <2>1. s \in Skus
    BY DEF Items
  <2> QED
    BY <2>1 DEF Applied, Sending
<1>2. \A T \in SUBSET S : T # {} => Picked(T) \in S
  BY DEF Picked
<1> HIDE DEF S, e
<1>3. \A g : Own(g) = Round(x, e, S, g)
  BY <1>1, <1>2 DEF Round
<1>4. FoldSet(LAMBDA s, acc : Incoming(Moved(acc, s, row.from, -row.qty[s]), s, row.to, row.qty[s]), x, S)
      = (CHOOSE g : g = Own(g))[S]
  BY DEF FoldSet, MapThenFoldSet, Picked
<1> HIDE DEF Own
<1>5. (CHOOSE g : g = Own(g)) = (CHOOSE g : g = Round(x, e, S, g))
  BY <1>3
<1> QED
  BY <1>4, <1>5, LoopedIs DEF S, e

LEMMA LandingIs ==
    ASSUME NEW x, NEW d, NEW declared \in [Skus -> Nat], NEW row \in Transfer
    PROVE  FoldSet(LAMBDA s, acc : IF declared[s] - row.received[s] <= 0 THEN acc ELSE [Incoming(Moved(acc, s, row.to, declared[s] - row.received[s]), s, row.to, -(declared[s] - row.received[s])) EXCEPT !.db.doc[d].received[s] = declared[s]], x, Items(row))
           = Looped(x, Landing(row, declared, d), Items(row))
<1> DEFINE S == Items(row)
           e == Landing(row, declared, d)
           Own(g) == [T \in SUBSET S |-> IF T = {} THEN x
                        ELSE LET s == Picked(T) IN IF declared[s] - row.received[s] <= 0 THEN g[T \ {s}] ELSE [Incoming(Moved(g[T \ {s}], s, row.to, declared[s] - row.received[s]), s, row.to, -(declared[s] - row.received[s])) EXCEPT !.db.doc[d].received[s] = declared[s]]]
<1>1. ASSUME NEW s \in S, NEW acc
      PROVE  Applied(acc, s, e) = IF declared[s] - row.received[s] <= 0 THEN acc ELSE [Incoming(Moved(acc, s, row.to, declared[s] - row.received[s]), s, row.to, -(declared[s] - row.received[s])) EXCEPT !.db.doc[d].received[s] = declared[s]]
  BY DEF Applied, Landing, Items, Transfer
<1>2. \A T \in SUBSET S : T # {} => Picked(T) \in S
  BY DEF Picked
<1> HIDE DEF S, e
<1>3. \A g : Own(g) = Round(x, e, S, g)
  BY <1>1, <1>2 DEF Round
<1>4. FoldSet(LAMBDA s, acc : IF declared[s] - row.received[s] <= 0 THEN acc ELSE [Incoming(Moved(acc, s, row.to, declared[s] - row.received[s]), s, row.to, -(declared[s] - row.received[s])) EXCEPT !.db.doc[d].received[s] = declared[s]], x, S)
      = (CHOOSE g : g = Own(g))[S]
  BY DEF FoldSet, MapThenFoldSet, Picked
<1> HIDE DEF Own
<1>5. (CHOOSE g : g = Own(g)) = (CHOOSE g : g = Round(x, e, S, g))
  BY <1>3
<1> QED
  BY <1>4, <1>5, LoopedIs DEF S, e

LEMMA ReturningIs ==
    ASSUME NEW x, NEW row \in Transfer
    PROVE  FoldSet(LAMBDA s, acc : Returned(acc, row, s), x, Items(row))
           = Looped(x, Returning(row), Items(row))
<1> DEFINE S == Items(row)
           e == Returning(row)
           Own(g) == [T \in SUBSET S |-> IF T = {} THEN x
                        ELSE LET s == Picked(T) IN Returned(g[T \ {s}], row, s)]
<1>1. ASSUME NEW s \in S, NEW acc
      PROVE  Applied(acc, s, e) = Returned(acc, row, s)
  BY DEF Applied, Returning, Returned, Items, Owing, Transfer
<1>2. \A T \in SUBSET S : T # {} => Picked(T) \in S
  BY DEF Picked
<1> HIDE DEF S, e
<1>3. \A g : Own(g) = Round(x, e, S, g)
  BY <1>1, <1>2 DEF Round
<1>4. FoldSet(LAMBDA s, acc : Returned(acc, row, s), x, S)
      = (CHOOSE g : g = Own(g))[S]
  BY DEF FoldSet, MapThenFoldSet, Picked
<1> HIDE DEF Own
<1>5. (CHOOSE g : g = Own(g)) = (CHOOSE g : g = Round(x, e, S, g))
  BY <1>3
<1> QED
  BY <1>4, <1>5, LoopedIs DEF S, e

LEMMA ConfirmingIs ==
    ASSUME NEW x, NEW d, NEW row \in Receipt
    PROVE  FoldSet(LAMBDA s, acc : IF Owing(row, s) <= 0 THEN acc ELSE [Moved(acc, s, row.to, Owing(row, s)) EXCEPT !.db.doc[d].received[s] = row.qty[s]], x, Items(row))
           = Looped(x, Confirming(row, d), Items(row))
<1> DEFINE S == Items(row)
           e == Confirming(row, d)
           Own(g) == [T \in SUBSET S |-> IF T = {} THEN x
                        ELSE LET s == Picked(T) IN IF Owing(row, s) <= 0 THEN g[T \ {s}] ELSE [Moved(g[T \ {s}], s, row.to, Owing(row, s)) EXCEPT !.db.doc[d].received[s] = row.qty[s]]]
<1>1. ASSUME NEW s \in S, NEW acc
      PROVE  Applied(acc, s, e) = IF Owing(row, s) <= 0 THEN acc ELSE [Moved(acc, s, row.to, Owing(row, s)) EXCEPT !.db.doc[d].received[s] = row.qty[s]]
  <2>1. Owing(row, s) \in Int /\ s \in Skus
    BY DEF Items, Owing, Receipt
  <2>2. s \in e.goes <=> ~(Owing(row, s) <= 0)
    BY <2>1 DEF Confirming
  <2>3. e.qty[s] = Owing(row, s) /\ e.as = "confirmed" /\ e.at = row.to /\ e.doc = d
        /\ e.received[s] = row.qty[s]
    BY <2>1 DEF Confirming
  <2> HIDE DEF e
  <2> QED
    BY <2>2, <2>3 DEF Applied
<1>2. \A T \in SUBSET S : T # {} => Picked(T) \in S
  BY DEF Picked
<1> HIDE DEF S, e
<1>3. \A g : Own(g) = Round(x, e, S, g)
  BY <1>1, <1>2 DEF Round
<1>4. FoldSet(LAMBDA s, acc : IF Owing(row, s) <= 0 THEN acc ELSE [Moved(acc, s, row.to, Owing(row, s)) EXCEPT !.db.doc[d].received[s] = row.qty[s]], x, S)
      = (CHOOSE g : g = Own(g))[S]
  BY DEF FoldSet, MapThenFoldSet, Picked
<1> HIDE DEF Own
<1>5. (CHOOSE g : g = Own(g)) = (CHOOSE g : g = Round(x, e, S, g))
  BY <1>3
<1> QED
  BY <1>4, <1>5, LoopedIs DEF S, e

LEMMA ReceivingIs ==
    ASSUME NEW x, NEW arg, arg.qty \in [Skus -> Nat]
    PROVE  FoldSet(LAMBDA s, acc : Moved(acc, s, arg.to, arg.qty[s]), x, Items(arg))
           = Looped(x, Receiving(arg), Items(arg))
<1> DEFINE S == Items(arg)
           e == Receiving(arg)
           Own(g) == [T \in SUBSET S |-> IF T = {} THEN x
                        ELSE LET s == Picked(T) IN Moved(g[T \ {s}], s, arg.to, arg.qty[s])]
<1>1. ASSUME NEW s \in S, NEW acc
      PROVE  Applied(acc, s, e) = Moved(acc, s, arg.to, arg.qty[s])
  BY DEF Applied, Receiving, Items
<1>2. \A T \in SUBSET S : T # {} => Picked(T) \in S
  BY DEF Picked
<1> HIDE DEF S, e
<1>3. \A g : Own(g) = Round(x, e, S, g)
  BY <1>1, <1>2 DEF Round
<1>4. FoldSet(LAMBDA s, acc : Moved(acc, s, arg.to, arg.qty[s]), x, S)
      = (CHOOSE g : g = Own(g))[S]
  BY DEF FoldSet, MapThenFoldSet, Picked
<1> HIDE DEF Own
<1>5. (CHOOSE g : g = Own(g)) = (CHOOSE g : g = Round(x, e, S, g))
  BY <1>3
<1> QED
  BY <1>4, <1>5, LoopedIs DEF S, e

LEMMA CorrectingIs ==
    ASSUME NEW x, NEW row \in Count, NEW level \in [Cells -> Level], row.at \in Warehouses
    PROVE  FoldSet(LAMBDA s, acc : IF Found(row)[s] - level[<<s, row.at>>].onHand = 0 THEN acc ELSE Corrected(acc, s, row.at, Found(row)[s] - level[<<s, row.at>>].onHand), x, DOMAIN Found(row))
           = Looped(x, Correcting(row, level), DOMAIN Found(row))
<1> DEFINE S == DOMAIN Found(row)
           e == Correcting(row, level)
           Own(g) == [T \in SUBSET S |-> IF T = {} THEN x
                        ELSE LET s == Picked(T) IN IF Found(row)[s] - level[<<s, row.at>>].onHand = 0 THEN g[T \ {s}] ELSE Corrected(g[T \ {s}], s, row.at, Found(row)[s] - level[<<s, row.at>>].onHand)]
<1>1. ASSUME NEW s \in S, NEW acc
      PROVE  Applied(acc, s, e) = IF Found(row)[s] - level[<<s, row.at>>].onHand = 0 THEN acc ELSE Corrected(acc, s, row.at, Found(row)[s] - level[<<s, row.at>>].onHand)
  BY DEF Applied, Correcting, Corrected
<1>2. \A T \in SUBSET S : T # {} => Picked(T) \in S
  BY DEF Picked
<1> HIDE DEF S, e
<1>3. \A g : Own(g) = Round(x, e, S, g)
  BY <1>1, <1>2 DEF Round
<1>4. FoldSet(LAMBDA s, acc : IF Found(row)[s] - level[<<s, row.at>>].onHand = 0 THEN acc ELSE Corrected(acc, s, row.at, Found(row)[s] - level[<<s, row.at>>].onHand), x, S)
      = (CHOOSE g : g = Own(g))[S]
  BY DEF FoldSet, MapThenFoldSet, Picked
<1> HIDE DEF Own
<1>5. (CHOOSE g : g = Own(g)) = (CHOOSE g : g = Round(x, e, S, g))
  BY <1>3
<1> QED
  BY <1>4, <1>5, LoopedIs DEF S, e

-----------------------------------------------------------------------------
(* What each request comes to, when it does not throw.                     *)

LEMMA RowsExist ==
    ASSUME Types, NEW d \in Docs
    PROVE  /\ db.doc[d] = Nothing <=> db.doc[d].status = "none"
           /\ db.doc[d] # Nothing => db.doc[d] \in RowsOf(d)
           /\ d \in Table(d)
<1>1. db.doc[d] = Nothing \/ db.doc[d] \in RowsOf(d)
  BY DEF Types
<1>2. RowsOf(d) \in {Transfer, Receipt, Count} /\ d \in Table(d)
  BY DocumentsAssumption DEF RowsOf, Table, Docs
<1>3. \A r \in Transfer \cup Receipt \cup Count : r.status # "none"
  BY DEF Transfer, Receipt, Count
<1>4. Nothing.status = "none"
  BY DEF Nothing
<1> QED
  BY <1>1, <1>2, <1>3, <1>4

WithStatus(row, v) == [row EXCEPT !.status = v]
Stamped(z, d, v) == [z EXCEPT !.db.doc[d].status = v]
BookedIf(e, r) == IF Books(e) THEN Booked(r, e, e.goes) ELSE r

\* A loop of which the row of d is all that was written before and after.
LEMMA LoopChanges ==
    ASSUME Types, NEW x, Progress(x), NEW d \in Docs, NEW r,
           x.db.doc = [db.doc EXCEPT ![d] = r],
           x.db.level = db.level, x.db.corrected = db.corrected,
           NEW e, Loop(x, e), Books(e) => e.doc = d, NEW v
    PROVE  LET z == Done(x, e, e.goes)
               row == BookedIf(e, r)
               y == Stamped(z, d, v) IN
           /\ Laid(z) /\ z.db.doc[d] = row
           /\ z.ok => Changes(db, z.db, d, row, e)
           /\ y.ok => Changes(db, y.db, d, WithStatus(row, v), e)
<1> DEFINE z == Done(x, e, e.goes)
           row == BookedIf(e, r)
           m == Moves(x.db, e, e.goes)
<1>1. Laid(z) /\ z.db = m
  BY MovesType DEF Done
<1>2. DOMAIN db.doc = Docs /\ d # NoDoc
  BY DocumentsAssumption DEF Types, Rows
<1>3. x.db.doc[d] = r
  BY <1>2
<1>4. m.doc = [db.doc EXCEPT ![d] = row]
  <2>1. CASE ~Books(e)
    BY <2>1 DEF Moves, BookedIf
  <2>2. CASE Books(e)
    <3>1. m.doc = [x.db.doc EXCEPT ![d] = row]
      BY <1>3, <2>2 DEF Moves, BookedIf
    <3> HIDE DEF row, m
    <3> QED
      BY <1>2, <3>1
  <2> QED
    BY <2>1, <2>2
<1>5. /\ m.level = [c \in Cells |-> Shifted(c, db.level[c], e, e.goes)]
      /\ m.corrected = [s \in Skus |-> IF s \in e.goes /\ e.as = "corrected"
                                     THEN db.corrected[s] + e.qty[s] ELSE db.corrected[s]]
  BY DEF Moves
<1>6. z.ok = (x.ok /\ Fits(x.db, e, e.goes)) /\ Fits(x.db, e, e.goes) = Fits(db, e, e.goes)
  BY DEF Done, Fits
<1>7. Steady(e)
  BY DEF Loop
<1>8. m = [doc |-> m.doc, level |-> m.level, corrected |-> m.corrected]
  BY DEF Moves
<1> HIDE DEF m, row
<1>9. z.ok => Changes(db, z.db, d, row, e)
  BY <1>1, <1>2, <1>4, <1>5, <1>6, <1>7, <1>8 DEF Changes
<1>10. z.db.doc[d] = row
  BY <1>1, <1>2, <1>4
<1>11. ASSUME Stamped(z, d, v).ok
       PROVE  Changes(db, Stamped(z, d, v).db, d, WithStatus(row, v), e)
  <2> DEFINE y == Stamped(z, d, v)
  <2>1. /\ y.ok = (x.ok /\ Fits(x.db, e, e.goes))
        /\ y.db = [doc |-> [m.doc EXCEPT ![d] = WithStatus(m.doc[d], v)],
                   level |-> m.level, corrected |-> m.corrected]
    BY Concludes DEF m, Stamped, WithStatus
  <2> HIDE DEF y, z
  <2>2. y.db.doc = [db.doc EXCEPT ![d] = WithStatus(row, v)]
    BY <1>2, <1>4, <2>1
  <2>3. y.ok
    BY <1>11 DEF y
  <2>4. y.db = [doc |-> y.db.doc, level |-> y.db.level, corrected |-> y.db.corrected]
        /\ y.db.level = m.level /\ y.db.corrected = m.corrected
    BY <2>1
  <2>5. Changes(db, y.db, d, WithStatus(row, v), e)
    BY <1>2, <1>5, <1>6, <1>7, <2>1, <2>2, <2>3, <2>4 DEF Changes
  <2> QED
    BY <2>5 DEF y
<1> QED
  BY <1>1, <1>9, <1>10, <1>11 DEF row

LEMMA LoopBooks ==
    ASSUME Types, NEW x, Progress(x), NEW d \in Docs, NEW r,
           x.db.doc = [db.doc EXCEPT ![d] = r],
           x.db.level = db.level, x.db.corrected = db.corrected,
           NEW e, Loop(x, e), Books(e), e.doc = d, NEW v
    PROVE  LET z == Done(x, e, e.goes)
               row == Booked(r, e, e.goes)
               y == Stamped(z, d, v) IN
           /\ z.db.doc[d] = row
           /\ z.ok => Changes(db, z.db, d, row, e)
           /\ y.ok => Changes(db, y.db, d, WithStatus(row, v), e)
<1> DEFINE z == Done(x, e, e.goes)
           row == BookedIf(e, r)
           y == Stamped(z, d, v)
<1>1. /\ z.db.doc[d] = row
      /\ z.ok => Changes(db, z.db, d, row, e)
      /\ y.ok => Changes(db, y.db, d, WithStatus(row, v), e)
  BY LoopChanges
<1>2. row = Booked(r, e, e.goes)
  BY DEF BookedIf
<1> HIDE DEF z, y, row
<1> QED
  BY <1>1, <1>2 DEF z, y

LEMMA LoopMoves ==
    ASSUME Types, NEW x, Progress(x), NEW d \in Docs, NEW r,
           x.db.doc = [db.doc EXCEPT ![d] = r],
           x.db.level = db.level, x.db.corrected = db.corrected,
           NEW e, Loop(x, e), ~Books(e), NEW v
    PROVE  LET z == Done(x, e, e.goes)
               row == r
               y == Stamped(z, d, v) IN
           /\ z.db.doc[d] = row
           /\ z.ok => Changes(db, z.db, d, row, e)
           /\ y.ok => Changes(db, y.db, d, WithStatus(row, v), e)
<1> DEFINE z == Done(x, e, e.goes)
           row == BookedIf(e, r)
           y == Stamped(z, d, v)
<1>1. /\ z.db.doc[d] = row
      /\ z.ok => Changes(db, z.db, d, row, e)
      /\ y.ok => Changes(db, y.db, d, WithStatus(row, v), e)
  BY LoopChanges
<1>2. row = r
  BY DEF BookedIf
<1> HIDE DEF z, y, row
<1> QED
  BY <1>1, <1>2 DEF z, y

LEMMA StillKeeps ==
    ASSUME Types, NEW d \in Docs, NEW b, NEW new, Changes(db, b, d, new, Still)
    PROVE  /\ b.doc = [db.doc EXCEPT ![d] = new]
           /\ b.level = db.level /\ b.corrected = db.corrected
<1>1. Changes(db, [doc |-> [db.doc EXCEPT ![d] = new], level |-> db.level,
                   corrected |-> db.corrected], d, new, Still)
  BY StillChanges
<1>2. /\ db.level = [c \in Cells |-> Shifted(c, db.level[c], Still, Still.goes)]
      /\ db.corrected = [s \in Skus |-> IF s \in Still.goes /\ Still.as = "corrected"
                                     THEN db.corrected[s] + Still.qty[s] ELSE db.corrected[s]]
  BY <1>1 DEF Changes
<1>3. d # NoDoc
  BY DocumentsAssumption
<1> QED
  BY <1>2, <1>3 DEF Changes

\* A document created or rewritten with nothing moved.
LEMMA WritesChange ==
    ASSUME Types, NEW n, NEW d \in Docs, NEW D, D = [db.doc EXCEPT ![d] = D[d]]
    PROVE  LET y == [Start(n) EXCEPT !.db.doc = D] IN
           /\ Laid(y) /\ y.ok = TRUE /\ y.seen = n
           /\ y.db = [doc |-> D, level |-> db.level, corrected |-> db.corrected]
           /\ Changes(db, y.db, d, D[d], Still)
<1> DEFINE x == Start(n)
           y == [x EXCEPT !.db.doc = D]
<1>1. Laid(x) /\ x.ok = TRUE /\ x.db = db /\ x.seen = n
  BY StartsWell
<1> HIDE DEF x
<1>2. y = [ok |-> x.ok, db |-> [doc |-> D, level |-> x.db.level, corrected |-> x.db.corrected],
           seen |-> x.seen]
  BY <1>1, DocWritten
<1> HIDE DEF y
<1>3. /\ Laid(y) /\ y.ok = TRUE /\ y.seen = n
      /\ y.db = [doc |-> D, level |-> db.level, corrected |-> db.corrected]
  BY <1>1, <1>2 DEF Laid
<1>4. Changes(db, [doc |-> [db.doc EXCEPT ![d] = D[d]], level |-> db.level,
                   corrected |-> db.corrected], d, D[d], Still)
  BY StillChanges
<1> QED
  BY <1>3, <1>4 DEF x, y

LEMMA CreatedIs ==
    ASSUME Types, NEW n, NEW d \in Docs, d \notin n.made, NEW row,
           Created(Start(n), d, row).ok
    PROVE  LET y == Created(Start(n), d, row) IN
           /\ db.doc[d] = Nothing
           /\ Laid(y) /\ y.ok = TRUE /\ y.seen = n
           /\ Changes(db, y.db, d, row, Still)
<1> DEFINE x == Start(n)
           D == [db.doc EXCEPT ![d] = row]
<1>1. x.seen = n /\ x.db = db /\ Laid(x)
  BY StartsWell
<1>2. Existing(Table(d)) = x.seen.made
  <2>1. ~Rejected(x).ok
    BY <1>1 DEF Rejected, Laid
  <2> HIDE DEF x
  <2> QED
    BY <2>1 DEF Created, x
<1>3. db.doc[d] = Nothing
  BY <1>1, <1>2, RowsExist DEF Existing
<1>4. D = [db.doc EXCEPT ![d] = D[d]] /\ D[d] = row
  BY DEF Types, Rows
<1>5. Created(x, d, row) = [x EXCEPT !.db.doc = D]
  BY <1>1, <1>2 DEF Created
<1> HIDE DEF D
<1> DEFINE y == [x EXCEPT !.db.doc = D]
<1>6. /\ Laid(y) /\ y.ok = TRUE /\ y.seen = n
      /\ y.db = [doc |-> D, level |-> db.level, corrected |-> db.corrected]
      /\ Changes(db, y.db, d, D[d], Still)
  BY <1>4, WritesChange
<1> HIDE DEF y
<1> QED
  BY <1>3, <1>4, <1>5, <1>6 DEF D, y

\* A draft: its rows of items start with nothing received.
DraftTransfer(arg) ==
    [status |-> "draft", from |-> arg.from, to |-> arg.to, qty |-> arg.qty,
     received |-> [s \in Skus |-> 0]]

LEMMA CreateTransferIs ==
    ASSUME Types, NEW n, NEW d \in Docs, d \notin n.made, NEW arg,
           CreateTransfer(Start(n), d, arg).ok
    PROVE  /\ arg.from # arg.to /\ db.doc[d] = Nothing
           /\ Changes(db, CreateTransfer(Start(n), d, arg).db, d, DraftTransfer(arg), Still)
<1> DEFINE x == Start(n)
<1>1. ~Rejected(x).ok
  BY StartsWell DEF Rejected, Laid
<1> HIDE DEF x
<1>2. arg.from # arg.to
  BY <1>1 DEF CreateTransfer, x
<1> DEFINE y == Created(x, d, DraftTransfer(arg))
<1>3. CreateTransfer(x, d, arg) = y
  BY <1>2 DEF CreateTransfer, DraftTransfer
<1>4. y.ok
  BY <1>3 DEF x
<1>5. db.doc[d] = Nothing /\ Changes(db, y.db, d, DraftTransfer(arg), Still)
  BY <1>4, CreatedIs DEF x
<1> HIDE DEF y
<1> QED
  BY <1>2, <1>3, <1>5 DEF x

LEMMA ItemsAreSkus == \A row : Items(row) \in SUBSET Skus
BY DEF Items

\* The status a request without a loop writes.
LEMMA StatusChanges ==
    ASSUME Types, NEW n, NEW d \in Docs, NEW v
    PROVE  LET y == Stamped(Start(n), d, v) IN
           y.ok = TRUE /\ Changes(db, y.db, d, WithStatus(db.doc[d], v), Still)
<1> DEFINE x == Start(n)
           D == [db.doc EXCEPT ![d] = WithStatus(db.doc[d], v)]
           y == [x EXCEPT !.db.doc = D]
<1>1. Laid(x) /\ x.db = db
  BY StartsWell
<1>2. Stamped(x, d, v) = y
  BY <1>1 DEF Stamped, WithStatus
<1>3. D[d] = WithStatus(db.doc[d], v) /\ D = [db.doc EXCEPT ![d] = D[d]]
  BY DEF Types, Rows
<1> HIDE DEF D
<1>4. y.ok = TRUE /\ Changes(db, y.db, d, D[d], Still)
  BY <1>3, WritesChange
<1> HIDE DEF y
<1> QED
  BY <1>2, <1>3, <1>4 DEF x

LEMMA DispatchIs ==
    ASSUME Types, NEW n, NEW d \in Docs, n.row \in Transfer,
           Dispatch(Start(n), d).ok, Dispatch(Start(n), d).db # db
    PROVE  /\ n.row.status = "draft"
           /\ Changes(db, Dispatch(Start(n), d).db, d, WithStatus(db.doc[d], "in_transit"),
                      Sending(n.row))
<1> DEFINE x == Start(n)
           row == x.seen.row
           e == Sending(row)
           z == Done(x, e, e.goes)
           y == Stamped(z, d, "in_transit")
<1>1. Progress(x) /\ Laid(x) /\ x.ok = TRUE /\ x.db = db /\ row = n.row
  BY StartsWell
<1>2. Loop(x, e) /\ ~Books(e) /\ e.goes = Items(row)
  BY <1>1 DEF Sending, Loop, Steady, Books, Expects, Items, Transfer
<1>3. x.db.doc = [db.doc EXCEPT ![d] = db.doc[d]]
  BY <1>1 DEF Types, Rows
<1>4. y.ok => Changes(db, y.db, d, WithStatus(db.doc[d], "in_transit"), e)
  <2> HIDE DEF x, e
  <2> QED
    BY <1>1, <1>2, <1>3, LoopMoves
<1>5. Looped(x, e, Items(row)) = z
  <2> HIDE DEF x, e
  <2>1. Items(row) \cap e.goes = e.goes
    BY <1>2
  <2> QED
    BY <1>1, <1>2, <2>1, LoopIs, ItemsAreSkus
<1>6. FoldSet(LAMBDA s, acc : Incoming(Moved(acc, s, row.from, -row.qty[s]), s, row.to, row.qty[s]),
              x, Items(row)) = z
  <2> HIDE DEF x, z
  <2> QED
    BY <1>1, <1>5, SendingIs DEF e
<1>7. Dispatch(x, d) = CASE row.status # "draft" -> x
                         [] Items(row) = {}      -> Rejected(x)
                         [] OTHER -> Stamped(FoldSet(LAMBDA s, acc : Incoming(Moved(acc, s, row.from, -row.qty[s]), s, row.to, row.qty[s]),
              x, Items(row)), d, "in_transit")
  <2> HIDE DEF x, z
  <2> QED
    BY Zenon DEF Dispatch, Stamped
<1>8. ~Rejected(x).ok
  BY <1>1 DEF Rejected, Laid
<1> DEFINE Fold == FoldSet(LAMBDA s, acc : Incoming(Moved(acc, s, row.from, -row.qty[s]), s, row.to, row.qty[s]),
              x, Items(row))
<1> HIDE DEF x, z, Fold
<1>9. row.status = "draft" /\ Dispatch(x, d) = y
  <2>1. Fold = z
    BY <1>6 DEF Fold
  <2>2. Dispatch(x, d) = CASE row.status # "draft" -> x
                         [] Items(row) = {}      -> Rejected(x)
                         [] OTHER -> Stamped(Fold, d, "in_transit")
    BY <1>7 DEF Fold
  <2>3. Dispatch(x, d).ok /\ Dispatch(x, d).db # x.db
    BY <1>1 DEF x
  <2> QED
    BY <1>8, <2>1, <2>2, <2>3
<1> QED
  BY <1>1, <1>4, <1>9 DEF x

LEMMA ReceiveIs ==
    ASSUME Types, NEW n, NEW d \in Docs, n.row \in Transfer, db.doc[d] \in Transfer,
           NEW declared \in [Skus -> Nat],
           Receive(Start(n), d, declared).ok, Receive(Start(n), d, declared).db # db
    PROVE  LET e == Landing(n.row, declared, d)
               after == Booked(db.doc[d], e, e.goes) IN
           /\ n.row.status = "in_transit"
           /\ Changes(db, Receive(Start(n), d, declared).db, d,
                 WithStatus(after, IF AllArrived(after) THEN "received" ELSE "in_transit"), e)
<1> DEFINE x == Start(n)
           row == x.seen.row
           e == Landing(row, declared, d)
           z == Done(x, e, e.goes)
           after == Booked(db.doc[d], e, e.goes)
           v == IF AllArrived(after) THEN "received" ELSE "in_transit"
           y == Stamped(z, d, v)
           Fold == FoldSet(LAMBDA s, acc : IF declared[s] - row.received[s] <= 0 THEN acc ELSE [Incoming(Moved(acc, s, row.to, declared[s] - row.received[s]), s, row.to, -(declared[s] - row.received[s])) EXCEPT !.db.doc[d].received[s] = declared[s]], x, Items(row))
<1>1. Progress(x) /\ Laid(x) /\ x.ok = TRUE /\ x.db = db /\ row = n.row
  BY StartsWell
<1>2. Loop(x, e) /\ Books(e) /\ e.doc = d /\ e.goes \in SUBSET Items(row)
  BY <1>1 DEF Landing, Loop, Steady, Books, Expects, Items, Transfer
<1>3. x.db.doc = [db.doc EXCEPT ![d] = db.doc[d]]
  BY <1>1 DEF Types, Rows
<1>4. /\ z.db.doc[d] = after
      /\ y.ok => Changes(db, y.db, d, WithStatus(after, v), e)
  <2> HIDE DEF x, e, v
  <2>1. /\ Progress(x) /\ Loop(x, e) /\ Books(e) /\ e.doc = d
        /\ x.db.doc = [db.doc EXCEPT ![d] = db.doc[d]]
        /\ x.db.level = db.level /\ x.db.corrected = db.corrected
    BY <1>1, <1>2, <1>3
  <2>2. z.db.doc[d] = after
    BY <2>1, LoopBooks
  <2>3. y.ok => Changes(db, y.db, d, WithStatus(after, v), e)
    BY <2>1, LoopBooks
  <2> QED
    BY <2>2, <2>3
<1>5. Looped(x, e, Items(row)) = z
  <2> HIDE DEF x, e
  <2>1. Items(row) \cap e.goes = e.goes
    BY <1>2
  <2> QED
    BY <1>1, <1>2, <2>1, LoopIs, ItemsAreSkus
<1>6. Fold = z
  <2>1. row \in Transfer
    BY <1>1
  <2> HIDE DEF row, z
  <2> QED
    BY <1>5, <2>1, LandingIs DEF e
<1>7. Receive(x, d, declared) = CASE row.status = "received" -> x
        [] row.status # "in_transit" -> Rejected(x)
        [] OTHER -> Stamped(Fold, d, IF AllArrived(Fold.db.doc[d]) THEN "received" ELSE "in_transit")
  <2> HIDE DEF x, z
  <2> QED
    BY Zenon DEF Receive, Stamped
<1>8. ~Rejected(x).ok
  BY <1>1 DEF Rejected, Laid
<1> HIDE DEF x, z, Fold, e, after
<1>9. row.status = "in_transit" /\ Receive(x, d, declared) = y
  <2>1. Receive(x, d, declared).ok /\ Receive(x, d, declared).db # x.db
    BY <1>1 DEF x
  <2> QED
    BY <1>4, <1>6, <1>7, <1>8, <2>1
<1> HIDE DEF y
<1> QED
  BY <1>1, <1>4, <1>9 DEF x, after, e, y

LEMMA CancelTransferIs ==
    ASSUME Types, NEW n, NEW d \in Docs, n.row \in Transfer,
           CancelTransfer(Start(n), d).ok, CancelTransfer(Start(n), d).db # db
    PROVE  /\ n.row.status \in {"draft", "in_transit"}
           /\ Changes(db, CancelTransfer(Start(n), d).db, d, WithStatus(db.doc[d], "cancelled"),
                      IF n.row.status = "in_transit" THEN Returning(n.row) ELSE Still)
<1> DEFINE x == Start(n)
           row == x.seen.row
           e == Returning(row)
           z == Done(x, e, e.goes)
           y == Stamped(z, d, "cancelled")
           y0 == Stamped(x, d, "cancelled")
           Fold == FoldSet(LAMBDA s, acc : Returned(acc, row, s), x, Items(row))
<1>1. Progress(x) /\ Laid(x) /\ x.ok = TRUE /\ x.db = db /\ row = n.row
  BY StartsWell
<1>2. Loop(x, e) /\ ~Books(e) /\ e.goes \in SUBSET Items(row)
  BY <1>1 DEF Returning, Loop, Steady, Books, Expects, Items, Transfer, Owing
<1>3. x.db.doc = [db.doc EXCEPT ![d] = db.doc[d]]
  BY <1>1 DEF Types, Rows
<1>4. y.ok => Changes(db, y.db, d, WithStatus(db.doc[d], "cancelled"), e)
  <2> HIDE DEF x, e
  <2> QED
    BY <1>1, <1>2, <1>3, LoopMoves
<1>5. Looped(x, e, Items(row)) = z
  <2> HIDE DEF x, e
  <2>1. Items(row) \cap e.goes = e.goes
    BY <1>2
  <2> QED
    BY <1>1, <1>2, <2>1, LoopIs, ItemsAreSkus
<1>6. Fold = z
  <2> HIDE DEF x, z
  <2> QED
    BY <1>1, <1>5, ReturningIs DEF e
<1>7. CancelTransfer(x, d) = CASE row.status = "cancelled" -> x
        [] row.status = "received" -> Rejected(x)
        [] OTHER -> Stamped(IF row.status = "in_transit" THEN Fold ELSE x, d, "cancelled")
  <2> HIDE DEF x, z
  <2> QED
    BY Zenon DEF CancelTransfer, Stamped
<1>8. ~Rejected(x).ok
  BY <1>1 DEF Rejected, Laid
<1>9. Changes(db, y0.db, d, WithStatus(db.doc[d], "cancelled"), Still)
  BY StatusChanges
<1> HIDE DEF x, z, Fold, e
<1>10. /\ row.status \in {"draft", "in_transit"}
       /\ CancelTransfer(x, d) = IF row.status = "in_transit" THEN y ELSE y0
  <2>1. CancelTransfer(x, d).ok /\ CancelTransfer(x, d).db # x.db
    BY <1>1 DEF x
  <2>2. row.status \in {"draft", "in_transit", "received", "cancelled"}
    BY <1>1 DEF Transfer
  <2> QED
    BY <1>6, <1>7, <1>8, <2>1, <2>2
<1>11. CancelTransfer(x, d).ok
  BY DEF x
<1> HIDE DEF y, y0
<1>12. CASE row.status = "in_transit"
  BY <1>1, <1>4, <1>10, <1>11, <1>12 DEF x, e
<1>13. CASE row.status # "in_transit"
  BY <1>1, <1>9, <1>10, <1>13 DEF x
<1> QED
  BY <1>12, <1>13

LEMMA ConfirmedIs ==
    ASSUME Types, NEW x, Progress(x), NEW d \in Docs, NEW r \in Receipt,
           x.db.doc = [db.doc EXCEPT ![d] = r],
           x.db.level = db.level, x.db.corrected = db.corrected,
           NEW row \in Receipt, Confirmed(x, d, row).ok
    PROVE  LET e == Confirming(row, d) IN
           Changes(db, Confirmed(x, d, row).db, d, WithStatus(Booked(r, e, e.goes), "received"), e)
<1> DEFINE e == Confirming(row, d)
           z == Done(x, e, e.goes)
           after == Booked(r, e, e.goes)
           y == Stamped(z, d, "received")
           Fold == FoldSet(LAMBDA s, acc : IF Owing(row, s) <= 0 THEN acc ELSE [Moved(acc, s, row.to, Owing(row, s)) EXCEPT !.db.doc[d].received[s] = row.qty[s]], x, Items(row))
<1>1. x.db.doc[d] = r
  BY DEF Types, Rows
<1>2. Loop(x, e) /\ Books(e) /\ e.doc = d /\ e.goes \in SUBSET Items(row)
  BY <1>1 DEF Confirming, Loop, Steady, Books, Expects, Items, Receipt, Owing
<1>3. y.ok => Changes(db, y.db, d, WithStatus(after, "received"), e)
  <2> HIDE DEF e
  <2> QED
    BY <1>2, LoopBooks
<1>4. Looped(x, e, Items(row)) = z
  <2> HIDE DEF e
  <2>1. Items(row) \cap e.goes = e.goes
    BY <1>2
  <2> QED
    BY <1>2, <2>1, LoopIs, ItemsAreSkus
<1>5. Fold = z
  <2>1. Fold = Looped(x, e, Items(row))
    BY ONLY row \in Receipt, ConfirmingIs DEF e, Fold
  <2> HIDE DEF z, e, Fold
  <2> QED
    BY <1>4, <2>1
<1>6. Confirmed(x, d, row) = Stamped(Fold, d, "received")
  <2> HIDE DEF z
  <2> QED
    BY Zenon DEF Confirmed, Stamped
<1> HIDE DEF z, Fold, after, e
<1>7. Confirmed(x, d, row) = y
  BY <1>5, <1>6
<1> HIDE DEF y
<1> QED
  BY <1>3, <1>7 DEF after, e

LEMMA ConfirmIs ==
    ASSUME Types, NEW n, NEW d \in Docs, n.row \in Receipt, db.doc[d] \in Receipt,
           Confirm(Start(n), d).ok, Confirm(Start(n), d).db # db
    PROVE  LET e == Confirming(n.row, d) IN
           /\ n.row.status = "draft"
           /\ Changes(db, Confirm(Start(n), d).db, d,
                      WithStatus(Booked(db.doc[d], e, e.goes), "received"), e)
<1> DEFINE x == Start(n)
           y == Confirmed(x, d, n.row)
<1>1. Progress(x) /\ Laid(x) /\ x.ok = TRUE /\ x.db = db /\ x.seen = n
  BY StartsWell
<1>2. ~Rejected(x).ok
  BY <1>1 DEF Rejected, Laid
<1>3. x.db.doc = [db.doc EXCEPT ![d] = db.doc[d]]
  BY <1>1 DEF Types, Rows
<1> HIDE DEF x
<1>4. Confirm(x, d).ok /\ Confirm(x, d).db # x.db
  BY <1>1 DEF x
<1>5. n.row.status = "draft" /\ Confirm(x, d) = y
  BY <1>1, <1>2, <1>4 DEF Confirm, Receipt
<1>6. Changes(db, y.db, d, WithStatus(Booked(db.doc[d], Confirming(n.row, d), Confirming(n.row, d).goes),
                                      "received"), Confirming(n.row, d))
  BY <1>1, <1>3, <1>4, <1>5, ConfirmedIs
<1> QED
  BY <1>5, <1>6 DEF x

\* What is asked of a new document.
Wanted(arg) == arg.to \in Warehouses /\ arg.qty \in [Skus -> Nat]

LEMMA CreateReceiptIs ==
    ASSUME Types, NEW n, NEW d \in Receipts, d \notin n.made,
           NEW arg, Wanted(arg), CreateReceipt(Start(n), d, arg).ok
    PROVE  LET y == CreateReceipt(Start(n), d, arg)
               e == Confirming(Draft(arg), d) IN
           /\ db.doc[d] = Nothing
           /\ \/ ~arg.confirm /\ Changes(db, y.db, d, Draft(arg), Still)
              \/ /\ arg.confirm
                 /\ Changes(db, y.db, d, WithStatus(Booked(Draft(arg), e, e.goes), "received"), e)
<1> DEFINE x == Start(n)
           c == Created(x, d, Draft(arg))
           e == Confirming(Draft(arg), d)
           y == Confirmed(c, d, Draft(arg))
<1>1. d \in Docs /\ Draft(arg) \in Receipt
  BY DEF Docs, Draft, Wanted, Receipt
<1>2. CreateReceipt(x, d, arg) = IF arg.confirm /\ c.ok THEN y ELSE c
  BY DEF CreateReceipt
<1>3. c.ok
  BY <1>2
<1>4. /\ db.doc[d] = Nothing /\ Laid(c) /\ c.ok = TRUE
      /\ c.db.doc = [db.doc EXCEPT ![d] = Draft(arg)]
      /\ c.db.level = db.level /\ c.db.corrected = db.corrected
      /\ Changes(db, c.db, d, Draft(arg), Still)
  <2>1. Created(Start(n), d, Draft(arg)).ok
    BY <1>3
  <2>2. db.doc[d] = Nothing /\ Laid(c) /\ c.ok = TRUE
    BY <1>1, <2>1, CreatedIs
  <2>3. Changes(db, c.db, d, Draft(arg), Still)
    BY <1>1, <2>1, CreatedIs
  <2> HIDE DEF c
  <2> QED
    BY <1>1, <2>2, <2>3, StillKeeps
<1> HIDE DEF c
<1>5. /\ c.db.doc = [db.doc EXCEPT ![d] = Draft(arg)]
      /\ c.db.level = db.level /\ c.db.corrected = db.corrected
  BY <1>4
<1>6. Progress(c)
  <2>1. c.db \in Rows
    BY <1>1, <1>4 DEF Types, Rows, Laid
  <2> QED
    BY <1>4, <2>1 DEF Progress, Laid
<1>7. CASE arg.confirm
  <2>1. CreateReceipt(x, d, arg) = y
    BY <1>2, <1>3, <1>7
  <2>2. y.ok
    BY <2>1
  <2>3. Changes(db, y.db, d, WithStatus(Booked(Draft(arg), e, e.goes), "received"), e)
    BY <1>1, <1>5, <1>6, <2>2, ConfirmedIs
  <2> HIDE DEF y, e
  <2> QED
    BY <1>4, <1>7, <2>1, <2>3 DEF e
<1>8. CASE ~arg.confirm
  <2>1. CreateReceipt(x, d, arg) = c
    BY <1>2, <1>8
  <2> QED
    BY <1>4, <1>8, <2>1
<1> QED
  BY <1>7, <1>8

Purchase(arg) ==
    [status |-> "received", to |-> arg.to, qty |-> arg.qty, received |-> arg.qty]

\* A document created and an item moved, in whatever state a creation is.
LEMMA CreatedProgress ==
    ASSUME Types, NEW n, NEW d \in Receipts, d \notin n.made, NEW row \in Receipt
    PROVE  Progress(Created(Start(n), d, row))
<1> DEFINE x == Start(n)
           c == Created(x, d, row)
<1>0. d \in Docs
  BY DEF Docs
<1>1. Laid(x) /\ x.ok = TRUE /\ x.db = db /\ db \in Rows
  BY StartsWell DEF Types
<1>2. Progress(Rejected(x))
  <2>1. Rejected(x) \in [ok : {FALSE}, db : {x.db}, seen : {x.seen}]
    BY <1>1 DEF Rejected, Laid
  <2> HIDE DEF x
  <2>2. Rejected(x) = [ok |-> FALSE, db |-> x.db, seen |-> x.seen]
    BY <2>1, ProgressIs
  <2> QED
    BY <1>1, <2>2 DEF Progress
<1>3. CASE c.ok
  <2>1. Laid(c) /\ c.ok = TRUE
    BY <1>0, <1>3, CreatedIs
  <2>2. Changes(db, c.db, d, row, Still)
    BY <1>0, <1>3, CreatedIs
  <2> HIDE DEF c
  <2>3. /\ c.db.doc = [db.doc EXCEPT ![d] = row]
        /\ c.db.level = db.level /\ c.db.corrected = db.corrected
    BY <1>0, <2>2, StillKeeps
  <2>4. c.db \in Rows
    BY <1>1, <2>1, <2>3 DEF Laid, Rows
  <2> QED
    BY <2>1, <2>4 DEF Progress, Laid, c
<1>4. CASE ~c.ok
  <2> DEFINE D == [db.doc EXCEPT ![d] = row]
  <2>1. D = [db.doc EXCEPT ![d] = D[d]]
    BY <1>0 DEF Types, Rows
  <2>2. [x EXCEPT !.db.doc[d] = row] = [x EXCEPT !.db.doc = D]
    BY <1>1
  <2> HIDE DEF D
  <2>3. [x EXCEPT !.db.doc = D].ok = TRUE
    BY <1>0, <2>1, WritesChange
  <2> HIDE DEF x
  <2>4. c = Rejected(x)
    BY <1>4, <2>2, <2>3 DEF Created
  <2> QED
    BY <1>2, <2>4 DEF x
<1> QED
  BY <1>3, <1>4

LEMMA ReceiveStockIs ==
    ASSUME Types, NEW n, NEW d \in Receipts, d \notin n.made,
           NEW arg, Wanted(arg), ReceiveStock(Start(n), d, arg).ok
    PROVE  /\ db.doc[d] = Nothing
           /\ Changes(db, ReceiveStock(Start(n), d, arg).db, d, Purchase(arg), Receiving(arg))
<1> DEFINE x == Start(n)
           c == RecordPurchase(x, d, arg)
           e == Receiving(arg)
           z == Done(c, e, e.goes)
           Fold == FoldSet(LAMBDA s, acc : Moved(acc, s, arg.to, arg.qty[s]), c, Items(arg))
<1>1. d \in Docs /\ Purchase(arg) \in Receipt
  BY DEF Docs, Purchase, Wanted, Receipt
<1>2. c = Created(Start(n), d, Purchase(arg))
  BY DEF RecordPurchase, Purchase
<1>3. Progress(c)
  BY <1>1, <1>2, CreatedProgress
<1>4. Loop(c, e) /\ ~Books(e) /\ e.goes = Items(arg)
  BY DEF Receiving, Loop, Steady, Books, Expects, Items, Wanted
<1>5. ReceiveStock(x, d, arg) = Fold
  BY DEF ReceiveStock
<1>6. Fold = Looped(c, e, Items(arg))
  <2>1. arg.qty \in [Skus -> Nat]
    BY DEF Wanted
  <2> HIDE DEF c
  <2> QED
    BY ONLY <2>1, ReceivingIs DEF e, Fold
<1> HIDE DEF Fold, e, c
<1>7. Looped(c, e, Items(arg)) = z
  <2>1. Items(arg) \cap e.goes = e.goes
    BY <1>4
  <2> QED
    BY <1>3, <1>4, <2>1, LoopIs, ItemsAreSkus
<1>8. ReceiveStock(x, d, arg) = z
  BY <1>5, <1>6, <1>7
<1>d. z.ok = (c.ok /\ Fits(c.db, e, e.goes))
  BY DEF Done
<1> HIDE DEF z
<1>e. z.ok
  BY <1>8
<1>9. z.ok /\ c.ok
  BY <1>d, <1>e, <1>3 DEF Progress
<1> USE DEF z
<1>10. db.doc[d] = Nothing /\ Changes(db, c.db, d, Purchase(arg), Still)
  BY <1>1, <1>2, <1>9, CreatedIs
<1>11. /\ c.db.doc = [db.doc EXCEPT ![d] = Purchase(arg)]
       /\ c.db.level = db.level /\ c.db.corrected = db.corrected
  BY <1>1, <1>10, StillKeeps
<1>12. Changes(db, z.db, d, Purchase(arg), e)
  BY <1>1, <1>3, <1>4, <1>9, <1>11, LoopMoves
<1> HIDE DEF z
<1> QED
  BY <1>8, <1>10, <1>12 DEF e

LEMMA CancelReceiptIs ==
    ASSUME Types, NEW n, NEW d \in Docs, n.row \in Receipt, CancelReceipt(Start(n), d).ok
    PROVE  /\ n.row.status \in {"draft", "cancelled"}
           /\ Changes(db, CancelReceipt(Start(n), d).db, d, WithStatus(db.doc[d], "cancelled"), Still)
<1> DEFINE x == Start(n)
           y == Stamped(x, d, "cancelled")
<1>1. Laid(x) /\ x.seen = n
  BY StartsWell
<1>2. ~Rejected(x).ok
  BY <1>1 DEF Rejected, Laid
<1>3. Changes(db, y.db, d, WithStatus(db.doc[d], "cancelled"), Still)
  BY StatusChanges
<1> HIDE DEF x
<1>4. n.row.status \in {"draft", "cancelled"} /\ CancelReceipt(x, d) = y
  BY <1>1, <1>2 DEF CancelReceipt, Stamped, Receipt, x
<1> HIDE DEF y
<1> QED
  BY <1>3, <1>4 DEF x

LEMMA CancelCountIs ==
    ASSUME Types, NEW n, NEW d \in Docs, n.row \in Count, CancelCount(Start(n), d).ok
    PROVE  /\ n.row.status \in {"counting", "cancelled"}
           /\ Changes(db, CancelCount(Start(n), d).db, d, WithStatus(db.doc[d], "cancelled"), Still)
<1> DEFINE x == Start(n)
           y == Stamped(x, d, "cancelled")
<1>1. Laid(x) /\ x.seen = n
  BY StartsWell
<1>2. ~Rejected(x).ok
  BY <1>1 DEF Rejected, Laid
<1>3. Changes(db, y.db, d, WithStatus(db.doc[d], "cancelled"), Still)
  BY StatusChanges
<1> HIDE DEF x
<1>4. n.row.status \in {"counting", "cancelled"} /\ CancelCount(x, d) = y
  BY <1>1, <1>2 DEF CancelCount, Stamped, Count, x
<1> HIDE DEF y
<1> QED
  BY <1>3, <1>4 DEF x

\* A count sheet as it is opened, and one a line of which is written.
Sheet(arg, lines) ==
    [status |-> "counting", at |-> arg.at, lines |-> lines, counted |-> [s \in Skus |-> Uncounted]]
Lined(row, s, found, v) == [row EXCEPT !.counted[s] = found, !.status = v]

LEMMA OpenCountIs ==
    ASSUME Types, NEW n, NEW d \in Docs, d \notin n.made, NEW arg,
           OpenCount(Start(n), d, arg).ok
    PROVE  /\ db.doc[d] = Nothing
           /\ \E lines \in SUBSET Skus :
                 Changes(db, OpenCount(Start(n), d, arg).db, d, Sheet(arg, lines), Still)
<1> DEFINE x == Start(n)
           lines == {s \in Skus : /\ x.seen.level[<<s, arg.at>>].exists
                                  /\ arg.skus = {} \/ s \in arg.skus}
           y == Created(x, d, Sheet(arg, lines))
<1>1. Laid(x) /\ x.seen = n
  BY StartsWell
<1>2. ~Rejected(x).ok
  BY <1>1 DEF Rejected, Laid
<1>3. OpenCount(x, d, arg) = IF lines = {} THEN Rejected(x) ELSE y
  BY DEF OpenCount, Sheet
<1>4. lines \in SUBSET Skus
  OBVIOUS
<1>5. y.ok => db.doc[d] = Nothing /\ Changes(db, y.db, d, Sheet(arg, lines), Still)
  <2> HIDE DEF lines
  <2> QED
    BY CreatedIs
<1> HIDE DEF y, lines, x
<1>6. OpenCount(x, d, arg) = y
  BY <1>2, <1>3 DEF x
<1> QED
  BY <1>4, <1>5, <1>6 DEF x

LEMMA SaveLinesIs ==
    ASSUME Types, NEW n, NEW d \in Docs, n.row \in Count, NEW arg, SaveLines(Start(n), d, arg).ok
    PROVE  /\ n.row.status \in {"counting", "cancelled"}
           /\ \E found \in {arg.found, db.doc[d].counted[arg.sku]} :
                 Changes(db, SaveLines(Start(n), d, arg).db, d,
                         Lined(db.doc[d], arg.sku, found, n.row.status), Still)
<1> DEFINE x == Start(n)
           found == IF arg.sku \in x.seen.row.lines THEN arg.found ELSE db.doc[d].counted[arg.sku]
           D == [db.doc EXCEPT ![d] = Lined(db.doc[d], arg.sku, found, n.row.status)]
           y == [x EXCEPT !.db.doc = D]
<1>1. Laid(x) /\ x.seen = n /\ x.db = db
  BY StartsWell
<1>2. ~Rejected(x).ok
  BY <1>1 DEF Rejected, Laid
<1>3. D = [db.doc EXCEPT ![d] = D[d]] /\ D[d] = Lined(db.doc[d], arg.sku, found, n.row.status)
  BY DEF Types, Rows
<1>4. Changes(db, y.db, d, D[d], Still)
  <2> HIDE DEF D
  <2> QED
    BY <1>3, WritesChange
<1>5. SaveLines(x, d, arg)
      = IF x.seen.row.status = "posted" THEN Rejected(x)
        ELSE [x EXCEPT !.db.doc[d].counted[arg.sku] = found, !.db.doc[d].status = n.row.status]
  <2> HIDE DEF x
  <2> QED
    BY <1>1 DEF SaveLines
<1>6. [x EXCEPT !.db.doc[d].counted[arg.sku] = found, !.db.doc[d].status = n.row.status] = y
  <2> DEFINE k == arg.sku
             v == n.row.status
             R1 == [db.doc[d] EXCEPT !.counted[k] = found]
             D1 == [db.doc EXCEPT ![d] = R1]
             z == [x EXCEPT !.db.doc[d].counted[k] = found]
             z1 == [x EXCEPT !.db.doc = D1]
  <2> HIDE DEF x, found
  <2>1. [x EXCEPT !.db.doc[d].counted[k] = found, !.db.doc[d].status = v]
        = [z EXCEPT !.db.doc[d].status = v]
    BY Zenon
  <2>2. z = z1
    BY <1>1
  <2>3. z1 = [ok |-> x.ok, db |-> [doc |-> D1, level |-> x.db.level,
                                   corrected |-> x.db.corrected], seen |-> x.seen]
    <3> HIDE DEF D1
    <3> QED
      BY <1>1, DocWritten
  <2>4. Laid(z1) /\ z1.ok = x.ok /\ z1.db.doc = D1 /\ z1.db.level = x.db.level
        /\ z1.db.corrected = x.db.corrected /\ z1.seen = x.seen
    <3> HIDE DEF D1, z1
    <3> QED
      BY <2>3 DEF Laid
  <2>5. D1[d] = R1 /\ [D1 EXCEPT ![d] = [R1 EXCEPT !.status = v]] = D
    <3>1. [R1 EXCEPT !.status = v] = Lined(db.doc[d], k, found, v)
      BY Zenon DEF Lined
    <3>2. D1 = [db.doc EXCEPT ![d] = R1] /\ DOMAIN db.doc = Docs
      BY DEF Types, Rows
    <3> HIDE DEF R1
    <3>3. D1[d] = R1
      BY <3>2
    <3> DEFINE R == Lined(db.doc[d], k, found, v)
    <3> HIDE DEF R
    <3>4. [D1 EXCEPT ![d] = R] = [db.doc EXCEPT ![d] = R]
      BY <3>2
    <3> QED
      BY <3>1, <3>3, <3>4 DEF R
  <2>6. [z1 EXCEPT !.db.doc[d].status = v]
        = [z1 EXCEPT !.db.doc = [D1 EXCEPT ![d] = [D1[d] EXCEPT !.status = v]]]
    <3> HIDE DEF z1, D1
    <3> QED
      BY <2>4
  <2>7. [z1 EXCEPT !.db.doc[d].status = v] = [z1 EXCEPT !.db.doc = D]
    <3> HIDE DEF z1, D1, R1, D
    <3> QED
      BY <2>5, <2>6
  <2>8. [z1 EXCEPT !.db.doc = D] = [ok |-> z1.ok, db |-> [doc |-> D, level |-> z1.db.level,
                                   corrected |-> z1.db.corrected], seen |-> z1.seen]
    <3> HIDE DEF z1, D1, R1, D
    <3> QED
      BY <2>4, DocWritten
  <2>9. y = [ok |-> x.ok, db |-> [doc |-> D, level |-> x.db.level,
                                   corrected |-> x.db.corrected], seen |-> x.seen]
    <3> HIDE DEF D
    <3> QED
      BY <1>1, DocWritten
  <2> HIDE DEF z, z1, D, D1, R1, y
  <2> QED
    BY <2>1, <2>2, <2>4, <2>7, <2>8, <2>9
<1> HIDE DEF x, D, y, found
<1>7. x.seen.row.status # "posted" /\ SaveLines(x, d, arg) = y
  BY <1>2, <1>5, <1>6 DEF x
<1> QED
  BY <1>1, <1>3, <1>4, <1>7 DEF x, Count, found

LEMMA PostCountIs ==
    ASSUME Types, NEW n, NEW d \in Docs, n.row \in Count, n.level \in [Cells -> Level],
           PostCount(Start(n), d).ok, PostCount(Start(n), d).db # db
    PROVE  /\ n.row.status = "counting"
           /\ Changes(db, PostCount(Start(n), d).db, d, WithStatus(db.doc[d], "posted"),
                      Correcting(n.row, n.level))
<1> DEFINE x == Start(n)
           row == x.seen.row
           level == x.seen.level
           e == Correcting(row, level)
           z == Done(x, e, e.goes)
           y == Stamped(z, d, "posted")
           Fold == FoldSet(LAMBDA s, acc : IF Found(row)[s] - level[<<s, row.at>>].onHand = 0 THEN acc ELSE Corrected(acc, s, row.at, Found(row)[s] - level[<<s, row.at>>].onHand), x, DOMAIN Found(row))
<1>1. Laid(x) /\ x.seen = n /\ x.db = db /\ Progress(x) /\ x.ok = TRUE
  BY StartsWell
<1>2. ~Rejected(x).ok
  BY <1>1 DEF Rejected, Laid
<1>3. row \in Count /\ level \in [Cells -> Level] /\ row = n.row /\ level = n.level
  BY <1>1
<1>a. DOMAIN Found(row) \in SUBSET Skus /\ row.at \in Warehouses
  BY <1>3 DEF Found, Count
<1>4. Loop(x, e) /\ ~Books(e) /\ DOMAIN Found(row) \cap e.goes = e.goes
  <2> HIDE DEF x
  <2>1. \A s \in DOMAIN Found(row) : Found(row)[s] \in Int
    BY <1>3 DEF Found, Count
  <2>2. \A s \in DOMAIN Found(row) : level[<<s, row.at>>].onHand \in Int
    BY <1>3, <1>a DEF Cells, Level
  <2> QED
    <3>1. e.goes \subseteq DOMAIN Found(row) /\ e.at = row.at /\ e.as = "corrected"
      BY DEF Correcting
    <3>2. \A s \in e.goes : e.qty[s] = Found(row)[s] - level[<<s, row.at>>].onHand
      BY DEF Correcting
    <3> HIDE DEF e
    <3>3. ASSUME NEW s \in e.goes PROVE e.qty[s] \in Int
      <4> DEFINE a == Found(row)[s]
                 b == level[<<s, row.at>>].onHand
      <4>1. a \in Int /\ b \in Int /\ e.qty[s] = a - b
        BY <2>1, <2>2, <3>1, <3>2
      <4> HIDE DEF a, b
      <4> QED
        BY <4>1
    <3> QED
      BY <1>a, <3>1, <3>3 DEF Loop, Steady, Books, Expects
<1>5. Fold = z
  <2>1. Fold = Looped(x, e, DOMAIN Found(row))
    <3> HIDE DEF x
    <3> QED
      BY ONLY <1>3, <1>a, CorrectingIs DEF e, Fold
  <2>2. Looped(x, e, DOMAIN Found(row)) = Done(x, e, DOMAIN Found(row) \cap e.goes)
    <3> HIDE DEF x, e
    <3> QED
      BY <1>1, <1>4, <1>a, LoopIs
  <2> QED
    BY <1>4, <2>1, <2>2
<1>6. y.ok => Changes(db, y.db, d, WithStatus(db.doc[d], "posted"), e)
  <2>1. x.db.doc = [db.doc EXCEPT ![d] = db.doc[d]]
    BY <1>1 DEF Types, Rows
  <2> HIDE DEF x, e
  <2> QED
    BY <1>1, <1>4, <2>1, LoopMoves
<1>7. PostCount(x, d) = CASE row.status = "posted"  -> x
                          [] row.status = "cancelled" -> Rejected(x)
                          [] DOMAIN Found(row) = {}   -> Rejected(x)
                          [] OTHER -> Stamped(Fold, d, "posted")
  <2> HIDE DEF x
  <2> QED
    BY Zenon DEF PostCount, Stamped
<1> HIDE DEF Fold, y, e, z
<1>8. Stamped(Fold, d, "posted") = y
  BY <1>5 DEF y
<1> HIDE DEF x
<1>9. row.status = "counting" /\ PostCount(x, d) = y
  BY <1>1, <1>2, <1>3, <1>7, <1>8 DEF Count, x
<1> QED
  BY <1>3, <1>6, <1>9 DEF e, x

LEMMA AdjustIs ==
    ASSUME Types, NEW n, NEW arg, arg.sku \in Skus, arg.at \in Warehouses, arg.delta \in Int,
           Adjust(Start(n), arg).ok, Adjust(Start(n), arg).db # db
    PROVE  Changes(db, Adjust(Start(n), arg).db, NoDoc, Nothing, Adjusting(arg))
<1> DEFINE x == Start(n)
           e == Adjusting(arg)
           z == Done(x, e, {} \cup {arg.sku})
           m == Moves(x.db, e, e.goes)
<1>1. Laid(x) /\ x.seen = n /\ x.db = db /\ Progress(x) /\ x.ok = TRUE
  BY StartsWell
<1>2. Loop(x, e) /\ ~Books(e) /\ arg.sku \in e.goes /\ e.goes = {} \cup {arg.sku}
  BY DEF Adjusting, Loop, Steady, Books, Expects
<1>3. Applied(Done(x, e, {}), arg.sku, e) = z /\ Done(x, e, {}) = x
  <2> HIDE DEF x, e
  <2> QED
    BY <1>1, <1>2, DoneOne, DoneNothing
<1>4. Applied(x, arg.sku, e) = Corrected(x, arg.sku, arg.at, arg.delta)
  <2> HIDE DEF x
  <2> QED
    BY DEF Applied, Corrected, Adjusting
<1>5. Adjust(x, arg) = IF arg.delta = 0 THEN x ELSE z
  BY <1>3, <1>4 DEF Adjust
<1>6. z = [ok |-> x.ok /\ Fits(x.db, e, e.goes), db |-> m, seen |-> x.seen]
  BY <1>2 DEF Done
<1>7. m.doc = db.doc /\ m.level = [c \in Cells |-> Shifted(c, db.level[c], e, e.goes)]
      /\ m.corrected = [s \in Skus |-> IF s \in e.goes /\ e.as = "corrected"
                                     THEN db.corrected[s] + e.qty[s] ELSE db.corrected[s]]
      /\ m = [doc |-> m.doc, level |-> m.level, corrected |-> m.corrected]
  <2> HIDE DEF x, e
  <2> QED
    BY <1>1, <1>2 DEF Moves
<1>8. z.ok = (x.ok /\ Fits(x.db, e, e.goes)) /\ z.db = m
  <2> HIDE DEF z, m, x, e
  <2> QED
    BY <1>6
<1> HIDE DEF z, m, e, x
<1>9. Adjust(x, arg) = z /\ z.ok
  BY <1>1, <1>5 DEF x
<1>10. Fits(db, e, e.goes)
  BY <1>1, <1>8, <1>9
<1>11. Changes(db, m, NoDoc, Nothing, e)
  BY <1>2, <1>7, <1>10 DEF Changes, Loop
<1> QED
  BY <1>8, <1>9, <1>11 DEF e, x

-----------------------------------------------------------------------------
(* What a request that commits a change makes of the row `old` of its      *)
(* document, when it read n: the new row, and the movements e.             *)

Wrote(kind, d, n, old, new, e) ==
    \/ /\ kind = "createTransfer" /\ old = Nothing /\ e = Still
       /\ \E arg \in [from : Warehouses, to : Warehouses, qty : [Skus -> Nat]] :
             new = DraftTransfer(arg)
    \/ /\ kind = "dispatch" /\ n.row.status = "draft" /\ e = Sending(n.row)
       /\ new = WithStatus(old, "in_transit")
    \/ /\ kind = "receive" /\ n.row.status = "in_transit"
       /\ \E declared \in [Skus -> Nat] :
             /\ e = Landing(n.row, declared, d)
             /\ LET after == Booked(old, e, e.goes) IN
                new = WithStatus(after, IF AllArrived(after) THEN "received" ELSE "in_transit")
    \/ /\ kind = "cancelTransfer" /\ n.row.status = "draft" /\ e = Still
       /\ new = WithStatus(old, "cancelled")
    \/ /\ kind = "cancelTransfer" /\ n.row.status = "in_transit" /\ e = Returning(n.row)
       /\ new = WithStatus(old, "cancelled")
    \/ /\ kind = "createReceipt" /\ old = Nothing
       /\ \E arg \in [to : Warehouses, qty : [Skus -> Nat], confirm : BOOLEAN] :
             \/ e = Still /\ new = Draft(arg)
             \/ /\ e = Confirming(Draft(arg), d)
                /\ new = WithStatus(Booked(Draft(arg), e, e.goes), "received")
    \/ /\ kind = "confirm" /\ n.row.status = "draft" /\ e = Confirming(n.row, d)
       /\ new = WithStatus(Booked(old, e, e.goes), "received")
    \/ /\ kind = "receiveStock" /\ old = Nothing
       /\ \E arg \in [to : Warehouses, qty : [Skus -> Nat]] :
             e = Receiving(arg) /\ new = Purchase(arg)
    \/ /\ kind = "cancelReceipt" /\ n.row.status \in {"draft", "cancelled"} /\ e = Still
       /\ new = WithStatus(old, "cancelled")
    \/ /\ kind = "openCount" /\ old = Nothing /\ e = Still
       /\ \E at \in Warehouses : \E lines \in SUBSET Skus :
             new = [status |-> "counting", at |-> at, lines |-> lines,
                    counted |-> [s \in Skus |-> Uncounted]]
    \/ /\ kind = "saveLines" /\ n.row.status \in {"counting", "cancelled"} /\ e = Still
       /\ \E s \in Skus, found \in Nat \cup {Uncounted} : new = Lined(old, s, found, n.row.status)
    \/ /\ kind = "post" /\ n.row.status = "counting" /\ e = Correcting(n.row, n.level)
       /\ new = WithStatus(old, "posted")
    \/ /\ kind = "cancelCount" /\ n.row.status \in {"counting", "cancelled"} /\ e = Still
       /\ new = WithStatus(old, "cancelled")
    \/ /\ kind = "adjust" /\ old = Nothing /\ new = Nothing
       /\ \E arg \in [sku : Skus, at : Warehouses, delta : Int] : e = Adjusting(arg)

\* The row of a request's document; an adjustment has none.
RowOf(a, d) == IF d = NoDoc THEN Nothing ELSE a.doc[d]

LEMMA KindsAre ==
    ASSUME Types, NEW r, Asked(r)
    PROVE  /\ r.kind \in AllKinds
           /\ r.kind \in {"createTransfer", "dispatch", "receive", "cancelTransfer"} =>
                 r.doc \in Transfers
           /\ r.kind \in {"createReceipt", "receiveStock", "confirm", "cancelReceipt"} =>
                 r.doc \in Receipts
           /\ r.kind \in {"openCount", "saveLines", "post", "cancelCount"} => r.doc \in Counts
           /\ r.kind = "adjust" => r.doc = NoDoc
           /\ r.kind # "adjust" => r.doc \in Docs /\ r.doc # NoDoc
<1>1. r.kind \in AllKinds
  BY DocumentsAssumption DEF Asked
<1>2. r.kind = "adjust" => r.doc = NoDoc
  BY DEF Asked, Subject
<1> QED
  BY <1>1, <1>2, DocumentsAssumption DEF Asked, Subject, AllKinds, Creates, Docs

LEMMA RowsRead ==
    ASSUME Types, NEW r, Asked(r), Revises(r.kind)
    PROVE  /\ r.doc \in Transfers => r.seen.row \in Transfer /\ db.doc[r.doc] \in Transfer
           /\ r.doc \in Receipts => r.seen.row \in Receipt /\ db.doc[r.doc] \in Receipt
           /\ r.doc \in Counts => r.seen.row \in Count /\ db.doc[r.doc] \in Count
<1>1. r.doc \in Docs
  BY KindsAre DEF Revises
<1>2. r.seen.row \in RowsOf(r.doc) /\ db.doc[r.doc] \in RowsOf(r.doc)
  BY <1>1, RowsExist DEF Asked, Nothing
<1> QED
  BY <1>2, DocumentsAssumption DEF RowsOf

\* The parts of ActIs, by the kind of request.
Outcomes(r, arg) == Outcome(r.kind, Start(r.seen), r.doc, arg)

Explained(r, b) ==
    \E new, e : /\ Changes(db, b, r.doc, new, e)
                /\ Wrote(r.kind, r.doc, r.seen, RowOf(db, r.doc), new, e)

LEMMA TransferActs ==
    ASSUME Types, NEW r, Asked(r), NEW arg \in Inputs(r.kind),
           Outcomes(r, arg).ok, Outcomes(r, arg).db # db,
           r.kind \in {"createTransfer", "dispatch", "receive", "cancelTransfer"}
    PROVE  Explained(r, Outcomes(r, arg).db)
<1> DEFINE d == r.doc
           n == r.seen
           old == db.doc[d]
<1>1. d \in Transfers /\ d \in Docs /\ d # NoDoc /\ RowOf(db, d) = old
  BY KindsAre DEF RowOf
<1>2. CASE r.kind = "createTransfer"
  <2>1. d \notin n.made /\ arg \in [from : Warehouses, to : Warehouses, qty : Quantities]
    BY <1>2 DEF Asked, Creates, Inputs
  <2>2. Outcomes(r, arg) = CreateTransfer(Start(n), d, arg)
    BY <1>2 DEF Outcomes, Outcome
  <2>3. /\ old = Nothing
        /\ Changes(db, CreateTransfer(Start(n), d, arg).db, d, DraftTransfer(arg), Still)
    BY <1>1, <2>1, <2>2, CreateTransferIs
  <2>4. arg \in [from : Warehouses, to : Warehouses, qty : [Skus -> Nat]]
    BY <2>1, DocumentsAssumption
  <2>5. Wrote(r.kind, d, n, old, DraftTransfer(arg), Still)
    BY <1>2, <2>3, <2>4 DEF Wrote
  <2> QED
    BY <1>1, <2>2, <2>3, <2>5 DEF Explained
<1>3. ASSUME r.kind # "createTransfer" PROVE n.row \in Transfer /\ old \in Transfer
  BY <1>1, <1>3, RowsRead DEF Revises, Creates
<1>4. CASE r.kind = "dispatch"
  <2>1. Outcomes(r, arg) = Dispatch(Start(n), d)
    BY <1>4 DEF Outcomes, Outcome
  <2>2. /\ n.row.status = "draft"
        /\ Changes(db, Dispatch(Start(n), d).db, d, WithStatus(old, "in_transit"), Sending(n.row))
    BY <1>1, <1>3, <1>4, <2>1, DispatchIs
  <2>3. Wrote(r.kind, d, n, old, WithStatus(old, "in_transit"), Sending(n.row))
    BY <1>4, <2>2 DEF Wrote
  <2> QED
    BY <1>1, <2>1, <2>2, <2>3 DEF Explained
<1>5. CASE r.kind = "receive"
  <2>1. Outcomes(r, arg) = Receive(Start(n), d, arg) /\ arg \in [Skus -> Units]
    BY <1>5 DEF Outcomes, Outcome, Inputs
  <2>2. arg \in [Skus -> Nat]
    BY <2>1, DocumentsAssumption
  <2> DEFINE e == Landing(n.row, arg, d)
             after == Booked(old, e, e.goes)
             new == WithStatus(after, IF AllArrived(after) THEN "received" ELSE "in_transit")
  <2>3. n.row.status = "in_transit" /\ Changes(db, Receive(Start(n), d, arg).db, d, new, e)
    BY <1>1, <1>3, <1>5, <2>1, <2>2, ReceiveIs
  <2>4. Wrote(r.kind, d, n, old, new, e)
    BY <1>5, <2>2, <2>3 DEF Wrote
  <2> HIDE DEF new, e
  <2> QED
    BY <1>1, <2>1, <2>3, <2>4 DEF Explained
<1>6. CASE r.kind = "cancelTransfer"
  <2>1. Outcomes(r, arg) = CancelTransfer(Start(n), d)
    BY <1>6 DEF Outcomes, Outcome
  <2> DEFINE e == IF n.row.status = "in_transit" THEN Returning(n.row) ELSE Still
  <2>2. /\ n.row.status \in {"draft", "in_transit"}
        /\ Changes(db, CancelTransfer(Start(n), d).db, d, WithStatus(old, "cancelled"), e)
    BY <1>1, <1>3, <1>6, <2>1, CancelTransferIs
  <2>3. Wrote(r.kind, d, n, old, WithStatus(old, "cancelled"), e)
    BY <1>6, <2>2 DEF Wrote
  <2> HIDE DEF e
  <2> QED
    BY <1>1, <2>1, <2>2, <2>3 DEF Explained
<1> QED
  BY <1>2, <1>4, <1>5, <1>6

LEMMA ReceiptActs ==
    ASSUME Types, NEW r, Asked(r), NEW arg \in Inputs(r.kind),
           Outcomes(r, arg).ok, Outcomes(r, arg).db # db,
           r.kind \in {"createReceipt", "receiveStock", "confirm", "cancelReceipt"}
    PROVE  Explained(r, Outcomes(r, arg).db)
<1> DEFINE d == r.doc
           n == r.seen
           old == db.doc[d]
<1>1. d \in Receipts /\ d \in Docs /\ d # NoDoc /\ RowOf(db, d) = old
  BY KindsAre DEF RowOf
<1>2. CASE r.kind = "createReceipt"
  <2>1. d \notin n.made /\ arg \in [to : Warehouses, qty : Quantities, confirm : BOOLEAN]
    BY <1>2 DEF Asked, Creates, Inputs
  <2>2. Outcomes(r, arg) = CreateReceipt(Start(n), d, arg)
    BY <1>2 DEF Outcomes, Outcome
  <2>3. arg \in [to : Warehouses, qty : [Skus -> Nat], confirm : BOOLEAN] /\ Wanted(arg)
    BY <2>1, DocumentsAssumption DEF Wanted
  <2> DEFINE b == CreateReceipt(Start(n), d, arg).db
             e == Confirming(Draft(arg), d)
             new == WithStatus(Booked(Draft(arg), e, e.goes), "received")
  <2>4. /\ old = Nothing
        /\ \/ ~arg.confirm /\ Changes(db, b, d, Draft(arg), Still)
           \/ arg.confirm /\ Changes(db, b, d, new, e)
    BY <1>1, <2>1, <2>2, <2>3, CreateReceiptIs
  <2>5. Wrote(r.kind, d, n, old, Draft(arg), Still) /\ Wrote(r.kind, d, n, old, new, e)
    BY <1>2, <2>3, <2>4 DEF Wrote
  <2> HIDE DEF new, e
  <2> QED
    BY <1>1, <2>2, <2>4, <2>5 DEF Explained
<1>3. CASE r.kind = "receiveStock"
  <2>1. d \notin n.made /\ arg \in [to : Warehouses, qty : Quantities]
    BY <1>3 DEF Asked, Creates, Inputs
  <2>2. Outcomes(r, arg) = ReceiveStock(Start(n), d, arg)
    BY <1>3 DEF Outcomes, Outcome
  <2>3. arg \in [to : Warehouses, qty : [Skus -> Nat]] /\ Wanted(arg)
    BY <2>1, DocumentsAssumption DEF Wanted
  <2>4. /\ old = Nothing
        /\ Changes(db, ReceiveStock(Start(n), d, arg).db, d, Purchase(arg), Receiving(arg))
    BY <1>1, <2>1, <2>2, <2>3, ReceiveStockIs
  <2>5. Wrote(r.kind, d, n, old, Purchase(arg), Receiving(arg))
    BY <1>3, <2>3, <2>4 DEF Wrote
  <2> QED
    BY <1>1, <2>2, <2>4, <2>5 DEF Explained
<1>4. ASSUME Revises(r.kind) PROVE n.row \in Receipt /\ old \in Receipt
  BY <1>1, <1>4, RowsRead
<1>5. CASE r.kind = "confirm"
  <2>1. Outcomes(r, arg) = Confirm(Start(n), d)
    BY <1>5 DEF Outcomes, Outcome
  <2>2. n.row \in Receipt /\ old \in Receipt
    BY <1>4, <1>5 DEF Revises, Creates
  <2> DEFINE e == Confirming(n.row, d)
             new == WithStatus(Booked(old, e, e.goes), "received")
  <2>3. n.row.status = "draft" /\ Changes(db, Confirm(Start(n), d).db, d, new, e)
    BY <1>1, <2>1, <2>2, ConfirmIs
  <2>4. Wrote(r.kind, d, n, old, new, e)
    BY <1>5, <2>3 DEF Wrote
  <2> HIDE DEF new, e
  <2> QED
    BY <1>1, <2>1, <2>3, <2>4 DEF Explained
<1>6. CASE r.kind = "cancelReceipt"
  <2>1. Outcomes(r, arg) = CancelReceipt(Start(n), d)
    BY <1>6 DEF Outcomes, Outcome
  <2>2. n.row \in Receipt
    BY <1>4, <1>6 DEF Revises, Creates
  <2>3. /\ n.row.status \in {"draft", "cancelled"}
        /\ Changes(db, CancelReceipt(Start(n), d).db, d, WithStatus(old, "cancelled"), Still)
    BY <1>1, <2>1, <2>2, CancelReceiptIs
  <2>4. Wrote(r.kind, d, n, old, WithStatus(old, "cancelled"), Still)
    BY <1>6, <2>3 DEF Wrote
  <2> QED
    BY <1>1, <2>1, <2>3, <2>4 DEF Explained
<1> QED
  BY <1>2, <1>3, <1>5, <1>6

LEMMA CountActs ==
    ASSUME Types, NEW r, Asked(r), NEW arg \in Inputs(r.kind),
           Outcomes(r, arg).ok, Outcomes(r, arg).db # db,
           r.kind \in {"openCount", "saveLines", "post", "cancelCount"}
    PROVE  Explained(r, Outcomes(r, arg).db)
<1> DEFINE d == r.doc
           n == r.seen
           old == db.doc[d]
<1>1. d \in Counts /\ d \in Docs /\ d # NoDoc /\ RowOf(db, d) = old
  BY KindsAre DEF RowOf
<1>2. CASE r.kind = "openCount"
  <2>1. d \notin n.made /\ arg \in [at : Warehouses, skus : SUBSET Skus]
    BY <1>2 DEF Asked, Creates, Inputs
  <2>2. Outcomes(r, arg) = OpenCount(Start(n), d, arg)
    BY <1>2 DEF Outcomes, Outcome
  <2>3. /\ old = Nothing
        /\ \E lines \in SUBSET Skus :
              Changes(db, OpenCount(Start(n), d, arg).db, d, Sheet(arg, lines), Still)
    BY <1>1, <2>1, <2>2, OpenCountIs
  <2>4. PICK lines \in SUBSET Skus :
           Changes(db, OpenCount(Start(n), d, arg).db, d, Sheet(arg, lines), Still)
    BY <2>3
  <2>5. arg.at \in Warehouses
    BY <2>1
  <2>6. Wrote(r.kind, d, n, old, Sheet(arg, lines), Still)
    BY <1>2, <2>3, <2>5 DEF Wrote, Sheet
  <2> QED
    BY <1>1, <2>2, <2>4, <2>6 DEF Explained
<1>3. ASSUME Revises(r.kind) PROVE n.row \in Count /\ old \in Count
  BY <1>1, <1>3, RowsRead
<1>4. CASE r.kind = "saveLines"
  <2>1. Outcomes(r, arg) = SaveLines(Start(n), d, arg)
        /\ arg \in [sku : Skus, found : Units \cup {Uncounted}]
    BY <1>4 DEF Outcomes, Outcome, Inputs
  <2>2. n.row \in Count /\ old \in Count
    BY <1>3, <1>4 DEF Revises, Creates
  <2>3. /\ n.row.status \in {"counting", "cancelled"}
        /\ \E found \in {arg.found, old.counted[arg.sku]} :
              Changes(db, SaveLines(Start(n), d, arg).db, d,
                      Lined(old, arg.sku, found, n.row.status), Still)
    BY <1>1, <2>1, <2>2, SaveLinesIs
  <2>4. PICK found \in {arg.found, old.counted[arg.sku]} :
           Changes(db, SaveLines(Start(n), d, arg).db, d,
                   Lined(old, arg.sku, found, n.row.status), Still)
    BY <2>3
  <2>5. arg.sku \in Skus /\ found \in Nat \cup {Uncounted}
    <3>1. arg.sku \in Skus /\ arg.found \in Nat \cup {Uncounted}
      BY <2>1, DocumentsAssumption
    <3>2. old.counted[arg.sku] \in Nat \cup {Uncounted}
      BY <2>2, <3>1 DEF Count
    <3> QED
      BY <2>4, <3>1, <3>2
  <2> DEFINE new == Lined(old, arg.sku, found, n.row.status)
  <2>6. Wrote(r.kind, d, n, old, new, Still)
    BY <1>4, <2>3, <2>5 DEF Wrote
  <2> HIDE DEF new
  <2>7. Changes(db, SaveLines(Start(n), d, arg).db, d, new, Still)
    BY <2>4 DEF new
  <2> QED
    BY <1>1, <2>1, <2>6, <2>7 DEF Explained
<1>5. CASE r.kind = "post"
  <2>1. Outcomes(r, arg) = PostCount(Start(n), d)
    BY <1>5 DEF Outcomes, Outcome
  <2>2. n.row \in Count /\ n.level \in [Cells -> Level]
    BY <1>3, <1>5 DEF Revises, Creates, Asked
  <2>3. /\ n.row.status = "counting"
        /\ Changes(db, PostCount(Start(n), d).db, d, WithStatus(old, "posted"),
                   Correcting(n.row, n.level))
    BY <1>1, <2>1, <2>2, PostCountIs
  <2>4. Wrote(r.kind, d, n, old, WithStatus(old, "posted"), Correcting(n.row, n.level))
    BY <1>5, <2>3 DEF Wrote
  <2> QED
    BY <1>1, <2>1, <2>3, <2>4 DEF Explained
<1>6. CASE r.kind = "cancelCount"
  <2>1. Outcomes(r, arg) = CancelCount(Start(n), d)
    BY <1>6 DEF Outcomes, Outcome
  <2>2. n.row \in Count
    BY <1>3, <1>6 DEF Revises, Creates
  <2>3. /\ n.row.status \in {"counting", "cancelled"}
        /\ Changes(db, CancelCount(Start(n), d).db, d, WithStatus(old, "cancelled"), Still)
    BY <1>1, <2>1, <2>2, CancelCountIs
  <2>4. Wrote(r.kind, d, n, old, WithStatus(old, "cancelled"), Still)
    BY <1>6, <2>3 DEF Wrote
  <2> QED
    BY <1>1, <2>1, <2>3, <2>4 DEF Explained
<1> QED
  BY <1>2, <1>4, <1>5, <1>6

LEMMA AdjustActs ==
    ASSUME Types, NEW r, Asked(r), NEW arg \in Inputs(r.kind),
           Outcomes(r, arg).ok, Outcomes(r, arg).db # db, r.kind = "adjust"
    PROVE  Explained(r, Outcomes(r, arg).db)
<1> DEFINE n == r.seen
<1>1. r.doc = NoDoc /\ RowOf(db, r.doc) = Nothing
  BY KindsAre DEF RowOf
<1>2. Outcomes(r, arg) = Adjust(Start(n), arg)
      /\ arg \in [sku : Skus, at : Warehouses, delta : Deltas]
  BY DEF Outcomes, Outcome, Inputs
<1>3. arg \in [sku : Skus, at : Warehouses, delta : Int]
  BY <1>2, DocumentsAssumption
<1>4. arg.sku \in Skus /\ arg.at \in Warehouses /\ arg.delta \in Int
  BY <1>3
<1>5. Changes(db, Adjust(Start(n), arg).db, NoDoc, Nothing, Adjusting(arg))
  BY <1>2, <1>4, AdjustIs
<1>6. Wrote(r.kind, NoDoc, n, Nothing, Nothing, Adjusting(arg))
  BY <1>3 DEF Wrote
<1> QED
  BY <1>1, <1>2, <1>5, <1>6 DEF Explained

\* Every request that commits a change is one of these.
LEMMA ActIs ==
    ASSUME Types, NEW r, Asked(r), NEW arg \in Inputs(r.kind),
           Outcomes(r, arg).ok, Outcomes(r, arg).db # db
    PROVE  Explained(r, Outcomes(r, arg).db)
BY KindsAre, TransferActs, ReceiptActs, CountActs, AdjustActs DEF AllKinds, Creates

-----------------------------------------------------------------------------
(* What the rows say of the goods, and how a request's row and movements   *)
(* keep step.                                                              *)

\* What a document keeps off the shelves, or has brought onto them.
Net(d, row, s) ==
    IF d \in Transfers THEN Away(row, s)
    ELSE IF d \in Receipts /\ row.status = "received" THEN -row.qty[s] ELSE 0

\* What it still owes a warehouse, and whether it delivered more than sent.
Owed(d, row, s, w) ==
    IF d \in Transfers /\ row.status = "in_transit" /\ row.to = w THEN Positive(Owing(row, s)) ELSE 0
Over(d, row, s) == d \in Transfers /\ row.status # "none" /\ Owing(row, s) < 0

Into(e, s) == IF s \in e.goes /\ e.as # "corrected" THEN e.qty[s] ELSE 0

Balanced(d, old, new, e, s) == Net(d, new, s) + Into(e, s) = Net(d, old, s)

Expected(d, old, new, e, s, w) ==
    LET before == Owed(d, old, s, w)
        after  == Owed(d, new, s, w)
    IN  IF s \in e.goes /\ Expects(e) /\ w = e.onto
        THEN /\ after >= before + e.due[s]
             /\ after = before + e.due[s] \/ Over(d, new, s)
        ELSE after = before

Closed(old, new) == old.status \in {"received", "posted", "cancelled"} => new.status = old.status
Untouched(d, row) ==
    d \in Transfers \cup Receipts /\ row.status = "draft" => \A s \in Skus : row.received[s] = 0

Sound(d, old, new, e) ==
    /\ \A s \in Skus : Balanced(d, old, new, e, s)
    /\ \A s \in Skus : Over(d, old, s) => Over(d, new, s)
    /\ \A s \in Skus, w \in Warehouses : Expected(d, old, new, e, s, w)
    /\ Closed(old, new) /\ Untouched(d, new)

\* The fields of the rows that are written.
LEMMA StatusWritten ==
    ASSUME NEW row, NEW v,
           row \in Transfer \/ row \in Receipt
    PROVE  LET y == WithStatus(row, v) IN
           y.status = v /\ y.qty = row.qty /\ y.received = row.received /\ y.to = row.to
BY DEF WithStatus, Transfer, Receipt

LEMMA ReceivedWritten ==
    ASSUME NEW row, NEW e, NEW G, row \in Transfer \/ row \in Receipt
    PROVE  LET y == Booked(row, e, G) IN
           /\ y.status = row.status /\ y.qty = row.qty /\ y.to = row.to
           /\ y.received = [s \in Skus |-> IF s \in G THEN e.received[s] ELSE row.received[s]]
BY DEF Booked, Transfer, Receipt

LEMMA RowsTyped ==
    ASSUME NEW row, NEW e, NEW G,
           \A s \in Skus : s \in G => e.received[s] \in Nat
    PROVE  /\ row \in Transfer => Booked(row, e, G) \in Transfer
           /\ row \in Receipt => Booked(row, e, G) \in Receipt
<1> DEFINE f == [s \in Skus |-> IF s \in G THEN e.received[s] ELSE row.received[s]]
<1>1. ASSUME row \in Transfer PROVE Booked(row, e, G) \in Transfer
  <2>1. f \in [Skus -> Nat]
    BY <1>1 DEF Transfer
  <2> HIDE DEF f
  <2>2. Booked(row, e, G) = [row EXCEPT !.received = f]
    BY DEF Booked, f
  <2> QED
    BY <1>1, <2>1, <2>2 DEF Transfer
<1>2. ASSUME row \in Receipt PROVE Booked(row, e, G) \in Receipt
  <2>1. f \in [Skus -> Nat]
    BY <1>2 DEF Receipt
  <2> HIDE DEF f
  <2>2. Booked(row, e, G) = [row EXCEPT !.received = f]
    BY DEF Booked, f
  <2> QED
    BY <1>2, <2>1, <2>2 DEF Receipt
<1> QED
  BY <1>1, <1>2

LEMMA StatusTyped ==
    ASSUME NEW row, NEW v
    PROVE  /\ row \in Transfer /\ v \in {"draft", "in_transit", "received", "cancelled"} =>
                 WithStatus(row, v) \in Transfer
           /\ row \in Receipt /\ v \in {"draft", "received", "cancelled"} =>
                 WithStatus(row, v) \in Receipt
           /\ row \in Count /\ v \in {"counting", "posted", "cancelled"} => WithStatus(row, v) \in Count
BY DEF WithStatus, Transfer, Receipt, Count

LEMMA DispatchSound ==
    ASSUME NEW d \in Transfers, NEW old \in Transfer, old.status = "draft", Untouched(d, old)
    PROVE  Sound(d, old, WithStatus(old, "in_transit"), Sending(old))
<1> DEFINE new == WithStatus(old, "in_transit")
           e == Sending(old)
<1>1. new.status = "in_transit" /\ new.qty = old.qty /\ new.received = old.received /\ new.to = old.to
  BY StatusWritten
<1>2. \A s \in Skus : old.received[s] = 0 /\ old.qty[s] \in Nat
  BY DEF Untouched, Transfer
<1>3. /\ e.as = "sent" /\ e.goes = {s \in Skus : old.qty[s] > 0} /\ e.onto = old.to
      /\ \A s \in Skus : e.qty[s] = -old.qty[s] /\ e.due[s] = old.qty[s]
  BY DEF Sending, Items
<1> HIDE DEF new, e
<1>4. ASSUME NEW s \in Skus PROVE Balanced(d, old, new, e, s)
  BY <1>1, <1>2, <1>3 DEF Balanced, Net, Away, Into, Owing
<1>5. ASSUME NEW s \in Skus PROVE ~Over(d, old, s)
  BY <1>2 DEF Over, Owing
<1>6. ASSUME NEW s \in Skus, NEW w \in Warehouses PROVE Expected(d, old, new, e, s, w)
  BY <1>1, <1>2, <1>3 DEF Expected, Owed, Owing, Positive, Expects
<1>7. Closed(old, new) /\ Untouched(d, new)
  BY <1>1 DEF Closed, Untouched
<1> QED
  BY <1>4, <1>5, <1>6, <1>7 DEF Sound, new, e

LEMMA ReceiveSound ==
    ASSUME NEW d \in Transfers, d \notin Receipts, NEW old \in Transfer, old.status = "in_transit",
           NEW declared \in [Skus -> Nat]
    PROVE  LET e == Landing(old, declared, d)
               after == Booked(old, e, e.goes) IN
           Sound(d, old, WithStatus(after, IF AllArrived(after) THEN "received" ELSE "in_transit"), e)
<1> DEFINE e == Landing(old, declared, d)
           after == Booked(old, e, e.goes)
           v == IF AllArrived(after) THEN "received" ELSE "in_transit"
           new == WithStatus(after, v)
<1>1. /\ e.as = "landed" /\ e.goes = {s \in Skus : old.qty[s] > 0 /\ declared[s] - old.received[s] > 0}
      /\ e.onto = old.to /\ e.received = declared
      /\ \A s \in Skus : /\ e.qty[s] = declared[s] - old.received[s]
                         /\ e.due[s] = -(declared[s] - old.received[s])
  BY DEF Landing, Items
<1>2. \A s \in Skus : old.qty[s] \in Nat /\ old.received[s] \in Nat /\ declared[s] \in Nat
  BY DEF Transfer
<1> HIDE DEF e
<1>3. /\ after.qty = old.qty /\ after.to = old.to
      /\ after.received = [s \in Skus |-> IF s \in e.goes THEN e.received[s] ELSE old.received[s]]
  BY ReceivedWritten
<1>4. after \in Transfer
  BY <1>1, <1>2, RowsTyped
<1> HIDE DEF after
<1>5. new.status = v /\ new.qty = after.qty /\ new.received = after.received /\ new.to = after.to
  BY <1>4, StatusWritten
<1>6. v = "received" => \A s \in Skus : old.qty[s] > 0 => Owing(after, s) <= 0
  BY <1>3 DEF AllArrived, Items
<1>7. v \in {"received", "in_transit"}
  OBVIOUS
<1> HIDE DEF v, new
<1>8. \A s \in Skus : new.received[s] = IF s \in e.goes THEN declared[s] ELSE old.received[s]
  BY <1>1, <1>3, <1>5
<1>9. ASSUME NEW s \in Skus PROVE Balanced(d, old, new, e, s)
  BY <1>1, <1>2, <1>3, <1>5, <1>7, <1>8 DEF Balanced, Net, Away, Into, Owing
<1>10. ASSUME NEW s \in Skus PROVE Over(d, old, s) => Over(d, new, s)
  BY <1>1, <1>2, <1>3, <1>5, <1>7, <1>8 DEF Over, Owing
<1>11. ASSUME NEW s \in Skus, NEW w \in Warehouses PROVE Expected(d, old, new, e, s, w)
  <2>1. CASE w # old.to
    BY <1>1, <1>3, <1>5, <2>1 DEF Expected, Owed
  <2>2. CASE w = old.to
    <3> DEFINE q == old.qty[s]
               r == old.received[s]
               a == declared[s]
    <3>1. q \in Nat /\ r \in Nat /\ a \in Nat
      BY <1>2
    <3>2. Owed(d, old, s, w) = IF q - r > 0 THEN q - r ELSE 0
      BY <2>2 DEF Owed, Owing, Positive
    <3>3. CASE s \in e.goes
      <4>1. q > 0 /\ a - r > 0 /\ e.due[s] = -(a - r) /\ new.qty[s] = q /\ new.received[s] = a
        BY <1>1, <1>3, <1>5, <1>8, <3>3
      <4>2. Owed(d, new, s, w) = IF v = "in_transit" /\ q - a > 0 THEN q - a ELSE 0
        BY <1>3, <1>5, <2>2, <4>1 DEF Owed, Owing, Positive
      <4>3. v = "received" => q - a <= 0
        BY <1>5, <1>6, <4>1 DEF Owing
      <4>4. q - a < 0 => Over(d, new, s)
        BY <1>5, <1>7, <4>1 DEF Over, Owing
      <4> HIDE DEF q, r, a
      <4> QED
        BY <1>1, <1>7, <2>2, <3>1, <3>2, <3>3, <4>1, <4>2, <4>3, <4>4 DEF Expected, Expects
    <3>4. CASE s \notin e.goes
      <4>1. new.qty[s] = q /\ new.received[s] = r
        BY <1>3, <1>5, <1>8, <3>4
      <4>2. Owed(d, new, s, w) = IF v = "in_transit" /\ q - r > 0 THEN q - r ELSE 0
        BY <1>3, <1>5, <2>2, <4>1 DEF Owed, Owing, Positive
      <4>3. v = "received" /\ q > 0 => q - r <= 0
        BY <1>5, <1>6, <4>1 DEF Owing
      <4> HIDE DEF q, r, a
      <4> QED
        BY <1>7, <3>1, <3>2, <3>4, <4>2, <4>3 DEF Expected
    <3> QED
      BY <3>3, <3>4
  <2> QED
    BY <2>1, <2>2
<1>12. Closed(old, new) /\ Untouched(d, new)
  BY <1>5, <1>7 DEF Closed, Untouched
<1> QED
  BY <1>9, <1>10, <1>11, <1>12 DEF Sound, new, v, after, e

LEMMA CancelSound ==
    ASSUME NEW d \in Transfers, NEW old \in Transfer, Untouched(d, old),
           old.status \in {"draft", "in_transit"}
    PROVE  Sound(d, old, WithStatus(old, "cancelled"),
                 IF old.status = "in_transit" THEN Returning(old) ELSE Still)
<1> DEFINE new == WithStatus(old, "cancelled")
           e == IF old.status = "in_transit" THEN Returning(old) ELSE Still
<1>1. new.status = "cancelled" /\ new.qty = old.qty /\ new.received = old.received /\ new.to = old.to
  BY StatusWritten
<1>2. \A s \in Skus : old.qty[s] \in Nat /\ old.received[s] \in Nat
  BY DEF Transfer
<1>3. CASE old.status = "draft"
  <2>1. e.as = "moved" /\ e.goes = {}
    BY <1>3 DEF Still
  <2>2. \A s \in Skus : old.received[s] = 0
    BY <1>3 DEF Untouched
  <2> HIDE DEF new, e
  <2>3. ASSUME NEW s \in Skus PROVE Balanced(d, old, new, e, s) /\ ~Over(d, old, s)
    BY <1>1, <1>2, <1>3, <2>1, <2>2 DEF Balanced, Net, Away, Into, Owing, Lesser, Over
  <2>4. ASSUME NEW s \in Skus, NEW w \in Warehouses PROVE Expected(d, old, new, e, s, w)
    BY <1>1, <1>3, <2>1 DEF Expected, Owed
  <2>5. Closed(old, new) /\ Untouched(d, new)
    BY <1>1, <1>3 DEF Closed, Untouched
  <2> QED
    BY <2>3, <2>4, <2>5 DEF Sound, new, e
<1>4. CASE old.status = "in_transit"
  <2>1. /\ e.as = "sent" /\ e.onto = old.to
        /\ e.goes = {s \in Skus : old.qty[s] > 0 /\ Owing(old, s) > 0}
        /\ \A s \in Skus : e.qty[s] = Owing(old, s) /\ e.due[s] = -Owing(old, s)
    BY <1>4 DEF Returning, Items
  <2> HIDE DEF new, e
  <2>2. ASSUME NEW s \in Skus
        PROVE Balanced(d, old, new, e, s) /\ (Over(d, old, s) => Over(d, new, s))
    <3>1. Owing(new, s) = Owing(old, s)
      BY <1>1 DEF Owing
    <3>2. s \notin e.goes => Owing(old, s) <= 0
      BY <1>2, <2>1 DEF Owing
    <3>3. Owing(old, s) \in Int
      BY <1>2 DEF Owing
    <3> QED
      BY <1>1, <1>4, <2>1, <3>1, <3>2, <3>3 DEF Balanced, Net, Away, Into, Lesser, Over
  <2>3. ASSUME NEW s \in Skus, NEW w \in Warehouses PROVE Expected(d, old, new, e, s, w)
    <3>1. Owing(new, s) = Owing(old, s)
      BY <1>1 DEF Owing
    <3>2. s \notin e.goes => Owing(old, s) <= 0
      BY <1>2, <2>1 DEF Owing
    <3>3. Owing(old, s) \in Int
      BY <1>2 DEF Owing
    <3> QED
      BY <1>1, <1>4, <2>1, <3>1, <3>2, <3>3 DEF Expected, Owed, Positive, Expects
  <2>4. Closed(old, new) /\ Untouched(d, new)
    BY <1>1, <1>4 DEF Closed, Untouched
  <2> QED
    BY <2>2, <2>3, <2>4 DEF Sound, new, e
<1> QED
  BY <1>3, <1>4

LEMMA CreateTransferSound ==
    ASSUME NEW d \in Transfers, NEW arg \in [from : Warehouses, to : Warehouses, qty : [Skus -> Nat]]
    PROVE  Sound(d, Nothing, DraftTransfer(arg), Still) /\ DraftTransfer(arg) \in Transfer
<1> DEFINE new == DraftTransfer(arg)
<1>1. /\ new.status = "draft" /\ new.qty = arg.qty /\ \A s \in Skus : new.received[s] = 0
      /\ Nothing.status = "none" /\ Still.goes = {}
  BY DEF DraftTransfer, Nothing, Still
<1>2. \A s \in Skus : new.qty[s] \in Nat
  BY <1>1
<1>3. new \in Transfer
  BY DEF DraftTransfer, Transfer
<1> HIDE DEF new
<1>4. ASSUME NEW s \in Skus PROVE Balanced(d, Nothing, new, Still, s) /\ ~Over(d, Nothing, s)
  BY <1>1, <1>2 DEF Balanced, Net, Away, Into, Over
<1>5. ASSUME NEW s \in Skus, NEW w \in Warehouses PROVE Expected(d, Nothing, new, Still, s, w)
  BY <1>1 DEF Expected, Owed
<1>6. Closed(Nothing, new) /\ Untouched(d, new)
  BY <1>1 DEF Closed, Untouched
<1> QED
  BY <1>3, <1>4, <1>5, <1>6 DEF Sound, new

\* A note's row that is no transfer's owes no warehouse anything.
LEMMA NoTransferOwes ==
    ASSUME NEW d, d \notin Transfers, NEW old, NEW new, NEW e, ~Expects(e),
           \A s \in Skus : Balanced(d, old, new, e, s),
           Closed(old, new), Untouched(d, new)
    PROVE  Sound(d, old, new, e)
BY DEF Sound, Over, Expected, Owed

LEMMA ConfirmSound ==
    ASSUME NEW d \in Receipts, d \notin Transfers, NEW old, NEW row \in Receipt,
           old = row \/ old = Nothing, row.status = "draft", Untouched(d, row)
    PROVE  LET e == Confirming(row, d) IN
           Sound(d, old, WithStatus(Booked(row, e, e.goes), "received"), e)
<1> DEFINE e == Confirming(row, d)
           after == Booked(row, e, e.goes)
           new == WithStatus(after, "received")
<1>1. \A s \in Skus : row.qty[s] \in Nat /\ row.received[s] = 0 /\ Owing(row, s) = row.qty[s]
  BY DEF Receipt, Untouched, Owing
<1>2. /\ e.as = "confirmed" /\ e.goes = {s \in Skus : row.qty[s] > 0 /\ Owing(row, s) > 0}
      /\ e.received = row.qty /\ \A s \in Skus : e.qty[s] = Owing(row, s)
  BY DEF Confirming, Items
<1> HIDE DEF e
<1>3. /\ after.qty = row.qty /\ after.status = row.status
      /\ after.received = [s \in Skus |-> IF s \in e.goes THEN e.received[s] ELSE row.received[s]]
  BY ReceivedWritten
<1>4. after \in Receipt
  BY <1>1, <1>2, RowsTyped
<1> HIDE DEF after
<1>5. new.status = "received" /\ new.qty = row.qty
  BY <1>3, <1>4, StatusWritten
<1>6. old.status \in {"draft", "none"}
  BY DEF Nothing
<1> HIDE DEF new
<1>7. ASSUME NEW s \in Skus PROVE Balanced(d, old, new, e, s)
  BY <1>1, <1>2, <1>5, <1>6 DEF Balanced, Net, Into
<1>8. Closed(old, new) /\ Untouched(d, new) /\ ~Expects(e)
  BY <1>2, <1>5, <1>6 DEF Closed, Untouched, Expects
<1> QED
  BY <1>7, <1>8, NoTransferOwes DEF new, after, e

LEMMA CreateReceiptSound ==
    ASSUME NEW d \in Receipts, d \notin Transfers,
           NEW arg \in [to : Warehouses, qty : [Skus -> Nat], confirm : BOOLEAN]
    PROVE  LET e == Confirming(Draft(arg), d) IN
           /\ Draft(arg) \in Receipt
           /\ Sound(d, Nothing, Draft(arg), Still)
           /\ Sound(d, Nothing, WithStatus(Booked(Draft(arg), e, e.goes), "received"), e)
<1>1. Draft(arg) \in Receipt /\ Draft(arg).status = "draft" /\ Untouched(d, Draft(arg))
  BY DEF Draft, Receipt, Untouched
<1>2. Nothing.status = "none" /\ Still.goes = {} /\ ~Expects(Still)
  BY DEF Nothing, Still, Expects
<1>3. ASSUME NEW s \in Skus PROVE Balanced(d, Nothing, Draft(arg), Still, s)
  BY <1>1, <1>2 DEF Balanced, Net, Into
<1>4. Closed(Nothing, Draft(arg))
  BY <1>2 DEF Closed
<1> QED
  BY <1>1, <1>2, <1>3, <1>4, NoTransferOwes, ConfirmSound

LEMMA PurchaseSound ==
    ASSUME NEW d \in Receipts, d \notin Transfers, NEW arg \in [to : Warehouses, qty : [Skus -> Nat]]
    PROVE  Purchase(arg) \in Receipt /\ Sound(d, Nothing, Purchase(arg), Receiving(arg))
<1> DEFINE new == Purchase(arg)
           e == Receiving(arg)
<1>1. new \in Receipt /\ new.status = "received" /\ new.qty = arg.qty
  BY DEF Purchase, Receipt
<1>2. /\ e.as = "moved" /\ e.qty = arg.qty
      /\ e.goes = {s \in Skus : arg.qty[s] > 0} /\ Nothing.status = "none"
  BY DEF Receiving, Items, Nothing
<1> HIDE DEF new, e
<1>3. ASSUME NEW s \in Skus PROVE Balanced(d, Nothing, new, e, s)
  <2>1. arg.qty[s] \in Nat
    OBVIOUS
  <2> QED
    BY <1>1, <1>2, <2>1 DEF Balanced, Net, Into
<1>4. Closed(Nothing, new) /\ Untouched(d, new) /\ ~Expects(e)
  BY <1>1, <1>2 DEF Closed, Untouched, Expects
<1> QED
  BY <1>1, <1>3, <1>4, NoTransferOwes DEF new, e

LEMMA CancelReceiptSound ==
    ASSUME NEW d \in Receipts, d \notin Transfers, NEW old \in Receipt,
           old.status \in {"draft", "cancelled"}
    PROVE  Sound(d, old, WithStatus(old, "cancelled"), Still)
<1> DEFINE new == WithStatus(old, "cancelled")
<1>1. new.status = "cancelled"
  BY StatusWritten
<1>2. Still.goes = {} /\ ~Expects(Still)
  BY DEF Still, Expects
<1> HIDE DEF new
<1>3. ASSUME NEW s \in Skus PROVE Balanced(d, old, new, Still, s)
  BY <1>1, <1>2 DEF Balanced, Net, Into
<1>4. Closed(old, new) /\ Untouched(d, new)
  BY <1>1 DEF Closed, Untouched
<1> QED
  BY <1>2, <1>3, <1>4, NoTransferOwes DEF new

\* A count, or no document, weighs nothing; its movements are corrections.
LEMMA CountSound ==
    ASSUME NEW d, d \notin Transfers \cup Receipts, NEW old, NEW new, NEW e,
           e.as = "corrected" \/ e = Still, Closed(old, new)
    PROVE  Sound(d, old, new, e)
<1>1. ~Expects(e) /\ \A s \in Skus : Into(e, s) = 0
  BY DEF Expects, Into, Still
<1>2. ASSUME NEW s \in Skus PROVE Balanced(d, old, new, e, s)
  BY <1>1 DEF Balanced, Net
<1> QED
  BY <1>1, <1>2, NoTransferOwes DEF Untouched

-----------------------------------------------------------------------------
(* Every request keeps the rows typed, and in step when it read them fresh. *)

\* What of a request's rows the lemmas below need.
Rowed(kind, d, n, old) ==
    /\ kind \in AllKinds
    /\ kind \in {"createTransfer", "dispatch", "receive", "cancelTransfer"} => d \in Transfers
    /\ kind \in {"createReceipt", "receiveStock", "confirm", "cancelReceipt"} => d \in Receipts
    /\ kind \in {"openCount", "saveLines", "post", "cancelCount"} => d \in Counts
    /\ kind = "adjust" => d = NoDoc
    /\ Revises(kind) =>
          /\ d \in Transfers => n.row \in Transfer /\ old \in Transfer
          /\ d \in Receipts => n.row \in Receipt /\ old \in Receipt
          /\ d \in Counts => n.row \in Count /\ old \in Count

LEMMA RequestsAreRowed ==
    ASSUME Types, NEW r, Asked(r)
    PROVE  Rowed(r.kind, r.doc, r.seen, RowOf(db, r.doc))
<1>1. Revises(r.kind) => RowOf(db, r.doc) = db.doc[r.doc]
  BY KindsAre DEF Revises, RowOf
<1> QED
  BY <1>1, KindsAre, RowsRead DEF Rowed

\* A row of its own table is written, whichever row was read.
LEMMA WroteTyped ==
    ASSUME NEW kind, NEW d, NEW n, NEW old, NEW new, NEW e,
           Rowed(kind, d, n, old), Wrote(kind, d, n, old, new, e)
    PROVE  IF kind = "adjust" THEN d = NoDoc ELSE new \in RowsOf(d) /\ new # Nothing
<1>1. Nothing \notin Transfer /\ Nothing \notin Receipt /\ Nothing \notin Count
  BY DEF Nothing, Transfer, Receipt, Count
<1>2. /\ d \in Transfers => RowsOf(d) = Transfer
      /\ d \in Receipts => RowsOf(d) = Receipt
      /\ d \in Counts => RowsOf(d) = Count
  BY DocumentsAssumption DEF RowsOf
<1>3. ASSUME d \in Transfers, new \in Transfer PROVE new \in RowsOf(d) /\ new # Nothing
  BY <1>1, <1>2, <1>3
<1>4. ASSUME d \in Receipts, new \in Receipt PROVE new \in RowsOf(d) /\ new # Nothing
  BY <1>1, <1>2, <1>4
<1>5. ASSUME d \in Counts, new \in Count PROVE new \in RowsOf(d) /\ new # Nothing
  BY <1>1, <1>2, <1>5
<1>6. CASE kind = "createTransfer"
  BY <1>3, <1>6, CreateTransferSound DEF Rowed, Wrote
<1>7. CASE kind = "dispatch"
  <2>1. d \in Transfers /\ old \in Transfer /\ new = WithStatus(old, "in_transit")
    BY <1>7 DEF Rowed, Wrote, Revises, Creates
  <2> QED
    BY <1>3, <1>7, <2>1, StatusTyped
<1>8. CASE kind = "receive"
  <2>1. d \in Transfers /\ old \in Transfer
    BY <1>8 DEF Rowed, Revises, Creates
  <2>2. PICK declared \in [Skus -> Nat] :
           /\ e = Landing(n.row, declared, d)
           /\ LET after == Booked(old, e, e.goes) IN
              new = WithStatus(after, IF AllArrived(after) THEN "received" ELSE "in_transit")
    BY <1>8 DEF Wrote
  <2>3. e.received = declared
    BY <2>2 DEF Landing
  <2>4. \A s \in Skus : s \in e.goes => e.received[s] \in Nat
    BY <2>2, <2>3
  <2> DEFINE after == Booked(old, e, e.goes)
  <2>5. after \in Transfer
    BY <2>1, <2>4, RowsTyped
  <2>6. new = WithStatus(after, "received") \/ new = WithStatus(after, "in_transit")
    BY <2>2
  <2> HIDE DEF after
  <2>7. new \in Transfer
    BY <2>5, <2>6, StatusTyped
  <2> QED
    BY <1>3, <1>8, <2>1, <2>7
<1>9. CASE kind = "cancelTransfer"
  <2>1. d \in Transfers /\ old \in Transfer /\ new = WithStatus(old, "cancelled")
    BY <1>9 DEF Rowed, Wrote, Revises, Creates
  <2> QED
    BY <1>3, <1>9, <2>1, StatusTyped
<1>10. CASE kind = "createReceipt"
  <2>1. d \in Receipts
    BY <1>10 DEF Rowed
  <2>2. PICK arg \in [to : Warehouses, qty : [Skus -> Nat], confirm : BOOLEAN] :
           \/ e = Still /\ new = Draft(arg)
           \/ /\ e = Confirming(Draft(arg), d)
              /\ new = WithStatus(Booked(Draft(arg), e, e.goes), "received")
    BY <1>10 DEF Wrote
  <2>3. Draft(arg) \in Receipt
    BY DEF Draft, Receipt
  <2>4. e = Confirming(Draft(arg), d) => \A s \in Skus : s \in e.goes => e.received[s] \in Nat
    BY <2>3 DEF Confirming, Receipt
  <2>5. e = Confirming(Draft(arg), d) => Booked(Draft(arg), e, e.goes) \in Receipt
    BY <2>3, <2>4, RowsTyped
  <2>6. new \in Receipt
    BY <2>2, <2>3, <2>5, StatusTyped
  <2> QED
    BY <1>4, <1>10, <2>1, <2>6
<1>11. CASE kind = "confirm"
  <2>1. /\ d \in Receipts /\ old \in Receipt /\ n.row \in Receipt /\ e = Confirming(n.row, d)
        /\ new = WithStatus(Booked(old, e, e.goes), "received")
    BY <1>11 DEF Rowed, Wrote, Revises, Creates
  <2>2. \A s \in Skus : s \in e.goes => e.received[s] \in Nat
    BY <2>1 DEF Confirming, Receipt
  <2>3. Booked(old, e, e.goes) \in Receipt
    BY <2>1, <2>2, RowsTyped
  <2> QED
    BY <1>4, <1>11, <2>1, <2>3, StatusTyped
<1>12. CASE kind = "receiveStock"
  <2>1. d \in Receipts
    BY <1>12 DEF Rowed
  <2>2. new \in Receipt
    BY <1>12 DEF Wrote, Purchase, Receipt
  <2> QED
    BY <1>4, <1>12, <2>1, <2>2
<1>13. CASE kind = "cancelReceipt"
  <2>1. d \in Receipts /\ old \in Receipt /\ new = WithStatus(old, "cancelled")
    BY <1>13 DEF Rowed, Wrote, Revises, Creates
  <2> QED
    BY <1>4, <1>13, <2>1, StatusTyped
<1>14. CASE kind = "openCount"
  <2>1. d \in Counts
    BY <1>14 DEF Rowed
  <2>2. new \in Count
    BY <1>14 DEF Wrote, Count
  <2> QED
    BY <1>5, <1>14, <2>1, <2>2
<1>15. CASE kind = "saveLines"
  <2>1. d \in Counts /\ old \in Count /\ n.row.status \in {"counting", "cancelled"}
    BY <1>15 DEF Rowed, Wrote, Revises, Creates
  <2>2. PICK s \in Skus, found \in Nat \cup {Uncounted} : new = Lined(old, s, found, n.row.status)
    BY <1>15 DEF Wrote
  <2>3. new \in Count
    <3> DEFINE f == [old.counted EXCEPT ![s] = found]
    <3>1. f \in [Skus -> Nat \cup {Uncounted}]
      BY <2>1 DEF Count
    <3>2. [old EXCEPT !.counted = f] \in Count
      <4> HIDE DEF f
      <4> QED
        BY <2>1, <3>1 DEF Count
    <3>3. [[old EXCEPT !.counted = f] EXCEPT !.status = n.row.status] \in Count
      <4> HIDE DEF f
      <4> QED
        BY <2>1, <3>2 DEF Count
    <3>4. new = [[old EXCEPT !.counted = f] EXCEPT !.status = n.row.status]
      BY <2>2 DEF Lined
    <3> QED
      BY <3>3, <3>4
  <2> QED
    BY <1>5, <1>15, <2>1, <2>3
<1>16. CASE kind \in {"post", "cancelCount"}
  <2>1. d \in Counts /\ old \in Count
        /\ (new = WithStatus(old, "posted") \/ new = WithStatus(old, "cancelled"))
    BY <1>16 DEF Rowed, Wrote, Revises, Creates
  <2> QED
    BY <1>5, <1>16, <2>1, StatusTyped
<1>17. CASE kind = "adjust"
  BY <1>17 DEF Rowed
<1> QED
  BY <1>6, <1>7, <1>8, <1>9, <1>10, <1>11, <1>12, <1>13, <1>14, <1>15, <1>16, <1>17
  DEF Rowed, AllKinds, Creates

\* ... and the goods keep step with it when the row read is the row as it is.
LEMMA WroteSound ==
    ASSUME NEW kind, NEW d, NEW n, NEW old, NEW new, NEW e,
           Rowed(kind, d, n, old), Wrote(kind, d, n, old, new, e),
           Revises(kind) => n.row = old, Untouched(d, old)
    PROVE  Sound(d, old, new, e)
<1>1. Transfers \cap Receipts = {} /\ Transfers \cap Counts = {} /\ Receipts \cap Counts = {}
      /\ NoDoc \notin Transfers \cup Receipts
  BY DocumentsAssumption DEF Docs
<1>2. CASE kind = "createTransfer"
  BY <1>2, CreateTransferSound DEF Rowed, Wrote
<1>3. CASE kind = "dispatch"
  <2>1. d \in Transfers /\ old \in Transfer /\ old.status = "draft" /\ e = Sending(old)
        /\ new = WithStatus(old, "in_transit")
    BY <1>3 DEF Rowed, Wrote, Revises, Creates
  <2> QED
    BY <2>1, DispatchSound
<1>4. CASE kind = "receive"
  <2>1. d \in Transfers /\ d \notin Receipts /\ old \in Transfer /\ old.status = "in_transit" /\ n.row = old
    BY <1>1, <1>4 DEF Rowed, Wrote, Revises, Creates
  <2>2. PICK declared \in [Skus -> Nat] :
           /\ e = Landing(n.row, declared, d)
           /\ LET after == Booked(old, e, e.goes) IN
              new = WithStatus(after, IF AllArrived(after) THEN "received" ELSE "in_transit")
    BY <1>4 DEF Wrote
  <2> QED
    BY <2>1, <2>2, ReceiveSound
<1>5. CASE kind = "cancelTransfer"
  <2>1. /\ d \in Transfers /\ old \in Transfer /\ old.status \in {"draft", "in_transit"}
        /\ new = WithStatus(old, "cancelled")
        /\ e = IF old.status = "in_transit" THEN Returning(old) ELSE Still
    BY <1>5 DEF Rowed, Wrote, Revises, Creates
  <2> QED
    BY <2>1, CancelSound
<1>6. CASE kind = "createReceipt"
  <2>1. d \in Receipts /\ d \notin Transfers /\ old = Nothing
    BY <1>1, <1>6 DEF Rowed, Wrote
  <2>2. PICK arg \in [to : Warehouses, qty : [Skus -> Nat], confirm : BOOLEAN] :
           \/ e = Still /\ new = Draft(arg)
           \/ /\ e = Confirming(Draft(arg), d)
              /\ new = WithStatus(Booked(Draft(arg), e, e.goes), "received")
    BY <1>6 DEF Wrote
  <2> QED
    BY <2>1, <2>2, CreateReceiptSound
<1>7. CASE kind = "confirm"
  <2>1. /\ d \in Receipts /\ d \notin Transfers /\ old \in Receipt /\ old.status = "draft"
        /\ e = Confirming(old, d) /\ new = WithStatus(Booked(old, e, e.goes), "received")
    BY <1>1, <1>7 DEF Rowed, Wrote, Revises, Creates
  <2> QED
    BY <2>1, ConfirmSound
<1>8. CASE kind = "receiveStock"
  <2>1. d \in Receipts /\ d \notin Transfers
    BY <1>1, <1>8 DEF Rowed
  <2> QED
    BY <1>8, <2>1, PurchaseSound DEF Wrote
<1>9. CASE kind = "cancelReceipt"
  <2>1. /\ d \in Receipts /\ d \notin Transfers /\ old \in Receipt
        /\ old.status \in {"draft", "cancelled"}
        /\ e = Still /\ new = WithStatus(old, "cancelled")
    BY <1>1, <1>9 DEF Rowed, Wrote, Revises, Creates
  <2> QED
    BY <2>1, CancelReceiptSound
<1>10. CASE kind \in {"openCount", "saveLines", "post", "cancelCount"}
  <2>1. d \notin Transfers \cup Receipts
    BY <1>1, <1>10 DEF Rowed
  <2>2. e.as = "corrected" \/ e = Still
    BY <1>10 DEF Wrote, Correcting
  <2>3. Closed(old, new)
    <3>1. CASE kind = "openCount"
      BY <3>1 DEF Wrote, Closed, Nothing
    <3>2. CASE kind = "saveLines"
      <4>1. old \in Count /\ n.row = old
        BY <1>10, <3>2 DEF Rowed, Revises, Creates
      <4>2. PICK s \in Skus, found \in Nat \cup {Uncounted} : new = Lined(old, s, found, old.status)
        BY <3>2, <4>1 DEF Wrote
      <4>3. new.status = old.status
        BY <4>1, <4>2 DEF Lined, Count
      <4> QED
        BY <4>3 DEF Closed
    <3>3. CASE kind = "post"
      BY <1>10, <3>3 DEF Rowed, Wrote, Revises, Creates, Closed
    <3>4. CASE kind = "cancelCount"
      <4>1. old \in Count /\ old.status \in {"counting", "cancelled"} /\ new = WithStatus(old, "cancelled")
        BY <1>10, <3>4 DEF Rowed, Wrote, Revises, Creates
      <4>2. new.status = "cancelled"
        BY <4>1 DEF WithStatus, Count
      <4> QED
        BY <4>1, <4>2 DEF Closed
    <3> QED
      BY <1>10, <3>1, <3>2, <3>3, <3>4
  <2> QED
    BY <2>1, <2>2, <2>3, CountSound
<1>11. CASE kind = "adjust"
  <2>1. d \notin Transfers \cup Receipts /\ Closed(old, new)
    BY <1>1, <1>11 DEF Rowed, Wrote, Closed
  <2>2. PICK arg \in [sku : Skus, at : Warehouses, delta : Int] : e = Adjusting(arg)
    BY <1>11 DEF Wrote
  <2>3. e.as = "corrected"
    BY <2>2 DEF Adjusting
  <2> QED
    BY <2>1, <2>3, CountSound
<1> QED
  BY <1>2, <1>3, <1>4, <1>5, <1>6, <1>7, <1>8, <1>9, <1>10, <1>11 DEF Rowed, AllKinds, Creates

-----------------------------------------------------------------------------
(* The types.                                                              *)

\* Rows that a request's changes leave are rows, as many as before and one.
LEMMA ChangesTyped ==
    ASSUME Types, NEW d \in Docs \cup {NoDoc}, NEW b, NEW new, NEW e, Changes(db, b, d, new, e),
           d # NoDoc => new \in RowsOf(d) /\ new # Nothing
    PROVE  /\ b \in Rows
           /\ \A x \in Docs : b.doc[x] = IF x = d THEN new ELSE db.doc[x]
           /\ \A x \in Docs : b.doc[x] = Nothing \/ b.doc[x] \in RowsOf(x)
           /\ \A c \in Cells : Reserved[c] <= b.level[c].onHand
           /\ IsFiniteSet({x \in Docs : b.doc[x].status # "none"})
           /\ \A x \in Docs : db.doc[x].status # "none" => b.doc[x].status # "none"
<1>1. /\ db.doc \in [Docs -> {Nothing} \cup Transfer \cup Receipt \cup Count]
      /\ db.level \in [Cells -> Level] /\ db.corrected \in [Skus -> Int]
  BY DEF Types, Rows
<1>2. /\ Steady(e) /\ Fits(db, e, e.goes)
      /\ b.doc = IF d = NoDoc THEN db.doc ELSE [db.doc EXCEPT ![d] = new]
      /\ b.level = [c \in Cells |-> Shifted(c, db.level[c], e, e.goes)]
      /\ b.corrected = [s \in Skus |-> IF s \in e.goes /\ e.as = "corrected"
                                     THEN db.corrected[s] + e.qty[s] ELSE db.corrected[s]]
      /\ b = [doc |-> b.doc, level |-> b.level, corrected |-> b.corrected]
  BY DEF Changes
<1>3. \A x \in Docs : b.doc[x] = IF x = d THEN new ELSE db.doc[x]
  BY <1>1, <1>2, DocumentsAssumption
<1>4. \A x \in Docs : b.doc[x] = Nothing \/ b.doc[x] \in RowsOf(x)
  <2>1. d \in Docs => d # NoDoc
    BY DocumentsAssumption
  <2>2. \A x \in Docs : db.doc[x] = Nothing \/ db.doc[x] \in RowsOf(x)
    BY DEF Types
  <2> QED
    BY <1>3, <2>1, <2>2
<1>5. b.doc \in [Docs -> {Nothing} \cup Transfer \cup Receipt \cup Count]
  <2>1. \A x \in Docs : RowsOf(x) \in SUBSET ({Nothing} \cup Transfer \cup Receipt \cup Count)
    BY DEF RowsOf
  <2>2. d # NoDoc => new \in {Nothing} \cup Transfer \cup Receipt \cup Count
    BY <2>1
  <2> QED
    BY <1>1, <1>2, <2>2
<1>6. ASSUME NEW c \in Cells
      PROVE  /\ Shifted(c, db.level[c], e, e.goes) \in Level
             /\ Reserved[c] <= Shifted(c, db.level[c], e, e.goes).onHand
  <2> DEFINE l == db.level[c]
             x == IF c[1] \in e.goes /\ (c[2] = e.at \/ (Expects(e) /\ c[2] = e.onto))
                  THEN TRUE ELSE l.exists
             o == IF c[1] \in e.goes /\ c[2] = e.at THEN l.onHand + e.qty[c[1]] ELSE l.onHand
             i == IF c[1] \in e.goes /\ Expects(e) /\ c[2] = e.onto
                  THEN Positive(l.incoming + e.due[c[1]]) ELSE l.incoming
  <2>1. l.exists \in BOOLEAN /\ l.onHand \in Nat /\ l.incoming \in Nat
    BY <1>1 DEF Level
  <2>2. Reserved[c] <= l.onHand /\ Reserved[c] \in Nat
    BY DocumentsAssumption DEF Types
  <2>3. c = <<c[1], c[2]>> /\ c[1] \in Skus /\ c[2] \in Warehouses
    BY DEF Cells
  <2>4. x \in BOOLEAN
    BY <2>1
  <2>5. o \in Nat /\ Reserved[c] <= o
    <3>1. CASE c[1] \in e.goes /\ c[2] = e.at
      <4>1. l.onHand + e.qty[c[1]] >= 0 /\ Reserved[c] <= l.onHand + e.qty[c[1]]
        BY <1>2, <2>3, <3>1 DEF Fits
      <4>2. e.qty[c[1]] \in Int
        BY <1>2, <3>1 DEF Steady
      <4> QED
        BY <2>1, <3>1, <4>1, <4>2
    <3>2. CASE ~(c[1] \in e.goes /\ c[2] = e.at)
      BY <2>1, <2>2, <3>2
    <3> QED
      BY <3>1, <3>2
  <2>6. i \in Nat
    <3>1. CASE c[1] \in e.goes /\ Expects(e) /\ c[2] = e.onto
      <4>1. e.due[c[1]] \in Int
        BY <1>2, <3>1 DEF Steady
      <4> QED
        BY <2>1, <3>1, <4>1 DEF Positive
    <3>2. CASE ~(c[1] \in e.goes /\ Expects(e) /\ c[2] = e.onto)
      BY <2>1, <3>2
    <3> QED
      BY <3>1, <3>2
  <2>7. Shifted(c, l, e, e.goes) = [exists |-> x, onHand |-> o, incoming |-> i]
    BY DEF Shifted
  <2> HIDE DEF l, x, o, i
  <2>8. Shifted(c, l, e, e.goes) \in Level /\ Shifted(c, l, e, e.goes).onHand = o
    BY <2>4, <2>5, <2>6, <2>7 DEF Level
  <2> QED
    BY <2>5, <2>8 DEF l
<1>7. b.level \in [Cells -> Level]
  BY <1>2, <1>6
<1>8. \A c \in Cells : Reserved[c] <= b.level[c].onHand
  BY <1>2, <1>6
<1>9. b.corrected \in [Skus -> Int]
  <2>1. \A s \in Skus : s \in e.goes => e.qty[s] \in Int
    BY <1>2 DEF Steady
  <2>2. \A s \in Skus : db.corrected[s] \in Int
    BY <1>1
  <2>3. \A s \in Skus : (IF s \in e.goes /\ e.as = "corrected"
                         THEN db.corrected[s] + e.qty[s] ELSE db.corrected[s]) \in Int
    BY <2>1, <2>2
  <2> QED
    BY <1>2, <2>3
<1>10. b \in Rows
  BY <1>2, <1>5, <1>7, <1>9 DEF Rows
<1>11. IsFiniteSet({x \in Docs : b.doc[x].status # "none"})
  <2>1. {x \in Docs : b.doc[x].status # "none"} \subseteq Existing(Docs) \cup {d}
    BY <1>3 DEF Existing
  <2>2. IsFiniteSet(Existing(Docs) \cup {d})
    BY FS_AddElement DEF Types
  <2> QED
    BY <2>1, <2>2, FS_Subset
<1>12. \A x \in Docs : db.doc[x].status # "none" => b.doc[x].status # "none"
  <2>1. \A x \in Docs : \A r \in RowsOf(x) : r # Nothing => r.status # "none"
    <3> USE DEF RowsOf, Transfer, Receipt, Count
    <3> QED
      OBVIOUS
  <2>2. \A x \in Docs : x # NoDoc
    BY DocumentsAssumption
  <2> QED
    BY <1>3, <2>1, <2>2
<1> QED
  BY <1>3, <1>4, <1>8, <1>10, <1>11, <1>12

\* Read, seen by what it leaves: the request it starts.
LEMMA ReadAsks ==
    ASSUME Types, NEW t \in Tx, NEW kind \in Kinds, NEW d \in Targets(kind), Read(t, kind, d)
    PROVE  /\ Asked([kind |-> kind, doc |-> d, seen |-> Snapshot(kind, d)])
           /\ Revises(kind) => Snapshot(kind, d).row = db.doc[d]
<1> DEFINE n == Snapshot(kind, d)
<1>1. kind \in AllKinds
  BY DocumentsAssumption
<1>2. d \in Subject(kind)
  BY <1>1 DEF Targets, Subject, Existing, AllKinds, Creates
<1>3. n.row = (IF d = NoDoc THEN Nothing ELSE db.doc[d])
      /\ n.level = [c \in LevelsRead(kind) |-> db.level[c]]
      /\ n.made = IF kind \in Creates THEN Existing(Table(d)) ELSE {}
  BY DEF Snapshot
<1> HIDE DEF n
<1>4. kind \in Creates => d \notin n.made
  <2> SUFFICES ASSUME kind \in Creates PROVE d \notin n.made
    OBVIOUS
  <2>1. \/ d \in Transfers /\ d \notin Existing(Transfers)
        \/ d \in Receipts /\ d \notin Existing(Receipts)
        \/ d \in Counts /\ d \notin Existing(Counts)
    BY DEF Targets, Creates
  <2>2. d \notin Existing(Table(d))
    BY <2>1, DocumentsAssumption DEF Table, Existing
  <2> QED
    BY <1>3, <2>2
<1>5. ASSUME Revises(kind)
      PROVE  n.row = db.doc[d] /\ n.row \in RowsOf(d) /\ db.doc[d].status # "none"
  <2>1. d \in Docs /\ db.doc[d].status # "none"
    BY <1>1, <1>5 DEF Targets, Existing, Revises, AllKinds, Creates, Docs
  <2>2. d # NoDoc
    BY <2>1, DocumentsAssumption
  <2> QED
    BY <1>3, <2>1, <2>2 DEF Types, Nothing
<1>6. kind \in {"openCount", "post"} => n.level \in [Cells -> Level]
  BY <1>3 DEF LevelsRead, Types, Rows
<1> QED
  BY <1>2, <1>4, <1>5, <1>6 DEF Asked, n

\* The bound counts the requests in flight.
LEMMA BusyCounts ==
    ASSUME NEW B, IsFiniteSet(B), NEW t
    PROVE  /\ IsFiniteSet(B \cup {t}) /\ IsFiniteSet(B \ {t})
           /\ t \notin B => Cardinality(B \cup {t}) = Cardinality(B) + 1
           /\ t \in B => Cardinality(B \ {t}) = Cardinality(B) - 1
           /\ Cardinality(B) \in Nat
           /\ t \in B => Cardinality(B) >= 1
<1>1. IsFiniteSet(B \cup {t}) /\ (t \notin B => Cardinality(B \cup {t}) = Cardinality(B) + 1)
  BY FS_AddElement, FS_CardinalityType
<1>2. IsFiniteSet(B \ {t}) /\ (t \in B => Cardinality(B \ {t}) = Cardinality(B) - 1)
  BY FS_RemoveElement
<1>3. Cardinality(B) \in Nat /\ Cardinality(B \ {t}) \in Nat
  BY <1>2, FS_CardinalityType
<1> QED
  BY <1>1, <1>2, <1>3

LEMMA InitTypes == Init => Types
<1> SUFFICES ASSUME Init PROVE Types
  OBVIOUS
<1> DEFINE L == [c \in Cells |-> [exists |-> Opening[c] > 0, onHand |-> Opening[c], incoming |-> 0]]
<1>1. db.doc = [d \in Docs |-> Nothing] /\ db.level = L /\ db.corrected = [s \in Skus |-> 0]
      /\ db = [doc |-> db.doc, level |-> db.level, corrected |-> db.corrected]
  BY DEF Init
<1>2. \A c \in Cells : Opening[c] \in Nat /\ Reserved[c] \in Nat /\ Reserved[c] <= Opening[c]
  BY DocumentsAssumption
<1>3. L \in [Cells -> Level] /\ \A c \in Cells : L[c].onHand = Opening[c]
  BY <1>2 DEF Level
<1> HIDE DEF L
<1>4. db \in Rows
  BY <1>1, <1>3 DEF Rows
<1>5. \A d \in Docs : db.doc[d] = Nothing
  BY <1>1
<1>6. Existing(Docs) = {}
  BY <1>5 DEF Existing, Nothing
<1>7. run = [t \in Tx |-> Idle] /\ begun = 0 /\ MaxRequests \in Nat
  BY DocumentsAssumption DEF Init
<1>8. Busy = {}
  BY <1>7 DEF Busy
<1>9. IsFiniteSet({}) /\ Cardinality({}) = 0
  BY FS_EmptySet
<1> QED
  BY <1>1, <1>2, <1>3, <1>4, <1>5, <1>6, <1>7, <1>8, <1>9 DEF Types

\* A request starts, and the rest of the rows stay.
LEMMA ReadTypes ==
    ASSUME Types, NEW t \in Tx, NEW kind \in Kinds, NEW d \in Targets(kind), Read(t, kind, d)
    PROVE  Types' /\ Busy' = Busy \cup {t} /\ t \notin Busy
<1> DEFINE r == [kind |-> kind, doc |-> d, seen |-> Snapshot(kind, d)]
<1>1. /\ run[t] = Idle /\ begun < MaxRequests /\ begun' = begun + 1
      /\ run' = [run EXCEPT ![t] = r] /\ db' = db /\ DOMAIN run = Tx
  BY DEF Read, Types
<1>2. Asked(r)
  BY ReadAsks
<1>3. r # Idle
  <2>1. r.kind # "idle"
    BY DocumentsAssumption DEF AllKinds, Creates
  <2> HIDE DEF r
  <2> QED
    BY <2>1 DEF Idle
<1> HIDE DEF r
<1>4. Busy' = Busy \cup {t} /\ t \notin Busy
  BY <1>1, <1>3 DEF Busy
<1>5. \A u \in Tx : run'[u] = Idle \/ Asked(run'[u])
  BY <1>1, <1>2 DEF Types
<1>6. \A u \in Tx : run'[u] = Idle \/ Asked(run[u])' \/ u = t
  BY <1>1 DEF Types, Asked
<1>7. Asked(run[t])'
  BY <1>1, <1>2 DEF Asked
<1>8. begun' \in 0 .. MaxRequests
  BY <1>1, DocumentsAssumption DEF Types
<1>9. IsFiniteSet(Busy') /\ Cardinality(Busy') <= begun'
  <2>1. IsFiniteSet(Busy) /\ Cardinality(Busy) <= begun /\ begun \in Int
    BY DEF Types
  <2> QED
    BY <1>1, <1>4, <2>1, BusyCounts
<1>10. /\ (db \in Rows)'
       /\ (\A x \in Docs : db.doc[x] = Nothing \/ db.doc[x] \in RowsOf(x))'
       /\ (\A c \in Cells : Reserved[c] <= db.level[c].onHand)'
       /\ IsFiniteSet(Existing(Docs))'
  BY <1>1 DEF Types, Existing
<1> QED
  BY <1>1, <1>4, <1>6, <1>7, <1>8, <1>9, <1>10 DEF Types

\* A request ends, with the rows b as it leaves them.
LEMMA EndTypes ==
    ASSUME Types, NEW t \in Tx, run[t] # Idle, run' = [run EXCEPT ![t] = Idle],
           \/ db' = db /\ begun' = begun - 1
           \/ /\ begun' = begun
              /\ db' \in Rows
              /\ \A x \in Docs : db'.doc[x] = Nothing \/ db'.doc[x] \in RowsOf(x)
              /\ \A c \in Cells : Reserved[c] <= db'.level[c].onHand
              /\ IsFiniteSet({x \in Docs : db'.doc[x].status # "none"})
              /\ \A x \in Docs : db.doc[x].status # "none" => db'.doc[x].status # "none"
    PROVE  Types' /\ Busy' = Busy \ {t} /\ t \in Busy
<1>1. DOMAIN run = Tx
  BY DEF Types
<1>2. Busy' = Busy \ {t} /\ t \in Busy
  BY <1>1 DEF Busy
<1>3. IsFiniteSet(Busy) /\ Cardinality(Busy) <= begun /\ begun \in 0 .. MaxRequests
      /\ MaxRequests \in Nat
  BY DocumentsAssumption DEF Types
<1>4. IsFiniteSet(Busy') /\ Cardinality(Busy') <= begun' /\ begun' \in 0 .. MaxRequests
  <2>1. /\ IsFiniteSet(Busy \ {t}) /\ Cardinality(Busy \ {t}) = Cardinality(Busy) - 1
        /\ Cardinality(Busy) \in Nat /\ Cardinality(Busy) >= 1
    BY <1>2, <1>3, BusyCounts
  <2> QED
    BY <1>2, <1>3, <2>1
<1>5. /\ (db \in Rows)'
      /\ (\A x \in Docs : db.doc[x] = Nothing \/ db.doc[x] \in RowsOf(x))'
      /\ (\A c \in Cells : Reserved[c] <= db.level[c].onHand)'
      /\ IsFiniteSet(Existing(Docs))'
  BY DEF Types, Existing
<1>6. \A x \in Docs : db.doc[x].status # "none" => db'.doc[x].status # "none"
  OBVIOUS
<1>7. ASSUME NEW u \in Tx PROVE (run[u] = Idle \/ Asked(run[u]))'
  <2>1. CASE u = t
    BY <1>1, <2>1
  <2>2. CASE u # t
    <3>1. run'[u] = run[u]
      BY <1>1, <2>2
    <3>2. CASE run[u] = Idle
      BY <3>1, <3>2
    <3>3. CASE run[u] # Idle
      <4>1. Asked(run[u])
        BY <3>3 DEF Types
      <4>2. Revises(run[u].kind) => run[u].doc \in Docs
        BY <4>1, KindsAre DEF Revises
      <4>3. Asked(run[u])'
        BY <1>6, <3>1, <4>1, <4>2 DEF Asked
      <4> QED
        BY <4>3
    <3> QED
      BY <3>2, <3>3
  <2> QED
    BY <2>1, <2>2
<1> QED
  BY <1>1, <1>2, <1>4, <1>5, <1>7 DEF Types

\* What Act does: a request that commits a change, or one that leaves none.
LEMMA ActCases ==
    ASSUME Types, NEW t \in Tx, Act(t)
    PROVE  /\ run[t] # Idle /\ Asked(run[t]) /\ run' = [run EXCEPT ![t] = Idle]
           /\ \/ db' = db /\ begun' = begun - 1 /\ torn' = torn
              \/ /\ begun' = begun /\ Explained(run[t], db') /\ db' # db
                 /\ torn' = IF Stale(run[t]) THEN torn \cup {run[t].doc} ELSE torn
<1>1. run[t] # Idle /\ Asked(run[t]) /\ run' = [run EXCEPT ![t] = Idle]
  BY DEF Act, Types
<1>2. PICK arg \in Inputs(run[t].kind) :
         LET x == Outcomes(run[t], arg) IN
         IF x.ok /\ x.db # db
         THEN /\ db' = x.db
              /\ torn' = IF Stale(run[t]) THEN torn \cup {run[t].doc} ELSE torn
              /\ UNCHANGED begun
         ELSE UNCHANGED <<db, torn>> /\ begun' = begun - 1
  BY DEF Act, Outcomes
<1>3. CASE Outcomes(run[t], arg).ok /\ Outcomes(run[t], arg).db # db
  <2>1. Explained(run[t], Outcomes(run[t], arg).db)
    BY <1>1, <1>3, ActIs
  <2> QED
    BY <1>1, <1>2, <1>3, <2>1
<1> QED
  BY <1>1, <1>2, <1>3

LEMMA ActTypes ==
    ASSUME Types, NEW t \in Tx, Act(t)
    PROVE  Types' /\ Busy' = Busy \ {t} /\ t \in Busy
<1>1. /\ run[t] # Idle /\ Asked(run[t]) /\ run' = [run EXCEPT ![t] = Idle]
      /\ \/ db' = db /\ begun' = begun - 1
         \/ begun' = begun /\ Explained(run[t], db')
  BY ActCases
<1>2. CASE db' = db /\ begun' = begun - 1
  BY <1>1, <1>2, EndTypes
<1>3. CASE begun' = begun /\ Explained(run[t], db')
  <2> DEFINE d == run[t].doc
  <2>1. PICK new, e : /\ Changes(db, db', d, new, e)
                      /\ Wrote(run[t].kind, d, run[t].seen, RowOf(db, d), new, e)
    BY <1>3 DEF Explained
  <2>2. Rowed(run[t].kind, d, run[t].seen, RowOf(db, d))
    BY <1>1, RequestsAreRowed
  <2>3. IF run[t].kind = "adjust" THEN d = NoDoc ELSE new \in RowsOf(d) /\ new # Nothing
    BY <2>1, <2>2, WroteTyped
  <2>4. d \in Docs \cup {NoDoc}
    BY <1>1, KindsAre
  <2>5. d # NoDoc => new \in RowsOf(d) /\ new # Nothing
    BY <2>3
  <2> HIDE DEF d
  <2> DEFINE b == db'
  <2>6. Changes(db, b, d, new, e)
    BY <2>1
  <2> HIDE DEF b
  <2>7. /\ b \in Rows
        /\ \A x \in Docs : b.doc[x] = IF x = d THEN new ELSE db.doc[x]
        /\ \A x \in Docs : b.doc[x] = Nothing \/ b.doc[x] \in RowsOf(x)
        /\ \A c \in Cells : Reserved[c] <= b.level[c].onHand
        /\ IsFiniteSet({x \in Docs : b.doc[x].status # "none"})
        /\ \A x \in Docs : db.doc[x].status # "none" => b.doc[x].status # "none"
    BY <2>4, <2>5, <2>6, ChangesTyped
  <2> QED
    BY <1>1, <1>3, <2>7, EndTypes DEF b
<1> QED
  BY <1>1, <1>2, <1>3

LEMMA StepTypes == Types /\ [Next]_vars => Types'
<1> SUFFICES ASSUME Types, [Next]_vars PROVE Types'
  OBVIOUS
<1>1. ASSUME NEW t \in Tx, NEW kind \in Kinds, NEW d \in Targets(kind), Read(t, kind, d)
      PROVE  Types'
  BY <1>1, ReadTypes
<1>2. ASSUME NEW t \in Tx, Act(t) PROVE Types'
  BY <1>2, ActTypes
<1>3. ASSUME NEW t \in Tx, Abort(t) PROVE Types'
  BY <1>3, EndTypes DEF Abort
<1>4. CASE UNCHANGED vars
  BY <1>4 DEF vars, Types, Existing, Busy, Asked
<1> QED
  BY <1>1, <1>2, <1>3, <1>4 DEF Next

-----------------------------------------------------------------------------
(***************************************************************************)
(* Requests overlap on a document as they like: what one of them writes    *)
(* may rest on a row that another has written since, and then the goods    *)
(* need not keep step with the row.  They still do for every sku the       *)
(* document does not list.                                                 *)
(***************************************************************************)

InStep(d, old, new, e, s) ==
    /\ Balanced(d, old, new, e, s)
    /\ Over(d, old, s) => Over(d, new, s)
    /\ \A w \in Warehouses : Expected(d, old, new, e, s, w)

\* Of what a document does not list nothing arrives.
Listed(row) == \A s \in Skus : row.qty[s] = 0 => row.received[s] = 0

\* Nothing of a draft has arrived, and of no document what it does not list.
Arrivals ==
    \A d \in Existing(Transfers \cup Receipts) : Untouched(d, db.doc[d]) /\ Listed(db.doc[d])

\* What a document lists is what it listed when a request read it.
SameItems ==
    \A t \in Busy : Revises(run[t].kind) /\ run[t].doc \in Transfers \cup Receipts =>
        run[t].seen.row.qty = db.doc[run[t].doc].qty

TornExist == torn \subseteq Existing(Transfers \cup Receipts)

IInv == Types /\ Arrivals /\ SameItems /\ TornExist

\* A request that revises a transfer or a receipt moves only what the document
\* listed when it was read, changes nothing of what it lists, and leaves no
\* draft.
LEMMA Revised ==
    ASSUME NEW kind, NEW d \in Transfers \cup Receipts, NEW n, NEW old, NEW new, NEW e,
           Rowed(kind, d, n, old), Wrote(kind, d, n, old, new, e), Revises(kind)
    PROVE  /\ e.goes \subseteq Items(n.row)
           /\ new.qty = old.qty /\ new.status \notin {"draft", "none"}
           /\ \A s \in Skus : s \notin e.goes => new.received[s] = old.received[s]
<1>1. kind \in {"dispatch", "receive", "cancelTransfer", "confirm", "cancelReceipt"}
  BY DocumentsAssumption DEF Rowed, AllKinds, Revises, Creates
<1>2. old \in Transfer \/ old \in Receipt
  BY DEF Rowed
<1>3. Still.goes = {}
  BY DEF Still
<1>4. CASE kind = "dispatch"
  <2>1. e = Sending(n.row) /\ new = WithStatus(old, "in_transit")
    BY <1>4 DEF Wrote
  <2>2. e.goes \subseteq Items(n.row)
    BY <2>1 DEF Sending
  <2> QED
    BY <1>2, <2>1, <2>2, StatusWritten
<1>5. CASE kind = "receive"
  <2>1. PICK declared \in [Skus -> Nat] :
           /\ e = Landing(n.row, declared, d)
           /\ LET after == Booked(old, e, e.goes) IN
              new = WithStatus(after, IF AllArrived(after) THEN "received" ELSE "in_transit")
    BY <1>5 DEF Wrote
  <2>2. e.received = declared /\ e.goes \subseteq Items(n.row)
    BY <2>1 DEF Landing
  <2> DEFINE after == Booked(old, e, e.goes)
  <2>3. \A s \in Skus : s \in e.goes => e.received[s] \in Nat
    BY <2>2
  <2>4. /\ after \in Transfer \/ after \in Receipt
        /\ after.qty = old.qty
        /\ after.received = [s \in Skus |-> IF s \in e.goes THEN e.received[s] ELSE old.received[s]]
    <3>1. after \in Transfer \/ after \in Receipt
      BY <1>2, <2>3, RowsTyped
    <3> QED
      BY <1>2, <3>1, ReceivedWritten
  <2>5. new = WithStatus(after, "received") \/ new = WithStatus(after, "in_transit")
    BY <2>1
  <2> HIDE DEF after
  <2>6. new.qty = after.qty /\ new.received = after.received /\ new.status \in {"received", "in_transit"}
    BY <2>4, <2>5, StatusWritten
  <2> QED
    BY <2>2, <2>4, <2>6
<1>6. CASE kind = "cancelTransfer"
  <2>1. new = WithStatus(old, "cancelled") /\ (e = Still \/ e = Returning(n.row))
    BY <1>6 DEF Wrote
  <2>2. e.goes \subseteq Items(n.row)
    BY <1>3, <2>1 DEF Returning
  <2> QED
    BY <1>2, <2>1, <2>2, StatusWritten
<1>7. CASE kind = "confirm"
  <2>1. e = Confirming(n.row, d) /\ new = WithStatus(Booked(old, e, e.goes), "received")
    BY <1>7 DEF Wrote
  <2>2. e.received = n.row.qty /\ e.goes \subseteq Items(n.row) /\ Items(n.row) \subseteq Skus
    BY <2>1 DEF Confirming, Items
  <2>3. n.row \in Receipt /\ old \in Receipt
    <3>1. d \in Receipts
      BY <1>7 DEF Rowed
    <3> QED
      BY <3>1 DEF Rowed
  <2> DEFINE after == Booked(old, e, e.goes)
  <2>4. \A s \in Skus : s \in e.goes => e.received[s] \in Nat
    BY <2>2, <2>3 DEF Receipt
  <2>5. after \in Receipt
    BY <2>3, <2>4, RowsTyped
  <2>6. /\ after.qty = old.qty
        /\ after.received = [s \in Skus |-> IF s \in e.goes THEN e.received[s] ELSE old.received[s]]
    BY <2>3, ReceivedWritten
  <2>7. new = WithStatus(after, "received")
    BY <2>1
  <2> HIDE DEF after
  <2>8. new.qty = after.qty /\ new.received = after.received /\ new.status = "received"
    BY <2>5, <2>7, StatusWritten
  <2> QED
    BY <2>2, <2>6, <2>8
<1>8. CASE kind = "cancelReceipt"
  <2>1. new = WithStatus(old, "cancelled") /\ e = Still
    BY <1>8 DEF Wrote
  <2> QED
    BY <1>2, <1>3, <2>1, StatusWritten
<1> QED
  BY <1>1, <1>4, <1>5, <1>6, <1>7, <1>8

\* A request that revises nothing, and is no adjustment, creates.
LEMMA Creating ==
    ASSUME NEW kind, NEW d, NEW n, NEW old, NEW new, NEW e,
           Rowed(kind, d, n, old), Wrote(kind, d, n, old, new, e), ~Revises(kind)
    PROVE  /\ old = Nothing
           /\ d \in Transfers \cup Receipts => Listed(new)
<1>1. kind \in {"createTransfer", "createReceipt", "receiveStock", "openCount", "adjust"}
  BY DEF Rowed, AllKinds, Revises, Creates
<1>2. old = Nothing
  BY <1>1 DEF Wrote
<1>3. CASE kind = "createTransfer"
  <2>1. PICK arg \in [from : Warehouses, to : Warehouses, qty : [Skus -> Nat]] :
           new = DraftTransfer(arg)
    BY <1>3 DEF Wrote
  <2> QED
    BY <1>2, <2>1 DEF Listed, DraftTransfer
<1>4. CASE kind = "createReceipt"
  <2>1. PICK arg \in [to : Warehouses, qty : [Skus -> Nat], confirm : BOOLEAN] :
           \/ e = Still /\ new = Draft(arg)
           \/ /\ e = Confirming(Draft(arg), d)
              /\ new = WithStatus(Booked(Draft(arg), e, e.goes), "received")
    BY <1>4 DEF Wrote
  <2> DEFINE draft == Draft(arg)
             after == Booked(draft, e, e.goes)
  <2>2. /\ draft \in Receipt /\ draft.qty = arg.qty
        /\ draft.received = [s \in Skus |-> 0]
    BY DEF Draft, Receipt
  <2>3. Listed(draft)
    BY <2>2 DEF Listed
  <2> HIDE DEF draft
  <2>4. ASSUME e = Confirming(draft, d), new = WithStatus(after, "received") PROVE Listed(new)
    <3>1. e.received = draft.qty /\ e.goes \subseteq Skus
      BY <2>4 DEF Confirming, Items
    <3>2. \A s \in Skus : s \in e.goes => e.received[s] \in Nat
      BY <2>2, <3>1 DEF Receipt
    <3>3. after \in Receipt /\ after.qty = draft.qty
          /\ after.received = [s \in Skus |-> IF s \in e.goes THEN e.received[s] ELSE draft.received[s]]
      BY <2>2, <3>2, RowsTyped, ReceivedWritten
    <3> HIDE DEF after
    <3>4. new.qty = after.qty /\ new.received = after.received
      BY <2>4, <3>3, StatusWritten
    <3> QED
      BY <2>2, <3>1, <3>3, <3>4 DEF Listed
  <2> QED
    BY <1>2, <2>1, <2>3, <2>4 DEF draft
<1>5. CASE kind = "receiveStock"
  <2>1. PICK arg \in [to : Warehouses, qty : [Skus -> Nat]] : new = Purchase(arg)
    BY <1>5 DEF Wrote
  <2> QED
    BY <1>2, <2>1 DEF Listed, Purchase
<1>6. CASE kind \in {"openCount", "adjust"}
  <2>1. d \notin Transfers \cup Receipts
    BY <1>6, DocumentsAssumption DEF Rowed, Docs
  <2> QED
    BY <1>2, <2>1
<1> QED
  BY <1>1, <1>3, <1>4, <1>5, <1>6

\* A sku the document does not list, whatever row was read of it.
LEMMA UnlistedInStep ==
    ASSUME NEW kind, NEW d \in Transfers \cup Receipts, NEW n, NEW old, NEW new, NEW e, NEW s \in Skus,
           Rowed(kind, d, n, old), Wrote(kind, d, n, old, new, e), Revises(kind),
           n.row.qty = old.qty, Listed(old), s \notin Items(new)
    PROVE  InStep(d, old, new, e, s)
<1>1. /\ e.goes \subseteq Items(n.row)
      /\ new.qty = old.qty /\ new.status \notin {"draft", "none"}
      /\ \A x \in Skus : x \notin e.goes => new.received[x] = old.received[x]
  BY Revised
<1>2. old \in Transfer \/ old \in Receipt
  BY DEF Rowed
<1>3. old.qty[s] \in Nat
  BY <1>2 DEF Transfer, Receipt
<1>4. old.qty[s] = 0 /\ new.qty[s] = 0
  BY <1>1, <1>3 DEF Items
<1>5. s \notin e.goes
  BY <1>1, <1>4 DEF Items
<1>6. old.received[s] = 0 /\ new.received[s] = 0
  BY <1>1, <1>4, <1>5 DEF Listed
<1>7. Owing(old, s) = 0 /\ Owing(new, s) = 0
  BY <1>4, <1>6 DEF Owing
<1>8. Net(d, old, s) = 0 /\ Net(d, new, s) = 0 /\ Into(e, s) = 0
  <2>1. Away(old, s) = 0 /\ Away(new, s) = 0
    BY <1>7 DEF Away, Lesser
  <2>2. ASSUME NEW row, Away(row, s) = 0, row.qty[s] = 0 PROVE Net(d, row, s) = 0
    <3>1. \A k \in Int : k <= 0 /\ k >= 0 => -k = 0
      OBVIOUS
    <3>2. row.qty[s] \in Int /\ row.qty[s] <= 0 /\ row.qty[s] >= 0
      BY <2>2
    <3> DEFINE k == row.qty[s]
    <3>3. -k = 0
      <4> HIDE DEF k
      <4>1. k \in Int /\ k <= 0 /\ k >= 0
        BY <3>2 DEF k
      <4> QED
        BY ONLY <3>1, <4>1
    <3> HIDE DEF k
    <3>4. Net(d, row, s) \in {0, -k}
      BY <2>2 DEF Net, k
    <3> QED
      BY <3>3, <3>4
  <2> QED
    BY <1>4, <1>5, <2>1, <2>2 DEF Into
<1>9. ~Over(d, old, s) /\ \A w : Owed(d, old, s, w) = 0 /\ Owed(d, new, s, w) = 0
  BY <1>7 DEF Over, Owed, Positive
<1> QED
  BY <1>5, <1>8, <1>9 DEF InStep, Balanced, Expected

\* A count, or no document, weighs nothing, whatever row was read of it.
LEMMA CountInStep ==
    ASSUME NEW kind, NEW d, d \notin Transfers \cup Receipts, NEW n, NEW old, NEW new, NEW e,
           NEW s \in Skus, Rowed(kind, d, n, old), Wrote(kind, d, n, old, new, e)
    PROVE  InStep(d, old, new, e, s)
<1>1. kind \in {"openCount", "saveLines", "post", "cancelCount", "adjust"}
  BY DEF Rowed, AllKinds, Creates
<1>2. e.as = "corrected" \/ e = Still
  <2>1. CASE kind = "adjust"
    <3>1. PICK arg \in [sku : Skus, at : Warehouses, delta : Int] : e = Adjusting(arg)
      BY <2>1 DEF Wrote
    <3> QED
      BY <3>1 DEF Adjusting
  <2>2. CASE kind # "adjust"
    BY <1>1, <2>2 DEF Wrote, Correcting
  <2> QED
    BY <2>1, <2>2
<1>3. Into(e, s) = 0 /\ ~Expects(e)
  BY <1>2 DEF Into, Expects, Still
<1>4. Net(d, old, s) = 0 /\ Net(d, new, s) = 0
  BY DEF Net
<1> QED
  BY <1>3, <1>4 DEF InStep, Balanced, Expected, Over, Owed

-----------------------------------------------------------------------------
(* What a step makes of the rows: nothing, or what one request wrote.      *)

\* The rows b of after, when request r commits.
Commits(r, new, e, b) ==
    /\ Changes(db, b, r.doc, new, e)
    /\ Wrote(r.kind, r.doc, r.seen, RowOf(db, r.doc), new, e)
    /\ Rowed(r.kind, r.doc, r.seen, RowOf(db, r.doc))
    /\ r.doc \in Docs \cup {NoDoc}
    /\ r.doc # NoDoc => new \in RowsOf(r.doc) /\ new # Nothing
    /\ \A x \in Docs : b.doc[x] = IF x = r.doc THEN new ELSE db.doc[x]
    /\ r.doc \in Transfers \cup Receipts => Untouched(r.doc, new) /\ Listed(new)
    /\ \A s \in Skus : (Stale(r) => s \notin Items(new)) =>
          InStep(r.doc, RowOf(db, r.doc), new, e, s)

\* The step of transaction t that commits.
Ends(t) ==
    /\ run[t] # Idle /\ Asked(run[t]) /\ run' = [run EXCEPT ![t] = Idle]
    /\ torn' = IF Stale(run[t]) THEN torn \cup {run[t].doc} ELSE torn

\* The row a request found of its document, as far as what it lists goes.
LEMMA OldRow ==
    ASSUME IInv, NEW t \in Tx, run[t] # Idle, run[t].doc \in Transfers \cup Receipts
    PROVE  LET r == run[t]
               old == RowOf(db, r.doc)
           IN  /\ old = db.doc[r.doc] /\ Untouched(r.doc, old)
               /\ Revises(r.kind) => Listed(old) /\ r.seen.row.qty = old.qty
<1> DEFINE r == run[t]
           old == RowOf(db, r.doc)
<1>1. r.doc # NoDoc /\ r.doc \in Docs
  BY DocumentsAssumption DEF Docs
<1>2. old = db.doc[r.doc]
  BY <1>1 DEF RowOf
<1>3. t \in Busy /\ Asked(r)
  BY DEF Busy, IInv, Types
<1>4. Revises(r.kind) => r.doc \in Existing(Transfers \cup Receipts) /\ r.seen.row.qty = old.qty
  BY <1>2, <1>3 DEF IInv, SameItems, Asked, Existing
<1>5. Untouched(r.doc, old)
  <2>1. CASE db.doc[r.doc].status = "draft"
    BY <1>2, <2>1 DEF IInv, Arrivals, Existing
  <2> QED
    BY <1>2, <2>1 DEF Untouched
<1> QED
  BY <1>2, <1>4, <1>5 DEF IInv, Arrivals

LEMMA ActCommits ==
    ASSUME IInv, NEW t \in Tx, Act(t), db' # db
    PROVE  Ends(t) /\ \E new, e : Commits(run[t], new, e, db')
<1> DEFINE r == run[t]
           d == r.doc
           n == r.seen
           old == RowOf(db, d)
<1>1. Types
  BY DEF IInv
<1>2. Ends(t) /\ Explained(r, db')
  BY <1>1, ActCases DEF Ends
<1>3. PICK new, e : Changes(db, db', d, new, e) /\ Wrote(r.kind, d, n, old, new, e)
  BY <1>2 DEF Explained
<1>4. Rowed(r.kind, d, n, old)
  BY <1>1, <1>2, RequestsAreRowed DEF Ends
<1>5. d \in Docs \cup {NoDoc} /\ (d # NoDoc => new \in RowsOf(d) /\ new # Nothing)
  <2>1. IF r.kind = "adjust" THEN d = NoDoc ELSE new \in RowsOf(d) /\ new # Nothing
    BY <1>3, <1>4, WroteTyped
  <2> QED
    BY <1>1, <1>2, <2>1, KindsAre DEF Ends
<1>6. \A x \in Docs : db'.doc[x] = IF x = d THEN new ELSE db.doc[x]
  <2>1. DOMAIN db.doc = Docs /\ NoDoc \notin Docs
    BY <1>1, DocumentsAssumption DEF Types, Rows
  <2>2. db'.doc = IF d = NoDoc THEN db.doc ELSE [db.doc EXCEPT ![d] = new]
    BY <1>3 DEF Changes
  <2> HIDE DEF d
  <2> QED
    BY <2>1, <2>2
<1>7. ASSUME d \in Transfers \cup Receipts
      PROVE  /\ old = db.doc[d] /\ Untouched(d, old)
             /\ Revises(r.kind) => Listed(old) /\ n.row.qty = old.qty
  BY <1>2, <1>7, OldRow DEF Ends
<1>8. ASSUME d \in Transfers \cup Receipts, ~Revises(r.kind) \/ n.row = old
      PROVE  Sound(d, old, new, e)
  <2>1. Untouched(d, old)
    BY <1>7, <1>8
  <2>2. Revises(r.kind) => n.row = old
    BY <1>8
  <2> HIDE DEF d, n, old
  <2> QED
    BY <1>3, <1>4, <2>1, <2>2, WroteSound
<1>9. d \in Transfers \cup Receipts => Untouched(d, new) /\ Listed(new)
  <2> SUFFICES ASSUME d \in Transfers \cup Receipts PROVE Untouched(d, new) /\ Listed(new)
    OBVIOUS
  <2>1. CASE ~Revises(r.kind)
    <3>1. Untouched(d, new)
      BY <1>8, <2>1 DEF Sound
    <3>2. Listed(new)
      <4> HIDE DEF d, n, old
      <4> QED
        BY <1>3, <1>4, <2>1, Creating
    <3> QED
      BY <3>1, <3>2
  <2>2. CASE Revises(r.kind)
    <3>1. /\ e.goes \subseteq Items(n.row)
          /\ new.qty = old.qty /\ new.status \notin {"draft", "none"}
          /\ \A s \in Skus : s \notin e.goes => new.received[s] = old.received[s]
      <4> HIDE DEF d, n, old
      <4> QED
        BY <1>3, <1>4, <2>2, Revised
    <3>2. Listed(old) /\ n.row.qty = old.qty
      BY <1>7, <2>2
    <3> HIDE DEF d, n, old
    <3>3. Listed(new)
      BY <3>1, <3>2 DEF Listed, Items
    <3> QED
      BY <3>1, <3>3 DEF Untouched
  <2> QED
    BY <2>1, <2>2
<1>10. ASSUME NEW s \in Skus, Stale(r) => s \notin Items(new) PROVE InStep(d, old, new, e, s)
  <2>1. CASE d \notin Transfers \cup Receipts
    <3> HIDE DEF d, n, old
    <3> QED
      BY <1>3, <1>4, <2>1, CountInStep
  <2>2. CASE d \in Transfers \cup Receipts /\ (~Revises(r.kind) \/ n.row = old)
    <3>1. Sound(d, old, new, e)
      BY <1>8, <2>2
    <3> HIDE DEF d, n, old
    <3> QED
      BY <3>1 DEF Sound, InStep
  <2>3. CASE d \in Transfers \cup Receipts /\ Revises(r.kind) /\ n.row # old
    <3>1. s \notin Items(new)
      BY <1>7, <1>10, <2>3 DEF Stale
    <3>2. Listed(old) /\ n.row.qty = old.qty
      BY <1>7, <2>3
    <3> HIDE DEF d, n, old
    <3> QED
      BY <1>3, <1>4, <2>3, <3>1, <3>2, UnlistedInStep
  <2> QED
    BY <2>1, <2>2, <2>3
<1>11. Commits(r, new, e, db')
  BY <1>3, <1>4, <1>5, <1>6, <1>9, <1>10 DEF Commits
<1> QED
  BY <1>2, <1>11

LEMMA StepIs ==
    ASSUME IInv, [Next]_vars
    PROVE  IF db' = db THEN torn' = torn
           ELSE \E t \in Tx : Ends(t) /\ \E new, e : Commits(run[t], new, e, db')
<1>1. CASE db' = db
  <2>1. ASSUME NEW t \in Tx, Act(t) PROVE torn' = torn
    BY <1>1, <2>1, ActCases DEF IInv
  <2> QED
    BY <1>1, <2>1 DEF Next, vars, Read, Abort
<1>2. CASE db' # db
  <2>1. PICK t \in Tx : Act(t)
    BY <1>2 DEF Next, vars, Read, Abort
  <2> QED
    BY <1>2, <2>1, ActCommits
<1> QED
  BY <1>1, <1>2

-----------------------------------------------------------------------------
(* The inductive invariant.                                                *)

LEMMA InitIs == Init => IInv
<1> SUFFICES ASSUME Init PROVE IInv
  OBVIOUS
<1>1. Busy = {} /\ torn = {}
  BY DEF Init, Busy
<1>2. Existing(Transfers \cup Receipts) = {}
  BY DEF Init, Existing, Nothing, Docs
<1> QED
  BY <1>1, <1>2, InitTypes DEF IInv, Arrivals, SameItems, TornExist

LEMMA ReadKeeps ==
    ASSUME IInv, NEW t \in Tx, NEW kind \in Kinds, NEW d \in Targets(kind), Read(t, kind, d)
    PROVE  IInv'
<1> DEFINE r == [kind |-> kind, doc |-> d, seen |-> Snapshot(kind, d)]
<1>1. Types' /\ Busy' = Busy \cup {t} /\ t \notin Busy
  BY ReadTypes DEF IInv
<1>2. run' = [run EXCEPT ![t] = r] /\ db' = db /\ torn' = torn /\ DOMAIN run = Tx
  BY DEF Read, IInv, Types
<1>3. Revises(kind) => r.seen.row = db.doc[d]
  BY ReadAsks DEF IInv
<1>4. r.kind = kind /\ r.doc = d
  OBVIOUS
<1> HIDE DEF r
<1>5. run'[t] = r /\ \A u \in Busy : u # t /\ run'[u] = run[u]
  BY <1>1, <1>2 DEF Busy
<1>6. SameItems'
  BY <1>1, <1>2, <1>3, <1>4, <1>5 DEF IInv, SameItems
<1>7. Arrivals' /\ TornExist'
  BY <1>2 DEF IInv, Arrivals, TornExist, Existing
<1> QED
  BY <1>1, <1>6, <1>7 DEF IInv

\* A request that leaves no change, or none at all.
LEMMA NothingKeeps ==
    ASSUME IInv, Types', db' = db, torn' = torn,
           run' = run \/ \E t \in Tx : run' = [run EXCEPT ![t] = Idle]
    PROVE  IInv'
<1>1. \A u \in Busy' : u \in Busy /\ run'[u] = run[u]
  BY DEF IInv, Types, Busy
<1>2. SameItems'
  BY <1>1 DEF IInv, SameItems
<1>3. Arrivals' /\ TornExist'
  BY DEF IInv, Arrivals, TornExist, Existing
<1> QED
  BY <1>2, <1>3 DEF IInv

\* A transfer or a receipt that exists keeps what it lists.
LEMMA ItemsKept ==
    ASSUME IInv, NEW t \in Tx, Ends(t), NEW new, NEW e, Commits(run[t], new, e, db'),
           NEW x \in Existing(Transfers \cup Receipts)
    PROVE  db'.doc[x].qty = db.doc[x].qty /\ x \in Existing(Transfers \cup Receipts)'
<1> DEFINE r == run[t]
           d == r.doc
           n == r.seen
           old == RowOf(db, d)
<1>1. x \in Docs /\ x # NoDoc /\ x \in Transfers \cup Receipts /\ db.doc[x].status # "none"
  BY DocumentsAssumption DEF Existing, Docs
<1>2. db'.doc[x] = IF x = d THEN new ELSE db.doc[x]
  BY <1>1 DEF Commits
<1>3. CASE x # d
  BY <1>1, <1>2, <1>3 DEF Existing
<1>4. CASE x = d
  <2>1. old = db.doc[x] /\ old # Nothing /\ d \in Transfers \cup Receipts
    BY <1>1, <1>4 DEF RowOf, Nothing
  <2>2. Rowed(r.kind, d, n, old) /\ Wrote(r.kind, d, n, old, new, e)
    BY DEF Commits
  <2>3. new.qty = old.qty /\ new.status # "none"
    <3> HIDE DEF d, n, old, r
    <3>1. Revises(r.kind)
      BY <2>1, <2>2, Creating
    <3>2. /\ e.goes \subseteq Items(n.row)
          /\ new.qty = old.qty /\ new.status \notin {"draft", "none"}
          /\ \A s \in Skus : s \notin e.goes => new.received[s] = old.received[s]
      BY <2>1, <2>2, <3>1, Revised
    <3> QED
      BY <3>2
  <2> QED
    BY <1>1, <1>2, <1>4, <2>1, <2>3 DEF Existing
<1> QED
  BY <1>3, <1>4

LEMMA CommitKeeps ==
    ASSUME IInv, Types', NEW t \in Tx, Ends(t), NEW new, NEW e, Commits(run[t], new, e, db')
    PROVE  IInv'
<1> DEFINE d == run[t].doc
           E == Existing(Transfers \cup Receipts)
<1>1. \A x \in E : db'.doc[x].qty = db.doc[x].qty /\ x \in E'
  BY ItemsKept
<1>2. \A x \in Docs : db'.doc[x] = IF x = d THEN new ELSE db.doc[x]
  BY DEF Commits
<1>3. Arrivals'
  <2> SUFFICES ASSUME NEW x \in E' PROVE Untouched(x, db'.doc[x]) /\ Listed(db'.doc[x])
    BY DEF Arrivals
  <2>1. x \in Transfers \cup Receipts /\ x \in Docs /\ db'.doc[x].status # "none"
    BY DEF Existing, Docs
  <2>2. CASE x = d
    BY <1>2, <2>1, <2>2 DEF Commits
  <2>3. CASE x # d
    <3>1. db'.doc[x] = db.doc[x] /\ x \in E
      BY <1>2, <2>1, <2>3 DEF Existing
    <3> QED
      BY <3>1 DEF IInv, Arrivals
  <2> QED
    BY <2>2, <2>3
<1>4. SameItems'
  <2> SUFFICES ASSUME NEW u \in Busy', Revises(run'[u].kind), run'[u].doc \in Transfers \cup Receipts
               PROVE  run'[u].seen.row.qty = db'.doc[run'[u].doc].qty
    BY DEF SameItems
  <2>1. u \in Busy /\ run'[u] = run[u]
    BY DEF Ends, IInv, Types, Busy
  <2>2. Asked(run[u])
    BY <2>1 DEF IInv, Types, Busy
  <2>3. run[u].doc \in E
    BY <2>1, <2>2 DEF Asked, Existing
  <2> QED
    BY <1>1, <2>1, <2>3 DEF IInv, SameItems
<1>5. TornExist'
  <2>1. torn \subseteq E'
    BY <1>1 DEF IInv, TornExist
  <2>2. Stale(run[t]) => d \in E'
    <3> SUFFICES ASSUME Stale(run[t]) PROVE d \in E'
      OBVIOUS
    <3>1. d \in Transfers \cup Receipts /\ d \in Docs /\ d # NoDoc
      BY DocumentsAssumption DEF Stale, Docs
    <3>2. db'.doc[d] = new /\ new \in RowsOf(d)
      BY <1>2, <3>1 DEF Commits
    <3>3. new.status # "none"
      BY <3>1, <3>2, DocumentsAssumption DEF RowsOf, Transfer, Receipt
    <3> QED
      BY <3>1, <3>2, <3>3 DEF Existing
  <2> QED
    BY <2>1, <2>2 DEF Ends, TornExist
<1> QED
  BY <1>3, <1>4, <1>5 DEF IInv

\* What requests that overlap on one document leave of it: the types, what it
\* lists, and that nothing arrives of what it does not list.
THEOREM Inductive == Spec => []IInv
<1>1. IInv /\ [Next]_vars => IInv'
  <2> SUFFICES ASSUME IInv, [Next]_vars PROVE IInv'
    OBVIOUS
  <2>1. Types'
    BY StepTypes DEF IInv
  <2>2. CASE db' # db
    <3>1. PICK t \in Tx : Ends(t) /\ \E new, e : Commits(run[t], new, e, db')
      BY <2>2, StepIs
    <3>2. PICK new, e : Commits(run[t], new, e, db')
      BY <3>1
    <3> QED
      BY <2>1, <3>1, <3>2, CommitKeeps
  <2>3. CASE db' = db
    <3>1. torn' = torn
      BY <2>3, StepIs
    <3>2. ASSUME NEW t \in Tx, Act(t) PROVE IInv'
      <4>1. run' = [run EXCEPT ![t] = Idle]
        BY <3>2, ActCases DEF IInv
      <4> QED
        BY <2>1, <2>3, <3>1, <4>1, NothingKeeps
    <3>3. ASSUME NEW t \in Tx, Abort(t) PROVE IInv'
      BY <2>1, <2>3, <3>1, <3>3, NothingKeeps DEF Abort
    <3>4. CASE UNCHANGED vars
      BY <2>1, <3>4, NothingKeeps DEF vars
    <3>5. ASSUME NEW t \in Tx, NEW kind \in Kinds, NEW d \in Targets(kind), Read(t, kind, d)
          PROVE  IInv'
      BY <3>5, ReadKeeps
    <3> QED
      BY <3>2, <3>3, <3>4, <3>5 DEF Next
  <2> QED
    BY <2>2, <2>3
<1> QED
  BY <1>1, InitIs, PTL DEF Spec

\* The rows, the levels and the requests have their types, and no level falls
\* below zero or below what is reserved of it, whichever requests overlap.
THEOREM TypeCorrect == Spec => []TypeOK
<1>1. IInv => TypeOK
  <2> SUFFICES ASSUME IInv PROVE TypeOK
    OBVIOUS
  <2>1. \A d \in Existing(Docs) :
          db.doc[d] \in CASE d \in Transfers -> Transfer
                         [] d \in Receipts  -> Receipt
                         [] d \in Counts    -> Count
    BY DEF IInv, Types, RowsOf, Existing, Nothing, Docs
  <2> QED
    BY <2>1 DEF IInv, Types, TypeOK, Asked, TornExist
<1> QED
  BY <1>1, Inductive, PTL

-----------------------------------------------------------------------------
(* Closed documents, and posts.                                            *)

\* A request that commits is the transaction that ends in the step.
LEMMA EndIsCommit ==
    ASSUME IInv, NEW t \in Tx, Ends(t), db' # db
    PROVE  /\ Commit(t)
           /\ \A u \in Tx : Commit(u) => u = t
<1>1. DOMAIN run = Tx
  BY DEF IInv, Types
<1>2. run'[t] = Idle /\ \A u \in Tx : u # t => run'[u] = run[u]
  BY <1>1 DEF Ends
<1> QED
  BY <1>2 DEF Commit, Ends

\* The status a request finds is changed from closed only if it read another.
LEMMA ClosesOnce ==
    ASSUME NEW kind, NEW d, NEW n, NEW old, NEW new, NEW e,
           Rowed(kind, d, n, old), Wrote(kind, d, n, old, new, e),
           old.status \in {"received", "posted", "cancelled"}, new.status # old.status
    PROVE  n.row.status # old.status
<1>1. Revises(kind)
  BY Creating DEF Nothing
<1>2. kind \in {"dispatch", "receive", "cancelTransfer", "confirm", "cancelReceipt",
                "saveLines", "post", "cancelCount"}
  BY <1>1 DEF Rowed, AllKinds, Revises, Creates
<1>3. CASE kind \in {"dispatch", "receive", "cancelTransfer", "confirm", "post"}
  BY <1>3 DEF Wrote
<1>4. CASE kind = "cancelReceipt"
  <2>1. old \in Receipt /\ new = WithStatus(old, "cancelled")
        /\ n.row.status \in {"draft", "cancelled"}
    BY <1>1, <1>4 DEF Wrote, Rowed
  <2>2. new.status = "cancelled"
    BY <2>1, StatusWritten
  <2> QED
    BY <2>1, <2>2
<1>5. CASE kind = "saveLines"
  <2>1. PICK s \in Skus, found \in Nat \cup {Uncounted} : new = Lined(old, s, found, n.row.status)
    BY <1>5 DEF Wrote
  <2>2. old \in Count
    BY <1>1, <1>5 DEF Rowed
  <2>3. new.status = n.row.status
    BY <2>1, <2>2 DEF Lined, Count
  <2> QED
    BY <2>3
<1>6. CASE kind = "cancelCount"
  <2>1. old \in Count /\ new = WithStatus(old, "cancelled")
        /\ n.row.status \in {"counting", "cancelled"}
    BY <1>1, <1>6 DEF Wrote, Rowed
  <2>2. new.status = "cancelled"
    BY <2>1 DEF WithStatus, Count
  <2> QED
    BY <2>1, <2>2
<1> QED
  BY <1>2, <1>3, <1>4, <1>5, <1>6

\* A document that was received, posted or cancelled stays so, whatever request
\* comes for it, save one that had read it in another status before it closed.
THEOREM ClosedDocumentsStay == Spec => ClosedStaysClosed
<1> DEFINE Stays ==
      \A d \in Docs :
          /\ db.doc[d].status \in {"received", "posted", "cancelled"}
          /\ db'.doc[d].status # db.doc[d].status
          => \E t \in Tx : /\ Commit(t) /\ run[t].doc = d
                           /\ run[t].seen.row.status # db.doc[d].status
<1>1. IInv /\ [Next]_vars => Stays
  <2> SUFFICES ASSUME IInv, [Next]_vars, NEW d \in Docs,
                      db.doc[d].status \in {"received", "posted", "cancelled"},
                      db'.doc[d].status # db.doc[d].status
               PROVE  \E t \in Tx : /\ Commit(t) /\ run[t].doc = d
                                    /\ run[t].seen.row.status # db.doc[d].status
    OBVIOUS
  <2>1. db' # db
    OBVIOUS
  <2>2. PICK t \in Tx : Ends(t) /\ \E new, e : Commits(run[t], new, e, db')
    BY <2>1, StepIs
  <2>3. PICK new, e : Commits(run[t], new, e, db')
    BY <2>2
  <2>4. d = run[t].doc /\ db'.doc[d] = new
    BY <2>3 DEF Commits
  <2>5. RowOf(db, d) = db.doc[d]
    BY DocumentsAssumption DEF RowOf
  <2>6. /\ Rowed(run[t].kind, d, run[t].seen, db.doc[d])
        /\ Wrote(run[t].kind, d, run[t].seen, db.doc[d], new, e)
    BY <2>3, <2>4, <2>5 DEF Commits
  <2>7. run[t].seen.row.status # db.doc[d].status
    BY <2>4, <2>6, ClosesOnce
  <2> QED
    BY <2>1, <2>2, <2>4, <2>7, EndIsCommit
<1>2. IInv /\ [Next]_vars => [Stays]_vars
  BY <1>1
<1> QED
  BY <1>2, Inductive, PTL DEF Spec, ClosedStaysClosed

\* What a post of the sheet it read makes of a level.
LEMMA PostShifts ==
    ASSUME NEW sheet \in Count, NEW read \in [Cells -> Level], NEW c \in Cells, NEW l \in Level
    PROVE  LET new == Shifted(c, l, Correcting(sheet, read), Correcting(sheet, read).goes) IN
           IF c[2] = sheet.at /\ c[1] \in sheet.lines /\ sheet.counted[c[1]] # Uncounted
           THEN new.onHand = sheet.counted[c[1]] + (l.onHand - read[c].onHand)
           ELSE new = l
<1> DEFINE e == Correcting(sheet, read)
           s == c[1]
           new == Shifted(c, l, e, e.goes)
<1>1. /\ e.as = "corrected" /\ e.at = sheet.at /\ ~Expects(e)
      /\ e.goes = {x \in DOMAIN Found(sheet) : Found(sheet)[x] - read[<<x, sheet.at>>].onHand # 0}
      /\ \A x \in DOMAIN Found(sheet) : e.qty[x] = Found(sheet)[x] - read[<<x, sheet.at>>].onHand
  BY DEF Correcting, Expects
<1>2. s \in Skus /\ sheet.lines \subseteq Skus /\ c = <<s, c[2]>>
  BY DEF Cells, Count
<1>3. s \in DOMAIN Found(sheet) <=> s \in sheet.lines /\ sheet.counted[s] # Uncounted
  BY DEF Found
<1>4. CASE ~(c[2] = sheet.at /\ s \in DOMAIN Found(sheet))
  <2>1. ~(s \in e.goes /\ c[2] = e.at)
    BY <1>1, <1>4
  <2>2. new = [exists |-> l.exists, onHand |-> l.onHand, incoming |-> l.incoming]
    <3> HIDE DEF e
    <3> QED
      BY <1>1, <2>1 DEF Shifted
  <2>3. new = l
    <3> HIDE DEF new
    <3> QED
      BY <2>2 DEF Level
  <2> QED
    BY <1>3, <1>4, <2>3
<1>5. CASE c[2] = sheet.at /\ s \in DOMAIN Found(sheet)
  <2> DEFINE found == Found(sheet)[s]
             was == read[c].onHand
             on == l.onHand
  <2>1. found = sheet.counted[s] /\ found \in Nat
    BY <1>2, <1>3, <1>5 DEF Found, Count
  <2>2. was \in Nat /\ on \in Nat
    BY DEF Level
  <2>3. c = <<s, sheet.at>>
    BY <1>2, <1>5
  <2>4. (s \in e.goes <=> found - was # 0) /\ e.qty[s] = found - was
    <3> HIDE DEF e
    <3> QED
      BY <1>1, <1>5, <2>3
  <2>5. new.onHand = IF s \in e.goes THEN on + e.qty[s] ELSE on
    <3> HIDE DEF e
    <3> QED
      BY <1>1, <1>5 DEF Shifted
  <2> HIDE DEF found, was, on, e, new
  <2>6. new.onHand = found + (on - was)
    BY <2>1, <2>2, <2>4, <2>5
  <2> QED
    BY <1>3, <1>5, <2>1, <2>6 DEF found, was, on, new, e
<1> QED
  BY <1>4, <1>5

\* A post brings on-hand to what was found, plus what moved there since the
\* request read the level, and leaves every other level as it is, whichever
\* requests overlap.
THEOREM PostsFindCounts == Spec => PostFindsCounted
<1> DEFINE Held ==
      \A t \in Tx : Commit(t) /\ run[t].kind = "post" =>
          LET sheet == run[t].seen.row
              read  == run[t].seen.level
          IN  \A c \in Cells :
                 IF c[2] = sheet.at /\ c[1] \in sheet.lines /\ sheet.counted[c[1]] # Uncounted
                 THEN db'.level[c].onHand
                      = sheet.counted[c[1]] + (db.level[c].onHand - read[c].onHand)
                 ELSE db'.level[c] = db.level[c]
<1>1. IInv /\ [Next]_vars => Held
  <2> SUFFICES ASSUME IInv, [Next]_vars, NEW t \in Tx, Commit(t), run[t].kind = "post",
                      NEW c \in Cells
               PROVE  LET sheet == run[t].seen.row
                          read  == run[t].seen.level
                      IN IF c[2] = sheet.at /\ c[1] \in sheet.lines /\ sheet.counted[c[1]] # Uncounted
                         THEN db'.level[c].onHand
                              = sheet.counted[c[1]] + (db.level[c].onHand - read[c].onHand)
                         ELSE db'.level[c] = db.level[c]
    OBVIOUS
  <2>1. db' # db
    BY DEF Commit
  <2>2. PICK u \in Tx : Ends(u) /\ \E new, e : Commits(run[u], new, e, db')
    BY <2>1, StepIs
  <2>3. u = t
    BY <2>1, <2>2, EndIsCommit
  <2>4. Ends(t) /\ \E new, e : Commits(run[t], new, e, db')
    BY <2>2, <2>3
  <2>5. PICK new, e : Commits(run[t], new, e, db')
    BY <2>4
  <2> DEFINE sheet == run[t].seen.row
             read  == run[t].seen.level
  <2>6. e = Correcting(sheet, read)
    BY <2>5 DEF Commits, Wrote
  <2>7. read \in [Cells -> Level]
    BY <2>4 DEF Ends, Asked
  <2>8. sheet \in Count
    <3>1. Revises(run[t].kind) /\ run[t].doc \in Counts
      BY <2>5 DEF Commits, Rowed, Revises, Creates
    <3> QED
      BY <2>5, <3>1 DEF Commits, Rowed
  <2>9. db'.level[c] = Shifted(c, db.level[c], e, e.goes) /\ db.level[c] \in Level
    BY <2>5 DEF Commits, Changes, IInv, Types, Rows
  <2> HIDE DEF sheet, read
  <2>10. db'.level[c] = Shifted(c, db.level[c], Correcting(sheet, read), Correcting(sheet, read).goes)
    BY <2>6, <2>9
  <2>11. IF c[2] = sheet.at /\ c[1] \in sheet.lines /\ sheet.counted[c[1]] # Uncounted
         THEN db'.level[c].onHand = sheet.counted[c[1]] + (db.level[c].onHand - read[c].onHand)
         ELSE db'.level[c] = db.level[c]
    BY <2>7, <2>8, <2>9, <2>10, PostShifts
  <2> QED
    BY <2>11 DEF sheet, read
<1>2. IInv /\ [Next]_vars => [Held]_vars
  BY <1>1
<1> QED
  BY <1>2, Inductive, PTL DEF Spec, PostFindsCounted

-----------------------------------------------------------------------------
(* The goods are conserved.                                                *)

Shelves(a, s) == [w \in Warehouses |-> a.level[<<s, w>>].onHand]
Nets(a, F, s) == [d \in F |-> Net(d, a.doc[d], s)]
Aways(a, F, s) == [d \in F |-> IF d \in Transfers THEN Away(a.doc[d], s) ELSE 0]
Boughts(a, F, s) ==
    [d \in F |-> IF d \in Receipts /\ a.doc[d].status = "received" THEN a.doc[d].qty[s] ELSE 0]
Firsts(s) == [w \in Warehouses |-> Opening[<<s, w>>]]

\* Conserved as an equation of sums over one set of documents.
Tallied(a, F, s) ==
    Sum(Shelves(a, s), Warehouses) + Sum(Nets(a, F, s), F)
    = Sum(Firsts(s), Warehouses) + a.corrected[s]

\* A finite set of documents with every one that exists.
Covers(F) == IsFiniteSet(F) /\ F \subseteq Docs /\ Existing(Docs) \subseteq F

LEMMA NetIs ==
    ASSUME Types, NEW d \in Docs, NEW s \in Skus
    PROVE  /\ d \in Transfers => Away(db.doc[d], s) \in Int /\ Net(d, db.doc[d], s) = Away(db.doc[d], s)
           /\ db.doc[d].status = "none" => Net(d, db.doc[d], s) = 0
           /\ d \in Receipts /\ db.doc[d].status = "received" =>
                 /\ db.doc[d].qty[s] \in Int /\ Net(d, db.doc[d], s) = -db.doc[d].qty[s]
           /\ d \notin Transfers /\ ~(d \in Receipts /\ db.doc[d].status = "received") =>
                 Net(d, db.doc[d], s) = 0
<1>0. db.doc[d] = Nothing \/ db.doc[d] \in RowsOf(d)
  BY DEF Types
<1>1. d \in Transfers => db.doc[d] = Nothing \/ db.doc[d] \in Transfer
  BY <1>0, DocumentsAssumption DEF RowsOf
<1>2. d \in Receipts => db.doc[d] = Nothing \/ db.doc[d] \in Receipt
  BY <1>0, DocumentsAssumption DEF RowsOf
<1>3. ASSUME d \in Transfers, db.doc[d] \in Transfer PROVE Away(db.doc[d], s) \in Int
  <2>1. db.doc[d].qty[s] \in Nat /\ db.doc[d].received[s] \in Nat
    BY <1>3 DEF Transfer
  <2>2. Owing(db.doc[d], s) \in Int
    BY <2>1 DEF Owing
  <2> QED
    BY <2>2 DEF Away, Lesser
<1>4. db.doc[d].status = "none" => Away(db.doc[d], s) = 0
  BY DEF Away
<1>5. d \in Transfers => Away(db.doc[d], s) \in Int /\ Net(d, db.doc[d], s) = Away(db.doc[d], s)
  BY <1>1, <1>3, <1>4 DEF Nothing, Net
<1>6. db.doc[d].status = "none" => Net(d, db.doc[d], s) = 0
  BY <1>4 DEF Net
<1>7. d \in Receipts /\ db.doc[d].status = "received" =>
         /\ db.doc[d].qty[s] \in Int /\ Net(d, db.doc[d], s) = -db.doc[d].qty[s]
  BY <1>2, DocumentsAssumption DEF Nothing, Receipt, Net
<1> QED
  BY <1>5, <1>6, <1>7 DEF Net

LEMMA NetTyped ==
    ASSUME NEW d \in Docs, NEW row \in RowsOf(d), NEW s \in Skus
    PROVE  Net(d, row, s) \in Int
<1>1. CASE d \in Transfers
  <2>1. row \in Transfer
    BY <1>1, DocumentsAssumption DEF RowsOf
  <2>2. row.qty[s] \in Nat /\ row.received[s] \in Nat
    BY <2>1 DEF Transfer
  <2>3. Owing(row, s) \in Int
    BY <2>2 DEF Owing
  <2> QED
    BY <1>1, <2>3 DEF Net, Away, Lesser
<1>2. CASE d \in Receipts
  <2>1. row \in Receipt
    BY <1>2, DocumentsAssumption DEF RowsOf
  <2> QED
    BY <1>2, <2>1, DocumentsAssumption DEF Net, Receipt
<1> QED
  BY <1>1, <1>2 DEF Net

\* The three sums of GoodsConserved, as sums of functions.
LEMMA SumsAre ==
    ASSUME NEW a, NEW s
    PROVE  /\ MapThenSumSet(LAMBDA w : a.level[<<s, w>>].onHand, Warehouses) = Sum(Shelves(a, s), Warehouses)
           /\ MapThenSumSet(LAMBDA w : Opening[<<s, w>>], Warehouses) = Sum(Firsts(s), Warehouses)
<1>1. MapThenSumSet(LAMBDA w : a.level[<<s, w>>].onHand, Warehouses)
      = Sum([w \in Warehouses |-> a.level[<<s, w>>].onHand], Warehouses)
  BY DEF Sum, MapThenSumSet, MapThenFoldSet
<1>2. MapThenSumSet(LAMBDA w : Opening[<<s, w>>], Warehouses)
      = Sum([w \in Warehouses |-> Opening[<<s, w>>]], Warehouses)
  BY DEF Sum, MapThenSumSet, MapThenFoldSet
<1> QED
  BY <1>1, <1>2 DEF Shelves, Firsts

TallyTells ==
    \A F : Types /\ Covers(F) => \A s \in Skus : Conserved(s) <=> Tallied(db, F, s)

LEMMA GoodsAreTallied == TallyTells
<1> SUFFICES ASSUME Types, NEW F, Covers(F), NEW s \in Skus
    PROVE  OnHand(s) + MapThenSumSet(LAMBDA d : Away(db.doc[d], s), Existing(Transfers))
           = MapThenSumSet(LAMBDA w : Opening[<<s, w>>], Warehouses) + db.corrected[s]
             + MapThenSumSet(LAMBDA d : db.doc[d].qty[s],
                             {d \in Receipts : db.doc[d].status = "received"})
           <=>
           Sum(Shelves(db, s), Warehouses) + Sum(Nets(db, F, s), F)
           = Sum(Firsts(s), Warehouses) + db.corrected[s]
  BY DEF Conserved, Tallied, TallyTells
<1> DEFINE T == Existing(Transfers)
           R == {d \in Receipts : db.doc[d].status = "received"}
           road == [d \in T |-> Away(db.doc[d], s)]
           bought == [d \in R |-> db.doc[d].qty[s]]
           A == Aways(db, F, s)
           B == Boughts(db, F, s)
           N == Nets(db, F, s)
<1>1. IsFiniteSet(F) /\ F \subseteq Docs /\ T \subseteq F /\ R \subseteq F
  BY DEF Covers, Existing, Docs
<1>2. \A d \in T : A[d] = road[d] /\ road[d] \in Int
  BY <1>1, NetIs DEF Aways, Existing
<1>3. \A d \in F \ T : A[d] = 0
  BY <1>1 DEF Aways, Existing, Away
<1>4. \A d \in R : B[d] = bought[d] /\ bought[d] \in Int
  BY <1>1, NetIs DEF Boughts
<1>5. \A d \in F \ R : B[d] = 0
  BY DEF Boughts
<1>6. \A d \in F : N[d] \in Int /\ B[d] \in Int /\ A[d] = N[d] + B[d]
  <2> SUFFICES ASSUME NEW d \in F PROVE N[d] \in Int /\ B[d] \in Int /\ A[d] = N[d] + B[d]
    OBVIOUS
  <2>1. d \in Docs /\ N[d] = Net(d, db.doc[d], s)
    BY <1>1 DEF Nets
  <2>2. CASE d \in Transfers
    BY <2>1, <2>2, NetIs, DocumentsAssumption DEF Aways, Boughts
  <2>3. CASE d \in Receipts /\ db.doc[d].status = "received"
    BY <2>1, <2>3, NetIs, DocumentsAssumption DEF Aways, Boughts
  <2>4. CASE d \notin Transfers /\ ~(d \in Receipts /\ db.doc[d].status = "received")
    BY <2>1, <2>4, NetIs DEF Aways, Boughts
  <2> QED
    BY <2>2, <2>3, <2>4
<1> HIDE DEF T, R, road, bought, A, B, N
<1>7. Sum(road, T) = Sum(A, F)
  BY <1>1, <1>2, <1>3, SumPart
<1>8. Sum(bought, R) = Sum(B, F)
  BY <1>1, <1>4, <1>5, SumPart
<1>9. Sum(A, F) = Sum(N, F) + Sum(B, F)
  BY <1>1, <1>6, SumPlus
<1>10. Sum(N, F) \in Int /\ Sum(B, F) \in Int
  BY <1>1, <1>6, SumType
<1>a. MapThenSumSet(LAMBDA d : Away(db.doc[d], s), T) = Sum(road, T)
  BY DEF Sum, MapThenSumSet, MapThenFoldSet, road
<1>b. MapThenSumSet(LAMBDA d : db.doc[d].qty[s], R) = Sum(bought, R)
  BY DEF Sum, MapThenSumSet, MapThenFoldSet, bought
<1>11. /\ MapThenSumSet(LAMBDA d : Away(db.doc[d], s), T) = Sum(road, T)
       /\ MapThenSumSet(LAMBDA d : db.doc[d].qty[s], R) = Sum(bought, R)
  BY <1>a, <1>b
<1>12. /\ OnHand(s) = Sum(Shelves(db, s), Warehouses)
       /\ MapThenSumSet(LAMBDA w : Opening[<<s, w>>], Warehouses) = Sum(Firsts(s), Warehouses)
  BY SumsAre DEF OnHand
<1>13. Sum(Shelves(db, s), Warehouses) \in Int /\ Sum(Firsts(s), Warehouses) \in Int
       /\ db.corrected[s] \in Int
  <2>1. \A w \in Warehouses : Shelves(db, s)[w] \in Int /\ Firsts(s)[w] \in Int
    BY DocumentsAssumption DEF Shelves, Firsts, Types, Rows, Cells, Level
  <2> QED
    BY <2>1, SumType, DocumentsAssumption DEF Types, Rows
<1> DEFINE p == Sum(Shelves(db, s), Warehouses)
           q == Sum(N, F)
           b == Sum(B, F)
           f == Sum(Firsts(s), Warehouses)
           k == db.corrected[s]
<1>14. /\ p \in Int /\ q \in Int /\ b \in Int /\ f \in Int /\ k \in Int
  BY <1>10, <1>13
<1> HIDE DEF p, q, b, f, k
<1>15. p + (q + b) = f + k + b <=> p + q = f + k
  BY <1>14
<1> QED
  BY <1>7, <1>8, <1>9, <1>11, <1>12, <1>15 DEF p, q, b, f, k, T, R, N

\* A request that commits keeps the tally of a sku it is in step about.
LEMMA TallyKept ==
    ASSUME Types, NEW F, Covers(F), NEW r, NEW new, NEW e, NEW b,
           Commits(r, new, e, b), r.doc # NoDoc => r.doc \in F,
           NEW s \in Skus, InStep(r.doc, RowOf(db, r.doc), new, e, s), Tallied(db, F, s)
    PROVE  Tallied(b, F, s)
<1> DEFINE d == r.doc
<1>1. /\ Steady(e) /\ b.level = [c \in Cells |-> Shifted(c, db.level[c], e, e.goes)]
      /\ b.corrected = [x \in Skus |-> IF x \in e.goes /\ e.as = "corrected"
                                       THEN db.corrected[x] + e.qty[x] ELSE db.corrected[x]]
  BY DEF Commits, Changes
<1>2. /\ \A x \in Docs : b.doc[x] = IF x = d THEN new ELSE db.doc[x]
      /\ d \in Docs \cup {NoDoc} /\ NoDoc \notin Docs
      /\ Balanced(d, RowOf(db, d), new, e, s)
  BY DocumentsAssumption DEF Commits, InStep
<1>3. IsFiniteSet(F) /\ F \subseteq Docs /\ IsFiniteSet(Warehouses)
  BY DocumentsAssumption DEF Covers
<1> DEFINE S0 == Shelves(db, s)
           S1 == Shelves(b, s)
           N0 == Nets(db, F, s)
           N1 == Nets(b, F, s)
           in == Into(e, s)
           q == IF s \in e.goes THEN e.qty[s] ELSE 0
           k == IF s \in e.goes /\ e.as = "corrected" THEN e.qty[s] ELSE 0
<1>4. Sum(S0, Warehouses) + Sum(N0, F) = Sum(Firsts(s), Warehouses) + db.corrected[s]
  BY DEF Tallied
<1>5. q \in Int /\ k \in Int /\ in \in Int /\ q = in + k
  BY <1>1 DEF Steady, Into
<1>6. \A w \in Warehouses : S0[w] \in Int
  BY DEF Shelves, Types, Rows, Cells, Level
<1>7. \A w \in Warehouses : S1[w] = IF s \in e.goes /\ w = e.at THEN S0[w] + e.qty[s] ELSE S0[w]
  <2> SUFFICES ASSUME NEW w \in Warehouses
               PROVE  S1[w] = IF s \in e.goes /\ w = e.at THEN S0[w] + e.qty[s] ELSE S0[w]
    OBVIOUS
  <2> DEFINE c == <<s, w>>
  <2>1. c \in Cells /\ c[1] = s /\ c[2] = w
    BY DEF Cells
  <2>2. S1[w] = b.level[c].onHand /\ S0[w] = db.level[c].onHand
    BY DEF Shelves
  <2> HIDE DEF c, S0, S1
  <2>3. b.level[c] = Shifted(c, db.level[c], e, e.goes)
    BY <1>1, <2>1
  <2> QED
    BY <2>1, <2>2, <2>3 DEF Shifted
<1>8. Sum(S1, Warehouses) = Sum(S0, Warehouses) + q
  <2> HIDE DEF S0, S1
  <2>0. Sum(S0, Warehouses) \in Int
    BY <1>3, <1>6, SumType
  <2>1. CASE s \in e.goes
    <3>1. e.at \in Warehouses /\ e.qty[s] \in Int
      BY <1>1, <2>1 DEF Steady
    <3>2. S0[e.at] \in Int /\ S1[e.at] = S0[e.at] + e.qty[s] /\ S1[e.at] \in Int
      BY <1>6, <1>7, <2>1, <3>1
    <3>3. \A y \in Warehouses \ {e.at} : S1[y] = S0[y]
      BY <1>7
    <3> DEFINE at == e.at
    <3>a. at \in Warehouses /\ S1[at] \in Int /\ \A y \in Warehouses \ {at} : S1[y] = S0[y]
      BY <3>1, <3>2, <3>3
    <3> HIDE DEF at
    <3>b. Sum(S1, Warehouses) = Sum(S0, Warehouses) + S1[at] - S0[at]
      BY ONLY <1>3, <1>6, <3>a, SumChange
    <3>4. Sum(S1, Warehouses) = Sum(S0, Warehouses) + S1[e.at] - S0[e.at]
      BY <3>b DEF at
    <3>5. q = e.qty[s]
      BY <2>1
    <3> HIDE DEF q
    <3> QED
      BY <2>0, <3>1, <3>2, <3>4, <3>5
  <2>2. CASE s \notin e.goes
    <3>1. \A w \in Warehouses : S0[w] \in Int /\ S1[w] = S0[w]
      BY <1>6, <1>7, <2>2
    <3>2. Sum(S1, Warehouses) = Sum(S0, Warehouses)
      BY <1>3, <3>1, SumSame
    <3> QED
      BY <2>0, <2>2, <3>2
  <2> QED
    BY <2>1, <2>2
<1>9. \A x \in F : N0[x] \in Int
  <2> SUFFICES ASSUME NEW x \in F PROVE N0[x] \in Int
    OBVIOUS
  <2>1. x \in Docs /\ N0[x] = Net(x, db.doc[x], s)
    BY <1>3 DEF Nets
  <2> QED
    BY <2>1, NetIs
<1>10. \A x \in F : x # d => N1[x] = N0[x]
  BY <1>2, <1>3 DEF Nets
<1>11. Sum(N0, F) \in Int
  <2> HIDE DEF N0
  <2> QED
    BY <1>3, <1>9, SumType
<1>12. Sum(N1, F) + in = Sum(N0, F)
  <2>1. CASE d = NoDoc
    <3>1. \A x \in F : N0[x] \in Int /\ N1[x] = N0[x]
      BY <1>2, <1>3, <1>9, <1>10, <2>1
    <3>2. in = 0
      <4>1. Net(d, RowOf(db, d), s) = 0 /\ Net(d, new, s) = 0
        BY <2>1, <1>2 DEF Net, Docs
      <4>2. Net(d, new, s) + in = Net(d, RowOf(db, d), s)
        BY <1>2 DEF Balanced
      <4> HIDE DEF in, d
      <4> QED
        BY <1>5, <4>1, <4>2
    <3> HIDE DEF N0, N1, in
    <3>3. Sum(N1, F) = Sum(N0, F)
      BY <1>3, <3>1, SumSame
    <3> QED
      BY <1>11, <3>2, <3>3
  <2>2. CASE d # NoDoc
    <3>1. d \in F /\ RowOf(db, d) = db.doc[d] /\ b.doc[d] = new
      BY <1>2, <2>2 DEF RowOf
    <3>2. N1[d] = Net(d, new, s) /\ N0[d] = Net(d, RowOf(db, d), s)
      BY <3>1 DEF Nets
    <3>3. N1[d] + in = N0[d]
      BY <1>2, <3>2 DEF Balanced
    <3>4. N1[d] \in Int
      <4>1. Net(d, new, s) \in Int
        BY <1>2, <2>2, NetTyped DEF Commits
      <4> QED
        BY <3>2, <4>1
    <3> HIDE DEF N0, N1, in
    <3>5. Sum(N1, F) = Sum(N0, F) + N1[d] - N0[d]
      <4>1. d \in F /\ N1[d] \in Int /\ \A x \in F \ {d} : N1[x] = N0[x]
        BY <1>10, <3>1, <3>4
      <4> HIDE DEF d
      <4> QED
        BY ONLY <1>3, <1>9, <4>1, SumChange
    <3>6. N0[d] \in Int
      BY <1>9, <3>1
    <3> QED
      BY <1>5, <1>11, <3>3, <3>4, <3>5, <3>6
  <2> QED
    BY <2>1, <2>2
<1>13. b.corrected[s] = db.corrected[s] + k /\ db.corrected[s] \in Int
  BY <1>1 DEF Types, Rows
<1>14. Sum(S0, Warehouses) \in Int /\ Sum(Firsts(s), Warehouses) \in Int /\ Sum(N1, F) \in Int
  <2>1. \A w \in Warehouses : Firsts(s)[w] \in Int
    BY DocumentsAssumption DEF Firsts, Cells
  <2>2. Sum(S0, Warehouses) \in Int /\ Sum(Firsts(s), Warehouses) \in Int
    <3> HIDE DEF S0
    <3> QED
      BY <1>3, <1>6, <2>1, SumType
  <2>3. \A x \in F : N1[x] \in Int
    <3> SUFFICES ASSUME NEW x \in F PROVE N1[x] \in Int
      OBVIOUS
    <3>1. CASE x # d
      BY <1>9, <1>10, <3>1
    <3>2. CASE x = d
      <4>1. N1[x] = Net(d, new, s) /\ N0[x] = Net(d, RowOf(db, d), s)
        BY <1>2, <1>3, <3>2 DEF Nets, RowOf
      <4>2. Net(d, new, s) + in = Net(d, RowOf(db, d), s)
        BY <1>2 DEF Balanced
      <4>3. Net(d, new, s) \in Int
        BY <1>2, <1>3, <3>2, NetTyped DEF Commits
      <4> QED
        BY <4>1, <4>3
    <3> QED
      BY <3>1, <3>2
  <2>4. Sum(N1, F) \in Int
    <3> HIDE DEF N1
    <3> QED
      BY <1>3, <2>3, SumType
  <2> QED
    BY <2>2, <2>4
<1> DEFINE s0 == Sum(S0, Warehouses)
           s1 == Sum(S1, Warehouses)
           n0 == Sum(N0, F)
           n1 == Sum(N1, F)
           f == Sum(Firsts(s), Warehouses)
           k0 == db.corrected[s]
<1>15. /\ s0 \in Int /\ n0 \in Int /\ n1 \in Int /\ f \in Int /\ k0 \in Int
       /\ s0 + n0 = f + k0 /\ s1 = s0 + q /\ n1 + in = n0 /\ b.corrected[s] = k0 + k
  BY <1>4, <1>8, <1>11, <1>12, <1>13, <1>14
<1> HIDE DEF s0, s1, n0, n1, f, k0, q, in, k
<1>16. s1 + n1 = f + b.corrected[s]
  <2>1. /\ q \in Int /\ k \in Int /\ in \in Int /\ s0 \in Int /\ n0 \in Int /\ n1 \in Int
        /\ f \in Int /\ k0 \in Int
    BY <1>5, <1>15
  <2>2. n1 = n0 - in /\ s1 = s0 + q
    BY <1>15, <2>1
  <2>3. s1 + n1 = s0 + n0 + k
    BY <1>5, <2>1, <2>2
  <2>4. s1 + n1 = f + (k0 + k)
    BY <1>15, <2>1, <2>3
  <2> QED
    BY <1>15, <2>4
<1> QED
  BY <1>16 DEF s1, n1, f, Tallied

\* A request that commits, of which the skus that are listed by no document
\* written over a stale read stay in step.
Settles(F, r, new, e) ==
    /\ Commits(r, new, e, db') /\ (r.doc # NoDoc => r.doc \in F)
    /\ \A s \in Skus : Untorn(s)' => InStep(r.doc, RowOf(db, r.doc), new, e, s)

\* One set of documents that covers the rows on both sides of a step.
LEMMA StepCovers ==
    ASSUME IInv, IInv', [Next]_vars
    PROVE  /\ \A s \in Skus : Untorn(s)' => Untorn(s)
           /\ \E F : /\ Covers(F) /\ Covers(F)'
                     /\ db' = db \/ \E r, new, e : Settles(F, r, new, e)
<1>1. PICK F : F = Existing(Docs)'
  OBVIOUS
<1>2. IsFiniteSet(F) /\ F \subseteq Docs /\ Covers(F)'
  BY <1>1 DEF IInv, Types, Covers, Existing
<1>3. CASE db' = db
  <2>1. Covers(F)
    BY <1>1, <1>2, <1>3 DEF Covers, Existing
  <2>2. torn' = torn
    BY <1>3, StepIs
  <2>3. \A s \in Skus : Untorn(s)' => Untorn(s)
    BY <1>3, <2>2 DEF Untorn
  <2> QED
    BY <1>2, <1>3, <2>1, <2>3
<1>4. CASE db' # db
  <2>1. PICK t \in Tx : Ends(t) /\ \E new, e : Commits(run[t], new, e, db')
    BY <1>4, StepIs
  <2>2. PICK new, e : Commits(run[t], new, e, db')
    BY <2>1
  <2> DEFINE d == run[t].doc
  <2>3. /\ d # NoDoc => new \in RowsOf(d) /\ new # Nothing
        /\ \A x \in Docs : db'.doc[x] = IF x = d THEN new ELSE db.doc[x]
        /\ d \in Docs \cup {NoDoc} /\ NoDoc \notin Docs
    BY <2>2, DocumentsAssumption DEF Commits
  <2>4. Stale(run[t]) => d \in torn' /\ db'.doc[d] = new
    <3>1. Stale(run[t]) => d \in Docs /\ d \in torn'
      BY <2>1 DEF Ends, Stale, Docs
    <3> QED
      BY <2>3, <3>1
  <2>5. \A s \in Skus : Untorn(s)' => (Stale(run[t]) => s \notin Items(new))
    BY <2>4 DEF Untorn
  <2>6. \A s \in Skus : Untorn(s)' => InStep(d, RowOf(db, d), new, e, s)
    BY <2>2, <2>5 DEF Commits
  <2>7. \A x \in torn : x \in torn' /\ db'.doc[x].qty = db.doc[x].qty
    BY <2>1, <2>2, ItemsKept DEF Ends, IInv, TornExist
  <2>8. \A s \in Skus : Untorn(s)' => Untorn(s)
    BY <2>7 DEF Untorn, Items
  <2> HIDE DEF d
  <2>9. d # NoDoc => new.status # "none"
    BY <2>3 DEF RowsOf, Transfer, Receipt, Count
  <2>10. Existing(Docs) \subseteq F /\ (d # NoDoc => d \in F)
    BY <1>1, <2>3, <2>9 DEF Existing
  <2>11. Settles(F, run[t], new, e)
    BY <2>2, <2>6, <2>10 DEF Settles, d
  <2>12. Covers(F)
    BY <1>2, <2>10 DEF Covers
  <2> QED
    BY <1>2, <2>8, <2>11, <2>12
<1> QED
  BY <1>3, <1>4

\* What is on the shelves and on the road is what there was, what notes
\* brought in, and what counts and adjustments wrote, over any number of
\* documents that share levels and whichever requests overlap, for every sku
\* no document lists that was written over a stale read.  (Of the others it is
\* false: documents_race.cfg.)
THEOREM GoodsAreConserved == Spec => []GoodsConserved
<1>1. Init => GoodsConserved
  <2> SUFFICES ASSUME Init, NEW s \in Skus PROVE Conserved(s)
    BY DEF GoodsConserved
  <2>1. Types
    BY InitTypes
  <2>2. Existing(Docs) = {}
    BY DEF Init, Existing, Nothing
  <2>3. Covers({})
    BY <2>2, FS_EmptySet DEF Covers
  <2>4. Tallied(db, {}, s)
    <3>1. db.corrected[s] = 0 /\ Sum(Nets(db, {}, s), {}) = 0
      BY SumEmpty DEF Init
    <3>2. \A w \in Warehouses : Firsts(s)[w] \in Int /\ Shelves(db, s)[w] = Firsts(s)[w]
      BY DocumentsAssumption DEF Init, Shelves, Firsts, Cells
    <3>3. Sum(Shelves(db, s), Warehouses) = Sum(Firsts(s), Warehouses)
      BY <3>2, SumSame, DocumentsAssumption
    <3> QED
      BY <3>1, <3>3 DEF Tallied
  <2> QED
    BY <2>1, <2>3, <2>4, GoodsAreTallied DEF TallyTells
<1>2. IInv /\ IInv' /\ GoodsConserved /\ [Next]_vars => GoodsConserved'
  <2> SUFFICES ASSUME IInv, IInv', GoodsConserved, [Next]_vars, NEW s \in Skus, Untorn(s)'
               PROVE  Conserved(s)'
    BY DEF GoodsConserved
  <2>1. /\ Untorn(s)
        /\ \E F : /\ Covers(F) /\ Covers(F)'
                  /\ db' = db \/ \E r, new, e : Settles(F, r, new, e)
    BY StepCovers
  <2>2. PICK F : /\ Covers(F) /\ Covers(F)'
                 /\ db' = db \/ \E r, new, e : Settles(F, r, new, e)
    BY <2>1
  <2>3. Tallied(db, F, s)
    BY <2>1, <2>2, GoodsAreTallied DEF TallyTells, GoodsConserved, IInv
  <2>4. Tallied(db', F, s)
    <3>1. CASE db' = db
      BY <2>3, <3>1
    <3>2. CASE db' # db
      <4>1. PICK r, new, e : Settles(F, r, new, e)
        BY <2>2, <3>2
      <4> QED
        BY <2>2, <2>3, <4>1, TallyKept DEF Settles, IInv
    <3> QED
      BY <3>1, <3>2
  <2>5. TallyTells'
    BY GoodsAreTallied, PTL
  <2>6. Tallied(db, F, s)'
    BY <2>4 DEF Tallied, Shelves, Nets
  <2> QED
    BY <2>2, <2>5, <2>6 DEF TallyTells, IInv
<1> QED
  BY <1>1, <1>2, Inductive, PTL DEF Spec

-----------------------------------------------------------------------------
(* What is expected is owed.                                               *)

Oweds(a, F, s, w) == [d \in F |-> Owed(d, a.doc[d], s, w)]
Exceeded(a, F, s) == \E d \in F : Over(d, a.doc[d], s)

\* Level <<s, w>> expects what it is owed, over one set of documents.
Matched(a, F, s, w) ==
    LET incoming == a.level[<<s, w>>].incoming
        owed == Sum(Oweds(a, F, s, w), F)
    IN  incoming <= owed /\ (Exceeded(a, F, s) \/ incoming = owed)

LEMMA OwedIs ==
    ASSUME NEW d \in Docs, NEW row, row = Nothing \/ row \in RowsOf(d), NEW s \in Skus, NEW w
    PROVE  Owed(d, row, s, w) \in Nat
<1>1. CASE d \in Transfers /\ row.status = "in_transit"
  <2>1. row \in Transfer
    BY <1>1, DocumentsAssumption DEF RowsOf, Nothing
  <2>2. row.qty[s] \in Nat /\ row.received[s] \in Nat
    BY <2>1 DEF Transfer
  <2> QED
    BY <2>2 DEF Owed, Positive, Owing
<1>2. CASE ~(d \in Transfers /\ row.status = "in_transit")
  BY <1>2 DEF Owed
<1> QED
  BY <1>1, <1>2

\* IncomingIsOwed of one level.
Owes(s, w) ==
    LET owed == MapThenSumSet(LAMBDA d : Positive(Owing(db.doc[d], s)), Inbound(w))
        exceeded == \E d \in Existing(Transfers) : Owing(db.doc[d], s) < 0
    IN  IF exceeded THEN db.level[<<s, w>>].incoming <= owed
        ELSE db.level[<<s, w>>].incoming = owed

MatchTells ==
    \A F : Types /\ Covers(F) =>
        \A s \in Skus, w \in Warehouses : Owes(s, w) <=> Matched(db, F, s, w)

LEMMA IncomingIsMatched == MatchTells
<1> SUFFICES ASSUME Types, NEW F, Covers(F), NEW s \in Skus, NEW w \in Warehouses
    PROVE  LET owed == MapThenSumSet(LAMBDA d : Positive(Owing(db.doc[d], s)), Inbound(w))
               exceeded == \E d \in Existing(Transfers) : Owing(db.doc[d], s) < 0
               incoming == db.level[<<s, w>>].incoming
               all == Sum(Oweds(db, F, s, w), F)
           IN  (IF exceeded THEN incoming <= owed ELSE incoming = owed)
               <=> incoming <= all /\ (Exceeded(db, F, s) \/ incoming = all)
  BY DEF Owes, Matched, MatchTells
<1> DEFINE I == Inbound(w)
           f == [d \in I |-> Positive(Owing(db.doc[d], s))]
           g == Oweds(db, F, s, w)
           exceeded == \E d \in Existing(Transfers) : Owing(db.doc[d], s) < 0
           incoming == db.level[<<s, w>>].incoming
           owed == MapThenSumSet(LAMBDA d : Positive(Owing(db.doc[d], s)), Inbound(w))
           all == Sum(g, F)
<1>1. IsFiniteSet(F) /\ F \subseteq Docs /\ I \subseteq F /\ Existing(Transfers) \subseteq F
  BY DEF Covers, Existing, Docs, Inbound
<1>2. \A d \in F : g[d] = Owed(d, db.doc[d], s, w) /\ g[d] \in Nat
  <2>1. \A d \in F : g[d] = Owed(d, db.doc[d], s, w)
    BY DEF Oweds
  <2>2. \A d \in F : db.doc[d] = Nothing \/ db.doc[d] \in RowsOf(d)
    BY <1>1 DEF Types
  <2> QED
    BY <1>1, <2>1, <2>2, OwedIs
<1>3. \A d \in I : d \in F /\ g[d] = f[d]
  BY <1>1, <1>2 DEF Owed, Inbound, Existing
<1>4. \A d \in I : f[d] \in Int /\ g[d] = f[d]
  BY <1>2, <1>3
<1>5. \A d \in F \ I : g[d] = 0
  BY <1>2 DEF Owed, Inbound, Existing
<1>6. owed = Sum(f, I)
  BY DEF Sum, MapThenSumSet, MapThenFoldSet
<1>7. exceeded <=> Exceeded(db, F, s)
  BY <1>1 DEF Exceeded, Over, Existing
<1>8. incoming \in Int
  BY DEF Types, Rows, Cells, Level
<1> HIDE DEF I, f, g, exceeded, incoming, owed
<1>9. Sum(f, I) = Sum(g, F)
  BY <1>1, <1>4, <1>5, SumPart
<1>10. Sum(g, F) \in Int
  BY <1>1, <1>2, SumType
<1>11. (IF exceeded THEN incoming <= owed ELSE incoming = owed)
       <=> incoming <= all /\ (Exceeded(db, F, s) \/ incoming = all)
  BY <1>6, <1>7, <1>8, <1>9, <1>10
<1> QED
  BY <1>11 DEF exceeded, incoming, owed, g

LEMMA MatchKept ==
    ASSUME Types, NEW F, Covers(F), NEW r, NEW new, NEW e, NEW b,
           Commits(r, new, e, b), r.doc # NoDoc => r.doc \in F,
           NEW s \in Skus, NEW w \in Warehouses,
           InStep(r.doc, RowOf(db, r.doc), new, e, s), Matched(db, F, s, w)
    PROVE  Matched(b, F, s, w)
<1> DEFINE d == r.doc
           old == RowOf(db, d)
<1>1. Steady(e) /\ b.level = [c \in Cells |-> Shifted(c, db.level[c], e, e.goes)]
  BY DEF Commits, Changes
<1>2. /\ \A x \in Docs : b.doc[x] = IF x = d THEN new ELSE db.doc[x]
      /\ d \in Docs \cup {NoDoc} /\ NoDoc \notin Docs
      /\ d # NoDoc => new \in RowsOf(d)
      /\ Over(d, old, s) => Over(d, new, s)
      /\ Expected(d, old, new, e, s, w)
  BY DocumentsAssumption DEF Commits, InStep
<1>3. IsFiniteSet(F) /\ F \subseteq Docs
  BY DEF Covers
<1> DEFINE g0 == Oweds(db, F, s, w)
           g1 == Oweds(b, F, s, w)
           c == <<s, w>>
           i0 == db.level[c].incoming
           i1 == b.level[c].incoming
           o0 == Sum(g0, F)
           o1 == Sum(g1, F)
           met == s \in e.goes /\ Expects(e) /\ w = e.onto
           before == Owed(d, old, s, w)
           after == Owed(d, new, s, w)
<1>4. i0 <= o0 /\ (Exceeded(db, F, s) \/ i0 = o0)
  BY DEF Matched
<1>5. c \in Cells /\ c[1] = s /\ c[2] = w
  BY DEF Cells
<1>6. i0 \in Nat
  BY <1>5 DEF Types, Rows, Level
<1>7. i1 = IF met THEN Positive(i0 + e.due[s]) ELSE i0
  <2>1. b.level[c] = Shifted(c, db.level[c], e, e.goes)
    BY <1>1, <1>5
  <2> HIDE DEF c
  <2> QED
    BY <1>5, <2>1 DEF Shifted
<1>8. met => e.due[s] \in Int
  BY <1>1 DEF Steady
<1>9. \A x \in F : g0[x] \in Nat
  <2>1. \A x \in F : g0[x] = Owed(x, db.doc[x], s, w)
    BY DEF Oweds
  <2>2. \A x \in F : db.doc[x] = Nothing \/ db.doc[x] \in RowsOf(x)
    BY <1>3 DEF Types
  <2> QED
    BY <1>3, <2>1, <2>2, OwedIs
<1>10. \A x \in F : g1[x] = Owed(x, b.doc[x], s, w)
  BY DEF Oweds
<1>11. \A x \in F : g1[x] \in Nat
  <2>1. \A x \in F : b.doc[x] = Nothing \/ b.doc[x] \in RowsOf(x)
    BY <1>2, <1>3 DEF Types
  <2> QED
    BY <1>3, <1>10, <2>1, OwedIs
<1>12. \A x \in F : x # d => g1[x] = g0[x]
  BY <1>2, <1>3, <1>10 DEF Oweds
<1>13. d \in F => g0[d] = before /\ g1[d] = after
  BY <1>2, <1>3, <1>10 DEF Oweds, RowOf
<1>14. d = NoDoc => before = 0 /\ after = 0
  BY <1>2 DEF Owed, Docs
<1>15. /\ o0 \in Int /\ o1 \in Nat
       /\ before \in Nat /\ after \in Nat
       /\ o1 = o0 + after - before
  <2>1. before \in Nat /\ after \in Nat
    BY <1>2, <1>9, <1>11, <1>13, <1>14 DEF Commits
  <2> HIDE DEF g0, g1, before, after
  <2>2. o0 \in Int /\ o1 \in Nat
    <3>1. o0 \in Int
      BY <1>3, <1>9, SumType
    <3> QED
      BY <1>3, <1>11, <3>1, SumNat
  <2>3. CASE d \in F
    <3>1. \A x \in F \ {d} : g1[x] = g0[x]
      BY <1>12
    <3>2. d \in F /\ g1[d] \in Int /\ \A x \in F : g0[x] \in Int
      BY <1>9, <1>11, <2>3
    <3>3. Sum(g1, F) = Sum(g0, F) + g1[d] - g0[d]
      <4> HIDE DEF d
      <4> QED
        BY ONLY <1>3, <3>1, <3>2, SumChange
    <3> QED
      BY <1>13, <2>1, <2>2, <2>3, <3>3
  <2>4. CASE d \notin F
    <3>1. \A x \in F : g0[x] \in Int /\ g1[x] = g0[x]
      BY <1>9, <1>12, <2>4
    <3>2. Sum(g1, F) = Sum(g0, F)
      BY <1>3, <3>1, SumSame
    <3> QED
      BY <1>2, <1>14, <2>1, <2>2, <2>4, <3>2
  <2> QED
    BY <2>1, <2>2, <2>3, <2>4
<1>16. /\ met => after >= before + e.due[s] /\ (after = before + e.due[s] \/ Over(d, new, s))
       /\ ~met => after = before
  BY <1>2 DEF Expected
<1>17. Exceeded(db, F, s) => Exceeded(b, F, s)
  <2> SUFFICES ASSUME NEW x \in F, Over(x, db.doc[x], s) PROVE Exceeded(b, F, s)
    BY DEF Exceeded
  <2>1. Over(x, b.doc[x], s)
    BY <1>2, <1>3 DEF RowOf
  <2> QED
    BY <2>1 DEF Exceeded
<1>18. Over(d, new, s) => Exceeded(b, F, s)
  <2> SUFFICES ASSUME Over(d, new, s) PROVE Exceeded(b, F, s)
    OBVIOUS
  <2>1. d \in Docs
    BY DEF Over, Docs
  <2>2. d \in F /\ b.doc[d] = new
    BY <1>2, <2>1
  <2> QED
    BY <2>2 DEF Exceeded
<1> HIDE DEF i0, i1, o0, o1, met, before, after
<1>19. CASE met
  <2>1. e.due[s] \in Int /\ i1 = Positive(i0 + e.due[s])
    BY <1>7, <1>8, <1>19
  <2>2. i0 + e.due[s] <= o1
    BY <1>4, <1>6, <1>15, <1>16, <1>19, <2>1
  <2>3. i1 <= o1
    BY <1>6, <1>15, <2>1, <2>2 DEF Positive
  <2>4. ASSUME ~Exceeded(b, F, s) PROVE i1 = o1
    <3>1. i0 = o0 /\ after = before + e.due[s]
      BY <1>4, <1>16, <1>17, <1>18, <1>19, <2>4
    <3>2. i0 + e.due[s] = o1
      BY <1>6, <1>15, <2>1, <3>1
    <3> QED
      BY <1>15, <2>1, <3>2 DEF Positive
  <2> QED
    BY <2>3, <2>4 DEF i1, o1, g1, c, Matched
<1>20. CASE ~met
  <2>1. i1 = i0 /\ o1 = o0
    BY <1>7, <1>15, <1>16, <1>20
  <2>2. i1 <= o1 /\ (Exceeded(b, F, s) \/ i1 = o1)
    BY <1>4, <1>17, <2>1
  <2> QED
    BY <2>2 DEF i1, o1, g1, c, Matched
<1> QED
  BY <1>19, <1>20

\* A level's incoming is at most what transfers in transit still owe it, and
\* exactly that unless one of them delivered more than it was sent, whichever
\* requests overlap, for every sku no document lists that was written over a
\* stale read.
THEOREM IncomingIsNoPhantom == Spec => []IncomingIsOwed
<1>0. IncomingIsOwed <=> \A s \in Skus, w \in Warehouses : Untorn(s) => Owes(s, w)
  BY DEF IncomingIsOwed, Owes
<1>1. Init => IncomingIsOwed
  <2> SUFFICES ASSUME Init, NEW s \in Skus, NEW w \in Warehouses PROVE Owes(s, w)
    BY <1>0
  <2>1. Types
    BY InitTypes
  <2>2. Existing(Docs) = {}
    BY DEF Init, Existing, Nothing
  <2>3. Covers({})
    BY <2>2, FS_EmptySet DEF Covers
  <2>4. Matched(db, {}, s, w)
    <3>1. db.level[<<s, w>>].incoming = 0
      BY DEF Init, Cells
    <3>2. Sum(Oweds(db, {}, s, w), {}) = 0
      BY SumEmpty
    <3> QED
      BY <3>1, <3>2 DEF Matched
  <2> QED
    BY <2>1, <2>3, <2>4, IncomingIsMatched DEF MatchTells
<1>2. IInv /\ IInv' /\ IncomingIsOwed /\ [Next]_vars => IncomingIsOwed'
  <2> SUFFICES ASSUME IInv, IInv', IncomingIsOwed, [Next]_vars,
                      NEW s \in Skus, NEW w \in Warehouses, Untorn(s)'
               PROVE  Owes(s, w)'
    BY DEF IncomingIsOwed, Owes
  <2>1. /\ Untorn(s)
        /\ \E F : /\ Covers(F) /\ Covers(F)'
                  /\ db' = db \/ \E r, new, e : Settles(F, r, new, e)
    BY StepCovers
  <2>2. PICK F : /\ Covers(F) /\ Covers(F)'
                 /\ db' = db \/ \E r, new, e : Settles(F, r, new, e)
    BY <2>1
  <2>3. Matched(db, F, s, w)
    BY <1>0, <2>1, <2>2, IncomingIsMatched DEF MatchTells, IInv
  <2>4. Matched(db', F, s, w)
    <3>1. CASE db' = db
      BY <2>3, <3>1
    <3>2. CASE db' # db
      <4>1. PICK r, new, e : Settles(F, r, new, e)
        BY <2>2, <3>2
      <4> QED
        BY <2>2, <2>3, <4>1, MatchKept DEF Settles, IInv
    <3> QED
      BY <3>1, <3>2
  <2>5. MatchTells'
    BY IncomingIsMatched, PTL
  <2>6. Matched(db, F, s, w)'
    BY <2>4 DEF Matched, Oweds, Exceeded
  <2> QED
    BY <2>2, <2>5, <2>6 DEF MatchTells, IInv
<1> QED
  BY <1>1, <1>2, Inductive, PTL DEF Spec
=============================================================================
