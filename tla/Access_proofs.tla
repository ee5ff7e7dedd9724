--------------------------- MODULE Access_proofs ---------------------------
(* Who may call what.  Proofs about Workspace, for every lifetime of an     *)
(* entry, every bound on a load and every number of requests and writes,    *)
(* and about Rights, for any members, admins, lists of modules, keys a role *)
(* may be given and number of requests.                                     *)
EXTENDS Workspace, Rights, TLAPS

-----------------------------------------------------------------------------
(* Workspace.                                                              *)

\* The requests by what they carry.
Pending == {"idle", "replaceEntitlements", "invalidate", "invalidateAgain",
            "invalidateAccess", "clearDomains"}
Ages == 0 .. MaxLoad
Statuses == {"active", "suspended"}
Staff == {"invited", "active", "suspended", "gone"}

Rests == [pc : Pending] \cup [pc : {"served", "refused"}, kind : Kinds]
Looks == [pc : {"tenant"}, kind : Kinds, age : Ages]
            \cup [pc : {"host", "config"}, kind : {"visitor"}, age : Ages]
Keeps == [pc : {"keepHost"}, kind : {"visitor"}, age : Ages, behind : BOOLEAN]
            \cup [pc : {"modules"}, kind : Kinds, age : Ages, status : Statuses,
                  behind : BOOLEAN]
            \cup [pc : {"keepTenant"}, kind : Kinds, age : Ages, status : Statuses,
                  modules : SUBSET Modules, behind : BOOLEAN]
Enters == [pc : {"access"}, kind : {"member"}, age : Ages, modules : SUBSET Modules]
            \cup [pc : {"keepAccess"}, kind : {"member"}, age : Ages,
                  modules : SUBSET Modules, staff : Staff, caps : CapSets,
                  behind : BOOLEAN]

Requests == Rests \cup Looks \cup Keeps \cup Enters

Types ==
    /\ audience \in SUBSET Kinds
    /\ db \in Database
    /\ DOMAIN cache = Caches
    /\ \A c \in Caches : cache[c] = NoEntry \/ cache[c] \in Entry[c]
    /\ req \in [Slots -> Requests]
    /\ lost \in [Conditions -> Nat]
    /\ \A x \in Conditions : lost[x] <= Lag(x) + 1
    /\ writes \in 0 .. MaxWrites

\* A condition that the database meets now was last met now.
LostNow == \A x \in Conditions : Meets(db, x) => lost[x] = 0

\* What an entry vouches for held when the entry was read, at most one load
\* before it was kept.
EntryVouches(c, e, l) ==
    LET old == e.age + MaxLoad IN
    /\ c = "tenant" =>
          /\ e.status = "active" => l["status"] <= old
          /\ "storefront" \in e.modules => l["storefront"] <= old
    /\ c = "access" =>
          /\ ~isDisabled(e.staff) => l["staff"] <= old
          /\ e.staff = "gone" \/ HasCapability(e.caps) => l["caps"] <= old
    /\ c = "host" => l["domain"] <= old

EntriesAreRecent == \A c \in Caches : cache[c] # NoEntry => EntryVouches(c, cache[c], lost)

\* What a request has read itself held within its own age; what it took from an
\* entry, within the entry's last possible age, a load and its own.
Past(r) == TTL - 1 + MaxLoad + r.age
Vouches(r, l) ==
    /\ r.pc \in {"modules", "keepTenant"} /\ r.status = "active" => l["status"] <= r.age
    /\ r.pc = "keepTenant" /\ "storefront" \in r.modules => l["storefront"] <= r.age
    /\ r.pc = "keepHost" => l["domain"] <= r.age
    /\ r.pc \in {"tenant", "modules", "keepTenant", "config"} /\ r.kind = "visitor" =>
          l["domain"] <= Past(r)
    /\ r.pc = "config" => l["storefront"] <= Past(r)
    /\ r.pc \in {"access", "keepAccess"} =>
          /\ l["status"] <= Past(r)
          /\ "storefront" \in r.modules => l["storefront"] <= Past(r)
    /\ r.pc = "keepAccess" =>
          /\ ~isDisabled(r.staff) => l["staff"] <= r.age
          /\ r.staff = "gone" \/ HasCapability(r.caps) => l["caps"] <= r.age

ReadsAreRecent == \A s \in Slots : Vouches(req[s], lost)

\* The writers that still have to drop a cache's entry.
Drops(c, pc) ==
    pc \in (CASE c = "tenant" -> {"replaceEntitlements", "invalidate"}
              [] c = "access" -> {"invalidateAccess"}
              [] c = "host" -> {"clearDomains"})
Fills(c, pc) == \/ c = "tenant" /\ pc \in {"modules", "keepTenant"}
                \/ c = "access" /\ pc = "keepAccess"
                \/ c = "host" /\ pc = "keepHost"

\* Whatever is overtaken, kept or being read, has a writer that will drop it.
OvertakenIsDropped ==
    \A c \in Caches :
        \/ \E s \in Slots : Drops(c, req[s].pc)
        \/ /\ cache[c] # NoEntry => ~cache[c].behind
           /\ \A s \in Slots : Fills(c, req[s].pc) => ~req[s].behind

IInv == Types /\ LostNow /\ EntriesAreRecent /\ ReadsAreRecent /\ OvertakenIsDropped

-----------------------------------------------------------------------------
(* The shapes of requests and entries.                                     *)

\* What a request carries in every place of its code.
LEMMA Carries ==
    \A r \in Requests :
        /\ r.pc \in Pending \cup {"served", "refused", "tenant", "host", "config", "keepHost",
                                 "modules", "keepTenant", "access", "keepAccess"}
        /\ r.pc \in Pending => r = [pc |-> r.pc]
        /\ r.pc \in Pending \cup Resting <=> "age" \notin DOMAIN r
        /\ r.pc \notin Pending => r.kind \in Kinds
        /\ r.pc \notin Pending \cup Resting => r.age \in Ages
        /\ r.pc \in {"host", "config", "keepHost"} => r.kind = "visitor"
        /\ r.pc \in {"access", "keepAccess"} => r.kind = "member"
        /\ r.pc \in {"modules", "keepTenant"} => r.status \in Statuses
        /\ r.pc \in {"keepTenant", "access", "keepAccess"} => r.modules \in SUBSET Modules
        /\ r.pc = "keepAccess" => r.staff \in Staff /\ r.caps \in CapSets
        /\ r.pc \in {"modules", "keepTenant", "keepHost", "keepAccess"} <=> "behind" \in DOMAIN r
        /\ "behind" \in DOMAIN r => r.behind \in BOOLEAN
<1>1. ASSUME NEW r \in Rests PROVE r \in [pc : Pending] \/ r \in [pc : {"served", "refused"}, kind : Kinds]
  BY DEF Rests
<1>2. ASSUME NEW r \in [pc : Pending]
      PROVE  /\ r.pc \in Pending /\ r = [pc |-> r.pc]
             /\ "age" \notin DOMAIN r /\ "behind" \notin DOMAIN r
  OBVIOUS
<1>3. ASSUME NEW r \in [pc : {"served", "refused"}, kind : Kinds]
      PROVE  /\ r.pc \in {"served", "refused"} /\ r.kind \in Kinds
             /\ "age" \notin DOMAIN r /\ "behind" \notin DOMAIN r
  OBVIOUS
<1>4. ASSUME NEW r \in Looks
      PROVE  /\ r.pc \in {"tenant", "host", "config"} /\ r.kind \in Kinds /\ r.age \in Ages
             /\ r.pc \in {"host", "config"} => r.kind = "visitor"
             /\ "age" \in DOMAIN r /\ "behind" \notin DOMAIN r
  BY DEF Looks, Kinds
<1>5. ASSUME NEW r \in Keeps
      PROVE  /\ r.pc \in {"keepHost", "modules", "keepTenant"} /\ r.kind \in Kinds /\ r.age \in Ages
             /\ r.pc = "keepHost" => r.kind = "visitor"
             /\ r.pc \in {"modules", "keepTenant"} => r.status \in Statuses
             /\ r.pc = "keepTenant" => r.modules \in SUBSET Modules
             /\ r.behind \in BOOLEAN
             /\ "age" \in DOMAIN r /\ "behind" \in DOMAIN r
  BY DEF Keeps, Kinds
<1>6. ASSUME NEW r \in Enters
      PROVE  /\ r.pc \in {"access", "keepAccess"} /\ r.kind = "member" /\ r.age \in Ages
             /\ r.modules \in SUBSET Modules
             /\ r.pc = "keepAccess" => r.staff \in Staff /\ r.caps \in CapSets /\ r.behind \in BOOLEAN
             /\ "age" \in DOMAIN r
             /\ "behind" \in DOMAIN r <=> r.pc = "keepAccess"
  BY DEF Enters
<1> QED
  BY <1>1, <1>2, <1>3, <1>4, <1>5, <1>6 DEF Requests, Pending, Resting, Kinds

\* What an entry of each cache holds.
LEMMA EntryCarries ==
    \A c \in Caches : \A e \in Entry[c] :
        /\ e.age \in Nat /\ e.age <= TTL - 1 /\ e.behind \in BOOLEAN
        /\ c = "tenant" => e.status \in Statuses /\ e.modules \in SUBSET Modules
        /\ c = "access" => e.staff \in Staff /\ e.caps \in CapSets
<1> TAKE c \in Caches
<1> TAKE e \in Entry[c]
<1>1. CASE c = "tenant"
  BY <1>1, WorkspaceAssumption DEF Entry, Statuses
<1>2. CASE c = "access"
  BY <1>2, WorkspaceAssumption DEF Entry, Staff
<1>3. CASE c = "host"
  BY <1>3, WorkspaceAssumption DEF Entry
<1> QED
  BY <1>1, <1>2, <1>3 DEF Caches

\* Whether a request is fresh does not depend on what it knows of writes, and a
\* database that has met a condition later than before leaves it as fresh.
LEMMA Remarked ==
    \A r \in Requests, b \in BOOLEAN, l \in [Conditions -> Nat] :
        "behind" \in DOMAIN r =>
            LET q == [r EXCEPT !.behind = b] IN
            /\ q \in Requests /\ q.pc = r.pc /\ q.behind = b
            /\ Vouches(r, l) => Vouches(q, l)
<1> SUFFICES ASSUME NEW r \in Requests, NEW b \in BOOLEAN, "behind" \in DOMAIN r,
                    NEW l \in [Conditions -> Nat]
             PROVE  LET q == [r EXCEPT !.behind = b] IN
                    /\ q \in Requests /\ q.pc = r.pc /\ q.behind = b
                    /\ Vouches(r, l) => Vouches(q, l)
  OBVIOUS
<1> DEFINE q == [r EXCEPT !.behind = b]
<1>1. r \in Keeps \/ r \in Enters
  BY DEF Requests, Rests, Looks
<1>2. CASE r \in Keeps
  <2>1. q \in Keeps /\ q.pc = r.pc /\ q.behind = b /\ q.age = r.age /\ q.kind = r.kind
    BY <1>2 DEF Keeps
  <2>2. r.pc \in {"modules", "keepTenant"} => q.status = r.status
    BY <1>2 DEF Keeps
  <2>3. r.pc = "keepTenant" => q.modules = r.modules
    BY <1>2 DEF Keeps
  <2>4. r.pc \in {"keepHost", "modules", "keepTenant"}
    BY <1>2 DEF Keeps
  <2> HIDE DEF q
  <2>5. Vouches(r, l) => Vouches(q, l)
    BY <2>1, <2>2, <2>3, <2>4 DEF Vouches, Past
  <2> QED
    BY <2>1, <2>5 DEF Requests, q
<1>3. CASE r \in Enters
  <2>1. r.pc = "keepAccess"
    BY <1>3 DEF Enters
  <2>2. /\ q \in Enters /\ q.pc = r.pc /\ q.behind = b /\ q.age = r.age /\ q.kind = r.kind
        /\ q.modules = r.modules /\ q.staff = r.staff /\ q.caps = r.caps
    BY <1>3, <2>1 DEF Enters
  <2> HIDE DEF q
  <2>3. Vouches(r, l) => Vouches(q, l)
    BY <2>1, <2>2 DEF Vouches, Past
  <2> QED
    BY <2>2, <2>3 DEF Requests, q
<1> QED
  BY <1>1, <1>2, <1>3

\* Nor does whether an entry is.
LEMMA EntryRemarked ==
    \A c \in Caches, b \in BOOLEAN, l \in [Conditions -> Nat] : \A e \in Entry[c] :
        LET f == [e EXCEPT !.behind = b] IN
        /\ f \in Entry[c] /\ f.behind = b
        /\ EntryVouches(c, e, l) => EntryVouches(c, f, l)
<1> TAKE c \in Caches, b \in BOOLEAN, l \in [Conditions -> Nat]
<1> TAKE e \in Entry[c]
<1> DEFINE f == [e EXCEPT !.behind = b]
<1>1. CASE c = "tenant"
  <2>1. f \in Entry[c] /\ f.behind = b /\ f.age = e.age /\ f.status = e.status /\ f.modules = e.modules
    BY <1>1 DEF Entry
  <2> QED
    BY <1>1, <2>1 DEF EntryVouches
<1>2. CASE c = "access"
  <2>1. f \in Entry[c] /\ f.behind = b /\ f.age = e.age /\ f.staff = e.staff /\ f.caps = e.caps
    BY <1>2 DEF Entry
  <2> QED
    BY <1>2, <2>1 DEF EntryVouches
<1>3. CASE c = "host"
  <2>1. f \in Entry[c] /\ f.behind = b /\ f.age = e.age
    BY <1>3 DEF Entry
  <2> QED
    BY <1>3, <2>1 DEF EntryVouches
<1> QED
  BY <1>1, <1>2, <1>3 DEF Caches

\* What vouches for a condition at one time vouches for it when the database
\* has met it more recently.
LEMMA Fresher ==
    \A l, m \in [Conditions -> Nat] : (\A x \in Conditions : m[x] <= l[x]) =>
        /\ \A r \in Requests : Vouches(r, l) => Vouches(r, m)
        /\ \A c \in Caches : \A e \in Entry[c] : EntryVouches(c, e, l) => EntryVouches(c, e, m)
<1> SUFFICES ASSUME NEW l \in [Conditions -> Nat], NEW m \in [Conditions -> Nat],
                    \A x \in Conditions : m[x] <= l[x]
             PROVE  /\ \A r \in Requests : Vouches(r, l) => Vouches(r, m)
                    /\ \A c \in Caches : \A e \in Entry[c] :
                          EntryVouches(c, e, l) => EntryVouches(c, e, m)
  OBVIOUS
<1>1. \A x \in Conditions : m[x] \in Nat /\ l[x] \in Nat /\ m[x] <= l[x]
  OBVIOUS
<1>2. ASSUME NEW r \in Requests, Vouches(r, l) PROVE Vouches(r, m)
  <2>1. r.pc \in {"modules", "keepTenant", "keepHost", "tenant", "config", "access", "keepAccess"}
            => r.age \in Nat /\ Past(r) \in Nat
    BY Carries, WorkspaceAssumption DEF Past, Ages, Pending, Resting
  <2> QED
    BY <1>1, <1>2, <2>1 DEF Vouches, Conditions
<1>3. ASSUME NEW c \in Caches, NEW e \in Entry[c], EntryVouches(c, e, l) PROVE EntryVouches(c, e, m)
  <2>1. e.age + MaxLoad \in Nat
    BY EntryCarries, WorkspaceAssumption
  <2> QED
    BY <1>1, <1>3, <2>1 DEF EntryVouches, Conditions
<1> QED
  BY <1>2, <1>3

\* One request more old, and the conditions missed for one tick longer.
LEMMA Ageing ==
    \A l, m \in [Conditions -> Nat] : (\A x \in Conditions : m[x] <= l[x] + 1) =>
        /\ \A r \in Requests : "age" \in DOMAIN r /\ r.age < MaxLoad =>
              LET q == [r EXCEPT !.age = @ + 1] IN
              /\ q \in Requests /\ q.pc = r.pc
              /\ "behind" \in DOMAIN r => q.behind = r.behind
              /\ Vouches(r, l) => Vouches(q, m)
        /\ \A r \in Requests : "age" \notin DOMAIN r => Vouches(r, m)
        /\ \A c \in Caches : \A e \in Entry[c] : e.age + 1 < TTL =>
              LET f == [e EXCEPT !.age = @ + 1] IN
              /\ f \in Entry[c] /\ f.behind = e.behind
              /\ EntryVouches(c, e, l) => EntryVouches(c, f, m)
<1> SUFFICES ASSUME NEW l \in [Conditions -> Nat], NEW m \in [Conditions -> Nat],
                    \A x \in Conditions : m[x] <= l[x] + 1
             PROVE  /\ \A r \in Requests : "age" \in DOMAIN r /\ r.age < MaxLoad =>
                          LET q == [r EXCEPT !.age = @ + 1] IN
                          /\ q \in Requests /\ q.pc = r.pc
                          /\ "behind" \in DOMAIN r => q.behind = r.behind
                          /\ Vouches(r, l) => Vouches(q, m)
                    /\ \A r \in Requests : "age" \notin DOMAIN r => Vouches(r, m)
                    /\ \A c \in Caches : \A e \in Entry[c] : e.age + 1 < TTL =>
                          LET f == [e EXCEPT !.age = @ + 1] IN
                          /\ f \in Entry[c] /\ f.behind = e.behind
                          /\ EntryVouches(c, e, l) => EntryVouches(c, f, m)
  OBVIOUS
<1>1. \A x \in Conditions : m[x] \in Nat /\ l[x] \in Nat /\ m[x] <= l[x] + 1
  OBVIOUS
<1>2. ASSUME NEW r \in Requests, "age" \in DOMAIN r, r.age < MaxLoad
      PROVE  LET q == [r EXCEPT !.age = @ + 1] IN
             /\ q \in Requests /\ q.pc = r.pc
             /\ "behind" \in DOMAIN r => q.behind = r.behind
             /\ Vouches(r, l) => Vouches(q, m)
  <2> DEFINE q == [r EXCEPT !.age = @ + 1]
  <2>1. r \in Looks \/ r \in Keeps \/ r \in Enters
    BY <1>2 DEF Requests, Rests
  <2>2. r.age \in Nat /\ r.age + 1 \in Ages
    BY <1>2, Carries, WorkspaceAssumption DEF Ages, Pending, Resting
  <2>3. /\ q \in Requests /\ q.pc = r.pc /\ q.kind = r.kind /\ q.age = r.age + 1
        /\ "behind" \in DOMAIN r => q.behind = r.behind
        /\ r.pc \in {"modules", "keepTenant"} => q.status = r.status
        /\ r.pc \in {"keepTenant", "access", "keepAccess"} => q.modules = r.modules
        /\ r.pc = "keepAccess" => q.staff = r.staff /\ q.caps = r.caps
    <3>1. CASE r \in Looks
      BY <2>2, <3>1 DEF Looks, Requests
    <3>2. CASE r \in Keeps
      BY <2>2, <3>2 DEF Keeps, Requests
    <3>3. CASE r \in Enters
      BY <2>2, <3>3 DEF Enters, Requests
    <3> QED
      BY <2>1, <3>1, <3>2, <3>3
  <2> HIDE DEF q
  <2>4. Past(r) \in Nat /\ Past(q) = Past(r) + 1
    BY <2>2, <2>3, WorkspaceAssumption DEF Past
  <2>5. Vouches(r, l) => Vouches(q, m)
    BY <1>1, <2>2, <2>3, <2>4 DEF Vouches, Conditions
  <2> QED
    BY <2>3, <2>5 DEF q
<1>3. ASSUME NEW r \in Requests, "age" \notin DOMAIN r PROVE Vouches(r, m)
  BY <1>3, Carries DEF Vouches, Pending, Resting
<1>4. ASSUME NEW c \in Caches, NEW e \in Entry[c], e.age + 1 < TTL
      PROVE  LET f == [e EXCEPT !.age = @ + 1] IN
             /\ f \in Entry[c] /\ f.behind = e.behind
             /\ EntryVouches(c, e, l) => EntryVouches(c, f, m)
  <2> DEFINE f == [e EXCEPT !.age = @ + 1]
  <2>1. e.age \in Nat /\ e.age + 1 \in 0 .. TTL - 1
    BY <1>4, EntryCarries, WorkspaceAssumption
  <2>2. /\ f \in Entry[c] /\ f.behind = e.behind /\ f.age = e.age + 1
        /\ c = "tenant" => f.status = e.status /\ f.modules = e.modules
        /\ c = "access" => f.staff = e.staff /\ f.caps = e.caps
    <3>1. CASE c = "tenant"
      BY <2>1, <3>1 DEF Entry
    <3>2. CASE c = "access"
      BY <2>1, <3>2 DEF Entry
    <3>3. CASE c = "host"
      BY <2>1, <3>3 DEF Entry
    <3> QED
      BY <3>1, <3>2, <3>3 DEF Caches
  <2> HIDE DEF f
  <2>3. EntryVouches(c, e, l) => EntryVouches(c, f, m)
    BY <1>1, <2>1, <2>2, WorkspaceAssumption DEF EntryVouches, Conditions
  <2> QED
    BY <2>2, <2>3 DEF f
<1> QED
  BY <1>2, <1>3, <1>4

-----------------------------------------------------------------------------
(* Steps.                                                                  *)

\* A request goes on, and has perhaps put an entry in the caches: what it
\* carries on, or has put there, vouches for its conditions, and is overtaken
\* only when what the request had read was.
LEMMA GoesOn ==
    ASSUME IInv, NEW s \in Slots, NEW next \in Requests, Goes(s, next), Reads,
           Vouches(next, lost),
           \A c \in Caches : ~Drops(c, req[s].pc),
           \A c \in Caches : Fills(c, next.pc) /\ next.behind =>
                Fills(c, req[s].pc) /\ req[s].behind,
           DOMAIN cache' = Caches,
           \A c \in Caches :
               \/ cache'[c] = cache[c]
               \/ /\ cache'[c] \in Entry[c] /\ EntryVouches(c, cache'[c], lost)
                  /\ cache'[c].behind => Fills(c, req[s].pc) /\ req[s].behind
    PROVE  IInv'
<1>0. /\ Types /\ LostNow /\ EntriesAreRecent /\ ReadsAreRecent /\ OvertakenIsDropped
      /\ lost' = lost /\ db' = db /\ audience' = audience /\ writes' = writes
  BY DEF IInv, Reads
<1>1. /\ req' \in [Slots -> Requests] /\ req'[s] = next
      /\ \A r \in Slots \ {s} : req'[r] = req[r]
  BY <1>0 DEF Goes, Types
<1>2. Types'
  BY <1>0, <1>1 DEF Types
<1>3. LostNow'
  BY <1>0 DEF LostNow
<1>4. EntriesAreRecent'
  BY <1>0 DEF EntriesAreRecent
<1>5. ReadsAreRecent'
  BY <1>0, <1>1 DEF ReadsAreRecent
<1>6. OvertakenIsDropped'
  <2> SUFFICES ASSUME NEW c \in Caches, \A r \in Slots : ~Drops(c, req'[r].pc)
               PROVE  /\ cache'[c] # NoEntry => ~cache'[c].behind
                      /\ \A r \in Slots : Fills(c, req'[r].pc) => ~req'[r].behind
    BY DEF OvertakenIsDropped
  <2>1. \A r \in Slots : ~Drops(c, req[r].pc)
    BY <1>1
  <2>2. /\ cache[c] # NoEntry => ~cache[c].behind
        /\ \A r \in Slots : Fills(c, req[r].pc) => ~req[r].behind
    BY <1>0, <2>1 DEF OvertakenIsDropped
  <2> QED
    BY <1>1, <2>2
<1> QED
  BY <1>2, <1>3, <1>4, <1>5, <1>6 DEF IInv

\* Marking what has been read for a cache.
LEMMA Marks ==
    ASSUME req \in [Slots -> Requests], ReadsAreRecent,
           NEW c \in Caches, NEW s \in Slots, NEW next \in Pending,
           Marked(c, s, next, TRUE) \/ Marked(c, s, next, FALSE),
           lost \in [Conditions -> Nat], lost' \in [Conditions -> Nat],
           \A x \in Conditions : lost'[x] <= lost[x]
    PROVE  /\ req' \in [Slots -> Requests] /\ ReadsAreRecent'
           /\ req'[s].pc = next
           /\ \A r \in Slots \ {s} :
                 /\ req'[r].pc = req[r].pc
                 /\ Fills(c, req[r].pc) /\ Marked(c, s, next, FALSE) => ~req'[r].behind
                 /\ ~Fills(c, req[r].pc) => req'[r] = req[r]
<1>1. \A r \in Slots : r \in Filling(c) <=> Fills(c, req[r].pc)
  BY DEF Filling, Fills, At
<1>2. [pc |-> next] \in Requests /\ Vouches([pc |-> next], lost')
  BY DEF Requests, Rests, Pending, Vouches
<1>3. req'[s] = [pc |-> next]
  BY DEF Marked
<1>4. ASSUME NEW r \in Slots \ {s}, Fills(c, req[r].pc)
      PROVE  /\ req'[r] \in Requests /\ req'[r].pc = req[r].pc
             /\ Marked(c, s, next, FALSE) => ~req'[r].behind
             /\ Vouches(req'[r], lost')
  <2>1. /\ Marked(c, s, next, TRUE) => req'[r] = [req[r] EXCEPT !.behind = TRUE]
        /\ Marked(c, s, next, FALSE) => req'[r] = [req[r] EXCEPT !.behind = FALSE]
    BY <1>1, <1>4 DEF Marked
  <2>2. "behind" \in DOMAIN req[r] /\ req[r] \in Requests
    BY <1>4, Carries DEF Fills
  <2>3. Vouches(req[r], lost')
    BY Fresher DEF ReadsAreRecent
  <2>4. LET q == [req[r] EXCEPT !.behind = TRUE]
            p == [req[r] EXCEPT !.behind = FALSE]
        IN  /\ q \in Requests /\ q.pc = req[r].pc /\ Vouches(q, lost')
            /\ p \in Requests /\ p.pc = req[r].pc /\ p.behind = FALSE /\ Vouches(p, lost')
    <3>1. TRUE \in BOOLEAN /\ FALSE \in BOOLEAN
      OBVIOUS
    <3> QED
      BY <2>2, <2>3, <3>1, Remarked, Zenon
  <2> QED
    BY <2>1, <2>4
<1>5. ASSUME NEW r \in Slots \ {s}, ~Fills(c, req[r].pc)
      PROVE  req'[r] = req[r] /\ Vouches(req'[r], lost')
  <2>1. req'[r] = req[r]
    BY <1>1, <1>5 DEF Marked
  <2>2. Vouches(req[r], lost')
    BY Fresher DEF ReadsAreRecent
  <2> QED
    BY <2>1, <2>2
<1>6. DOMAIN req' = Slots /\ req' = [r \in Slots |-> req'[r]]
  BY DEF Marked
<1>7. \A r \in Slots : req'[r] \in Requests /\ Vouches(req'[r], lost')
  BY <1>2, <1>3, <1>4, <1>5
<1>8. req' \in [Slots -> Requests]
  BY <1>6, <1>7
<1>9. ReadsAreRecent'
  BY <1>7 DEF ReadsAreRecent
<1>10. ASSUME NEW r \in Slots \ {s}
       PROVE  /\ req'[r].pc = req[r].pc
              /\ Fills(c, req[r].pc) /\ Marked(c, s, next, FALSE) => ~req'[r].behind
              /\ ~Fills(c, req[r].pc) => req'[r] = req[r]
  <2>1. CASE Fills(c, req[r].pc)
    BY <1>4, <2>1, Zenon
  <2>2. CASE ~Fills(c, req[r].pc)
    BY <1>5, <2>2, Zenon
  <2> QED
    BY <2>1, <2>2
<1>11. req'[s].pc = next
  BY <1>3
<1> QED
  BY <1>8, <1>9, <1>10, <1>11, Zenon

\* What a change makes of the database leaves the conditions met as recently
\* as before, or more.
LEMMA Remembers ==
    ASSUME Types, LostNow, NEW d \in Database, Becomes(d)
    PROVE  /\ lost' \in [Conditions -> Nat] /\ LostNow' /\ audience' = audience
           /\ \A x \in Conditions : lost'[x] <= lost[x]
           /\ \A x \in Conditions : lost'[x] <= Lag(x) + 1
           /\ db' \in Database
<1>1. /\ db' = d /\ audience' = audience
      /\ lost' = [x \in Conditions |-> IF Meets(d, x) THEN 0 ELSE lost[x]]
  BY DEF Becomes, Remembered
<1>2. \A x \in Conditions : lost[x] \in Nat /\ lost[x] <= Lag(x) + 1
  BY DEF Types
<1>3. \A x \in Conditions : /\ lost'[x] \in Nat /\ lost'[x] <= lost[x]
                            /\ lost'[x] <= Lag(x) + 1
                            /\ Meets(d, x) => lost'[x] = 0
  <2>1. \A x \in Conditions : Lag(x) + 1 \in Nat
    BY WorkspaceAssumption DEF Lag
  <2> QED
    BY <1>1, <1>2, <2>1
<1> QED
  BY <1>1, <1>3 DEF LostNow

\* A writer of this process that leaves a cache's entry to be dropped.
LEMMA OvertakesKeeps ==
    ASSUME IInv, NEW c \in Caches, NEW s \in Slots, NEW next, Drops(c, next),
           NEW d \in Database, Becomes(d), Overtakes(c, s, next), writes' \in 0 .. MaxWrites,
           \A k \in Caches \ {c} : ~Drops(k, req[s].pc)
    PROVE  IInv'
<1>0. Types /\ LostNow /\ EntriesAreRecent /\ ReadsAreRecent /\ OvertakenIsDropped
  BY DEF IInv
<1>1. /\ lost' \in [Conditions -> Nat] /\ LostNow' /\ audience' = audience
      /\ \A x \in Conditions : lost'[x] <= lost[x]
      /\ \A x \in Conditions : lost'[x] <= Lag(x) + 1
      /\ db' \in Database
  BY <1>0, Remembers
<1>2. next \in Pending
  BY DEF Drops, Caches, Pending
<1>3. Marked(c, s, next, TRUE)
  BY DEF Overtakes
<1>4. /\ req' \in [Slots -> Requests] /\ ReadsAreRecent' /\ req'[s].pc = next
      /\ \A r \in Slots \ {s} :
            /\ req'[r].pc = req[r].pc
            /\ ~Fills(c, req[r].pc) => req'[r] = req[r]
  <2>1. req \in [Slots -> Requests] /\ lost \in [Conditions -> Nat]
    BY <1>0 DEF Types
  <2>2. lost' \in [Conditions -> Nat] /\ \A x \in Conditions : lost'[x] <= lost[x]
    BY <1>0, <1>1, <2>1
  <2>3. ReadsAreRecent
    BY <1>0
  <2>4. Marked(c, s, next, TRUE)
    BY DEF Overtakes
  <2> QED
    BY <2>1, <2>2, <2>3, <2>4, <1>2, Marks
<1>5. /\ DOMAIN cache' = Caches
      /\ \A k \in Caches \ {c} : cache'[k] = cache[k]
      /\ cache[c] = NoEntry => cache'[c] = NoEntry
      /\ cache[c] # NoEntry => cache'[c] = [cache[c] EXCEPT !.behind = TRUE]
  BY <1>0 DEF Overtakes, Entered, Types
<1>6. cache[c] # NoEntry =>
        /\ cache'[c] \in Entry[c]
        /\ EntryVouches(c, cache[c], lost) => EntryVouches(c, cache'[c], lost)
  <2> SUFFICES ASSUME cache[c] # NoEntry
               PROVE  /\ cache'[c] \in Entry[c]
                      /\ EntryVouches(c, cache[c], lost) => EntryVouches(c, cache'[c], lost)
    OBVIOUS
  <2>1. cache[c] \in Entry[c] /\ lost \in [Conditions -> Nat] /\ TRUE \in BOOLEAN
    BY <1>0 DEF Types
  <2>2. LET f == [cache[c] EXCEPT !.behind = TRUE] IN
        /\ f \in Entry[c] /\ f.behind = TRUE
        /\ EntryVouches(c, cache[c], lost) => EntryVouches(c, f, lost)
    BY <2>1, EntryRemarked, Zenon
  <2> QED
    BY <1>5, <2>2
<1>7. Types'
  BY <1>0, <1>1, <1>4, <1>5, <1>6 DEF Types
<1>8. EntriesAreRecent'
  <2> SUFFICES ASSUME NEW k \in Caches, cache'[k] # NoEntry PROVE EntryVouches(k, cache'[k], lost')
    BY DEF EntriesAreRecent
  <2>1. cache'[k] \in Entry[k] /\ EntryVouches(k, cache'[k], lost)
    BY <1>0, <1>5, <1>6 DEF EntriesAreRecent, Types
  <2> QED
    BY <1>0, <1>1, <2>1, Fresher DEF Types
<1>9. OvertakenIsDropped'
  <2> SUFFICES ASSUME NEW k \in Caches, \A r \in Slots : ~Drops(k, req'[r].pc)
               PROVE  /\ cache'[k] # NoEntry => ~cache'[k].behind
                      /\ \A r \in Slots : Fills(k, req'[r].pc) => ~req'[r].behind
    BY DEF OvertakenIsDropped
  <2>1. k # c
    BY <1>4
  <2>2. \A r \in Slots : ~Drops(k, req[r].pc)
    BY <1>4, <2>1
  <2>3. /\ cache[k] # NoEntry => ~cache[k].behind
        /\ \A r \in Slots : Fills(k, req[r].pc) => ~req[r].behind
    BY <1>0, <2>2 DEF OvertakenIsDropped
  <2>4. ~Fills(k, next)
    BY <1>2 DEF Fills, Pending
  <2>5. \A r \in Slots : Fills(k, req[r].pc) => ~Fills(c, req[r].pc)
    BY <2>1 DEF Fills
  <2> QED
    BY <1>4, <1>5, <2>1, <2>3, <2>4, <2>5
<1> QED
  BY <1>1, <1>4, <1>7, <1>8, <1>9 DEF IInv

\* Dropping a cache's entry, or giving up a write of it: nothing that is read
\* or kept for it is overtaken any more.
LEMMA ClearsKeeps ==
    ASSUME IInv, NEW c \in Caches, NEW s \in Slots, NEW next \in Pending,
           Reads, Marked(c, s, next, FALSE),
           Entered(c, FALSE) \/ cache' = [cache EXCEPT ![c] = NoEntry],
           \A k \in Caches \ {c} : ~Drops(k, req[s].pc)
    PROVE  IInv'
<1>0. /\ Types /\ LostNow /\ EntriesAreRecent /\ ReadsAreRecent /\ OvertakenIsDropped
      /\ lost' = lost /\ db' = db /\ audience' = audience /\ writes' = writes
  BY DEF IInv, Reads
<1>1. \A x \in Conditions : lost'[x] <= lost[x]
  BY <1>0 DEF Types
<1>4. /\ req' \in [Slots -> Requests] /\ ReadsAreRecent' /\ req'[s].pc = next
      /\ \A r \in Slots \ {s} :
            /\ req'[r].pc = req[r].pc
            /\ Fills(c, req[r].pc) => ~req'[r].behind
            /\ ~Fills(c, req[r].pc) => req'[r] = req[r]
  <2>1. /\ req \in [Slots -> Requests] /\ lost \in [Conditions -> Nat]
        /\ lost' \in [Conditions -> Nat]
    BY <1>0 DEF Types
  <2>2. \A x \in Conditions : lost'[x] <= lost[x]
    BY <1>1
  <2>3. ReadsAreRecent
    BY <1>0
  <2> QED
    BY <2>1, <2>2, <2>3, Marks
<1>5. /\ DOMAIN cache' = Caches
      /\ \A k \in Caches \ {c} : cache'[k] = cache[k]
      /\ \/ cache'[c] = NoEntry
         \/ cache[c] # NoEntry /\ cache'[c] = [cache[c] EXCEPT !.behind = FALSE]
  BY <1>0 DEF Entered, Types
<1>6. cache'[c] # NoEntry =>
        /\ cache'[c] \in Entry[c] /\ cache'[c].behind = FALSE
        /\ EntryVouches(c, cache'[c], lost)
  <2> SUFFICES ASSUME cache'[c] # NoEntry
               PROVE  /\ cache'[c] \in Entry[c] /\ cache'[c].behind = FALSE
                      /\ EntryVouches(c, cache'[c], lost)
    OBVIOUS
  <2>1. /\ cache[c] \in Entry[c] /\ EntryVouches(c, cache[c], lost)
        /\ lost \in [Conditions -> Nat] /\ FALSE \in BOOLEAN
    BY <1>0, <1>5 DEF Types, EntriesAreRecent
  <2>2. LET f == [cache[c] EXCEPT !.behind = FALSE] IN
        /\ f \in Entry[c] /\ f.behind = FALSE
        /\ EntryVouches(c, cache[c], lost) => EntryVouches(c, f, lost)
    BY <2>1, EntryRemarked, Zenon
  <2> QED
    BY <1>5, <2>1, <2>2
<1>7. Types'
  BY <1>0, <1>4, <1>5, <1>6 DEF Types
<1>8. EntriesAreRecent'
  BY <1>0, <1>5, <1>6 DEF EntriesAreRecent
<1>9. OvertakenIsDropped'
  <2> SUFFICES ASSUME NEW k \in Caches, \A r \in Slots : ~Drops(k, req'[r].pc)
               PROVE  /\ cache'[k] # NoEntry => ~cache'[k].behind
                      /\ \A r \in Slots : Fills(k, req'[r].pc) => ~req'[r].behind
    BY DEF OvertakenIsDropped
  <2>1. ~Fills(k, next)
    BY DEF Fills, Pending
  <2>2. CASE k = c
    BY <1>4, <1>6, <2>1, <2>2
  <2>3. CASE k # c
    <3>1. \A r \in Slots : ~Drops(k, req[r].pc)
      BY <1>4, <2>3
    <3>2. /\ cache[k] # NoEntry => ~cache[k].behind
          /\ \A r \in Slots : Fills(k, req[r].pc) => ~req[r].behind
      BY <1>0, <3>1 DEF OvertakenIsDropped
    <3>3. \A r \in Slots : Fills(k, req[r].pc) => ~Fills(c, req[r].pc)
      BY <2>3 DEF Fills
    <3> QED
      BY <1>4, <1>5, <2>1, <2>3, <3>2, <3>3
  <2> QED
    BY <2>2, <2>3
<1>10. LostNow'
  BY <1>0 DEF LostNow
<1> QED
  BY <1>4, <1>7, <1>8, <1>9, <1>10 DEF IInv

\* A request that goes on without touching the caches.
LEMMA LooksOn ==
    ASSUME IInv, NEW s \in Slots, NEW next \in Requests, Goes(s, next), Reads, UNCHANGED cache,
           Vouches(next, lost), \A c \in Caches : ~Drops(c, req[s].pc),
           \A c \in Caches : Fills(c, next.pc) /\ next.behind =>
                Fills(c, req[s].pc) /\ req[s].behind
    PROVE  IInv'
<1>1. DOMAIN cache' = Caches /\ \A c \in Caches : cache'[c] = cache[c]
  BY DEF IInv, Types
<1> QED
  BY <1>1, GoesOn

\* A request that keeps what it has read, and goes on to read nothing yet.
LEMMA KeepsOn ==
    ASSUME IInv, NEW s \in Slots, NEW next \in Requests, Goes(s, next), Reads,
           NEW k \in Caches, NEW e \in Entry[k], cache' = [cache EXCEPT ![k] = e],
           EntryVouches(k, e, lost), e.behind = req[s].behind, Fills(k, req[s].pc),
           Vouches(next, lost), \A c \in Caches : ~Fills(c, next.pc)
    PROVE  IInv'
<1>1. /\ DOMAIN cache' = Caches /\ cache'[k] = e
      /\ \A c \in Caches \ {k} : cache'[c] = cache[c]
  BY DEF IInv, Types
<1>2. \A c \in Caches : ~Drops(c, req[s].pc)
  BY DEF Fills, Drops, Caches
<1>3. \A c \in Caches :
         \/ cache'[c] = cache[c]
         \/ /\ cache'[c] \in Entry[c] /\ EntryVouches(c, cache'[c], lost)
            /\ cache'[c].behind => Fills(c, req[s].pc) /\ req[s].behind
  BY <1>1
<1> QED
  BY <1>1, <1>2, <1>3, GoesOn

\* An answer and the way on from bySlug carry nothing that has to be dropped.
LEMMA Answers ==
    ASSUME Types, NEW s \in Slots, NEW ok, Answer(s, ok), req[s].pc \notin Pending
    PROVE  \E next \in Requests :
              /\ Goes(s, next) /\ Vouches(next, lost)
              /\ next.pc \in {"served", "refused"}
<1> DEFINE next == [pc |-> IF ok THEN "served" ELSE "refused", kind |-> req[s].kind]
<1>1. req[s].kind \in Kinds
  BY Carries DEF Types
<1>2. next \in Requests
  BY <1>1 DEF Requests, Rests
<1>3. next.pc \in {"served", "refused"} /\ Goes(s, next)
  BY DEF Answer
<1>4. Vouches(next, lost)
  BY DEF Vouches
<1> QED
  BY <1>2, <1>3, <1>4

LEMMA Admits ==
    ASSUME IInv, NEW s \in Slots, NEW status \in Statuses, NEW modules \in SUBSET Modules,
           Admit(s, status, modules), req[s].pc \in {"tenant", "keepTenant"},
           status = "active" => lost["status"] <= Past(req[s]),
           "storefront" \in modules => lost["storefront"] <= Past(req[s])
    PROVE  \E next \in Requests :
              /\ Goes(s, next) /\ Vouches(next, lost)
              /\ next.pc \in {"served", "refused", "access", "config"}
<1>1. Types /\ Vouches(req[s], lost)
  BY DEF IInv, ReadsAreRecent
<1>2. req[s].kind \in Kinds /\ req[s].age \in Ages /\ req[s].pc \notin Pending
  BY <1>1, Carries DEF Types, Pending, Resting
<1>3. CASE Answer(s, FALSE)
  BY <1>1, <1>2, <1>3, Answers
<1>4. CASE /\ req[s].kind = "member" /\ status = "active"
           /\ Goes(s, [pc |-> "access", kind |-> "member", age |-> req[s].age, modules |-> modules])
  <2> DEFINE next == [pc |-> "access", kind |-> "member", age |-> req[s].age, modules |-> modules]
  <2>1. next \in Requests
    BY <1>2 DEF Requests, Enters
  <2>2. Past(next) = Past(req[s])
    BY DEF Past
  <2>3. Vouches(next, lost)
    BY <1>4, <2>2 DEF Vouches
  <2> QED
    BY <1>4, <2>1, <2>3
<1>5. CASE /\ req[s].kind = "visitor" /\ "storefront" \in modules
           /\ Goes(s, [pc |-> "config", kind |-> req[s].kind, age |-> req[s].age])
  <2> DEFINE next == [pc |-> "config", kind |-> req[s].kind, age |-> req[s].age]
  <2>1. next \in Requests
    BY <1>2, <1>5 DEF Requests, Looks
  <2>2. Past(next) = Past(req[s])
    BY DEF Past
  <2>3. lost["domain"] <= Past(req[s])
    BY <1>1, <1>5 DEF Vouches
  <2>4. Vouches(next, lost)
    BY <1>5, <2>2, <2>3 DEF Vouches
  <2> QED
    BY <1>5, <2>1, <2>4
<1> QED
  BY <1>2, <1>3, <1>4, <1>5 DEF Admit, Kinds

\* What a resting or looking request knows, and what may be read of the records.
LEMMA Known ==
    ASSUME IInv
    PROVE  /\ Types /\ LostNow
           /\ \A s \in Slots : req[s] \in Requests /\ Vouches(req[s], lost)
           /\ \A c \in Caches : cache[c] # NoEntry =>
                 cache[c] \in Entry[c] /\ EntryVouches(c, cache[c], lost)
           /\ db.status \in Statuses /\ db.modules \in SUBSET Modules
           /\ db.staff \in Staff /\ db.caps \in CapSets
           /\ \A x \in Conditions : lost[x] \in Nat
BY DEF IInv, Types, ReadsAreRecent, EntriesAreRecent, Database, Statuses, Staff

\* What is read now was met now.
LEMMA MetNow ==
    ASSUME LostNow
    PROVE  /\ db.status = "active" => lost["status"] = 0
           /\ ~isDisabled(db.staff) => lost["staff"] = 0
           /\ db.staff = "gone" \/ HasCapability(db.caps) => lost["caps"] = 0
           /\ "storefront" \in db.modules => lost["storefront"] = 0
           /\ db.live => lost["live"] = 0
           /\ db.domain => lost["domain"] = 0
BY DEF LostNow, Meets, Conditions, Modules

LEMMA AsksKeeps == ASSUME IInv, NEW s \in Slots, Asks(s) PROVE IInv'
<1> USE Known
<1> DEFINE r == req[s]
           Undropped == \A c \in Caches : ~Drops(c, r.pc)
           Unfilled(next) == \A c \in Caches : ~Fills(c, next.pc)
<1>0. r \in Requests /\ Vouches(r, lost) /\ MaxLoad \in Nat /\ TTL - 1 \in Nat
  BY WorkspaceAssumption
<1>1. CASE HostHit(s)
  <2>1. /\ At(s, "host") /\ cache["host"] # NoEntry /\ Goes(s, HostKnown(s))
        /\ Reads /\ UNCHANGED cache
    BY <1>1 DEF HostHit
  <2>2. r.pc = "host" /\ r.age \in Ages /\ r.age \in Nat
    BY <2>1, <1>0, Carries, WorkspaceAssumption DEF At, Pending, Resting, Ages
  <2>3. HostKnown(s) \in Requests /\ Unfilled(HostKnown(s)) /\ Undropped
    BY <2>2 DEF HostKnown, Requests, Looks, Kinds, Fills, Drops, Caches
  <2>4. EntryVouches("host", cache["host"], lost) /\ cache["host"].age \in Nat /\ cache["host"].age <= TTL - 1
    BY <2>1, EntryCarries DEF Caches
  <2>5. lost["domain"] <= Past(HostKnown(s))
    BY <2>2, <2>4, <1>0 DEF EntryVouches, Past, HostKnown, Conditions
  <2>6. Vouches(HostKnown(s), lost)
    BY <2>5 DEF Vouches, HostKnown
  <2> QED
    BY <2>1, <2>3, <2>6, LooksOn
<1>2. CASE ReadHost(s)
  <2>1. At(s, "host") /\ Reads /\ UNCHANGED cache
    BY <1>2 DEF ReadHost
  <2>2. r.pc = "host" /\ r.age \in Ages /\ r.age \in Nat /\ Undropped
    BY <2>1, <1>0, Carries, WorkspaceAssumption DEF At, Pending, Resting, Ages, Drops, Caches
  <2>3. CASE db.domain
    <3> DEFINE next == [pc |-> "keepHost", kind |-> "visitor", age |-> r.age, behind |-> FALSE]
    <3>1. next \in Requests /\ ~next.behind
      BY <2>2 DEF Requests, Keeps
    <3>2. Vouches(next, lost)
      BY <2>2, <2>3, MetNow DEF Vouches
    <3>3. Goes(s, next)
      BY <1>2, <2>3 DEF ReadHost
    <3> HIDE DEF next
    <3> QED
      BY <2>1, <2>2, <3>1, <3>2, <3>3, LooksOn
  <2>4. CASE ~db.domain
    <3>1. Answer(s, FALSE) /\ r.pc \notin Pending
      BY <1>2, <2>2, <2>4 DEF ReadHost, Pending
    <3>2. PICK next \in Requests : /\ Goes(s, next) /\ Vouches(next, lost)
                                   /\ next.pc \in {"served", "refused"}
      BY <3>1, Answers
    <3>3. Unfilled(next)
      BY <3>2 DEF Fills
    <3> QED
      BY <2>1, <2>2, <3>2, <3>3, LooksOn
  <2> QED
    BY <2>3, <2>4
<1>3. CASE KeepHost(s)
  <2> DEFINE e == [age |-> 0, behind |-> r.behind]
  <2>1. /\ At(s, "keepHost") /\ cache' = [cache EXCEPT !["host"] = e]
        /\ Goes(s, HostKnown(s)) /\ Reads
    BY <1>3 DEF KeepHost
  <2>2. r.pc = "keepHost" /\ r.age \in Nat /\ r.age <= MaxLoad /\ r.age \in Ages /\ r.behind \in BOOLEAN
    BY <2>1, <1>0, Carries, WorkspaceAssumption DEF At, Pending, Resting, Ages
  <2>3. HostKnown(s) \in Requests /\ Unfilled(HostKnown(s)) /\ Fills("host", r.pc)
    BY <2>2 DEF HostKnown, Requests, Looks, Kinds, Fills
  <2>4. lost["domain"] <= r.age
    BY <2>2, <1>0 DEF Vouches
  <2>5. e \in Entry["host"] /\ e.behind = r.behind
    BY <2>2, <1>0, WorkspaceAssumption DEF Entry
  <2>6. EntryVouches("host", e, lost)
    BY <2>2, <2>4, <1>0 DEF EntryVouches, Conditions
  <2>7. Vouches(HostKnown(s), lost)
    BY <2>2, <2>4, <1>0 DEF Vouches, HostKnown, Past, Conditions
  <2> HIDE DEF e
  <2> QED
    BY <2>1, <2>3, <2>5, <2>6, <2>7, KeepsOn DEF Caches
<1>4. CASE TenantHit(s)
  <2> DEFINE e == cache["tenant"]
  <2>1. /\ At(s, "tenant") /\ e # NoEntry /\ Admit(s, e.status, e.modules)
        /\ Reads /\ UNCHANGED cache
    BY <1>4 DEF TenantHit
  <2>2. r.pc = "tenant" /\ r.age \in Nat /\ Undropped
    BY <2>1, <1>0, Carries, WorkspaceAssumption DEF At, Pending, Resting, Ages, Drops, Caches
  <2>3. /\ e \in Entry["tenant"] /\ EntryVouches("tenant", e, lost)
        /\ e.status \in Statuses /\ e.modules \in SUBSET Modules
        /\ e.age \in Nat /\ e.age <= TTL - 1
    BY <2>1, EntryCarries DEF Caches
  <2>4. /\ e.status = "active" => lost["status"] <= Past(r)
        /\ "storefront" \in e.modules => lost["storefront"] <= Past(r)
    BY <2>2, <2>3, <1>0 DEF EntryVouches, Past, Conditions
  <2> HIDE DEF e
  <2>5. PICK next \in Requests : /\ Goes(s, next) /\ Vouches(next, lost)
                                 /\ next.pc \in {"served", "refused", "access", "config"}
    BY <2>1, <2>2, <2>3, <2>4, Admits
  <2>6. Unfilled(next)
    BY <2>5 DEF Fills
  <2> QED
    BY <2>1, <2>2, <2>5, <2>6, LooksOn
<1>5. CASE ReadRow(s)
  <2> DEFINE next == [pc |-> "modules", kind |-> r.kind, age |-> r.age, status |-> db.status,
                      behind |-> FALSE]
  <2>1. At(s, "tenant") /\ Goes(s, next) /\ Reads /\ UNCHANGED cache
    BY <1>5 DEF ReadRow
  <2>2. /\ r.pc = "tenant" /\ r.age \in Nat /\ r.age \in Ages /\ r.kind \in Kinds /\ Undropped
    BY <2>1, <1>0, Carries, WorkspaceAssumption DEF At, Pending, Resting, Ages, Drops, Caches
  <2>3. next \in Requests /\ ~next.behind
    BY <2>2 DEF Requests, Keeps
  <2>4. Past(next) = Past(r)
    BY DEF Past
  <2>5. Vouches(next, lost)
    BY <2>2, <2>4, <1>0, MetNow DEF Vouches
  <2> HIDE DEF next
  <2> QED
    BY <2>1, <2>2, <2>3, <2>5, LooksOn
<1>6. CASE ReadModules(s)
  <2> DEFINE next == [pc |-> "keepTenant", kind |-> r.kind, age |-> r.age,
                      status |-> r.status, modules |-> db.modules, behind |-> r.behind]
  <2>1. At(s, "modules") /\ Goes(s, next) /\ Reads /\ UNCHANGED cache
    BY <1>6 DEF ReadModules
  <2>2. /\ r.pc = "modules" /\ r.age \in Nat /\ r.age \in Ages /\ r.kind \in Kinds /\ Undropped
        /\ r.status \in Statuses /\ r.behind \in BOOLEAN
    BY <2>1, <1>0, Carries, WorkspaceAssumption DEF At, Pending, Resting, Ages, Drops, Caches
  <2>3. next \in Requests /\ next.behind = r.behind /\ next.pc = "keepTenant"
    BY <2>2 DEF Requests, Keeps
  <2>4. Past(next) = Past(r)
    BY DEF Past
  <2>5. Vouches(next, lost)
    BY <2>2, <2>4, <1>0, MetNow DEF Vouches
  <2>6. \A c \in Caches : Fills(c, next.pc) => Fills(c, r.pc)
    BY <2>2 DEF Fills
  <2> HIDE DEF next
  <2> QED
    BY <2>1, <2>2, <2>3, <2>5, <2>6, LooksOn
<1>7. CASE KeepTenant(s)
  <2> DEFINE e == [status |-> r.status, modules |-> r.modules, age |-> 0, behind |-> r.behind]
  <2>1. /\ At(s, "keepTenant") /\ cache' = [cache EXCEPT !["tenant"] = e]
        /\ Admit(s, r.status, r.modules) /\ Reads
    BY <1>7 DEF KeepTenant
  <2>2. /\ r.pc = "keepTenant" /\ r.age \in Nat /\ r.age <= MaxLoad /\ Fills("tenant", r.pc)
        /\ r.status \in Statuses /\ r.modules \in SUBSET Modules /\ r.behind \in BOOLEAN
    BY <2>1, <1>0, Carries, WorkspaceAssumption DEF At, Pending, Resting, Ages, Fills
  <2>3. /\ r.status = "active" => lost["status"] <= r.age
        /\ "storefront" \in r.modules => lost["storefront"] <= r.age
    BY <2>2, <1>0 DEF Vouches
  <2>4. e \in Entry["tenant"] /\ e.behind = r.behind
    BY <2>2, <1>0, WorkspaceAssumption DEF Entry, Statuses
  <2>5. EntryVouches("tenant", e, lost)
    BY <2>2, <2>3, <1>0 DEF EntryVouches, Conditions
  <2>6. /\ r.status = "active" => lost["status"] <= Past(r)
        /\ "storefront" \in r.modules => lost["storefront"] <= Past(r)
    BY <2>2, <2>3, <1>0 DEF Past, Conditions
  <2>7. PICK next \in Requests : /\ Goes(s, next) /\ Vouches(next, lost)
                                 /\ next.pc \in {"served", "refused", "access", "config"}
    BY <2>1, <2>2, <2>6, Admits
  <2>8. Unfilled(next)
    BY <2>7 DEF Fills
  <2> HIDE DEF e
  <2> QED
    BY <2>1, <2>2, <2>4, <2>5, <2>7, <2>8, KeepsOn DEF Caches
<1>8. CASE AccessHit(s)
  <2>1. At(s, "access") /\ Reads /\ UNCHANGED cache
    BY <1>8 DEF AccessHit
  <2>2. r.pc = "access" /\ r.pc \notin Pending /\ Undropped
    BY <2>1 DEF At, Pending, Drops, Caches
  <2>3. PICK ok : Answer(s, ok)
    BY <1>8 DEF AccessHit, Pass
  <2>4. PICK next \in Requests : /\ Goes(s, next) /\ Vouches(next, lost)
                                 /\ next.pc \in {"served", "refused"}
    BY <2>2, <2>3, Answers
  <2>5. Unfilled(next)
    BY <2>4 DEF Fills
  <2> QED
    BY <2>1, <2>2, <2>4, <2>5, LooksOn
<1>9. CASE ReadAccess(s)
  <2> DEFINE next == [pc |-> "keepAccess", kind |-> "member", age |-> r.age, modules |-> r.modules,
                      staff |-> db.staff, caps |-> db.caps, behind |-> FALSE]
  <2>1. At(s, "access") /\ Goes(s, next) /\ Reads /\ UNCHANGED cache
    BY <1>9 DEF ReadAccess
  <2>2. /\ r.pc = "access" /\ r.age \in Nat /\ r.age \in Ages /\ r.modules \in SUBSET Modules
        /\ Undropped
    BY <2>1, <1>0, Carries, WorkspaceAssumption DEF At, Pending, Resting, Ages, Drops, Caches
  <2>3. next \in Requests /\ ~next.behind
    BY <2>2 DEF Requests, Enters
  <2>4. Past(next) = Past(r)
    BY DEF Past
  <2>5. Vouches(next, lost)
    BY <2>2, <2>4, <1>0, MetNow DEF Vouches
  <2> HIDE DEF next
  <2> QED
    BY <2>1, <2>2, <2>3, <2>5, LooksOn
<1>10. CASE KeepAccess(s)
  <2> DEFINE e == [staff |-> r.staff, caps |-> r.caps, age |-> 0, behind |-> r.behind]
  <2>1. /\ At(s, "keepAccess") /\ cache' = [cache EXCEPT !["access"] = e] /\ Reads
    BY <1>10 DEF KeepAccess
  <2>2. /\ r.pc = "keepAccess" /\ r.age \in Nat /\ r.age <= MaxLoad /\ Fills("access", r.pc)
        /\ r.staff \in Staff /\ r.caps \in CapSets /\ r.behind \in BOOLEAN /\ r.pc \notin Pending
    BY <2>1, <1>0, Carries, WorkspaceAssumption DEF At, Pending, Resting, Ages, Fills
  <2>3. /\ ~isDisabled(r.staff) => lost["staff"] <= r.age
        /\ r.staff = "gone" \/ HasCapability(r.caps) => lost["caps"] <= r.age
    BY <2>2, <1>0 DEF Vouches
  <2>4. e \in Entry["access"] /\ e.behind = r.behind
    BY <2>2, <1>0, WorkspaceAssumption DEF Entry, Staff
  <2>5. EntryVouches("access", e, lost)
    BY <2>2, <2>3, <1>0 DEF EntryVouches, Conditions
  <2>6. PICK ok : Answer(s, ok)
    BY <1>10 DEF KeepAccess, Pass
  <2>7. PICK next \in Requests : /\ Goes(s, next) /\ Vouches(next, lost)
                                 /\ next.pc \in {"served", "refused"}
    BY <2>2, <2>6, Answers
  <2>8. Unfilled(next)
    BY <2>7 DEF Fills
  <2> HIDE DEF e
  <2> QED
    BY <2>1, <2>2, <2>4, <2>5, <2>7, <2>8, KeepsOn DEF Caches
<1>11. CASE ReadConfig(s)
  <2>1. At(s, "config") /\ Answer(s, db.live) /\ Reads /\ UNCHANGED cache
    BY <1>11 DEF ReadConfig
  <2>2. r.pc = "config" /\ r.pc \notin Pending /\ Undropped
    BY <2>1 DEF At, Pending, Drops, Caches
  <2>3. PICK ok : Answer(s, ok)
    BY <2>1
  <2>4. PICK next \in Requests : /\ Goes(s, next) /\ Vouches(next, lost)
                                 /\ next.pc \in {"served", "refused"}
    BY <2>2, <2>3, Answers
  <2>5. Unfilled(next)
    BY <2>4 DEF Fills
  <2> QED
    BY <2>1, <2>2, <2>4, <2>5, LooksOn
<1>12. CASE Leave(s)
  <2>1. /\ r.pc \in {"served", "refused"} /\ Goes(s, Idle) /\ Reads /\ UNCHANGED cache
    BY <1>12 DEF Leave
  <2>2. Idle \in Requests /\ Vouches(Idle, lost) /\ Unfilled(Idle)
    BY DEF Idle, Requests, Rests, Pending, Vouches, Fills
  <2>3. Undropped
    BY <2>1 DEF Drops, Caches
  <2> QED
    BY <2>1, <2>2, <2>3, LooksOn
<1> QED
  BY <1>1, <1>2, <1>3, <1>4, <1>5, <1>6, <1>7, <1>8, <1>9, <1>10, <1>11, <1>12 DEF Asks

\* The records as the writers may leave them.
LEMMA RowsAreRecords ==
    ASSUME db \in Database
    PROVE  TenantRows \cup ModuleRows \cup StaffRows \cup CapsRows \cup ConfigRows \subseteq Database
BY DEF Database, TenantRows, ModuleRows, StaffRows, CapsRows, ConfigRows

LEMMA FinishesKeeps == ASSUME IInv, NEW s \in Slots, Finishes(s) PROVE IInv'
<1> USE Known
<1>1. CASE ReplaceEntitlements(s)
  <2>1. /\ At(s, "replaceEntitlements") /\ Overtakes("tenant", s, "invalidate") /\ writes' = writes
    BY <1>1 DEF ReplaceEntitlements
  <2>2. PICK d \in ModuleRows : Becomes(d)
    BY <1>1 DEF ReplaceEntitlements
  <2>3. d \in Database
    BY RowsAreRecords DEF Types
  <2>4. writes' \in 0 .. MaxWrites /\ Drops("tenant", "invalidate") /\ "tenant" \in Caches
        /\ \A k \in Caches \ {"tenant"} : ~Drops(k, req[s].pc)
    BY <2>1 DEF Types, Drops, Caches, At
  <2> QED
    BY <2>1, <2>2, <2>3, <2>4, OvertakesKeeps
<1>2. CASE EntitlementsFail(s)
  <2>1. /\ At(s, "replaceEntitlements") /\ Reads
        /\ Entered("tenant", FALSE) /\ Marked("tenant", s, "idle", FALSE)
    BY <1>2 DEF EntitlementsFail, GivesUp
  <2>2. "idle" \in Pending /\ "tenant" \in Caches /\ \A k \in Caches \ {"tenant"} : ~Drops(k, req[s].pc)
    BY <2>1 DEF Drops, Caches, At, Pending
  <2> QED
    BY <2>1, <2>2, ClearsKeeps
<1>3. CASE Invalidate(s)
  <2>1. /\ At(s, "invalidate") /\ Reads
        /\ cache' = [cache EXCEPT !["tenant"] = NoEntry]
        /\ Marked("tenant", s, "invalidateAgain", FALSE)
    BY <1>3 DEF Invalidate, Drop
  <2>2. "invalidateAgain" \in Pending /\ "tenant" \in Caches
        /\ \A k \in Caches \ {"tenant"} : ~Drops(k, req[s].pc)
    BY <2>1 DEF Drops, Caches, At, Pending
  <2> QED
    BY <2>1, <2>2, ClearsKeeps
<1>4. CASE InvalidateAgain(s)
  <2>1. /\ At(s, "invalidateAgain") /\ Reads
        /\ cache' = [cache EXCEPT !["tenant"] = NoEntry]
        /\ Marked("tenant", s, "idle", FALSE)
    BY <1>4 DEF InvalidateAgain, Drop
  <2>2. "idle" \in Pending /\ "tenant" \in Caches /\ \A k \in Caches \ {"tenant"} : ~Drops(k, req[s].pc)
    BY <2>1 DEF Drops, Caches, At, Pending
  <2> QED
    BY <2>1, <2>2, ClearsKeeps
<1>5. CASE InvalidateAccess(s)
  <2>1. /\ At(s, "invalidateAccess") /\ Reads
        /\ cache' = [cache EXCEPT !["access"] = NoEntry]
        /\ Marked("access", s, "idle", FALSE)
    BY <1>5 DEF InvalidateAccess, Drop
  <2>2. "idle" \in Pending /\ "access" \in Caches /\ \A k \in Caches \ {"access"} : ~Drops(k, req[s].pc)
    BY <2>1 DEF Drops, Caches, At, Pending
  <2> QED
    BY <2>1, <2>2, ClearsKeeps
<1>6. CASE ClearDomains(s)
  <2>1. /\ At(s, "clearDomains") /\ Reads
        /\ cache' = [cache EXCEPT !["host"] = NoEntry]
        /\ Marked("host", s, "idle", FALSE)
    BY <1>6 DEF ClearDomains, Drop
  <2>2. "idle" \in Pending /\ "host" \in Caches /\ \A k \in Caches \ {"host"} : ~Drops(k, req[s].pc)
    BY <2>1 DEF Drops, Caches, At, Pending
  <2> QED
    BY <2>1, <2>2, ClearsKeeps
<1> QED
  BY <1>1, <1>2, <1>3, <1>4, <1>5, <1>6 DEF Finishes

\* A change begun here, and one made elsewhere.
LEMMA WritesKeep ==
    ASSUME IInv, NEW s \in Slots, UpdateRow(s) \/ Revoke(s) \/ UpdateConfig(s)
    PROVE  IInv'
<1> USE Known
<1>1. \A d : Writes(d) => Becomes(d) /\ writes' \in 0 .. MaxWrites
  BY WorkspaceAssumption DEF Writes, Types
<1>2. CASE UpdateRow(s)
  <2>1. PICK d \in TenantRows, next \in {"replaceEntitlements", "invalidate"} :
             Writes(d) /\ Overtakes("tenant", s, next)
    BY <1>2 DEF UpdateRow
  <2>2. d \in Database
    BY RowsAreRecords DEF Types
  <2>3. At(s, "idle") /\ Drops("tenant", next) /\ "tenant" \in Caches
    BY <1>2 DEF UpdateRow, Drops, Caches
  <2>4. \A k \in Caches \ {"tenant"} : ~Drops(k, req[s].pc)
    BY <2>3 DEF Drops, Caches, At
  <2> QED
    BY <1>1, <2>1, <2>2, <2>3, <2>4, OvertakesKeeps
<1>3. CASE Revoke(s)
  <2> DEFINE d == [db EXCEPT !.staff = "gone"]
  <2>1. At(s, "idle") /\ Writes(d) /\ Overtakes("access", s, "invalidateAccess")
    BY <1>3 DEF Revoke
  <2>2. d \in Database
    BY DEF Types, Database
  <2>3. Drops("access", "invalidateAccess") /\ "access" \in Caches
        /\ \A k \in Caches \ {"access"} : ~Drops(k, req[s].pc)
    BY <2>1 DEF Drops, Caches, At
  <2> HIDE DEF d
  <2> QED
    BY <1>1, <2>1, <2>2, <2>3, OvertakesKeeps
<1>4. CASE UpdateConfig(s)
  <2>1. PICK d \in ConfigRows : Writes(d) /\ Overtakes("host", s, "clearDomains")
    BY <1>4 DEF UpdateConfig
  <2>2. d \in Database
    BY RowsAreRecords DEF Types
  <2>3. At(s, "idle")
    BY <1>4 DEF UpdateConfig
  <2>4. Drops("host", "clearDomains") /\ "host" \in Caches
        /\ \A k \in Caches \ {"host"} : ~Drops(k, req[s].pc)
    BY <2>3 DEF Drops, Caches, At
  <2> QED
    BY <1>1, <2>1, <2>2, <2>4, OvertakesKeeps
<1> QED
  BY <1>2, <1>3, <1>4

LEMMA ElsewhereKeeps == ASSUME IInv, Elsewhere PROVE IInv'
<1>0. /\ Types /\ LostNow /\ EntriesAreRecent /\ ReadsAreRecent /\ OvertakenIsDropped
      /\ cache' = cache /\ req' = req
  BY DEF IInv, Elsewhere
<1>1. PICK d \in Database : Writes(d)
  BY <1>0, RowsAreRecords DEF Elsewhere, Types
<1>2. Becomes(d) /\ writes' \in 0 .. MaxWrites
  BY <1>0, <1>1, WorkspaceAssumption DEF Writes, Types
<1>3. /\ lost' \in [Conditions -> Nat] /\ LostNow' /\ audience' = audience
      /\ \A x \in Conditions : lost'[x] <= lost[x]
      /\ \A x \in Conditions : lost'[x] <= Lag(x) + 1
      /\ db' \in Database
  BY <1>0, <1>2, Remembers
<1>4. Types'
  BY <1>0, <1>2, <1>3 DEF Types
<1>5. lost \in [Conditions -> Nat]
  BY <1>0 DEF Types
<1>6. EntriesAreRecent'
  BY <1>0, <1>3, <1>5, Fresher DEF EntriesAreRecent, Types
<1>7. ReadsAreRecent'
  BY <1>0, <1>3, <1>5, Fresher DEF ReadsAreRecent, Types
<1>8. OvertakenIsDropped'
  BY <1>0 DEF OvertakenIsDropped
<1> QED
  BY <1>3, <1>4, <1>6, <1>7, <1>8 DEF IInv

LEMMA TickKeeps == ASSUME IInv, Tick PROVE IInv'
<1>0. /\ Types /\ LostNow /\ EntriesAreRecent /\ ReadsAreRecent /\ OvertakenIsDropped
      /\ db' = db /\ audience' = audience /\ writes' = writes
  BY DEF IInv, Tick
<1>1. /\ lost' = [x \in Conditions |-> IF Meets(db, x) THEN 0
                                       ELSE IF lost[x] > Lag(x) THEN lost[x] ELSE lost[x] + 1]
      /\ cache' = [c \in Caches |-> Older(cache[c])]
      /\ req' = [s \in Slots |-> IF "age" \in DOMAIN req[s] THEN [req[s] EXCEPT !.age = @ + 1] ELSE req[s]]
  BY DEF Tick
<1>2. \A x \in Conditions : /\ lost'[x] \in Nat /\ lost'[x] <= lost[x] + 1
                            /\ lost'[x] <= Lag(x) + 1
                            /\ Meets(db, x) => lost'[x] = 0
  <2>1. \A x \in Conditions : Lag(x) \in Nat /\ lost[x] \in Nat /\ lost[x] <= Lag(x) + 1
    BY <1>0, WorkspaceAssumption DEF Lag, Types
  <2> QED
    BY <1>1, <2>1
<1>3. lost \in [Conditions -> Nat] /\ lost' \in [Conditions -> Nat] /\ LostNow'
  BY <1>0, <1>1, <1>2 DEF Types, LostNow
<1>4. ASSUME NEW s \in Slots
      PROVE  /\ req'[s] \in Requests /\ req'[s].pc = req[s].pc /\ Vouches(req'[s], lost')
             /\ "behind" \in DOMAIN req[s] => req'[s].behind = req[s].behind
  <2>1. req[s] \in Requests /\ Vouches(req[s], lost)
    BY <1>0 DEF Types, ReadsAreRecent
  <2>2. CASE "age" \in DOMAIN req[s]
    <3>1. req[s].age < MaxLoad
      <4>1. req[s].pc \notin Resting
        BY <2>1, <2>2, Carries
      <4> QED
        BY <2>2, <4>1 DEF Tick, Underway
    <3>2. req'[s] = [req[s] EXCEPT !.age = @ + 1]
      BY <1>1, <2>2
    <3> QED
      BY <1>2, <1>3, <2>1, <2>2, <3>1, <3>2, Ageing
  <2>3. CASE "age" \notin DOMAIN req[s]
    BY <1>1, <1>2, <1>3, <2>1, <2>3, Ageing
  <2> QED
    BY <2>2, <2>3
<1>5. ASSUME NEW c \in Caches
      PROVE  \/ cache'[c] = NoEntry
             \/ /\ cache[c] # NoEntry /\ cache'[c] \in Entry[c] /\ EntryVouches(c, cache'[c], lost')
                /\ cache'[c].behind = cache[c].behind
  <2>1. cache'[c] = Older(cache[c])
    BY <1>1
  <2>2. CASE cache[c] = NoEntry \/ cache[c].age + 1 >= TTL
    BY <2>1, <2>2 DEF Older
  <2>3. CASE ~(cache[c] = NoEntry \/ cache[c].age + 1 >= TTL)
    <3>1. cache[c] # NoEntry /\ cache[c] \in Entry[c] /\ EntryVouches(c, cache[c], lost)
      BY <1>0, <2>3 DEF Types, EntriesAreRecent
    <3>2. cache[c].age + 1 < TTL
      BY <2>3, <3>1, EntryCarries, WorkspaceAssumption
    <3>3. cache'[c] = [cache[c] EXCEPT !.age = @ + 1]
      BY <2>1, <2>3 DEF Older
    <3> QED
      BY <1>2, <1>3, <3>1, <3>2, <3>3, Ageing
  <2> QED
    BY <2>2, <2>3
<1>6. DOMAIN cache' = Caches /\ req' \in [Slots -> Requests]
  BY <1>1, <1>4
<1>7. Types'
  BY <1>0, <1>2, <1>3, <1>5, <1>6 DEF Types
<1>8. EntriesAreRecent'
  BY <1>5 DEF EntriesAreRecent
<1>9. ReadsAreRecent'
  BY <1>4 DEF ReadsAreRecent
<1>10. OvertakenIsDropped'
  <2> SUFFICES ASSUME NEW c \in Caches, \A s \in Slots : ~Drops(c, req'[s].pc)
               PROVE  /\ cache'[c] # NoEntry => ~cache'[c].behind
                      /\ \A s \in Slots : Fills(c, req'[s].pc) => ~req'[s].behind
    BY DEF OvertakenIsDropped
  <2>1. \A s \in Slots : ~Drops(c, req[s].pc)
    BY <1>4
  <2>2. /\ cache[c] # NoEntry => ~cache[c].behind
        /\ \A s \in Slots : Fills(c, req[s].pc) => ~req[s].behind
    BY <1>0, <2>1 DEF OvertakenIsDropped
  <2>3. cache'[c] # NoEntry => ~cache'[c].behind
    BY <1>5, <2>2
  <2>4. ASSUME NEW s \in Slots, Fills(c, req'[s].pc) PROVE ~req'[s].behind
    <3>1. "behind" \in DOMAIN req[s]
      BY <1>0, <1>4, <2>4, Carries DEF Types, Fills
    <3> QED
      BY <1>4, <2>2, <2>4, <3>1
  <2> QED
    BY <2>3, <2>4
<1> QED
  BY <1>3, <1>7, <1>8, <1>9, <1>10 DEF IInv

\* A process that begins knows nothing, and nothing is asked of it.
Blank ==
    /\ DOMAIN cache = Caches /\ \A c \in Caches : cache[c] = NoEntry
    /\ req \in [Slots -> Requests]
    /\ EntriesAreRecent /\ ReadsAreRecent /\ OvertakenIsDropped

LEMMA Forgets == cache = Empty /\ req = [s \in Slots |-> Idle] => Blank
<1> SUFFICES ASSUME cache = Empty, req = [s \in Slots |-> Idle] PROVE Blank
  OBVIOUS
<1>1. Idle \in Requests /\ Vouches(Idle, lost)
  BY DEF Idle, Requests, Rests, Pending, Vouches
<1>2. \A c \in Caches : cache[c] = NoEntry
  BY DEF Empty
<1>3. \A s \in Slots : req[s] = Idle
  OBVIOUS
<1>4. EntriesAreRecent
  BY <1>2 DEF EntriesAreRecent
<1>5. ReadsAreRecent
  BY <1>1, <1>3 DEF ReadsAreRecent
<1>6. OvertakenIsDropped
  BY <1>2, <1>3 DEF OvertakenIsDropped, Fills, Idle
<1> QED
  BY <1>1, <1>2, <1>4, <1>5, <1>6 DEF Empty, Blank

LEMMA RestartKeeps == ASSUME IInv, Restart PROVE IInv'
<1>1. cache' = Empty /\ req' = [s \in Slots |-> Idle]
  BY DEF Restart
<1>2. (cache = Empty /\ req = [s \in Slots |-> Idle] => Blank)'
  BY Forgets, PTL
<1>3. Blank'
  BY <1>1, <1>2 DEF Empty, Idle
<1>4. Types' /\ LostNow'
  BY <1>3 DEF Restart, Reads, IInv, Types, LostNow, Blank
<1> QED
  BY <1>3, <1>4 DEF IInv, Blank

LEMMA ArriveKeeps == ASSUME IInv, NEW s \in Slots, Arrive(s) PROVE IInv'
<1>1. At(s, "idle") /\ Reads /\ UNCHANGED cache
  BY DEF Arrive
<1>2. PICK k \in audience : Goes(s, [pc |-> IF k = "visitor" THEN "host" ELSE "tenant", kind |-> k, age |-> 0])
  BY DEF Arrive
<1> DEFINE next == [pc |-> IF k = "visitor" THEN "host" ELSE "tenant", kind |-> k, age |-> 0]
<1>3. k \in Kinds /\ 0 \in Ages
  BY WorkspaceAssumption DEF IInv, Types, Ages
<1>4. next \in Requests /\ Vouches(next, lost) /\ \A c \in Caches : ~Fills(c, next.pc)
  BY <1>3 DEF Kinds, Requests, Looks, Vouches, Fills
<1>5. \A c \in Caches : ~Drops(c, req[s].pc)
  BY <1>1 DEF At, Drops, Caches
<1>6. Goes(s, next)
  BY <1>2
<1> HIDE DEF next
<1> QED
  BY <1>1, <1>4, <1>5, <1>6, LooksOn

LEMMA StepKeeps == IInv /\ [Next]_vars => IInv'
<1> SUFFICES ASSUME IInv, [Next]_vars PROVE IInv'
  OBVIOUS
<1>1. CASE UNCHANGED vars
  <2>1. /\ audience' = audience /\ db' = db /\ cache' = cache /\ req' = req
        /\ lost' = lost /\ writes' = writes
    BY <1>1 DEF vars
  <2> QED
    BY <2>1 DEF IInv, Types, LostNow, EntriesAreRecent, ReadsAreRecent, OvertakenIsDropped
<1>2. CASE Next
  BY <1>2, ArriveKeeps, AsksKeeps, FinishesKeeps, WritesKeep, ElsewhereKeeps, TickKeeps,
     RestartKeeps DEF Next
<1> QED
  BY <1>1, <1>2

LEMMA InitHolds == Init => IInv
<1> SUFFICES ASSUME Init PROVE IInv
  OBVIOUS
<1>1. Blank
  BY Forgets DEF Init
<1>2. audience \in SUBSET Kinds
  BY AudiencesAssumption DEF Init
<1>3. db \in Database
  <2>1. PICK open \in [status : {"active"}, modules : {Modules}, staff : {"invited"},
                      caps : {{Need}}, live : {TRUE}, domain : {TRUE}] :
          db \in {open, [open EXCEPT !.status = "suspended"], [open EXCEPT !.staff = "suspended"],
                  [open EXCEPT !.live = FALSE]}
    BY DEF Init
  <2>2. open \in Database
    BY DEF Database, CapSets
  <2> QED
    BY <2>1, <2>2 DEF Database
<1>4. lost = [x \in Conditions |-> IF Meets(db, x) THEN 0 ELSE Lag(x) + 1] /\ writes = 0
  BY DEF Init
<1>5. \A x \in Conditions : Lag(x) + 1 \in Nat
  BY WorkspaceAssumption DEF Lag
<1>6. /\ lost \in [Conditions -> Nat] /\ LostNow /\ writes \in 0 .. MaxWrites
      /\ \A x \in Conditions : lost[x] <= Lag(x) + 1
  BY <1>4, <1>5, WorkspaceAssumption DEF LostNow
<1> QED
  BY <1>1, <1>2, <1>3, <1>6 DEF IInv, Types, Blank

-----------------------------------------------------------------------------
(* What follows.                                                           *)

\* Whatever is overtaken has a writer that will drop it, and whatever is kept
\* or being read is as recent as its age says, in every state.
THEOREM Inductive == Spec => []IInv
<1> QED
  BY InitHolds, StepKeeps, PTL DEF Spec

\* Workspace.TypeOK: the records, the caches and the requests stay well formed,
\* and `lost` within its bounds.
THEOREM TypeCorrect == Spec => []TypeOK
<1>1. IInv => TypeOK
  <2> SUFFICES ASSUME IInv PROVE TypeOK
    OBVIOUS
  <2>1. Types
    BY DEF IInv
  <2>2. \A s \in Slots : /\ "age" \in DOMAIN req[s] => req[s].age \in 0 .. MaxLoad
                         /\ "behind" \in DOMAIN req[s] => req[s].behind \in BOOLEAN
    BY <2>1, Carries DEF Types, Ages
  <2>3. \A x \in Conditions : lost[x] \in 0 .. Lag(x) + 1
    BY <2>1, WorkspaceAssumption DEF Types, Lag
  <2> QED
    BY <2>1, <2>2, <2>3 DEF Types, TypeOK
<1> QED
  BY <1>1, Inductive, PTL

\* What a process has changed and dropped leaves nothing older in its caches:
\* an entry that is overtaken has a writer that will drop it.
THEOREM DropsCover == Spec => []DropsCoverOwnWrites
<1>1. IInv => DropsCoverOwnWrites
  BY DEF IInv, OvertakenIsDropped, DropsCoverOwnWrites, Drops
<1> QED
  BY <1>1, Inductive, PTL

\* Only the last guard of each way in serves a request.
LEMMA WhoServes ==
    ASSUME Types, Next, NEW s \in Slots, req[s].pc # "served", req'[s].pc = "served"
    PROVE  AccessHit(s) \/ KeepAccess(s) \/ ReadConfig(s)
<1>1. ASSUME NEW k \in Slots, NEW next, Goes(k, next)
      PROVE  s = k /\ next.pc = "served"
  BY <1>1 DEF Goes, Types
<1>2. ASSUME NEW c \in Caches, NEW k \in Slots, NEW next \in Pending,
             Marked(c, k, next, TRUE) \/ Marked(c, k, next, FALSE)
      PROVE  FALSE
  <2>1. req'[k].pc = next
    BY <1>2 DEF Marked
  <2>2. s # k
    BY <2>1 DEF Pending
  <2>3. \/ req'[s] = req[s]
        \/ req'[s] = [req[s] EXCEPT !.behind = TRUE] \/ req'[s] = [req[s] EXCEPT !.behind = FALSE]
    BY <1>2, <2>2 DEF Marked
  <2>4. req[s] \in Requests /\ DOMAIN req[s] = DOMAIN req[s]
    BY DEF Types
  <2>5. req'[s].pc = req[s].pc
    BY <2>3, <2>4 DEF Requests, Rests, Looks, Keeps, Enters
  <2> QED
    BY <2>5
<1>3. ASSUME NEW k \in Slots, NEW status, NEW modules, Admit(k, status, modules) PROVE FALSE
  BY <1>1, <1>3 DEF Admit, Answer
<1>4. ASSUME NEW k \in Slots, Arrive(k) PROVE FALSE
  BY <1>1, <1>4 DEF Arrive
<1>5. ASSUME NEW k \in Slots, Asks(k) PROVE AccessHit(s) \/ KeepAccess(s) \/ ReadConfig(s)
  <2>1. CASE HostHit(k) \/ KeepHost(k)
    BY <1>1, <2>1 DEF HostHit, KeepHost, HostKnown
  <2>2. CASE ReadHost(k)
    BY <1>1, <2>2 DEF ReadHost, Answer
  <2>3. CASE TenantHit(k) \/ KeepTenant(k)
    BY <1>3, <2>3 DEF TenantHit, KeepTenant
  <2>4. CASE ReadRow(k)
    BY <1>1, <2>4 DEF ReadRow
  <2>5. CASE ReadModules(k)
    BY <1>1, <2>5 DEF ReadModules
  <2>6. CASE ReadAccess(k)
    BY <1>1, <2>6 DEF ReadAccess
  <2>7. CASE Leave(k)
    BY <1>1, <2>7 DEF Leave, Idle
  <2>8. CASE AccessHit(k) \/ KeepAccess(k) \/ ReadConfig(k)
    <3>1. \A ok : Answer(k, ok) => s = k
      BY <1>1 DEF Answer
    <3> QED
      BY <2>8, <3>1 DEF AccessHit, KeepAccess, ReadConfig, Pass
  <2> QED
    BY <1>5, <2>1, <2>2, <2>3, <2>4, <2>5, <2>6, <2>7, <2>8 DEF Asks
<1>6. ASSUME NEW k \in Slots, Finishes(k) \/ UpdateRow(k) \/ Revoke(k) \/ UpdateConfig(k) PROVE FALSE
  <2>1. PICK c \in Caches, next \in Pending : Marked(c, k, next, TRUE) \/ Marked(c, k, next, FALSE)
    BY <1>6 DEF Finishes, ReplaceEntitlements, EntitlementsFail, Invalidate, InvalidateAgain,
       InvalidateAccess, ClearDomains, UpdateRow, Revoke, UpdateConfig, Overtakes, GivesUp, Drop,
       Caches, Pending
  <2> QED
    BY <1>2, <2>1
<1>7. CASE Elsewhere
  BY <1>7 DEF Elsewhere
<1>8. CASE Tick
  <2>1. req'[s] = req[s] \/ req'[s] = [req[s] EXCEPT !.age = @ + 1]
    BY <1>8 DEF Tick
  <2>2. req'[s].pc = req[s].pc
    BY <2>1 DEF Types, Requests, Rests, Looks, Keeps, Enters
  <2> QED
    BY <2>2
<1>9. CASE Restart
  BY <1>9 DEF Restart, Idle
<1> QED
  BY <1>4, <1>5, <1>6, <1>7, <1>8, <1>9 DEF Next

LEMMA ServedInTime ==
    ASSUME IInv, Next, NEW s \in Slots, req[s].pc # "served", req'[s].pc = "served",
           NEW x \in Needs(req'[s].kind)
    PROVE  lost[x] <= Lag(x)
<1> DEFINE r == req[s]
<1>0. /\ Types /\ LostNow /\ r \in Requests /\ Vouches(r, lost)
      /\ MaxLoad \in Nat /\ TTL - 1 \in Nat
      /\ \A c \in Conditions : lost[c] \in Nat
  BY Known, WorkspaceAssumption
<1>1. ASSUME NEW ok, Answer(s, ok) PROVE ok = TRUE /\ req'[s].kind = r.kind
  BY <1>0, <1>1 DEF Answer, Goes, Types
<1>2. ASSUME NEW staff, NEW caps, Pass(s, staff, caps), r.pc \in {"access", "keepAccess"},
             ~isDisabled(staff) => lost["staff"] <= TTL - 1 + 2 * MaxLoad,
             staff = "gone" \/ HasCapability(caps) => lost["caps"] <= TTL - 1 + 2 * MaxLoad
      PROVE  lost[x] <= Lag(x)
  <2>1. /\ ~isDisabled(staff) /\ "storefront" \in r.modules
        /\ staff = "gone" \/ HasCapability(caps)
        /\ req'[s].kind = r.kind
    BY <1>1, <1>2 DEF Pass
  <2>2. r.kind = "member" /\ r.age \in Nat /\ r.age <= MaxLoad
    BY <1>0, <1>2, Carries, WorkspaceAssumption DEF Pending, Resting, Ages
  <2>3. lost["status"] <= Past(r) /\ lost["storefront"] <= Past(r)
    BY <1>0, <1>2, <2>1 DEF Vouches
  <2>4. Past(r) <= TTL - 1 + 2 * MaxLoad
    BY <1>0, <2>2 DEF Past
  <2>5. x \in {"status", "staff", "caps", "storefront"}
    BY <2>1, <2>2 DEF Needs
  <2> QED
    BY <1>0, <1>2, <2>1, <2>2, <2>3, <2>4, <2>5 DEF Lag, Past, Conditions
<1>3. CASE AccessHit(s)
  <2> DEFINE e == cache["access"]
  <2>1. e # NoEntry /\ Pass(s, e.staff, e.caps) /\ r.pc = "access"
    BY <1>3 DEF AccessHit, At
  <2>2. EntryVouches("access", e, lost) /\ e.age \in Nat /\ e.age <= TTL - 1
    BY <2>1, Known, EntryCarries DEF Caches
  <2>3. e.age + MaxLoad <= TTL - 1 + 2 * MaxLoad
    BY <1>0, <2>2
  <2>4. /\ ~isDisabled(e.staff) => lost["staff"] <= TTL - 1 + 2 * MaxLoad
        /\ e.staff = "gone" \/ HasCapability(e.caps) => lost["caps"] <= TTL - 1 + 2 * MaxLoad
    BY <1>0, <2>2, <2>3 DEF EntryVouches, Conditions
  <2> QED
    BY <1>2, <2>1, <2>4
<1>4. CASE KeepAccess(s)
  <2>1. Pass(s, r.staff, r.caps) /\ r.pc = "keepAccess"
    BY <1>4 DEF KeepAccess, At
  <2>2. r.age \in Nat /\ r.age <= MaxLoad
    BY <1>0, <2>1, Carries, WorkspaceAssumption DEF Pending, Resting, Ages
  <2>3. /\ ~isDisabled(r.staff) => lost["staff"] <= TTL - 1 + 2 * MaxLoad
        /\ r.staff = "gone" \/ HasCapability(r.caps) => lost["caps"] <= TTL - 1 + 2 * MaxLoad
    BY <1>0, <2>1, <2>2 DEF Vouches, Conditions
  <2> QED
    BY <1>2, <2>1, <2>3
<1>5. CASE ReadConfig(s)
  <2>1. Answer(s, db.live) /\ r.pc = "config"
    BY <1>5 DEF ReadConfig, At
  <2>2. db.live /\ req'[s].kind = r.kind
    BY <1>0, <2>1 DEF Answer, Goes, Types
  <2>3. r.kind = "visitor" /\ r.age \in Nat /\ r.age <= MaxLoad
    BY <1>0, <2>1, Carries, WorkspaceAssumption DEF Pending, Resting, Ages
  <2>4. lost["live"] = 0 /\ lost["domain"] <= Past(r) /\ lost["storefront"] <= Past(r)
    BY <1>0, <2>1, <2>2, <2>3, MetNow DEF Vouches
  <2>5. Past(r) <= TTL - 1 + 2 * MaxLoad
    BY <1>0, <2>3 DEF Past
  <2>6. x \in {"storefront", "live", "domain"}
    BY <2>2, <2>3 DEF Needs
  <2> QED
    BY <1>0, <2>3, <2>4, <2>5, <2>6 DEF Lag, Past, Conditions
<1> QED
  BY <1>0, <1>3, <1>4, <1>5, WhoServes

\* The TIMING CAVEAT of TenantGuard and AccessGuard: whoever is let in met each
\* condition within the lifetime of an entry and two loads before, for every
\* lifetime and load; and the storefront's switch within the load.
THEOREM StalenessIsBounded == Spec => StaleIsBounded
<1> DEFINE Served == \A s \in Slots : (req[s].pc # "served" /\ req'[s].pc = "served")
                        => \A x \in Needs(req'[s].kind) : lost[x] <= Lag(x)
<1>1. IInv /\ [Next]_vars => [Served]_vars
  <2> SUFFICES ASSUME IInv, Next PROVE Served
    BY DEF vars
  <2> QED
    BY ServedInTime
<1> QED
  BY <1>1, Inductive, PTL DEF Spec, StaleIsBounded

-----------------------------------------------------------------------------
(* Rights.                                                                 *)

-----------------------------------------------------------------------------
(* The tables.                                                             *)

\* The manager's template of every type names every capability.
LEMMA ManagerHasAll ==
    ASSUME NEW type \in TENANT_TYPES
    PROVE  managerTemplateFor(type).capabilities = CAPABILITY_KEYS
<1>1. templatesFor(type)["Manager"] = Templates["Manager"]
  BY DEF templatesFor
<1>2. Templates["Manager"] = Template(CAPABILITY_KEYS, MENU_ALL)
  BY DEF Templates
<1> QED
  BY <1>1, <1>2 DEF managerTemplateFor, Template

\* A capability is no menu key.
LEMMA KeysAreCapabilities == \A key \in CAPABILITY_KEYS : isCapabilityKey(key)
BY DEF CAPABILITY_KEYS, CAPABILITIES, isCapabilityKey, isMenuKey, MenuKeys, MENU_ALL, MENU_NONE

\* So what the backfill grants is every key the modules bring.
LEMMA GrantIs ==
    ASSUME NEW type \in TENANT_TYPES, NEW modules
    PROVE  /\ ManagerGrant(type, modules) = capabilitiesFor(modules)
           /\ \A key \in ManagerGrant(type, modules) : isCapabilityKey(key)
<1>1. ManagerGrant(type, modules) = CAPABILITY_KEYS \cap capabilitiesFor(modules)
  BY ManagerHasAll DEF ManagerGrant, intersectWithEntitlements
<1>2. capabilitiesFor(modules) \subseteq CAPABILITY_KEYS
  BY DEF capabilitiesFor, CAPABILITY_KEYS
<1> QED
  BY <1>1, <1>2, KeysAreCapabilities

-----------------------------------------------------------------------------
(* The invariant.                                                          *)

People == [claim : {"owner", "viewer", "staff"}, role : DOMAIN roles \cup {None}]

\* Nobody has a role that is not there.
RightsTyped ==
    /\ tenant \in Tenants \cup {None}
    /\ script.at /= "idle" => tenant \in Tenants
    /\ patch \in [Admins -> Updates \cup {None}]
    /\ \A a \in Admins :
          patch[a] /= None /\ patch[a].at = "modules" => patch[a].modules /= None
    /\ tenant = None => /\ \A a \in Admins : patch[a] = None
                        /\ \A m \in Members : member[m] = None
    /\ member \in [Members -> People \cup {None}]

Within(t) == t.crossed \/ t.modules \subseteq allowedFor(t.type)

\* What an update still has to write was checked with what it leaves alone.
Checked(p) ==
    IF p.at = "row"
    THEN LET pair == Effective(p.type, p.modules)
         IN  assertModulesWithinType(pair.type, pair.modules, p.override)
    ELSE /\ p.modules /= None /\ tenant.crossed = p.override
         /\ assertModulesWithinType(tenant.type, p.modules, p.override)

\* An update that runs alone is the only one, and was checked; while none
\* was mixed, only between its two writes are the modules behind.
Lonely(a) == patch[a] /= None /\ patch[a].alone

Ceilings ==
    tenant /= None =>
        /\ \A a \in Admins : Lonely(a) =>
              Checked(patch[a]) /\ \A b \in Admins : patch[b] /= None => b = a
        /\ ~mixed => /\ \A a \in Admins : patch[a] /= None => Lonely(a)
                     /\ (\A a \in Admins : patch[a] /= None => patch[a].at = "row")
                            => Within(tenant)

RightsInv == RightsTyped /\ Ceilings

LEMMA RightsStart == RightsInit => RightsInv
<1> SUFFICES ASSUME RightsInit PROVE RightsInv
  OBVIOUS
<1>1. \A a \in Admins : patch[a] = None
  BY DEF RightsInit
<1>2. patch \in [Admins -> Updates \cup {None}] /\ script.at = "idle"
  BY DEF RightsInit, IdleScript
<1>3. CASE Unborn
  BY <1>1, <1>2, <1>3 DEF Unborn, RightsInv, RightsTyped, Ceilings
<1>4. CASE Predates
  <2>1. PICK type \in TENANT_TYPES, modules \in ModuleLists, m \in Members,
             claim \in {"owner", "viewer"} :
          /\ tenant = [type |-> type, modules |-> modules,
                       crossed |-> ~(modules \subseteq allowedFor(type))]
          /\ \/ roles = <<>>
             \/ \E permissions \in LegacyRoles : roles = [name \in {"Legacy"} |-> permissions]
          /\ \E role \in DOMAIN roles \cup {None} :
               member = [x \in Members |-> IF x = m THEN [claim |-> claim, role |-> role] ELSE None]
    BY <1>4, Zenon DEF Predates
  <2>2. tenant \in Tenants /\ Within(tenant) /\ tenant /= None
    <3> DEFINE crossed == ~(modules \subseteq allowedFor(type))
    <3>1. tenant = [type |-> type, modules |-> modules, crossed |-> crossed] /\ crossed \in BOOLEAN
      BY <2>1
    <3>2. tenant.crossed = crossed /\ tenant.modules = modules /\ tenant.type = type
      BY <3>1
    <3>3. Within(tenant)
      BY <3>2 DEF Within
    <3> HIDE DEF crossed
    <3>4. tenant \in Tenants
      BY <3>1 DEF Tenants
    <3> QED
      BY <3>3, <3>4, NoneAssumption
  <2>3. member \in [Members -> People \cup {None}]
    BY <2>1 DEF People
  <2> QED
    BY <1>1, <1>2, <2>2, <2>3 DEF RightsInv, RightsTyped, Ceilings, Lonely
<1> QED
  BY <1>3, <1>4 DEF RightsInit

\* Steps that leave the workspace and its updates.
LEMMA ApartHolds ==
    ASSUME RightsInv, tenant /= None, UNCHANGED <<tenant, patch, mixed>>,
           member' \in [Members -> People' \cup {None}]
    PROVE  RightsInv'
<1>1. RightsTyped'
  BY DEF RightsInv, RightsTyped
<1>2. Ceilings'
  BY DEF RightsInv, Ceilings, Lonely, Checked, Within, Effective
<1> QED
  BY <1>1, <1>2 DEF RightsInv

LEMMA RightsStutter == ASSUME RightsInv, UNCHANGED rights PROVE RightsInv'
<1>1. RightsTyped'
  BY DEF RightsInv, RightsTyped, People, rights
<1>2. Ceilings'
  BY DEF RightsInv, Ceilings, Lonely, Checked, Within, Effective, rights
<1> QED
  BY <1>1, <1>2 DEF RightsInv

LEMMA CreateHolds ==
    ASSUME RightsInv, NEW type \in TENANT_TYPES, NEW override \in BOOLEAN,
           NEW modules \in ModuleLists \cup {presetFor(type)},
           CreateTenant(type, modules, override)
    PROVE  RightsInv'
<1>1. tenant' = [type |-> type, modules |-> modules, crossed |-> override]
  BY DEF CreateTenant
<1>2. tenant' \in Tenants /\ Within(tenant')
  BY <1>1 DEF Tenants, Within, CreateTenant, assertModulesWithinType
<1>3. /\ UNCHANGED <<patch, mixed, script, member>>
      /\ \A a \in Admins : patch[a] = None
      /\ \A m \in Members : member[m] = None
  BY DEF CreateTenant, RightsInv, RightsTyped
<1>4. patch' \in [Admins -> Updates \cup {None}] /\ member' \in [Members -> People' \cup {None}]
  BY <1>3 DEF RightsInv, RightsTyped
<1>5. RightsTyped'
  BY <1>2, <1>3, <1>4 DEF RightsTyped
<1>6. Ceilings'
  BY <1>2, <1>3 DEF Ceilings, Lonely
<1> QED
  BY <1>5, <1>6 DEF RightsInv

LEMMA BeginHolds ==
    ASSUME RightsInv, NEW a \in Admins, NEW type \in TENANT_TYPES \cup {None},
           NEW modules \in ModuleLists \cup {None}, NEW override \in BOOLEAN,
           BeginUpdate(a, type, modules, override)
    PROVE  RightsInv'
<1> DEFINE alone == \A other \in Admins : patch[other] = None
           p == [at |-> "row", type |-> type, modules |-> modules, override |-> override,
                 alone |-> alone]
<1>1. /\ tenant /= None /\ patch[a] = None
      /\ patch' = [other \in Admins |-> IF other = a THEN p ELSE Accompanied(patch[other])]
      /\ mixed' = (mixed \/ ~alone)
      /\ UNCHANGED <<tenant, roles, member, script>>
  BY DEF BeginUpdate
<1>0. alone \in BOOLEAN
  OBVIOUS
<1>3. p.at = "row" /\ p.alone = alone /\ p.type = type /\ p.modules = modules /\ p.override = override
  OBVIOUS
<1>2. p \in Updates /\ Checked(p)
  <2> HIDE DEF alone
  <2>1. p \in Updates
    BY <1>0 DEF Updates
  <2>2. Checked(p)
    BY <1>3 DEF BeginUpdate, Checked
  <2> QED
    BY <2>1, <2>2
<1> HIDE DEF p, alone
<1>4. ASSUME NEW b \in Admins, b # a
      PROVE  /\ patch'[b] = Accompanied(patch[b])
             /\ patch'[b] \in Updates \cup {None}
             /\ patch'[b] /= None => /\ patch[b] /= None /\ patch'[b].at = patch[b].at
                                    /\ patch'[b].modules = patch[b].modules
                                    /\ ~patch'[b].alone
  <2>1. patch'[b] = Accompanied(patch[b]) /\ patch[b] \in Updates \cup {None}
    BY <1>1, <1>4 DEF RightsInv, RightsTyped
  <2>2. CASE patch[b] = None
    BY <2>1, <2>2 DEF Accompanied
  <2>3. CASE patch[b] \in Updates
    <3>1. patch[b] /= None
      BY <2>3, NoneAssumption
    <3>2. patch'[b] = [patch[b] EXCEPT !.alone = FALSE]
      BY <2>1, <3>1 DEF Accompanied
    <3>3. /\ patch'[b].at = patch[b].at /\ patch'[b].modules = patch[b].modules
          /\ patch'[b].alone = FALSE
      BY <2>3, <3>2 DEF Updates
    <3>4. patch'[b] \in Updates
      BY <2>3, <3>2 DEF Updates
    <3> QED
      BY <2>1, <3>1, <3>3, <3>4
  <2> QED
    BY <2>1, <2>2, <2>3
<1>5. RightsTyped'
  <2>1. patch' \in [Admins -> Updates \cup {None}]
    BY <1>1, <1>2, <1>4
  <2>2. \A b \in Admins : patch'[b] /= None /\ patch'[b].at = "modules" => patch'[b].modules /= None
    BY <1>1, <1>3, <1>4 DEF RightsInv, RightsTyped
  <2> QED
    BY <1>1, <2>1, <2>2 DEF RightsInv, RightsTyped, People
<1>9. patch'[a] = p
  BY <1>1
<1>6. Checked(patch[a])'
  <2>1. tenant' = tenant
    BY <1>1
  <2> QED
    BY <1>2, <1>3, <1>9, <2>1 DEF Checked, Effective
<1>7. Lonely(a)' => \A b \in Admins : patch'[b] /= None => b = a
  BY <1>3, <1>4, <1>9 DEF Lonely, alone
<1>8. \A b \in Admins : Lonely(b)' => b = a
  BY <1>4 DEF Lonely
<1>10. ~mixed' => ~mixed /\ alone /\ Within(tenant)'
  BY <1>1 DEF RightsInv, Ceilings, Within, alone
<1>11. ~mixed' => \A b \in Admins : patch'[b] /= None => Lonely(b)'
  <2> SUFFICES ASSUME ~mixed', NEW b \in Admins, patch'[b] /= None PROVE Lonely(b)'
    OBVIOUS
  <2>1. b = a
    BY <1>4, <1>10 DEF alone
  <2> QED
    BY <1>3, <1>9, <1>10, <2>1 DEF Lonely
<1>12. Ceilings'
  BY <1>6, <1>7, <1>8, <1>9, <1>10, <1>11 DEF Ceilings
<1> QED
  BY <1>5, <1>12 DEF RightsInv

LEMMA RowHolds == ASSUME RightsInv, NEW a \in Admins, WriteRow(a) PROVE RightsInv'
<1> DEFINE p == patch[a]
           q == [p EXCEPT !.at = "modules"]
           type == IF p.type = None THEN tenant.type ELSE p.type
<1>1. /\ p /= None /\ p.at = "row"
      /\ tenant' = [tenant EXCEPT !.type = type, !.crossed = p.override]
      /\ patch' = [patch EXCEPT ![a] = IF p.modules = None THEN None ELSE q]
      /\ mixed' = (mixed /\ ~(p.modules = None /\ p.alone))
      /\ UNCHANGED <<roles, member, script>>
  BY DEF WriteRow
<1>2. p \in Updates /\ tenant \in Tenants /\ tenant /= None
  BY <1>1 DEF RightsInv, RightsTyped
<1>3. type \in TENANT_TYPES
  BY <1>2 DEF Updates, Tenants
<1>4. /\ tenant' \in Tenants /\ tenant'.type = type /\ tenant'.crossed = p.override
      /\ tenant'.modules = tenant.modules /\ tenant' /= None
  BY <1>1, <1>2, <1>3, NoneAssumption DEF Tenants, Updates
<1>5. /\ q \in Updates /\ q.at = "modules" /\ q.modules = p.modules /\ q.override = p.override
      /\ q.alone = p.alone
  BY <1>2 DEF Updates
<1> HIDE DEF q, type
<1>6. patch' \in [Admins -> Updates \cup {None}]
  BY <1>1, <1>5 DEF RightsInv, RightsTyped
<1>7. RightsTyped'
  <2>1. ASSUME NEW b \in Admins, patch'[b] /= None, patch'[b].at = "modules"
        PROVE  patch'[b].modules /= None
    <3>1. b # a => patch'[b] = patch[b]
      BY <1>1 DEF RightsInv, RightsTyped
    <3>2. patch'[a] = None \/ (patch'[a] = q /\ p.modules /= None)
      BY <1>1 DEF RightsInv, RightsTyped
    <3> QED
      BY <1>5, <2>1, <3>1, <3>2 DEF RightsInv, RightsTyped
  <2>2. member' \in [Members -> People' \cup {None}]
    BY <1>1 DEF RightsInv, RightsTyped, People
  <2> QED
    BY <1>4, <1>6, <2>1, <2>2 DEF RightsTyped
<1>8. ASSUME NEW b \in Admins, b # a PROVE patch'[b] = patch[b]
  BY <1>1, <1>8 DEF RightsInv, RightsTyped
<1>9. patch'[a] = IF p.modules = None THEN None ELSE q
  BY <1>1 DEF RightsInv, RightsTyped
<1>10. ~mixed' => p.alone
  <2>1. ~mixed => p.alone
    BY <1>1, <1>2 DEF RightsInv, Ceilings, Lonely
  <2> QED
    BY <1>1, <2>1
<1>11. ASSUME p.alone
       PROVE  /\ \A b \in Admins : b # a => patch'[b] = None
              /\ p.modules = None => Within(tenant)'
              /\ p.modules /= None => Checked(patch[a])' /\ patch'[a].at # "row" /\ Lonely(a)'
  <2>1. Checked(p) /\ \A b \in Admins : patch[b] /= None => b = a
    BY <1>1, <1>2, <1>11 DEF RightsInv, Ceilings, Lonely
  <2>2. p.override \/ (IF p.modules = None THEN tenant.modules ELSE p.modules) \subseteq allowedFor(type)
    BY <1>1, <2>1 DEF Checked, Effective, assertModulesWithinType, type
  <2>3. \A b \in Admins : b # a => patch'[b] = None
    BY <1>8, <2>1
  <2>4. p.modules = None => Within(tenant)'
    BY <1>4, <2>2 DEF Within
  <2>5. ASSUME p.modules /= None PROVE Checked(patch[a])' /\ patch'[a].at # "row" /\ Lonely(a)'
    <3>1. patch'[a] = q
      BY <1>9, <2>5
    <3>2. Checked(patch[a])'
      BY <1>4, <1>5, <2>2, <2>5, <3>1 DEF Checked, assertModulesWithinType
    <3> QED
      BY <1>5, <1>11, <3>1, <3>2, NoneAssumption DEF Lonely
  <2> QED
    BY <2>3, <2>4, <2>5
<1>12. ASSUME p.alone PROVE Ceilings'
  <2>1. CASE p.modules = None
    <3>1. \A b \in Admins : patch'[b] = None
      BY <1>9, <1>11, <1>12, <2>1
    <3>2. Within(tenant)'
      BY <1>11, <1>12, <2>1
    <3>3. \A b \in Admins : ~Lonely(b)'
      BY <3>1 DEF Lonely
    <3> QED
      BY <3>1, <3>2, <3>3 DEF Ceilings
  <2>2. CASE p.modules /= None
    <3>1. \A b \in Admins : patch'[b] /= None => b = a
      BY <1>11, <1>12
    <3>2. \A b \in Admins : Lonely(b)' => b = a
      BY <3>1 DEF Lonely
    <3>3. Checked(patch[a])' /\ patch'[a].at # "row" /\ Lonely(a)' /\ patch'[a] /= None
      BY <1>11, <1>12, <2>2 DEF Lonely
    <3>4. ~ \A b \in Admins : patch'[b] /= None => patch'[b].at = "row"
      BY <3>3
    <3>5. \A b \in Admins : patch'[b] /= None => Lonely(b)'
      BY <3>1, <3>3
    <3> QED
      BY <3>1, <3>2, <3>3, <3>4, <3>5 DEF Ceilings
  <2> QED
    BY <2>1, <2>2
<1>13. ASSUME ~p.alone PROVE Ceilings'
  <2>1. mixed'
    BY <1>10, <1>13
  <2>2. ~Lonely(a)'
    BY <1>5, <1>9, <1>13 DEF Lonely
  <2>3. ASSUME NEW b \in Admins PROVE ~Lonely(b)'
    <3>1. b # a => ~Lonely(b)
      BY <1>1, <1>2 DEF RightsInv, Ceilings
    <3> QED
      BY <1>8, <2>2, <3>1 DEF Lonely
  <2> QED
    BY <2>1, <2>3 DEF Ceilings
<1> QED
  BY <1>7, <1>12, <1>13 DEF RightsInv

LEMMA ModulesHold == ASSUME RightsInv, NEW a \in Admins, replaceEntitlements(a) PROVE RightsInv'
<1> DEFINE p == patch[a]
<1>1. /\ p /= None /\ p.at = "modules" /\ p.at # "row"
      /\ tenant' = [tenant EXCEPT !.modules = p.modules]
      /\ patch' = [patch EXCEPT ![a] = None]
      /\ mixed' = (mixed /\ ~p.alone)
      /\ UNCHANGED <<roles, member, script>>
  BY DEF replaceEntitlements
<1>2. p \in Updates /\ tenant \in Tenants /\ tenant /= None
  BY <1>1 DEF RightsInv, RightsTyped
<1>3. tenant'.type = tenant.type /\ tenant'.crossed = tenant.crossed /\ tenant'.modules = p.modules
  BY <1>1, <1>2 DEF Tenants
<1>4. p.modules /= None => tenant' \in Tenants /\ tenant' /= None
  BY <1>1, <1>2, NoneAssumption DEF Tenants, Updates
<1>5. patch' \in [Admins -> Updates \cup {None}] /\ patch'[a] = None
      /\ \A b \in Admins : b # a => patch'[b] = patch[b]
  BY <1>1 DEF RightsInv, RightsTyped
<1>6. p.modules /= None
  BY <1>1 DEF RightsInv, RightsTyped
<1>7. RightsTyped'
  BY <1>1, <1>4, <1>5, <1>6 DEF RightsInv, RightsTyped, People
<1>8. ASSUME p.alone PROVE Ceilings'
  <2>1. Checked(p) /\ \A b \in Admins : patch[b] /= None => b = a
    BY <1>1, <1>2, <1>8 DEF RightsInv, Ceilings, Lonely
  <2>2. Within(tenant)'
    BY <1>1, <1>3, <2>1 DEF Checked, Within, assertModulesWithinType
  <2>3. \A b \in Admins : patch'[b] = None
    BY <1>5, <2>1
  <2> QED
    <3>1. \A b \in Admins : ~Lonely(b)'
      BY <2>3 DEF Lonely
    <3> QED
      BY <2>2, <2>3, <3>1 DEF Ceilings
<1>9. ASSUME ~p.alone PROVE Ceilings'
  <2>1. mixed
    BY <1>1, <1>2, <1>9 DEF RightsInv, Ceilings, Lonely
  <2>2. ASSUME NEW b \in Admins PROVE ~Lonely(b)'
    <3>1. b # a => ~Lonely(b)
      BY <1>1, <1>2 DEF RightsInv, Ceilings
    <3> QED
      BY <1>5, <3>1 DEF Lonely
  <2> QED
    <3>1. mixed'
      BY <1>1, <1>9, <2>1
    <3> QED
      BY <2>2, <3>1 DEF Ceilings
<1> QED
  BY <1>7, <1>8, <1>9 DEF RightsInv

LEMMA FailHolds == ASSUME RightsInv, NEW a \in Admins, FailUpdate(a) PROVE RightsInv'
<1>1. /\ patch[a] /= None /\ patch' = [patch EXCEPT ![a] = None]
      /\ mixed' = (mixed \/ patch[a].at = "modules")
      /\ UNCHANGED <<tenant, roles, member, script>>
  BY DEF FailUpdate
<1>2. patch'[a] = None /\ \A b \in Admins : b # a => patch'[b] = patch[b]
  BY <1>1 DEF RightsInv, RightsTyped
<1>3. RightsTyped'
  BY <1>1 DEF RightsInv, RightsTyped, People
<1>4. ASSUME NEW b \in Admins, Lonely(b)'
      PROVE  Lonely(b) /\ b # a /\ patch[b] = patch'[b]
  BY <1>2, <1>4 DEF Lonely
<1>5. ASSUME NEW b \in Admins PROVE ~Lonely(b)'
  <2>1. Lonely(b)' => /\ Lonely(b) /\ b # a /\ tenant /= None
    BY <1>1, <1>4 DEF RightsInv, RightsTyped
  <2> QED
    BY <1>1, <2>1 DEF RightsInv, Ceilings
<1>6. ASSUME ~mixed', tenant' /= None
      PROVE  /\ \A b \in Admins : patch'[b] = None
             /\ Within(tenant)'
  <2>1. ~mixed /\ patch[a].at = "row" /\ tenant /= None
    BY <1>1, <1>6 DEF RightsInv, RightsTyped, Updates
  <2>2. \A b \in Admins : patch[b] /= None => b = a
    BY <1>1, <2>1 DEF RightsInv, Ceilings
  <2>3. Within(tenant)
    BY <2>1, <2>2 DEF RightsInv, Ceilings
  <2> QED
    BY <1>1, <1>2, <2>2, <2>3 DEF Within
<1>7. Ceilings'
  BY <1>5, <1>6 DEF Ceilings
<1> QED
  BY <1>3, <1>7 DEF RightsInv

-----------------------------------------------------------------------------
(* Roles, staff and the backfill: who has a role has one that is there.    *)

LEMMA EditingIs ==
    ASSUME NEW by, NEW call, Editing(by, call)
    PROVE  tenant /= None /\ UNCHANGED <<tenant, patch, script, mixed>>
BY DEF Editing

LEMMA ReplaceHolds ==
    ASSUME RightsInv, NEW by, NEW name, NEW permissions, replacePermissions(by, name, permissions)
    PROVE  RightsInv'
<1>1. tenant /= None /\ UNCHANGED <<tenant, patch, mixed, member>>
  BY EditingIs DEF replacePermissions
<1>2. DOMAIN roles' = DOMAIN roles
  BY DEF replacePermissions
<1>3. member' \in [Members -> People' \cup {None}]
  BY <1>1, <1>2 DEF RightsInv, RightsTyped, People
<1> QED
  BY <1>1, <1>3, ApartHolds

LEMMA NewRoleHolds ==
    ASSUME RightsInv, NEW by, NEW permissions, CreateRole(by, permissions)
    PROVE  RightsInv'
<1>1. tenant /= None /\ UNCHANGED <<tenant, patch, mixed, member>>
  BY EditingIs DEF CreateRole
<1>2. DOMAIN roles \subseteq DOMAIN roles'
  BY DEF CreateRole
<1>3. member' \in [Members -> People' \cup {None}]
  BY <1>1, <1>2 DEF RightsInv, RightsTyped, People
<1> QED
  BY <1>1, <1>3, ApartHolds

LEMMA RemoveHolds == ASSUME RightsInv, NEW by, NEW name, RemoveRole(by, name) PROVE RightsInv'
<1>1. /\ tenant /= None /\ UNCHANGED <<tenant, patch, mixed>>
      /\ DOMAIN roles' = DOMAIN roles \ {name}
      /\ member' = [m \in Members |-> IF Present(m) /\ member[m].role = name
                                      THEN [member[m] EXCEPT !.role = None] ELSE member[m]]
  BY EditingIs DEF RemoveRole
<1>2. ASSUME NEW m \in Members PROVE member'[m] \in People' \cup {None}
  <2>1. CASE member[m] = None
    BY <1>1, <2>1 DEF Present
  <2>2. CASE member[m] \in People
    <3>1. [member[m] EXCEPT !.role = None] \in People'
      BY <2>2 DEF People
    <3>2. member[m].role \in DOMAIN roles \cup {None}
      BY <2>2 DEF People
    <3>3. member[m].role /= name => member[m] \in People'
      BY <1>1, <2>2, <3>2 DEF People
    <3>4. member'[m] = IF Present(m) /\ member[m].role = name
                       THEN [member[m] EXCEPT !.role = None] ELSE member[m]
      BY <1>1
    <3> QED
      BY <3>1, <3>3, <3>4 DEF Present
  <2> QED
    BY <2>1, <2>2 DEF RightsInv, RightsTyped
<1>3. member' \in [Members -> People' \cup {None}]
  BY <1>1, <1>2
<1> QED
  BY <1>1, <1>3, ApartHolds

LEMMA AssignHolds ==
    ASSUME RightsInv, NEW by, NEW m \in Members, NEW role, AssignRole(by, m, role)
    PROVE  RightsInv'
<1>1. /\ tenant /= None /\ UNCHANGED <<tenant, patch, mixed, roles>>
      /\ Present(m) /\ role \in DOMAIN roles \cup {None}
      /\ member' = [member EXCEPT ![m].role = role]
  BY EditingIs DEF AssignRole
<1>2. member[m] \in People
  BY <1>1 DEF Present, RightsInv, RightsTyped
<1>3. [member[m] EXCEPT !.role = role] \in People'
  BY <1>1, <1>2 DEF People
<1>4. member' \in [Members -> People' \cup {None}]
  BY <1>1, <1>3 DEF RightsInv, RightsTyped, People
<1> QED
  BY <1>1, <1>4, ApartHolds

LEMMA InviteHolds ==
    ASSUME RightsInv, NEW by, NEW m \in Members, NEW appRole \in {"owner", "staff"}, NEW role,
           Invite(by, m, appRole, role)
    PROVE  RightsInv'
<1>1. /\ tenant /= None /\ UNCHANGED <<tenant, patch, mixed, roles>>
      /\ role \in DOMAIN roles
      /\ member' = [member EXCEPT ![m] = [claim |-> appRole, role |-> role]]
  BY DEF Invite
<1>2. [claim |-> appRole, role |-> role] \in People'
  BY <1>1 DEF People
<1>3. member' \in [Members -> People' \cup {None}]
  BY <1>1, <1>2 DEF RightsInv, RightsTyped, People
<1> QED
  BY <1>1, <1>3, ApartHolds

LEMMA ReadsHold == ASSUME RightsInv, BackfillReads PROVE RightsInv'
<1>1. tenant /= None /\ UNCHANGED <<tenant, roles, member, patch, mixed>>
  BY DEF BackfillReads
<1>2. member' \in [Members -> People' \cup {None}]
  BY <1>1 DEF RightsInv, RightsTyped, People
<1> QED
  BY <1>1, <1>2, ApartHolds

\* The roles that were there stay there.
LEMMA FilledIs ==
    ASSUME RightsInv, BackfillRoles
    PROVE  /\ tenant \in Tenants /\ tenant /= None /\ UNCHANGED <<tenant, member, patch, mixed>>
           /\ \/ UNCHANGED roles
              \/ DOMAIN roles = {}
              \/ roles' = [name \in DOMAIN roles |->
                              IF Unset(roles[name])
                              THEN roles[name] \cup ManagerGrant(tenant.type, script.modules)
                              ELSE roles[name]]
<1>1. script.at = "roles" /\ UNCHANGED <<tenant, member, patch, mixed>>
  BY DEF BackfillRoles
<1>2. tenant \in Tenants /\ tenant /= None
  BY <1>1, NoneAssumption DEF RightsInv, RightsTyped
<1>3. DOMAIN <<>> = {}
  OBVIOUS
<1> QED
  BY <1>1, <1>2, <1>3 DEF BackfillRoles

LEMMA FillHolds == ASSUME RightsInv, BackfillRoles PROVE RightsInv'
<1>1. DOMAIN roles \subseteq DOMAIN roles'
  BY FilledIs
<1>2. member' \in [Members -> People' \cup {None}]
  BY <1>1, FilledIs DEF RightsInv, RightsTyped, People
<1> QED
  BY <1>2, FilledIs, ApartHolds

LEMMA HandOutHolds == ASSUME RightsInv, BackfillStaff PROVE RightsInv'
<1>1. /\ script.at = "staff" /\ UNCHANGED <<tenant, patch, mixed, roles>>
      /\ member' = [m \in Members |->
            IF Present(m) /\ member[m].role = None /\ script.viewer \in DOMAIN roles
            THEN [member[m] EXCEPT !.role = script.viewer] ELSE member[m]]
  BY DEF BackfillStaff
<1>2. tenant /= None
  BY <1>1, NoneAssumption DEF RightsInv, RightsTyped
<1>3. ASSUME NEW m \in Members PROVE member'[m] \in People' \cup {None}
  <2>1. CASE member[m] = None
    BY <1>1, <2>1 DEF Present
  <2>2. CASE member[m] \in People
    BY <1>1, <2>2 DEF People
  <2> QED
    BY <2>1, <2>2 DEF RightsInv, RightsTyped
<1>4. member' \in [Members -> People' \cup {None}]
  BY <1>1, <1>3
<1> QED
  BY <1>1, <1>2, <1>4, ApartHolds

LEMMA RightsStep == ASSUME RightsInv, [RightsNext]_rights PROVE RightsInv'
<1>1. CASE CreateSome
  BY <1>1, CreateHolds DEF CreateSome
<1>2. CASE UpdateSome
  BY <1>2, BeginHolds, RowHolds, ModulesHold, FailHolds DEF UpdateSome
<1>3. CASE EditSome
  BY <1>3, ReplaceHolds, RemoveHolds, NewRoleHolds, AssignHolds, InviteHolds DEF EditSome
<1> QED
  BY <1>1, <1>2, <1>3, ReadsHold, FillHolds, HandOutHolds, RightsStutter DEF RightsNext

-----------------------------------------------------------------------------
(* The theorems.                                                           *)

\* The inductive invariant: whoever has a role has one that is there, and
\* every update of the workspace that is under way was checked against what
\* it leaves alone.
THEOREM RightsInductive == RightsSpec => []RightsInv
<1>1. RightsInit => RightsInv
  BY RightsStart
<1>2. RightsInv /\ [RightsNext]_rights => RightsInv'
  BY RightsStep
<1> QED
  BY <1>1, <1>2, PTL DEF RightsSpec

\* A workspace has a module outside its type's ceiling only if the last update
\* crossed it on purpose, for any lists of modules and any updates that change
\* the type, the modules or both.
THEOREM CeilingHolds == RightsSpec => []CeilingIsCrossedOnPurpose
<1>1. RightsInv => CeilingIsCrossedOnPurpose
  BY DEF RightsInv, Ceilings, Within, CeilingIsCrossedOnPurpose
<1> QED
  BY <1>1, RightsInductive, PTL

\* What a member reaches or sees after keys were taken away was in reach and
\* in view, unless it was the last key of its kind.
LEMMA NarrowedReach ==
    ASSUME RightsInv, RightsInv', OnlyTaken, NEW m \in Members, Present(m)
    PROVE  /\ IF LosesCapabilities(m) THEN Reach(m)' = Sold' ELSE Reach(m)' \subseteq Reach(m)
           /\ IF LosesMenu(m) THEN Menu(m)' = {MENU_ALL, "menu:listed"}
              ELSE Menu(m)' \subseteq Menu(m)
<1> DEFINE r == member[m].role
           s == member'[m].role
           P == Permissions(m)
           Q == Permissions(m)'
<1>1. /\ tenant'.modules \subseteq tenant.modules
      /\ member'[m] = member[m] \/ member'[m] = [member[m] EXCEPT !.role = None]
      /\ member[m] \in People
  BY DEF OnlyTaken, Present, RightsInv, RightsTyped
<1>2. /\ s \in {r, None} /\ member'[m].claim = member[m].claim
      /\ s /= None => s = r /\ s \in DOMAIN roles'
  <2>1. CASE member'[m] = member[m]
    BY <1>1, <2>1 DEF Present, RightsInv, RightsTyped, People
  <2>2. CASE member'[m] = [member[m] EXCEPT !.role = None]
    BY <1>1, <2>2 DEF People
  <2> QED
    BY <1>1, <2>1, <2>2
<1>3. Q \subseteq P
  <2>1. CASE s = None
    BY <2>1 DEF Permissions
  <2>2. CASE s /= None
    <3>1. s = r /\ s \in DOMAIN roles'
      BY <1>2, <2>2
    <3> QED
      BY <2>2, <3>1 DEF OnlyTaken, Permissions
  <2> QED
    BY <2>1, <2>2
<1>4. r = None => s = None /\ P = {} /\ Q = {}
  BY <1>2 DEF Permissions
<1>5. s = None => Q = {}
  BY DEF Permissions
<1> DEFINE old == Load(m)
           new == Load(m)'
<1>6. /\ old.hasRole = (r /= None) /\ new.hasRole = (s /= None) /\ new.bypass = old.bypass
      /\ old.capabilities = P \ MenuKeys /\ new.capabilities = Q \ MenuKeys
  BY <1>2 DEF Load, CapabilityKeys, isCapabilityKey, isMenuKey
<1>7. ASSUME LosesCapabilities(m) PROVE Reach(m)' = Sold'
  <2>1. unconfigured(new)
    BY <1>6, <1>7 DEF unconfigured, LosesCapabilities
  <2> QED
    BY <2>1 DEF Reach, Sold, assertCapabilities
<1>8. ASSUME ~LosesCapabilities(m) PROVE Reach(m)' \subseteq Reach(m)
  <2>1. unconfigured(new) => unconfigured(old)
    BY <1>3, <1>4, <1>5, <1>6, <1>8 DEF unconfigured, LosesCapabilities
  <2>2. new.capabilities \subseteq old.capabilities
    BY <1>3, <1>6
  <2>3. ASSUME NEW call \in Reach(m)' PROVE call \in Reach(m)
    <3>1. /\ call \in Calls /\ RESOURCES[call[1]].module \in tenant'.modules
          /\ assertCapabilities(new, {KeyOf(call)} \ {None})
      BY <2>3 DEF Reach
    <3>2. assertCapabilities(old, {KeyOf(call)} \ {None})
      BY <1>6, <2>1, <2>2, <3>1 DEF assertCapabilities
    <3> QED
      BY <1>1, <3>1, <3>2 DEF Reach
  <2> QED
    BY <2>3
<1>9. IF LosesMenu(m) THEN Menu(m)' = {MENU_ALL, "menu:listed"} ELSE Menu(m)' \subseteq Menu(m)
  <2> DEFINE keys == {key \in P : isMenuKey(key)}
             kept == {key \in Q : isMenuKey(key)}
             all == bypassesMenuChecks(normalizeAppRole(member[m].claim))
  <2>1. Menu(m) = IF all \/ r = None \/ keys = {} \/ MENU_ALL \in keys
                  THEN {MENU_ALL, "menu:listed"} ELSE keys \ {MENU_NONE}
    BY DEF Menu
  <2>2. Menu(m)' = IF all \/ s = None \/ kept = {} \/ MENU_ALL \in kept
                   THEN {MENU_ALL, "menu:listed"} ELSE kept \ {MENU_NONE}
    BY <1>2 DEF Menu
  <2>3. kept \subseteq keys /\ (LosesMenu(m) <=> keys /= {} /\ kept = {})
    BY <1>3 DEF LosesMenu, HasMenu
  <2>4. kept \ {MENU_NONE} \subseteq {MENU_ALL, "menu:listed"}
    BY DEF isMenuKey, MenuKeys
  <2>5. s = None => kept = {}
    BY <1>5
  <2>6. r = None => keys = {}
    BY <1>4
  <2> HIDE DEF keys, kept, all
  <2> QED
    BY <2>1, <2>2, <2>3, <2>4, <2>5, <2>6
<1> QED
  BY <1>7, <1>8, <1>9

\* Taking modules, keys or roles away lets nobody do or see more, whatever the
\* tables of resources and gates are, but for who is left without any key of a
\* kind: no capability binds them, or no menu hides, and the theorem says
\* exactly what they may do and see then.
THEOREM NarrowingIsMonotone == RightsSpec => NarrowingNarrows
<1>1. RightsInv /\ RightsInv' =>
        [OnlyTaken => \A m \in Members : Present(m) =>
           /\ IF LosesCapabilities(m) THEN Reach(m)' = Sold' ELSE Reach(m)' \subseteq Reach(m)
           /\ IF LosesMenu(m) THEN Menu(m)' = {MENU_ALL, "menu:listed"}
              ELSE Menu(m)' \subseteq Menu(m)]_rights
  BY NarrowedReach
<1> QED
  BY <1>1, RightsInductive, PTL DEF NarrowingNarrows

\* Filling a role nobody configured binds its members, and leaves them what
\* a key of the workspace's modules opens.
LEMMA FilledReach ==
    ASSUME RightsInv, BackfillRoles, script.modules = tenant.modules,
           NEW m \in Members, Present(m), member[m].role /= None
    PROVE  {call \in Reach(m) : KeyOf(call) \in {None} \cup capabilitiesFor(tenant.modules)}
               \subseteq Reach(m)'
<1> DEFINE r == member[m].role
           grant == ManagerGrant(tenant.type, script.modules)
           P == Permissions(m)
           Q == Permissions(m)'
<1>1. UNCHANGED <<tenant, member>> /\ tenant.type \in TENANT_TYPES
  BY FilledIs DEF Tenants
<1>2. grant = capabilitiesFor(tenant.modules) /\ \A key \in grant : isCapabilityKey(key)
  BY <1>1, GrantIs
<1>3. r \in DOMAIN roles
  BY DEF RightsInv, RightsTyped, People, Present
<1>4. P = roles[r] /\ Q = roles'[r]
  BY <1>1 DEF Permissions
<1> HIDE DEF grant
<1>5. Q = P \/ (Unset(P) /\ Q = P \cup grant)
  BY <1>3, <1>4, FilledIs DEF grant
<1>6. ASSUME NEW call \in Reach(m), KeyOf(call) \in {None} \cup capabilitiesFor(tenant.modules)
      PROVE  call \in Reach(m)'
  <2> DEFINE old == Load(m)
             new == Load(m)'
             required == {KeyOf(call)} \ {None}
  <2>1. /\ call \in Calls /\ RESOURCES[call[1]].module \in tenant.modules
        /\ assertCapabilities(old, required)
    BY <1>6 DEF Reach
  <2>2. /\ new.hasRole = old.hasRole /\ new.bypass = old.bypass
        /\ old.capabilities = CapabilityKeys(P) /\ new.capabilities = CapabilityKeys(Q)
    BY <1>1 DEF Load
  <2>3. required \subseteq capabilitiesFor(tenant.modules)
    BY <1>6
  <2>4. assertCapabilities(new, required)
    <3>1. CASE Q = P
      BY <2>1, <2>2, <3>1 DEF assertCapabilities, unconfigured
    <3>2. CASE Q = P \cup grant
      <4>1. required \subseteq new.capabilities
        BY <1>2, <2>2, <2>3, <3>2 DEF CapabilityKeys
      <4> QED
        BY <4>1 DEF assertCapabilities
    <3> QED
      BY <1>5, <3>1, <3>2
  <2> HIDE DEF required
  <2>5. Calls' = Calls /\ required = {KeyOf(call)} \ {None}
    BY DEF required
  <2> QED
    BY <1>1, <2>1, <2>4, <2>5 DEF Reach
<1> QED
  BY <1>6

\* Nobody loses access when the backfill fills an unconfigured role, but to
\* what a key of a module the workspace lacks would open: for any modules,
\* members and roles from before.
THEOREM BackfillOnlyGives == RightsSpec => BackfillTakesNothing
<1>1. RightsInv =>
        [BackfillRoles /\ script.modules = tenant.modules =>
           \A m \in Members : Present(m) /\ member[m].role /= None =>
             {call \in Reach(m) : KeyOf(call) \in {None} \cup capabilitiesFor(tenant.modules)}
                 \subseteq Reach(m)']_rights
  BY FilledReach
<1> QED
  BY <1>1, RightsInductive, PTL DEF BackfillTakesNothing
=============================================================================
