----------------------------- MODULE Workspace -----------------------------
(***************************************************************************)
(* Who is let in, by one API process, while the records that decide it are *)
(* being changed, here or by another process.                              *)
(*                                                                         *)
(* A member's request passes TenantGuard, AccessGuard, EntitlementGuard    *)
(* and CapabilityGuard; a visitor's passes StorefrontService.assertLive.   *)
(* Both decide mostly from three caches of the process, filled by          *)
(* TenantService.bySlug, AccessService.forUser and                         *)
(* StorefrontService.resolveHost: an entry lives TTL, is filled after the  *)
(* reads that make it up, and is dropped by some of the writers.           *)
(*                                                                         *)
(* There is one workspace, one staff member and one custom domain.  Time   *)
(* is counted in ticks; `lost` remembers for every condition how many      *)
(* ticks ago the database last met it.                                     *)
(***************************************************************************)
EXTENDS Naturals, FiniteSets

CONSTANTS
    Slots,        \* requests the process can have under way at once
    TTL,          \* TTL_MS, in ticks
    MaxLoad,      \* bound: a request is answered within so many ticks
    MaxWrites,    \* bound: requests that change the records
    Audiences,    \* bound: what kinds of request may come in one behaviour
    NoEntry       \* what a cache holds where it has no entry

ASSUME WorkspaceAssumption ==
    TTL \in Nat \ {0} /\ MaxLoad \in Nat \ {0} /\ MaxWrites \in Nat /\ IsFiniteSet(Slots)

VARIABLES
    audience,
    db,        \* PostgreSQL: what the decisions are taken from
    cache,     \* the three caches of the process, one entry each
    req,
    lost,      \* ticks since the database last met a condition
    writes

vars == <<audience, db, cache, req, lost, writes>>

-----------------------------------------------------------------------------
(* The records and the conditions on them.                                 *)

\* The member works on the storefront, which the visitor visits.
Need == "storefront.manage"
Modules == {"storefront"}
CapSets == {{}, {Need}, {"catalog.view"}}

Database ==
    [status : {"active", "suspended"},               \* tenants
     modules : SUBSET Modules,                       \* tenant_entitlements
     staff : {"invited", "active", "suspended", "gone"},   \* the member's staff_users row
     caps : CapSets,                                 \* role_permissions of the member's role
     live : BOOLEAN, domain : BOOLEAN]               \* storefront_configs

isDisabled(status) == status = "suspended"

\* A role with no capability at all has not been set up, and binds nobody.
HasCapability(caps) == caps = {} \/ Need \in caps

Conditions == {"status", "staff", "caps", "storefront", "live", "domain"}
Meets(d, x) ==
    CASE x = "status" -> d.status = "active"
      [] x = "staff" -> ~isDisabled(d.staff)
      [] x = "caps" -> d.staff = "gone" \/ HasCapability(d.caps)
      [] x \in Modules -> x \in d.modules
      [] x = "live" -> d.live
      [] x = "domain" -> d.domain

\* What each kind of request is let in on.
Kinds == {"member", "visitor"}
Needs(k) == CASE k = "member" -> {"status", "staff", "caps", "storefront"}
              [] k = "visitor" -> {"storefront", "live", "domain"}

ASSUME AudiencesAssumption == Audiences \subseteq SUBSET Kinds

\* The longest a decision may lag behind the database.
Lag(x) == IF x = "live" THEN MaxLoad ELSE TTL - 1 + 2 * MaxLoad

-----------------------------------------------------------------------------
(* The caches.  An entry that has reached TTL is never used again, and is  *)
(* taken out here when it does.  `behind` says that a write made by this   *)
(* process has overtaken what the entry holds, and that the process still  *)
(* has to do something about it: a write that is given up no longer has    *)
(* to, nor one that drops the entry while a request is filling it.         *)

Entry == [tenant |-> [status : {"active", "suspended"}, modules : SUBSET Modules,
                    age : 0 .. TTL - 1, behind : BOOLEAN],
          access |-> [staff : {"invited", "active", "suspended", "gone"},
                    caps : CapSets,
                    age : 0 .. TTL - 1, behind : BOOLEAN],
          host |-> [age : 0 .. TTL - 1, behind : BOOLEAN]]
Caches == {"tenant", "access", "host"}
Empty == [c \in Caches |-> NoEntry]

Resting == {"idle", "served", "refused"}
Idle == [pc |-> "idle"]
At(s, pc) == req[s].pc = pc
Underway == {s \in Slots : req[s].pc \notin Resting}
Goes(s, next) == req' = [req EXCEPT ![s] = next]

\* Which cache a request is filling: what it has read is not there yet.
Filling(c) == {s \in Slots : \/ c = "tenant" /\ req[s].pc \in {"modules", "keepTenant"}
                             \/ c = "access" /\ At(s, "keepAccess")
                             \/ c = "host" /\ At(s, "keepHost")}

\* Mutant: an entry past TTL is still used.
OlderKept(e) == IF e = NoEntry \/ e.age + 1 >= TTL THEN e ELSE [e EXCEPT !.age = @ + 1]
Older(e) == IF e = NoEntry \/ e.age + 1 >= TTL THEN NoEntry ELSE [e EXCEPT !.age = @ + 1]

\* `lost` follows whatever a step makes of the database.
Remembered(d) == lost' = [x \in Conditions |-> IF Meets(d, x) THEN 0 ELSE lost[x]]
Reads == UNCHANGED <<audience, db, lost, writes>>

-----------------------------------------------------------------------------
(* A request that asks to be let in.                                       *)

Arrive(s) ==
    /\ At(s, "idle")
    /\ \E k \in audience : Goes(s, [pc |-> IF k = "visitor" THEN "host" ELSE "tenant", kind |-> k, age |-> 0])
    /\ Reads /\ UNCHANGED cache

Answer(s, ok) == Goes(s, [pc |-> IF ok THEN "served" ELSE "refused", kind |-> req[s].kind])

Leave(s) == req[s].pc \in {"served", "refused"} /\ Goes(s, Idle) /\ Reads /\ UNCHANGED cache

\* resolveHost
HostKnown(s) == [pc |-> "tenant", kind |-> "visitor", age |-> req[s].age]
HostHit(s) ==
    /\ At(s, "host") /\ cache["host"] # NoEntry
    /\ Goes(s, HostKnown(s))
    /\ Reads /\ UNCHANGED cache
ReadHost(s) ==
    /\ At(s, "host") /\ cache["host"] = NoEntry
    /\ IF db.domain THEN Goes(s, [pc |-> "keepHost", kind |-> "visitor", age |-> req[s].age, behind |-> FALSE])
                    ELSE Answer(s, FALSE)
    /\ Reads /\ UNCHANGED cache
KeepHost(s) ==
    /\ At(s, "keepHost")
    /\ cache' = [cache EXCEPT !["host"] = [age |-> 0, behind |-> req[s].behind]]
    /\ Goes(s, HostKnown(s))
    /\ Reads

\* What follows bySlug: TenantGuard for a member, assertLive for a visitor.
Admit(s, status, modules) ==
    IF req[s].kind = "member"
    THEN IF status # "active" THEN Answer(s, FALSE)
         ELSE Goes(s, [pc |-> "access", kind |-> "member", age |-> req[s].age, modules |-> modules])
    ELSE IF "storefront" \notin modules THEN Answer(s, FALSE)
         ELSE Goes(s, [pc |-> "config", kind |-> req[s].kind, age |-> req[s].age])

\* bySlug: the row and its modules are read in two transactions.
\* Mutant: a refusal renews the entry it was taken from.
TenantHitRenewed(s) ==
    /\ At(s, "tenant") /\ cache["tenant"] # NoEntry
    /\ Admit(s, cache["tenant"].status, cache["tenant"].modules)
    /\ cache' = [cache EXCEPT !["tenant"].age = IF req'[s].pc = "refused" THEN 0 ELSE @]
    /\ Reads
TenantHit(s) ==
    /\ At(s, "tenant") /\ cache["tenant"] # NoEntry
    /\ Admit(s, cache["tenant"].status, cache["tenant"].modules)
    /\ Reads /\ UNCHANGED cache
ReadRow(s) ==
    /\ At(s, "tenant") /\ cache["tenant"] = NoEntry
    /\ Goes(s, [pc |-> "modules", kind |-> req[s].kind, age |-> req[s].age, status |-> db.status, behind |-> FALSE])
    /\ Reads /\ UNCHANGED cache
ReadModules(s) ==
    /\ At(s, "modules")
    /\ Goes(s, [pc |-> "keepTenant", kind |-> req[s].kind, age |-> req[s].age,
                status |-> req[s].status, modules |-> db.modules, behind |-> req[s].behind])
    /\ Reads /\ UNCHANGED cache
KeepTenant(s) ==
    /\ At(s, "keepTenant")
    /\ cache' = [cache EXCEPT !["tenant"] = [status |-> req[s].status, modules |-> req[s].modules,
                                             age |-> 0, behind |-> req[s].behind]]
    /\ Admit(s, req[s].status, req[s].modules)
    /\ Reads

\* AccessGuard, then EntitlementGuard and CapabilityGuard on what was read.
Pass(s, staff, caps) ==
    Answer(s, /\ ~isDisabled(staff)
              /\ "storefront" \in req[s].modules
              /\ staff = "gone" \/ HasCapability(caps))
AccessHit(s) ==
    /\ At(s, "access") /\ cache["access"] # NoEntry
    /\ Pass(s, cache["access"].staff, cache["access"].caps)
    /\ Reads /\ UNCHANGED cache
ReadAccess(s) ==
    /\ At(s, "access") /\ cache["access"] = NoEntry
    /\ Goes(s, [pc |-> "keepAccess", kind |-> "member", age |-> req[s].age, modules |-> req[s].modules,
                staff |-> db.staff, caps |-> db.caps, behind |-> FALSE])
    /\ Reads /\ UNCHANGED cache
KeepAccess(s) ==
    /\ At(s, "keepAccess")
    /\ cache' = [cache EXCEPT !["access"] = [staff |-> req[s].staff, caps |-> req[s].caps,
                                             age |-> 0, behind |-> req[s].behind]]
    /\ Pass(s, req[s].staff, req[s].caps)
    /\ Reads

\* assertLive reads the storefront's switch afresh.
ReadConfig(s) == At(s, "config") /\ Answer(s, db.live) /\ Reads /\ UNCHANGED cache

-----------------------------------------------------------------------------
(* A request that changes the records.                                     *)

Becomes(d) == db' = d /\ Remembered(d) /\ UNCHANGED audience
Writes(d) == writes < MaxWrites /\ writes' = writes + 1 /\ Becomes(d)

\* What of a record one transaction may make of it.
TenantRows == {[db EXCEPT !.status = x] : x \in {"active", "suspended"}}
ModuleRows == {[db EXCEPT !.modules = x] : x \in SUBSET Modules}
StaffRows == IF db.staff = "gone" THEN {} ELSE {[db EXCEPT !.staff = x] : x \in {"active", "suspended"}}
CapsRows == {[db EXCEPT !.caps = x] : x \in CapSets}
ConfigRows == {[db EXCEPT !.live = x] : x \in BOOLEAN} \cup {[db EXCEPT !.domain = x] : x \in BOOLEAN}

\* Another process, whose caches are its own; and the writers of this one
\* that drop nothing: PlatformUsersService on status, PlatformRolesService on
\* permissions, AuthEventsService on the first sign-in.
Elsewhere ==
    /\ \E d \in (TenantRows \cup ModuleRows \cup StaffRows \cup CapsRows \cup ConfigRows) \ {db} : Writes(d)
    /\ UNCHANGED <<cache, req>>

\* `behind` of everything read for a cache becomes b; s goes on with next.
Marked(c, s, next, b) ==
    req' = [r \in Slots |-> IF r = s THEN [pc |-> next]
                            ELSE IF r \in Filling(c) THEN [req[r] EXCEPT !.behind = b] ELSE req[r]]
Entered(c, b) ==
    cache' = [cache EXCEPT ![c] = IF @ = NoEntry THEN NoEntry ELSE [@ EXCEPT !.behind = b]]

Overtakes(c, s, next) == Entered(c, TRUE) /\ Marked(c, s, next, TRUE)
GivesUp(c, s) == Reads /\ Entered(c, FALSE) /\ Marked(c, s, "idle", FALSE)

\* Dropping an entry passes the requests that are just filling it.
Drop(c, s, next) == Reads /\ cache' = [cache EXCEPT ![c] = NoEntry] /\ Marked(c, s, next, FALSE)

\* TenantService.update: the row, the modules when they are given, the entry.
UpdateRow(s) ==
    /\ At(s, "idle")
    /\ \E d \in TenantRows, next \in {"replaceEntitlements", "invalidate"} : Writes(d) /\ Overtakes("tenant", s, next)
ReplaceEntitlements(s) ==
    /\ At(s, "replaceEntitlements")
    /\ \E d \in ModuleRows : Becomes(d)
    /\ Overtakes("tenant", s, "invalidate") /\ UNCHANGED writes
\* The modules' transaction fails: the row stays changed, the entry stays.
EntitlementsFail(s) == At(s, "replaceEntitlements") /\ GivesUp("tenant", s)
\* update() drops the entry, and its caller on the platform's side again.
Invalidate(s) == At(s, "invalidate") /\ Drop("tenant", s, "invalidateAgain")
InvalidateAgain(s) == At(s, "invalidateAgain") /\ Drop("tenant", s, "idle")

\* StaffInviteService.revoke removes a person who never signed in.
Revoke(s) ==
    /\ At(s, "idle") /\ db.staff = "invited"
    /\ Writes([db EXCEPT !.staff = "gone"]) /\ Overtakes("access", s, "invalidateAccess")
InvalidateAccess(s) == At(s, "invalidateAccess") /\ Drop("access", s, "idle")

\* StorefrontService.updateConfig
UpdateConfig(s) ==
    /\ At(s, "idle")
    /\ \E d \in ConfigRows : Writes(d) /\ Overtakes("host", s, "clearDomains")
\* Mutant: the domain's entry is left where it is.
ClearDomainsNot(s) == At(s, "clearDomains") /\ Goes(s, Idle) /\ Reads /\ UNCHANGED cache
ClearDomains(s) == At(s, "clearDomains") /\ Drop("host", s, "idle")

-----------------------------------------------------------------------------
Tick ==
    /\ \A s \in Underway : "age" \in DOMAIN req[s] => req[s].age < MaxLoad
    /\ cache' = [c \in Caches |-> Older(cache[c])]
    /\ req' = [s \in Slots |-> IF "age" \in DOMAIN req[s] THEN [req[s] EXCEPT !.age = @ + 1] ELSE req[s]]
    /\ lost' = [x \in Conditions |-> IF Meets(db, x) THEN 0
                                     ELSE IF lost[x] > Lag(x) THEN lost[x] ELSE lost[x] + 1]
    /\ UNCHANGED <<audience, db, writes>>

Restart ==
    /\ cache' = Empty /\ req' = [s \in Slots |-> Idle]
    /\ Reads

Init ==
    /\ audience \in Audiences
    /\ \E open \in [status : {"active"}, modules : {Modules}, staff : {"invited"},
                      caps : {{Need}}, live : {TRUE}, domain : {TRUE}] :
          db \in {open, [open EXCEPT !.status = "suspended"], [open EXCEPT !.staff = "suspended"],
                  [open EXCEPT !.live = FALSE]}
    /\ \A x \in Conditions : Meets(db, x) \/ \E k \in audience : x \in Needs(k)
    /\ cache = Empty /\ req = [s \in Slots |-> Idle]
    /\ lost = [x \in Conditions |-> IF Meets(db, x) THEN 0 ELSE Lag(x) + 1] /\ writes = 0

Asks(s) ==
    \/ HostHit(s) \/ ReadHost(s) \/ KeepHost(s)
    \/ TenantHit(s) \/ ReadRow(s) \/ ReadModules(s) \/ KeepTenant(s)
    \/ AccessHit(s) \/ ReadAccess(s) \/ KeepAccess(s)
    \/ ReadConfig(s) \/ Leave(s)
Finishes(s) ==
    \/ ReplaceEntitlements(s) \/ EntitlementsFail(s) \/ Invalidate(s) \/ InvalidateAgain(s)
    \/ InvalidateAccess(s) \/ ClearDomains(s)

Next ==
    \/ \E s \in Slots : Arrive(s) \/ Asks(s) \/ Finishes(s)
                        \/ UpdateRow(s) \/ Revoke(s) \/ UpdateConfig(s)
    \/ Elsewhere \/ Tick \/ Restart

\* Time passes, and what has begun goes on: the event loop serves every
\* continuation and the database answers.  Nobody has to ask or to write.
Spec ==
    /\ Init /\ [][Next]_vars
    /\ WF_vars(Tick)
    /\ \A s \in Slots : WF_vars(Asks(s)) /\ WF_vars(Finishes(s))

-----------------------------------------------------------------------------
(* Properties.                                                             *)

\* The records, the caches and the requests stay well formed.
TypeOK ==
    /\ db \in Database
    /\ \A c \in Caches : cache[c] = NoEntry \/ cache[c] \in Entry[c]
    /\ \A s \in Slots : /\ "age" \in DOMAIN req[s] => req[s].age \in 0 .. MaxLoad
                        /\ "behind" \in DOMAIN req[s] => req[s].behind \in BOOLEAN
    /\ \A x \in Conditions : lost[x] \in 0 .. Lag(x) + 1
    /\ writes \in 0 .. MaxWrites

\* The TIMING CAVEAT of TenantGuard and AccessGuard as a bound: whoever is
\* let in met every condition of the guards within the lifetime of a cache
\* entry and two loads before, however fills, writes and drops interleave;
\* and the storefront's switch is never taken from a cache.
StaleIsBounded ==
    [][\A s \in Slots : (req[s].pc # "served" /\ req'[s].pc = "served")
            => \A x \in Needs(req'[s].kind) : lost[x] <= Lag(x)]_vars

\* A change made by this process leaves nothing in the caches that is older
\* than it, once the process has dropped the entry: what stays behind was
\* being read while the entry was dropped, or the change was given up.
DropsCoverOwnWrites ==
    \A c \in Caches : cache[c] # NoEntry /\ cache[c].behind
        => \E s \in Slots : req[s].pc \in
              (CASE c = "tenant" -> {"replaceEntitlements", "invalidate"}
                 [] c = "access" -> {"invalidateAccess"}
                 [] c = "host" -> {"clearDomains"})

\* Whoever may come in for good is in the end no longer refused, and whoever
\* may not is in the end no longer served: no answer outlives its reason.
AnswersCatchUp ==
    \A k \in Kinds :
        LET Allowed == \A x \in Needs(k) : Meets(db, x)
            Answered(pc) == \E s \in Slots : At(s, pc) /\ req[s].kind = k
        IN  /\ (<>[]Allowed) => <>[]~Answered("refused")
            /\ (<>[]~Allowed) => <>[]~Answered("served")
=============================================================================
