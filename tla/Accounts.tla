------------------------------ MODULE Accounts ------------------------------
(***************************************************************************)
(* People and their logins.  A person is a row of staff_users in           *)
(* PostgreSQL and an identity in GoTrue, and no transaction covers both:   *)
(* PlatformUsersService, PlatformAdminsService and PlatformRolesService    *)
(* (src/src/platform), StaffInviteService (src/src/tenant), ProfileService *)
(* and SupabaseAdminService (src/src/auth) and AuthEventsService write     *)
(* them one after the other and undo by hand what a failure leaves.        *)
(*                                                                         *)
(* A request begins with its first read: what it then knows is `seen`.     *)
(* Each later call to GoTrue and each transaction is a step, and other     *)
(* requests run in between.                                                *)
(***************************************************************************)
EXTENDS Naturals, FiniteSets

CONSTANTS
    Requests,      \* the requests that are made, each once; a login or a row
                   \* that a request creates is named after it
    Root, Member, Stray,      \* logins that are there before
    Owner, Invitee,           \* rows that are there before
    Roles, RoleNames, Tenants, Emails,
    RootEmail, MemberEmail, StrayEmail, InviteeEmail,
    Home, HomeRole, Clerk,    \* the tenant of the first rows, its role, that role's name
    None,
    Singleton,     \* the index platform_admin_singleton could be created
    Operations, AppRolesAsked,    \* what requests ask for
    MaxFaults      \* bound: calls, transactions and processes that fail

Logins == Requests \cup {Root, Member, Stray}
Rows == Requests \cup {Owner, Invitee}

ASSUME ConstantsAssumption ==
    /\ IsFiniteSet(Logins) /\ MaxFaults \in Nat /\ Singleton \in BOOLEAN
    /\ {RootEmail, MemberEmail, StrayEmail, InviteeEmail} \subseteq Emails
    /\ Home \in Tenants /\ HomeRole \in Roles /\ Clerk \in RoleNames /\ AppRolesAsked \subseteq {"owner", "staff"}
    /\ None \notin Logins \cup Rows \cup Roles \cup Tenants \cup Emails
    /\ Root # Member /\ Root # Stray /\ Member # Stray /\ Requests \cap {Root, Member, Stray} = {}
    /\ Owner # Invitee /\ Requests \cap {Owner, Invitee} = {}

VARIABLES
    login,     \* GoTrue: the identities
    staff,     \* PostgreSQL: staff_users
    role,      \* PostgreSQL: roles
    req,
    faults,
    adrift     \* logins a request left half changed: a crash, an answer lost, an undo
               \* that failed, met other requests or had keys it could not take
               \* back, rival claims

vars == <<login, staff, role, req, faults, adrift>>

AppRoles == {"owner", "staff"}
\* A deactivated person is treated in every respect as a suspended one.
STATUS_BANNED == {"suspended"}
Statuses == {"active", "invited"} \cup STATUS_BANNED

\* app, tenant and must are keys of app_metadata; "unset" and None: no such key.
Login == [live : {TRUE}, email : Emails,
          app : AppRoles \cup {"platform_admin", "unset"},
          tenant : Tenants \cup {None}, must : {"yes", "no", "unset"}, banned : BOOLEAN]

StaffRow == [live : {TRUE}, tenant : Tenants, login : Logins \cup {None},
             email : Emails, role : Roles \cup {None}, status : Statuses]
Role == [live : {TRUE}, tenant : Tenants, name : RoleNames]
Absent == [live |-> FALSE]    \* not there, or not there any more

Live(f) == {k \in DOMAIN f : f[k].live}
Admins == {i \in Live(login) : login[i].app = "platform_admin"}
Actors == {Root} \cup Admins


Fresh == [pc |-> "fresh"]
Done == [pc |-> "done"]
Failed == [pc |-> "failed"]
Dead == [pc |-> "dead"]
Ended == {Done, Failed, Dead}
Running == {p \in Requests : req[p] \notin Ended \cup {Fresh}}
At(p, pc) == req[p].pc = pc
Goes(p, next) == req' = [req EXCEPT ![p] = next]
Step(p, pc) == [req[p] EXCEPT !.pc = pc]

-----------------------------------------------------------------------------
(* What an operation may take for granted.                                 *)

\* moveTenant holds its row FOR UPDATE from its first statement to its end.
Locked(s) == \E p \in Running : req[p].pc \in {"claim", "commit"} /\ req[p].row = s

EmailFree(e, s) == \A k \in Live(staff) \ {s} : staff[k].email # e
AddressFree(e, i) == \A k \in Live(login) \ {i} : login[k].email # e
LoginFree(i, s) == \A k \in Live(staff) \ {s} : staff[k].login # i
AssertRoleInTenant(r, t) == r # None => r \in Live(role) /\ role[r].tenant = t

\* The caller holds an administrator's token and is not the target.
AssertNotSelf(i) == \E by \in Actors : by # i
AssertNotLastPlatformAdmin(i) == i \in Admins => Cardinality(Admins) > 1

CurrentAppRole(i) == IF i \in Live(login) /\ login[i].app # "unset"
                     THEN login[i].app ELSE "staff"

\* GoTrue merges app_metadata key by key: a key that is not sent stays.
Merge(i, app, t, must) ==
    [login EXCEPT ![i].app = IF app = "unset" THEN @ ELSE app,
                  ![i].tenant = IF t = None THEN @ ELSE t,
                  ![i].must = IF must = "unset" THEN @ ELSE must]

\* The role of a name in another workspace; none if it has none.
RoleNamed(r, t) ==
    LET same == {k \in Live(role) : role[k].tenant = t /\ role[k].name = role[r].name}
    IN  IF r = None \/ same = {} THEN None ELSE CHOOSE k \in same : TRUE

-----------------------------------------------------------------------------
(* How a step ends.                                                        *)

Fault == faults < MaxFaults /\ faults' = faults + 1
NoFault == UNCHANGED <<faults, adrift>>

Storable(after) == Singleton => Cardinality({i \in Logins : after[i].live
                                              /\ after[i].app = "platform_admin"}) <= 1

\* A call to GoTrue: it works, it is refused, it cannot be made, or it works
\* and the answer is lost.  A lost answer that nothing undoes is remembered.
Call(p, ok, after, good, bad) ==
    /\ \/ ok /\ Storable(after) /\ login' = after /\ Goes(p, good) /\ NoFault
       \/ ~(ok /\ Storable(after)) /\ Goes(p, bad) /\ NoFault /\ UNCHANGED login
       \/ Fault /\ Goes(p, bad) /\ UNCHANGED <<login, adrift>>
       \/ /\ Fault /\ ok /\ Storable(after) /\ login' = after /\ Goes(p, bad)
          /\ adrift' = IF bad.pc \in {"failed", "each"}
                       THEN adrift \cup {i \in Logins : after[i] # login[i]} ELSE adrift
    /\ UNCHANGED <<staff, role>>

\* The call that undoes another.  One that fails is logged; one made while
\* other requests ran writes back what may no longer be so; one that is not
\* `whole` leaves some of what it undoes, and says nothing.
Undo(p, ok, after, whole) ==
    /\ Goes(p, Failed)
    /\ \/ /\ ok /\ Storable(after) /\ login' = after /\ UNCHANGED faults
          /\ adrift' = IF req[p].alone /\ whole THEN adrift ELSE adrift \cup {req[p].who}
       \/ /\ ~(ok /\ Storable(after)) /\ UNCHANGED <<login, faults>>
          /\ adrift' = adrift \cup {req[p].who}
       \/ /\ Fault /\ adrift' = adrift \cup {req[p].who}
          /\ login' \in {login} \cup IF ok /\ Storable(after) THEN {after} ELSE {}
    /\ UNCHANGED <<staff, role>>

\* A transaction commits as a whole, audit and activity rows included, or fails.
\* It may leave logins adrift that it does not know of.
TxLeaves(p, ok, after, left, good, bad) ==
    /\ \/ ok /\ staff' = after /\ Goes(p, good) /\ UNCHANGED faults /\ adrift' = adrift \cup left
       \/ ~ok /\ Goes(p, bad) /\ NoFault /\ UNCHANGED staff
       \/ Fault /\ Goes(p, bad) /\ UNCHANGED <<staff, adrift>>
    /\ UNCHANGED <<login, role>>

Tx(p, ok, after, good, bad) == TxLeaves(p, ok, after, {}, good, bad)

\* The process dies: its transaction rolls back, what it told GoTrue stays.
Crash(p) ==
    /\ p \in Running /\ Fault
    /\ Goes(p, Dead)
    /\ adrift' = adrift \cup ({req[p].who} \ {None})
    /\ UNCHANGED <<login, staff, role>>

\* Operations that write a login's claims without the lock moveTenant takes.
Unlocked == {"update", "promote", "demote"}

Wants == [tenant |-> None, app |-> "unset", email |-> None, role |-> None,
          status |-> "active", must |-> "unset"]

\* The first reads of a request, of row s and of login i, and its checks.
Begin(p, op, i, s, want, pc) ==
    LET rivals == {q \in Running : i # None /\ req[q].who = i
                                   /\ {op, req[q].op} \cap Unlocked # {}}
    IN
    /\ req[p] = Fresh /\ op \in Operations
    /\ req' = [q \in Requests |->
                 IF q = p THEN [op |-> op, pc |-> pc, who |-> i, row |-> s, want |-> want,
                                seen |-> IF s = None THEN Absent ELSE staff[s],
                                was |-> Absent, mapped |-> None,
                                todo |-> IF op # "close" THEN {}
                                         ELSE {k \in Live(staff) : staff[k].tenant = want.tenant},
                                alone |-> Running = {},
                                before |-> IF Running = {} THEN login ELSE <<>>]
                 ELSE IF q \in Running THEN [req[q] EXCEPT !.alone = FALSE, !.before = <<>>]
                 ELSE req[q]]
    /\ adrift' = IF rivals = {} THEN adrift ELSE adrift \cup {i}
    /\ UNCHANGED <<login, staff, role>>

\* currentAppRole swallows an error and answers "staff".
Guarded(i) == (AssertNotLastPlatformAdmin(i) /\ UNCHANGED faults) \/ Fault
ReadAppRole(i, app) == (app = CurrentAppRole(i) /\ UNCHANGED faults) \/ (app = "staff" /\ Fault)

-----------------------------------------------------------------------------
(* create, and invite.                                                     *)

BeginCreate(p) ==
    \E app \in AppRolesAsked, t \in Tenants, e \in Emails, r \in Roles \cup {None},
       sendInvite \in BOOLEAN :
        /\ AssertRoleInTenant(r, t) /\ EmailFree(e, None)
        /\ Begin(p, "create", None, None,
                 [tenant |-> t, app |-> app, email |-> e, role |-> r,
                  status |-> IF sendInvite THEN "invited" ELSE "active",
                  must |-> IF sendInvite THEN "no" ELSE "yes"], "identity")
        /\ UNCHANGED faults

\* An identity of that address is adopted unless another workspace claims it.
CreateUser(p) ==
    LET want == req[p].want
        made == [live |-> TRUE, email |-> want.email, app |-> want.app,
                 tenant |-> want.tenant, must |-> want.must, banned |-> FALSE]
        found == {i \in Live(login) : login[i].email = want.email}
    IN
    /\ At(p, "identity")
    /\ \/ /\ found = {}
          /\ Call(p, TRUE, [login EXCEPT ![p] = made],
                  [Step(p, "insert") EXCEPT !.who = p], Failed)
       \/ \E i \in found :
            Call(p, login[i].tenant \in {None, want.tenant}, login,
                 [Step(p, "adopt") EXCEPT !.who = i, !.was = login[i]], Failed)

Adopt(p) ==
    LET want == req[p].want
    IN  /\ At(p, "adopt")
        /\ Call(p, login[req[p].who].live, Merge(req[p].who, want.app, want.tenant, want.must),
                Step(p, "insert"), Failed)

InsertUser(p) ==
    LET want == req[p].want
        row == [live |-> TRUE, tenant |-> want.tenant, login |-> req[p].who,
                email |-> want.email, role |-> want.role, status |-> want.status]
    IN  /\ At(p, "insert")
        /\ Tx(p, /\ EmailFree(want.email, None) /\ LoginFree(req[p].who, None)
                 /\ want.role \in Live(role) \cup {None},
              [staff EXCEPT ![p] = row], Done, Step(p, "uncreate"))

\* Mutant: the compensation only logs.
LogOrphan(p) == At(p, "uncreate") /\ Goes(p, Failed) /\ UNCHANGED <<login, staff, role, faults, adrift>>

\* What was created is deleted; what was adopted gets its metadata back.  The
\* keys it did not have are not sent, and keep what the create gave them:
\* nothing fails and nothing is logged.
UndoCreate(p) ==
    LET i == req[p].who
        was == req[p].was
    IN  /\ At(p, "uncreate")
        /\ Undo(p, login[i].live,
                IF was.live THEN Merge(i, was.app, was.tenant, was.must)
                ELSE [login EXCEPT ![i] = Absent],
                was.live => was.app # "unset" /\ was.tenant # None /\ was.must # "unset")

-----------------------------------------------------------------------------
(* update: the identity first, then the row.                               *)

BeginUpdate(p) ==
    \E s \in Live(staff), e \in Emails \cup {None}, app \in AppRolesAsked \cup {"unset"},
       r \in Roles \cup {None, "same"} :
        LET email == IF e = staff[s].email THEN None ELSE e
            i == staff[s].login
        IN
        /\ email # None => EmailFree(email, s)
        /\ Begin(p, "update", i, s, [Wants EXCEPT !.email = email, !.app = app, !.role = r],
                 IF i = None \/ (email = None /\ app = "unset") THEN "save" ELSE "patch")
        /\ UNCHANGED faults

\* app_metadata carries both keys, so no stale tenant stays behind.
PatchIdentity(p) ==
    LET i == req[p].who
        want == req[p].want
        claims == IF want.app = "unset" THEN login
                  ELSE Merge(i, want.app, req[p].seen.tenant, "unset")
    IN  /\ At(p, "patch")
        /\ Call(p, login[i].live /\ (want.email # None => AddressFree(want.email, i)),
                IF want.email = None THEN claims ELSE [claims EXCEPT ![i].email = want.email],
                Step(p, "save"), Failed)

SaveUser(p) ==
    LET s == req[p].row
        want == req[p].want
    IN  /\ At(p, "save") /\ ~Locked(s)
        /\ Tx(p, /\ staff[s].live
                 /\ want.role # "same" => AssertRoleInTenant(want.role, req[p].seen.tenant)
                 /\ want.email # None => EmailFree(want.email, s),
              [staff EXCEPT ![s].email = IF want.email = None THEN @ ELSE want.email,
                            ![s].role = IF want.role = "same" THEN @ ELSE want.role],
              Done,
              IF want.email # None /\ req[p].who # None THEN Step(p, "unpatch") ELSE Failed)

\* The address goes back.  The claims stay as they were patched.
UndoPatch(p) ==
    LET i == req[p].who
        email == req[p].seen.email
    IN  /\ At(p, "unpatch")
        /\ Undo(p, login[i].live /\ AddressFree(email, i), [login EXCEPT ![i].email = email], TRUE)

-----------------------------------------------------------------------------
(* setStatus: the ban first, then the row; nothing undoes the ban.  closing *)
(* a workspace does it to each of its people and ignores what fails.       *)

Answered(p, outcome) == IF req[p].op = "close" THEN Step(p, "each") ELSE outcome
AfterLoad(i) == IF i = None THEN "stamp" ELSE "ban"

BeginStatus(p) ==
    \E s \in Live(staff), status \in {"active"} \cup STATUS_BANNED :
        LET i == staff[s].login IN
        /\ AssertNotSelf(i)
        /\ IF status \in STATUS_BANNED THEN Guarded(i) ELSE UNCHANGED faults
        /\ Begin(p, "status", i, s, [Wants EXCEPT !.status = status], AfterLoad(i))

Ban(p) ==
    LET i == req[p].who
    IN  /\ At(p, "ban")
        /\ Call(p, login[i].live, [login EXCEPT ![i].banned = req[p].want.status \in STATUS_BANNED],
                Step(p, "stamp"), Answered(p, Failed))

StampStatus(p) ==
    LET s == req[p].row
    IN  /\ At(p, "stamp") /\ ~Locked(s)
        /\ Tx(p, TRUE, IF staff[s].live THEN [staff EXCEPT ![s].status = req[p].want.status]
                       ELSE staff,
              Answered(p, Done), Answered(p, Failed))

BeginClose(p) ==
    \E t \in Tenants :
        /\ Begin(p, "close", None, None,
                 [Wants EXCEPT !.tenant = t, !.status = "suspended"], "each")
        /\ UNCHANGED faults

EachMember(p) ==
    /\ At(p, "each")
    /\ \/ req[p].todo = {} /\ Goes(p, Done) /\ UNCHANGED faults
       \/ \E s \in req[p].todo :
            LET i == IF staff[s].live THEN staff[s].login ELSE None
                next == [Step(p, "each") EXCEPT !.todo = @ \ {s}, !.who = None]
                go == [next EXCEPT !.pc = AfterLoad(i), !.who = i, !.row = s, !.seen = staff[s]]
            IN  \/ staff[s].live /\ AssertNotSelf(i) /\ Guarded(i) /\ Goes(p, go)
                \/ /\ ~staff[s].live \/ ~AssertNotLastPlatformAdmin(i) \/ Actors = {i}
                   /\ Goes(p, next) /\ UNCHANGED faults
    /\ UNCHANGED <<login, staff, role, adrift>>

-----------------------------------------------------------------------------
(* resetPassword, the invitation sent again, and one's own new password.   *)

BeginReset(p) ==
    \E s \in Live(staff), must \in {"yes", "no"} :
        /\ staff[s].login # None
        /\ Begin(p, "reset", staff[s].login, s, [Wants EXCEPT !.must = must], "reissue")
        /\ UNCHANGED faults

BeginPassword(p) ==
    \E i \in Live(login) :
        /\ Begin(p, "password", i, None, [Wants EXCEPT !.must = "no"], "reissue")
        /\ UNCHANGED faults

Reissue(p) ==
    LET i == req[p].who
    IN  /\ At(p, "reissue")
        /\ Call(p, login[i].live, Merge(i, "unset", None, req[p].want.must), Done, Failed)

-----------------------------------------------------------------------------
(* moveTenant: GoTrue is told inside the transaction that holds the row.   *)

BeginMove(p) ==
    \E s \in Live(staff), t \in Tenants, app \in AppRoles \cup {"platform_admin"} :
        LET i == staff[s].login IN
        /\ AssertNotSelf(i) /\ t # staff[s].tenant
        /\ ReadAppRole(i, app)
        /\ Begin(p, "move", i, s, [Wants EXCEPT !.tenant = t, !.app = app], "lock")

\* moveTenant reads the row and the login's role for itself when a demotion
\* calls it: an administrator, unless the read fails or the role went meanwhile.
LoadMove(p) ==
    LET s == req[p].row
        read == [Step(p, "lock") EXCEPT !.seen = staff[s]]
    IN
    /\ At(p, "load")
    /\ IF staff[s].live /\ staff[s].tenant # req[p].want.tenant
       THEN \/ Goes(p, [read EXCEPT !.was = login[req[p].who]]) /\ UNCHANGED faults
            \/ Goes(p, read) /\ Fault
       ELSE Goes(p, Failed) /\ UNCHANGED faults
    /\ UNCHANGED <<login, staff, role, adrift>>

Unclaim(p) == IF req[p].who = None THEN Failed ELSE Step(p, "unclaim")

\* The role's name is looked up in the new workspace.
LockRow(p) ==
    LET s == req[p].row
        mapped == RoleNamed(staff[s].role, req[p].want.tenant)
    IN
    /\ At(p, "lock") /\ ~Locked(s)
    /\ Goes(p, IF staff[s].live
               THEN [Step(p, IF req[p].who = None THEN "commit" ELSE "claim")
                        EXCEPT !.mapped = mapped]
               ELSE Unclaim(p))
    /\ UNCHANGED <<login, staff, role, faults, adrift>>

\* The role that moveTenant had read.
MovesAs(p) == IF req[p].op # "demote" THEN req[p].want.app
              ELSE IF req[p].was.live /\ req[p].was.app # "unset" THEN req[p].was.app ELSE "staff"

ClaimTenant(p) ==
    LET i == req[p].who
    IN  /\ At(p, "claim")
        /\ Call(p, login[i].live, Merge(i, MovesAs(p), req[p].want.tenant, "unset"),
                Step(p, "commit"), Unclaim(p))

CommitMove(p) ==
    LET s == req[p].row
        want == req[p].want
    IN  /\ At(p, "commit")
        /\ Tx(p, TRUE, [staff EXCEPT ![s].tenant = want.tenant, ![s].role = req[p].mapped],
              IF req[p].op = "demote" THEN Step(p, "revoke") ELSE Done, Unclaim(p))

\* Mutant: the claim is not put back when the transaction fails.
KeepClaim(p) == At(p, "unclaim") /\ Goes(p, Failed) /\ UNCHANGED <<login, staff, role, faults, adrift>>

UndoClaim(p) ==
    LET i == req[p].who
    IN  /\ At(p, "unclaim")
        /\ Undo(p, login[i].live, Merge(i, MovesAs(p), req[p].seen.tenant, "unset"), TRUE)

-----------------------------------------------------------------------------
(* remove, and an invitation revoked.                                      *)

BeginRemove(p) ==
    \E s \in Live(staff) :
        LET i == staff[s].login IN
        /\ AssertNotSelf(i) /\ Guarded(i)
        /\ Begin(p, "remove", i, s, Wants, IF i = None THEN "erase" ELSE "unlogin")

DeleteUser(p) ==
    LET i == req[p].who
    IN  /\ At(p, "unlogin")
        /\ Call(p, login[i].live, [login EXCEPT ![i] = Absent], Step(p, "erase"), Failed)

EraseRow(p) ==
    LET s == req[p].row
    IN  /\ At(p, "erase") /\ ~Locked(s)
        /\ Tx(p, TRUE, [staff EXCEPT ![s] = Absent], Done, Failed)

-----------------------------------------------------------------------------
(* The platform's one administrator: promote and demote.                   *)

BeginPromote(p) ==
    \E s \in Live(staff), app \in AppRoles :
        LET i == staff[s].login IN
        /\ Admins = {} /\ AssertNotSelf(i) /\ i # None
        /\ ReadAppRole(i, app)
        /\ Begin(p, "promote", i, s, [Wants EXCEPT !.app = app], "grant")

Grant(p) ==
    LET i == req[p].who
    IN  /\ At(p, "grant")
        /\ Call(p, login[i].live, Merge(i, "platform_admin", req[p].seen.tenant, "unset"),
                Step(p, "record"), Failed)

RecordGrant(p) == At(p, "record") /\ Tx(p, TRUE, staff, Done, Step(p, "ungrant"))

\* Mutant: the grant stands although its audit row was never written.
KeepGrant(p) == At(p, "ungrant") /\ Goes(p, Failed) /\ UNCHANGED <<login, staff, role, faults, adrift>>

UndoGrant(p) ==
    LET i == req[p].who
    IN  /\ At(p, "ungrant")
        /\ Undo(p, login[i].live, Merge(i, req[p].want.app, req[p].seen.tenant, "unset"), TRUE)

BeginDemote(p) ==
    \E i \in Admins, t \in Tenants, app \in AppRolesAsked, r \in Roles \cup {"same"} :
        LET rows == {s \in Live(staff) : staff[s].login = i}
            want == [Wants EXCEPT !.tenant = t, !.app = app, !.role = r, !.email = login[i].email]
        IN
        /\ AssertNotSelf(i) /\ Guarded(i)
        /\ r # "same" => AssertRoleInTenant(r, t)
        /\ \/ rows = {} /\ Begin(p, "demote", i, None, want, "land")
           \/ \E s \in rows :
                Begin(p, "demote", i, s, want, IF staff[s].tenant = t THEN "revoke" ELSE "load")

\* The administrator made from the command line never had a row.
Land(p) ==
    LET want == req[p].want
        row == [live |-> TRUE, tenant |-> want.tenant, login |-> req[p].who, email |-> want.email,
                role |-> IF want.role = "same" THEN None ELSE want.role, status |-> "active"]
    IN  /\ At(p, "land")
        /\ Tx(p, /\ EmailFree(want.email, None) /\ LoginFree(req[p].who, None)
                 /\ row.role \in Live(role) \cup {None},
              [staff EXCEPT ![p] = row], [Step(p, "revoke") EXCEPT !.row = p], Failed)

Revoke(p) ==
    LET i == req[p].who
    IN  /\ At(p, "revoke")
        /\ Call(p, login[i].live, Merge(i, req[p].want.app, req[p].want.tenant, "unset"),
                Step(p, "recorded"), Failed)

RecordRevoke(p) ==
    LET s == req[p].row
        r == req[p].want.role
    IN  /\ At(p, "recorded") /\ ~Locked(s)
        /\ Tx(p, r \in Live(role) \cup {"same"},
              IF r = "same" \/ ~staff[s].live THEN staff ELSE [staff EXCEPT ![s].role = r],
              Done, Failed)

-----------------------------------------------------------------------------
(* What people do for themselves: a profile saved, a sign-in recorded.     *)

\* The row of one's own workspace with one's address that no login has yet.
BeginProfile(p) ==
    \E i \in Live(login) :
        LET t == login[i].tenant
            mine == {s \in Live(staff) : staff[s].tenant = t /\ staff[s].login = i}
            invited == {s \in Live(staff) : staff[s].tenant = t /\ staff[s].login = None
                                            /\ staff[s].email = login[i].email}
        IN
        /\ t # None /\ login[i].app # "platform_admin" /\ mine = {}
        /\ \E s \in IF invited = {} THEN {None} ELSE invited :
             Begin(p, "profile", i, s, [Wants EXCEPT !.tenant = t, !.email = login[i].email], "keep")
        /\ UNCHANGED faults

\* The row is written without asking whether it has a login by now, or whether
\* a move or a removal has read that it has none.
KeepProfile(p) ==
    LET s == req[p].row
        i == req[p].who
        want == req[p].want
        row == [live |-> TRUE, tenant |-> want.tenant, login |-> i, email |-> want.email,
                role |-> None, status |-> "active"]
        mine == staff[s].live /\ staff[s].tenant = want.tenant
        unaware == \E q \in Running : /\ req[q].op \in {"move", "demote", "remove"}
                                      /\ req[q].row = s /\ req[q].who # i
    IN
    /\ At(p, "keep") /\ ~Locked(s)
    /\ IF s = None
       THEN Tx(p, EmailFree(want.email, None) /\ LoginFree(i, None), [staff EXCEPT ![p] = row],
               Done, Failed)
       ELSE TxLeaves(p, LoginFree(i, s), IF mine THEN [staff EXCEPT ![s].login = i] ELSE staff,
                     IF ~mine THEN {}
                     ELSE ({staff[s].login} \ {None, i}) \cup IF unaware THEN {i} ELSE {},
                     Done, Failed)

\* A sign-in accepts an invitation that was pending when the row was read.
BeginEvent(p) ==
    \E i \in Live(login), s \in Live(staff) :
        /\ staff[s].login = i /\ staff[s].status = "invited"
        /\ Begin(p, "event", i, s, [Wants EXCEPT !.status = "active"], "event")
        /\ UNCHANGED faults

AcceptInvite(p) ==
    LET s == req[p].row
    IN  /\ At(p, "event") /\ ~Locked(s)
        /\ Tx(p, staff[s].live, [staff EXCEPT ![s].status = "active"], Done, Failed)

-----------------------------------------------------------------------------
(* One transaction each: the generic PATCH of a staff row (one column at a  *)
(* time), and roles.                                                       *)

At1(p, op) == req[p] = Fresh /\ op \in Operations /\ Goes(p, Done)
                 /\ UNCHANGED <<login, faults, adrift>>

EditStaff(p) ==
    /\ At1(p, "edit")
    /\ \E s \in Live(staff) :
         /\ ~Locked(s)
         /\ \/ \E r \in Live(role) \cup {None} : staff' = [staff EXCEPT ![s].role = r]
            \/ \E status \in Statuses : staff' = [staff EXCEPT ![s].status = status]
    /\ UNCHANGED role

AddRole(p) ==
    /\ At1(p, "role")
    /\ \E r \in Roles \ Live(role), t \in Tenants, name \in RoleNames :
         role' = [role EXCEPT ![r] = [live |-> TRUE, tenant |-> t, name |-> name]]
    /\ UNCHANGED staff

RenameRole(p) ==
    /\ At1(p, "role")
    /\ \E r \in Live(role), name \in RoleNames : role' = [role EXCEPT ![r].name = name]
    /\ UNCHANGED staff

\* ON DELETE SET NULL.  A row that is being moved keeps its roles in place.
RemoveRole(p) ==
    /\ At1(p, "role")
    /\ \E r \in Live(role) :
         /\ \A s \in Live(staff) : staff[s].role = r => ~Locked(s)
         /\ \A q \in Running : req[q].pc \in {"claim", "commit"} => req[q].mapped # r
         /\ role' = [role EXCEPT ![r] = Absent]
         /\ staff' = [s \in Rows |-> IF staff[s].live /\ staff[s].role = r
                                     THEN [staff[s] EXCEPT !.role = None] ELSE staff[s]]

-----------------------------------------------------------------------------
\* The first workspace has an owner and an invitation whose login nobody made.
\* A script made another login.  The administrator's seat is vacant, or its
\* holder was made from the command line; the owner may hold one as well, from
\* before there could be only one.
Init ==
    LET person(e, app, t, must) == [live |-> TRUE, email |-> e, app |-> app, tenant |-> t,
                                    must |-> must, banned |-> FALSE]
        row(i, e, r, status) == [live |-> TRUE, tenant |-> Home, login |-> i, email |-> e,
                                 role |-> r, status |-> status]
    IN
    /\ \E seats \in {0, IF Singleton THEN 1 ELSE 2} :
         login = [i \in Logins |->
            CASE i = Root -> IF seats = 0 THEN Absent
                             ELSE person(RootEmail, "platform_admin", None, "unset")
              [] i = Member -> person(MemberEmail, IF seats = 2 THEN "platform_admin" ELSE "owner",
                                      Home, "no")
              [] i = Stray -> IF seats = 0 THEN person(StrayEmail, "unset", None, "unset")
                              ELSE person(StrayEmail, "staff", Home, "no")
              [] OTHER -> Absent]
    /\ role = [r \in Roles |-> IF r = HomeRole THEN [live |-> TRUE, tenant |-> Home, name |-> Clerk]
                               ELSE Absent]
    /\ staff = [s \in Rows |-> CASE s = Owner -> row(Member, MemberEmail, HomeRole, "active")
                                 [] s = Invitee -> row(None, InviteeEmail, HomeRole, "invited")
                                 [] OTHER -> Absent]
    /\ req = [p \in Requests |-> Fresh]
    /\ faults = 0
    /\ adrift = {}

Idle == Running = {} /\ UNCHANGED vars

Next ==
    \/ \E p \in Requests :
        \/ BeginCreate(p) \/ CreateUser(p) \/ Adopt(p) \/ InsertUser(p) \/ UndoCreate(p)
        \/ BeginUpdate(p) \/ PatchIdentity(p) \/ SaveUser(p) \/ UndoPatch(p)
        \/ BeginStatus(p) \/ Ban(p) \/ StampStatus(p) \/ BeginClose(p) \/ EachMember(p)
        \/ BeginReset(p) \/ BeginPassword(p) \/ Reissue(p)
        \/ BeginMove(p) \/ LoadMove(p) \/ LockRow(p) \/ ClaimTenant(p) \/ CommitMove(p) \/ UndoClaim(p)
        \/ BeginRemove(p) \/ DeleteUser(p) \/ EraseRow(p)
        \/ BeginPromote(p) \/ Grant(p) \/ RecordGrant(p) \/ UndoGrant(p)
        \/ BeginDemote(p) \/ Land(p) \/ Revoke(p) \/ RecordRevoke(p)
        \/ BeginProfile(p) \/ KeepProfile(p) \/ BeginEvent(p) \/ AcceptInvite(p)
        \/ EditStaff(p) \/ AddRole(p) \/ RenameRole(p) \/ RemoveRole(p)
        \/ Crash(p)
    \/ Idle

Spec == Init /\ [][Next]_vars

-----------------------------------------------------------------------------
\* Every row's role exists: the foreign key and its ON DELETE SET NULL.
TypeOK ==
    /\ \A i \in Logins : login[i] \in Login \cup {Absent}
    /\ \A s \in Rows : staff[s] \in StaffRow \cup {Absent}
    /\ \A r \in Roles : role[r] \in Role \cup {Absent}
    /\ \A s \in Live(staff) : staff[s].role # None => role[staff[s].role].live
    /\ faults \in 0 .. MaxFaults /\ adrift \subseteq Logins

Quiet(i, s) == \A p \in Running : req[p].op # "close" => req[p].who # i /\ req[p].row # s

\* The tenant in a person's token is that of their row whenever no request is at
\* work on either, whatever moves, creates, demotions and failed attempts at
\* them came before.  Excused is a login adrift: no promise is made of one that
\* was written by two requests at once, by one that crashed or got no answer, or
\* by a failed create that adopted it without a role, tenant or password mark.
ClaimFollowsRow ==
    \A s \in Live(staff) :
        LET i == staff[s].login IN
        i \in Live(login) \ adrift /\ Quiet(i, s) => login[i].tenant \in {None, staff[s].tenant}

\* No login that opens a workspace is left without a person: a failed create
\* takes its login back, and a person is removed with theirs.  Excused are the
\* logins adrift, as in ClaimFollowsRow, and Stray, which a script made for
\* nobody.
NoOrphans ==
    \A i \in Live(login) \ (adrift \cup {Stray}) :
        login[i].tenant # None => \/ \E s \in Live(staff) : staff[s].login = i
                                  \/ \E p \in Running : req[p].who = i

\* A login with the keys of want that it did not have itself.
Filled(was, want) ==
    [was EXCEPT !.app = IF @ = "unset" THEN want.app ELSE @,
                !.tenant = IF @ = None THEN want.tenant ELSE @,
                !.must = IF @ = "unset" THEN want.must ELSE @]

\* A create that fails with no other request about leaves every login as it found
\* it, but for one: a login it adopted keeps the role, the tenant and the password
\* mark that the create gave it where it had none, and nothing is logged, although
\* the comment in create says that an adopted account is not left rewritten.  A
\* move or a promotion leaves the login it was about with the role it had read
\* and its row's tenant.  Or the log says which login could not be put back: then
\* the undoing wrote nothing, or the call that failed had none.
FailureUndone ==
    [][\A p \in Requests :
          p \in Running /\ req'[p] = Failed /\ req[p].op \in {"create", "move", "promote"}
             /\ req[p].alone =>
             \A i \in Logins :
                LET was == req[p].before[i]
                    want == req[p].want
                    undoing == req[p].pc \in {"uncreate", "unclaim", "ungrant"}
                IN  \/ login'[i] = was
                    \/ i = req[p].who /\ was.live /\ login'[i] =
                         IF req[p].op = "create" THEN Filled(was, want)
                         ELSE [was EXCEPT !.app = want.app, !.tenant = req[p].seen.tenant]
                    \/ i \in adrift' /\ (undoing => login' = login)]_vars

\* What the comments on assertNotSelf and assertNotLastPlatformAdmin say: the
\* last administrator cannot be left without the role, least of all by a request
\* that no other one meets.
SeatKept == [][(\A p \in Running : req[p].alone) /\ Admins # {} => Admins' # {}]_vars
=============================================================================
