--------------------------- MODULE Accounts_proofs ---------------------------
(* Proofs about Accounts, for any number of requests, roles, tenants,       *)
(* addresses and faults.                                                    *)
EXTENDS Accounts, TLAPS

-----------------------------------------------------------------------------
(* Types.                                                                  *)

LoginRows == Login \cup {Absent}
PersonRows == StaffRow \cup {Absent}
RoleRows == Role \cup {Absent}

Kinds == {"create", "update", "status", "close", "reset", "password", "move", "remove",
          "promote", "demote", "profile", "event"}
Stages == {"identity", "adopt", "insert", "uncreate", "patch", "save", "unpatch", "ban",
           "stamp", "each", "reissue", "load", "lock", "claim", "commit", "unclaim", "unlogin",
           "erase", "grant", "record", "ungrant", "land", "revoke", "recorded", "keep", "event"}

Wanted == [tenant : Tenants \cup {None}, app : AppRoles \cup {"platform_admin", "unset"},
           email : Emails \cup {None}, role : Roles \cup {None, "same"}, status : Statuses,
           must : {"yes", "no", "unset"}]

Work == [op : Kinds, pc : Stages, who : Logins \cup {None}, row : Rows \cup {None},
         want : Wanted, seen : PersonRows, was : LoginRows, mapped : Roles \cup {None},
         todo : SUBSET Rows, alone : BOOLEAN, before : {<<>>} \cup [Logins -> LoginRows]]

\* Where a request of a kind may be, and what it knows there.
Placed(r) ==
    /\ r.op = "create" => r.pc \in {"identity", "adopt", "insert", "uncreate"}
    /\ r.op = "update" => r.pc \in {"patch", "save", "unpatch"}
    /\ r.op = "status" => r.pc \in {"ban", "stamp"}
    /\ r.op = "close" => r.pc \in {"each", "ban", "stamp"}
    /\ r.op \in {"reset", "password"} => r.pc = "reissue"
    /\ r.op = "move" => r.pc \in {"lock", "claim", "commit", "unclaim"}
    /\ r.op = "demote" => r.pc \in {"load", "lock", "claim", "commit", "unclaim",
                                    "land", "revoke", "recorded"}
    /\ r.op = "remove" => r.pc \in {"unlogin", "erase"}
    /\ r.op = "promote" => r.pc \in {"grant", "record", "ungrant"}
    /\ r.op = "profile" => r.pc = "keep"
    /\ r.op = "event" => r.pc = "event"
    /\ r.pc \notin {"identity", "save", "stamp", "each", "lock", "commit", "erase"}
          => r.who # None
    /\ r.op = "demote" => r.who # None
    /\ r.pc = "identity" => r.who = None /\ r.was = Absent
    /\ r.pc = "adopt" => r.was.live
    /\ r.pc = "unpatch" => r.want.email # None
    /\ r.op \notin {"create", "close", "password", "profile"} /\ r.pc # "land" => r.row # None
    /\ r.op = "close" /\ r.pc # "each" => r.row # None
    /\ r.op = "create" \/ r.pc = "land" => r.row = None
    /\ r.op \in {"update", "move", "promote"} \/ r.pc \in {"lock", "claim", "commit", "unclaim"}
          => r.seen.live
    /\ r.op \in {"create", "move", "demote", "profile"} => r.want.tenant # None
    /\ r.op \in {"create", "demote", "profile"} => r.want.email # None
    /\ r.op = "create" => r.want.app \in AppRoles /\ r.want.must # "unset"
    /\ r.op \in {"move", "promote"} => r.want.app # "unset"

Sent == {r \in Work : Placed(r)}

Types ==
    /\ login \in [Logins -> LoginRows]
    /\ staff \in [Rows -> PersonRows]
    /\ role \in [Roles -> RoleRows]
    /\ req \in [Requests -> Sent \cup Ended \cup {Fresh}]
    /\ faults \in 0 .. MaxFaults
    /\ adrift \subseteq Logins

\* The foreign key of roles, kept by ON DELETE SET NULL, and by a move's own
\* transaction for the role it has looked up.
RolesExist ==
    /\ \A s \in Rows : staff[s].live /\ staff[s].role # None
                          => staff[s].role \in Roles /\ role[staff[s].role].live
    /\ \A p \in Running : req[p].pc \in {"claim", "commit"} /\ req[p].mapped # None
                             => role[req[p].mapped].live

TypeInv == Types /\ RolesExist

-----------------------------------------------------------------------------
(* Records.                                                                *)

LEMMA NoneIsNothing ==
    /\ None \notin Logins /\ None \notin Rows /\ None \notin Roles
    /\ None \notin Tenants /\ None \notin Emails
BY ConstantsAssumption

LEMMA AbsentIsDead == Absent.live = FALSE
BY DEF Absent

LEMMA LoginFields ==
    ASSUME NEW l \in LoginRows, l.live
    PROVE  /\ l \in Login
           /\ l.email \in Emails /\ l.app \in AppRoles \cup {"platform_admin", "unset"}
           /\ l.tenant \in Tenants \cup {None} /\ l.must \in {"yes", "no", "unset"}
           /\ l.banned \in BOOLEAN
<1>1. l \in Login
  BY DEF LoginRows, Absent
<1> QED
  BY <1>1 DEF Login

LEMMA PersonFields ==
    ASSUME NEW s \in PersonRows, s.live
    PROVE  /\ s \in StaffRow
           /\ s.tenant \in Tenants /\ s.login \in Logins \cup {None} /\ s.email \in Emails
           /\ s.role \in Roles \cup {None} /\ s.status \in Statuses
<1>1. s \in StaffRow
  BY DEF PersonRows, Absent
<1> QED
  BY <1>1 DEF StaffRow

LEMMA WorkFields ==
    ASSUME NEW r \in Work
    PROVE  /\ r.op \in Kinds /\ r.pc \in Stages
           /\ r.who \in Logins \cup {None} /\ r.row \in Rows \cup {None}
           /\ r.want \in Wanted /\ r.seen \in PersonRows /\ r.was \in LoginRows
           /\ r.mapped \in Roles \cup {None} /\ r.todo \subseteq Rows
           /\ r.alone \in BOOLEAN
           /\ r.before \in {<<>>} \cup [Logins -> LoginRows]
BY DEF Work

LEMMA WantedFields ==
    ASSUME NEW w \in Wanted
    PROVE  /\ w.tenant \in Tenants \cup {None}
           /\ w.app \in AppRoles \cup {"platform_admin", "unset"}
           /\ w.email \in Emails \cup {None} /\ w.role \in Roles \cup {None, "same"}
           /\ w.status \in Statuses /\ w.must \in {"yes", "no", "unset"}
BY DEF Wanted

LEMMA WorkIsNotEnded ==
    ASSUME NEW r \in Work
    PROVE  r \notin Ended /\ r # Fresh
BY WorkFields DEF Stages, Ended, Fresh, Done, Failed, Dead

LEMMA RunningWorks ==
    ASSUME Types
    PROVE  /\ \A p \in Running : p \in Requests /\ req[p] \in Work /\ Placed(req[p])
           /\ \A p \in Requests : req[p] \in Work => p \in Running
           /\ \A p \in Requests : p \notin Running => req[p] \in Ended \cup {Fresh}
BY WorkIsNotEnded DEF Types, Running, Sent

LEMMA StageRuns ==
    ASSUME Types, NEW p \in Requests, NEW c \in Stages, At(p, c)
    PROVE  p \in Running /\ req[p] \in Work /\ Placed(req[p]) /\ req[p].pc = c
BY RunningWorks DEF At, Stages, Ended, Fresh, Done, Failed, Dead

\* A step that only moves on.
LEMMA StepIs ==
    ASSUME NEW p \in Requests, req[p] \in Work, NEW c \in Stages
    PROVE  /\ Step(p, c) \in Work /\ Step(p, c).pc = c
           /\ Step(p, c).op = req[p].op /\ Step(p, c).who = req[p].who
           /\ Step(p, c).row = req[p].row /\ Step(p, c).want = req[p].want
           /\ Step(p, c).seen = req[p].seen /\ Step(p, c).was = req[p].was
           /\ Step(p, c).mapped = req[p].mapped /\ Step(p, c).todo = req[p].todo
           /\ Step(p, c).alone = req[p].alone /\ Step(p, c).before = req[p].before
BY DEF Step, Work

LEMMA EndedIs ==
    /\ Done \in Ended /\ Failed \in Ended /\ Dead \in Ended
    /\ Done.pc = "done" /\ Failed.pc = "failed" /\ Dead.pc = "dead"
    /\ Done # Failed /\ Dead # Failed
BY DEF Ended, Done, Failed, Dead

\* What GoTrue's merge leaves.
MergedIs(i, app, t, must, merged) ==
    /\ merged \in [Logins -> LoginRows]
    /\ \A k \in Logins \ {i} : merged[k] = login[k]
    /\ merged[i] \in Login /\ merged[i].live
    /\ merged[i].email = login[i].email
    /\ merged[i].banned = login[i].banned
    /\ merged[i].app = IF app = "unset" THEN login[i].app ELSE app
    /\ merged[i].tenant = IF t = None THEN login[i].tenant ELSE t
    /\ merged[i].must = IF must = "unset" THEN login[i].must ELSE must

LEMMA MergeIs ==
    ASSUME Types, NEW i \in Logins, login[i].live,
           NEW app \in AppRoles \cup {"platform_admin", "unset"}, NEW t \in Tenants \cup {None},
           NEW must \in {"yes", "no", "unset"}
    PROVE  MergedIs(i, app, t, must, Merge(i, app, t, must))
<1> DEFINE a == IF app = "unset" THEN login[i].app ELSE app
           u == IF t = None THEN login[i].tenant ELSE t
           m == IF must = "unset" THEN login[i].must ELSE must
           l == [login[i] EXCEPT !.app = a, !.tenant = u, !.must = m]
<1>1. login[i] \in Login /\ login \in [Logins -> LoginRows]
  BY LoginFields DEF Types
<1>2. /\ l \in Login /\ l.live /\ l.email = login[i].email /\ l.banned = login[i].banned
      /\ l.app = a /\ l.tenant = u /\ l.must = m
  BY <1>1 DEF Login
<1>3. Merge(i, app, t, must) = [login EXCEPT ![i] = l]
  BY <1>1 DEF Merge, LoginRows, Login
<1> HIDE DEF l
<1> QED
  BY <1>1, <1>2, <1>3 DEF LoginRows, MergedIs

RoleSafe(r) == r.pc \in {"claim", "commit"} /\ r.mapped # None => role[r.mapped].live

LEMMA EndedIsSafe == \A r \in Ended : RoleSafe(r)
BY EndedIs DEF RoleSafe, Ended

LEMMA RunningIsSafe ==
    ASSUME TypeInv, NEW p \in Running
    PROVE  RoleSafe(req[p])
BY DEF TypeInv, RolesExist, RoleSafe

LEMMA GoesIs ==
    ASSUME Types, NEW p \in Requests, NEW r, Goes(p, r)
    PROVE  req'[p] = r /\ \A q \in Requests \ {p} : req'[q] = req[q]
BY DEF Types, Goes

LEMMA GoesTypes ==
    ASSUME TypeInv, NEW p \in Requests, NEW r \in Sent \cup Ended, RoleSafe(r), Goes(p, r),
           UNCHANGED <<staff, role>>, login' \in [Logins -> LoginRows],
           faults' \in 0 .. MaxFaults, adrift' \subseteq Logins
    PROVE  TypeInv'
<1>1. req'[p] = r /\ \A q \in Requests \ {p} : req'[q] = req[q]
  BY GoesIs DEF TypeInv
<1>2. Types'
  BY DEF TypeInv, Types, Goes
<1>3. \A q \in Running' : req'[q].pc \in {"claim", "commit"} /\ req'[q].mapped # None
                             => role[req'[q].mapped].live
  BY <1>1 DEF TypeInv, RolesExist, RoleSafe, Running
<1> QED
  BY <1>2, <1>3 DEF TypeInv, RolesExist

LEMMA CallTypes ==
    ASSUME TypeInv, NEW p \in Requests, NEW ok, NEW after \in [Logins -> LoginRows],
           NEW good \in Sent \cup Ended, NEW bad \in Sent \cup Ended,
           RoleSafe(good), RoleSafe(bad), Call(p, ok, after, good, bad)
    PROVE  TypeInv'
<1>1. /\ UNCHANGED <<staff, role>> /\ (Goes(p, good) \/ Goes(p, bad))
      /\ login' \in {login, after} /\ faults' \in {faults, faults + 1}
      /\ faults' = faults \/ faults < MaxFaults
      /\ adrift' = adrift \/ adrift' = adrift \cup {i \in Logins : after[i] # login[i]}
  BY DEF Call, Fault, NoFault
<1>2. login' \in [Logins -> LoginRows] /\ faults' \in 0 .. MaxFaults /\ adrift' \subseteq Logins
  BY <1>1, ConstantsAssumption DEF TypeInv, Types
<1> QED
  BY <1>1, <1>2, GoesTypes

LEMMA UndoTypes ==
    ASSUME TypeInv, NEW p \in Requests, NEW ok, NEW after \in [Logins -> LoginRows], NEW whole,
           req[p].who \in Logins, Undo(p, ok, after, whole)
    PROVE  TypeInv'
<1>1. /\ UNCHANGED <<staff, role>> /\ Goes(p, Failed)
      /\ login' \in {login, after} /\ faults' \in {faults, faults + 1}
      /\ faults' = faults \/ faults < MaxFaults
      /\ adrift' = adrift \/ adrift' = adrift \cup {req[p].who}
  BY DEF Undo, Fault
<1>2. login' \in [Logins -> LoginRows] /\ faults' \in 0 .. MaxFaults /\ adrift' \subseteq Logins
  BY <1>1, ConstantsAssumption DEF TypeInv, Types
<1>3. Failed \in Ended /\ RoleSafe(Failed)
  BY EndedIs, EndedIsSafe
<1> QED
  BY <1>1, <1>2, <1>3, GoesTypes

\* The rows after a transaction: of their type, with roles that exist.
Storing(after) ==
    /\ after \in [Rows -> PersonRows]
    /\ \A s \in Rows : after[s].live /\ after[s].role # None
                          => after[s].role \in Roles /\ role[after[s].role].live

LEMMA TxTypes ==
    ASSUME TypeInv, NEW p \in Requests, NEW ok, NEW after, NEW left, left \subseteq Logins,
           ok => Storing(after),
           NEW good \in Sent \cup Ended, NEW bad \in Sent \cup Ended,
           RoleSafe(good), RoleSafe(bad), TxLeaves(p, ok, after, left, good, bad)
    PROVE  TypeInv'
<1>1. /\ UNCHANGED <<login, role>>
      /\ (ok /\ staff' = after) \/ staff' = staff
      /\ \E r \in {good, bad} : Goes(p, r) /\ r \in Sent \cup Ended /\ RoleSafe(r)
      /\ faults' \in {faults, faults + 1}
      /\ faults' = faults \/ faults < MaxFaults
      /\ adrift' = adrift \/ adrift' = adrift \cup left
  BY DEF TxLeaves, Fault, NoFault
<1>2. PICK r \in {good, bad} : Goes(p, r) /\ r \in Sent \cup Ended /\ RoleSafe(r)
  BY <1>1
<1>3. req'[p] = r /\ \A q \in Requests \ {p} : req'[q] = req[q]
  BY <1>2, GoesIs DEF TypeInv
<1>4. faults' \in 0 .. MaxFaults /\ adrift' \subseteq Logins
  BY <1>1, ConstantsAssumption DEF TypeInv, Types
<1>5. Storing(staff)
  BY DEF Storing, TypeInv, Types, RolesExist
<1>6. Storing(staff')
  <2>1. CASE ok /\ staff' = after
    <3>1. Storing(after)
      BY <2>1
    <3> QED
      BY <2>1, <3>1
  <2>2. CASE staff' = staff
    BY <2>2, <1>5
  <2> QED
    BY <1>1, <2>1, <2>2
<1>7. Types'
  BY <1>1, <1>2, <1>4, <1>6 DEF TypeInv, Types, Goes, Storing
<1>8. \A q \in Running' : req'[q].pc \in {"claim", "commit"} /\ req'[q].mapped # None
                             => role[req'[q].mapped].live
  BY <1>2, <1>3 DEF TypeInv, RolesExist, RoleSafe, Running
<1>9. RolesExist'
  BY <1>1, <1>6, <1>8 DEF RolesExist, Storing
<1> QED
  BY <1>7, <1>9 DEF TypeInv

\* A request that another one joins is no longer alone.
Joined(r) == [r EXCEPT !.alone = FALSE, !.before = <<>>]

LEMMA JoinedIs ==
    ASSUME NEW r \in Work
    PROVE  /\ Joined(r) \in Work /\ Joined(r).alone = FALSE
           /\ Joined(r).op = r.op /\ Joined(r).pc = r.pc /\ Joined(r).who = r.who
           /\ Joined(r).row = r.row /\ Joined(r).want = r.want /\ Joined(r).seen = r.seen
           /\ Joined(r).was = r.was /\ Joined(r).mapped = r.mapped /\ Joined(r).todo = r.todo
BY DEF Joined, Work

LEMMA JoinedIsPlaced == \A r \in Sent : Joined(r) \in Sent /\ (RoleSafe(r) => RoleSafe(Joined(r)))
<1> SUFFICES ASSUME NEW r \in Sent
             PROVE  Joined(r) \in Sent /\ (RoleSafe(r) => RoleSafe(Joined(r)))
  OBVIOUS
<1>1. r \in Work /\ Placed(r)
  BY DEF Sent
<1>2. Placed(Joined(r))
  BY <1>1, JoinedIs DEF Placed
<1> QED
  BY <1>1, <1>2, JoinedIs DEF Sent, RoleSafe

\* What a request is when it has begun, and what the others are then.
Begun(p, op, i, s, want, pc) ==
    /\ req[p] = Fresh /\ op \in Operations
    /\ req' \in [Requests -> Work \cup Ended \cup {Fresh}] /\ req'[p] \in Work
    /\ req'[p].op = op /\ req'[p].pc = pc /\ req'[p].who = i /\ req'[p].row = s
    /\ req'[p].want = want /\ req'[p].was = Absent /\ req'[p].mapped = None
    /\ req'[p].seen = IF s = None THEN Absent ELSE staff[s]
    /\ req'[p].alone <=> Running = {}
    /\ req'[p].alone => req'[p].before = login
    /\ \A q \in Requests \ {p} : req'[q] = IF q \in Running THEN Joined(req[q]) ELSE req[q]
    /\ adrift \subseteq adrift' /\ adrift' \subseteq adrift \cup ({i} \ {None})
    /\ \A q \in Running : i # None /\ req[q].who = i /\ (op \in Unlocked \/ req[q].op \in Unlocked)
                             => i \in adrift'
    /\ UNCHANGED <<login, staff, role>>

LEMMA BeginIs ==
    ASSUME TypeInv, NEW p \in Requests, NEW op \in Kinds, NEW i \in Logins \cup {None},
           NEW s \in Rows \cup {None}, NEW want \in Wanted, NEW pc \in Stages,
           Begin(p, op, i, s, want, pc)
    PROVE  Begun(p, op, i, s, want, pc)
<1> DEFINE rivals == {q \in Running : i # None /\ req[q].who = i
                                       /\ {op, req[q].op} \cap Unlocked # {}}
           new == [op |-> op, pc |-> pc, who |-> i, row |-> s, want |-> want,
                   seen |-> IF s = None THEN Absent ELSE staff[s],
                   was |-> Absent, mapped |-> None,
                   todo |-> IF op # "close" THEN {}
                            ELSE {k \in Live(staff) : staff[k].tenant = want.tenant},
                   alone |-> Running = {},
                   before |-> IF Running = {} THEN login ELSE <<>>]
<1>1. /\ req[p] = Fresh /\ op \in Operations
      /\ req' = [q \in Requests |-> IF q = p THEN new
                                    ELSE IF q \in Running THEN Joined(req[q]) ELSE req[q]]
      /\ adrift' = IF rivals = {} THEN adrift ELSE adrift \cup {i}
      /\ UNCHANGED <<login, staff, role>>
  BY DEF Begin, Joined
<1>2. /\ (IF s = None THEN Absent ELSE staff[s]) \in PersonRows
      /\ Absent \in LoginRows
      /\ (IF op # "close" THEN {} ELSE {k \in Live(staff) : staff[k].tenant = want.tenant}) \subseteq Rows
      /\ (Running = {}) \in BOOLEAN
      /\ (IF Running = {} THEN login ELSE <<>>) \in {<<>>} \cup [Logins -> LoginRows]
  BY DEF TypeInv, Types, PersonRows, LoginRows, Live
<1>3. new \in Work
  BY <1>2 DEF Work
<1>4. /\ new.op = op /\ new.pc = pc /\ new.who = i /\ new.row = s /\ new.want = want
      /\ new.was = Absent /\ new.mapped = None
      /\ new.seen = IF s = None THEN Absent ELSE staff[s]
      /\ new.alone <=> Running = {}
      /\ new.alone => new.before = login
  OBVIOUS
<1>5. /\ adrift \subseteq adrift' /\ adrift' \subseteq adrift \cup ({i} \ {None})
      /\ \A q \in Running : i # None /\ req[q].who = i /\ (op \in Unlocked \/ req[q].op \in Unlocked)
                               => i \in adrift'
  BY <1>1
<1> HIDE DEF new, rivals
<1>6. req'[p] = new /\ \A q \in Requests \ {p} : req'[q] = IF q \in Running THEN Joined(req[q]) ELSE req[q]
  BY <1>1
<1>7. \A q \in Requests : req'[q] \in Work \cup Ended \cup {Fresh}
  BY <1>3, <1>6, RunningWorks, JoinedIs DEF TypeInv
<1>8. req' \in [Requests -> Work \cup Ended \cup {Fresh}]
  BY <1>1, <1>7
<1> QED
  BY <1>1, <1>3, <1>4, <1>5, <1>6, <1>8 DEF Begun

LEMMA BegunTypes ==
    ASSUME TypeInv, NEW p \in Requests, NEW op \in Kinds, NEW i \in Logins \cup {None},
           NEW s \in Rows \cup {None}, NEW want \in Wanted, NEW pc \in Stages,
           Begun(p, op, i, s, want, pc), Placed(req'[p]), pc \notin {"claim", "commit"},
           faults' \in 0 .. MaxFaults
    PROVE  TypeInv'
<1>1. \A q \in Requests : req'[q] \in Sent \cup Ended \cup {Fresh}
  <2> SUFFICES ASSUME NEW q \in Requests PROVE req'[q] \in Sent \cup Ended \cup {Fresh}
    OBVIOUS
  <2>1. CASE q = p
    BY <2>1 DEF Begun, Sent
  <2>2. CASE q # p /\ q \in Running
    BY <2>2, JoinedIsPlaced, RunningWorks DEF Begun, Sent, TypeInv
  <2>3. CASE q # p /\ q \notin Running
    BY <2>3 DEF Begun, TypeInv, Types
  <2> QED
    BY <2>1, <2>2, <2>3
<1>2. req' \in [Requests -> Sent \cup Ended \cup {Fresh}]
  BY <1>1 DEF Begun
<1>3. adrift' \subseteq Logins
  BY DEF Begun, TypeInv, Types
<1>4. Types'
  BY <1>2, <1>3 DEF Begun, TypeInv, Types
<1>5. \A q \in Running' : req'[q].pc \in {"claim", "commit"} /\ req'[q].mapped # None
                             => role[req'[q].mapped].live
  <2> SUFFICES ASSUME NEW q \in Running'
               PROVE  req'[q].pc \in {"claim", "commit"} /\ req'[q].mapped # None
                             => role[req'[q].mapped].live
    OBVIOUS
  <2>1. q \in Requests
    BY DEF Running
  <2>2. CASE q = p
    BY <2>2 DEF Begun
  <2>3. CASE q # p /\ q \in Running
    <3>1. req'[q] = Joined(req[q]) /\ req[q] \in Work
      BY <2>1, <2>3, RunningWorks DEF Begun, TypeInv
    <3> QED
      BY <3>1, <2>3, JoinedIs, RunningIsSafe DEF RoleSafe, Begun
  <2>4. CASE q # p /\ q \notin Running
    BY <2>1, <2>4, EndedIs DEF Begun, Running
  <2> QED
    BY <2>2, <2>3, <2>4
<1>6. RolesExist'
  BY <1>5 DEF Begun, TypeInv, RolesExist
<1> QED
  BY <1>4, <1>6 DEF TypeInv

-----------------------------------------------------------------------------
(* Each action keeps the types: the beginnings.                            *)

LEMMA WantsIs ==
    /\ Wants \in Wanted /\ Wants.tenant = None /\ Wants.app = "unset" /\ Wants.email = None
    /\ Wants.role = None /\ Wants.status = "active" /\ Wants.must = "unset"
BY DEF Wants, Wanted, Statuses, STATUS_BANNED

LEMMA LiveRows ==
    ASSUME Types, NEW s \in Live(staff)
    PROVE  /\ s \in Rows /\ staff[s] \in PersonRows /\ staff[s].live
           /\ staff[s].tenant \in Tenants /\ staff[s].login \in Logins \cup {None}
           /\ staff[s].email \in Emails /\ s # None /\ staff[s].tenant # None
BY PersonFields, NoneIsNothing DEF Types, Live

LEMMA LiveLogins ==
    ASSUME Types, NEW i \in Live(login)
    PROVE  /\ i \in Logins /\ login[i] \in Login /\ login[i].live
           /\ login[i].tenant \in Tenants \cup {None} /\ login[i].email \in Emails
           /\ i # None /\ login[i].email # None
           /\ login[i].app \in AppRoles \cup {"platform_admin", "unset"}
BY LoginFields, NoneIsNothing DEF Types, Live

LEMMA CountsFaults ==
    ASSUME TypeInv, UNCHANGED faults \/ Fault
    PROVE  faults' \in 0 .. MaxFaults
BY ConstantsAssumption DEF TypeInv, Types, Fault

LEMMA BeginCreateIs ==
    ASSUME TypeInv, NEW p \in Requests, BeginCreate(p)
    PROVE  /\ TypeInv'
           /\ \E want \in Wanted : Begun(p, "create", None, None, want, "identity")
<1>1. PICK app \in AppRolesAsked, t \in Tenants, e \in Emails, r \in Roles \cup {None},
           sendInvite \in BOOLEAN :
        /\ Begin(p, "create", None, None,
                 [tenant |-> t, app |-> app, email |-> e, role |-> r,
                  status |-> IF sendInvite THEN "invited" ELSE "active",
                  must |-> IF sendInvite THEN "no" ELSE "yes"], "identity")
        /\ UNCHANGED faults
  BY DEF BeginCreate
<1> DEFINE want == [tenant |-> t, app |-> app, email |-> e, role |-> r,
                    status |-> IF sendInvite THEN "invited" ELSE "active",
                    must |-> IF sendInvite THEN "no" ELSE "yes"]
<1>2. /\ want \in Wanted /\ want.tenant # None /\ want.email # None
      /\ want.app \in AppRoles /\ want.must # "unset"
  BY ConstantsAssumption, NoneIsNothing DEF Wanted, AppRoles, Statuses
<1> HIDE DEF want
<1>3. Begun(p, "create", None, None, want, "identity")
  BY <1>1, <1>2, BeginIs DEF want, Kinds, Stages
<1>4. Placed(req'[p])
  BY <1>2, <1>3 DEF Begun, Placed
<1> QED
  BY <1>1, <1>2, <1>3, <1>4, BegunTypes, CountsFaults DEF Kinds, Stages

LEMMA BeginUpdateIs ==
    ASSUME TypeInv, NEW p \in Requests, BeginUpdate(p)
    PROVE  /\ TypeInv'
           /\ \E s \in Live(staff), want \in Wanted, pc \in {"save", "patch"} :
                Begun(p, "update", staff[s].login, s, want, pc)
<1>1. PICK s \in Live(staff), e \in Emails \cup {None}, app \in AppRolesAsked \cup {"unset"},
           r \in Roles \cup {None, "same"} :
        LET email == IF e = staff[s].email THEN None ELSE e
            i == staff[s].login
        IN
        /\ Begin(p, "update", i, s, [Wants EXCEPT !.email = email, !.app = app, !.role = r],
                 IF i = None \/ (email = None /\ app = "unset") THEN "save" ELSE "patch")
        /\ UNCHANGED faults
  BY DEF BeginUpdate
<1> DEFINE email == IF e = staff[s].email THEN None ELSE e
           want == [Wants EXCEPT !.email = email, !.app = app, !.role = r]
           pc == IF staff[s].login = None \/ (email = None /\ app = "unset") THEN "save" ELSE "patch"
<1>2. want \in Wanted
  BY WantsIs, ConstantsAssumption DEF Wanted, AppRoles
<1>3. pc \in {"save", "patch"} /\ (pc = "patch" => staff[s].login # None)
  OBVIOUS
<1> HIDE DEF want, pc
<1>4. Begun(p, "update", staff[s].login, s, want, pc)
  BY <1>1, <1>2, <1>3, BeginIs, LiveRows DEF want, pc, Kinds, Stages, TypeInv
<1>5. Placed(req'[p])
  BY <1>3, <1>4, LiveRows DEF Begun, Placed, TypeInv
<1> QED
  BY <1>1, <1>2, <1>3, <1>4, <1>5, BegunTypes, CountsFaults, LiveRows DEF Kinds, Stages, TypeInv

LEMMA BeginStatusIs ==
    ASSUME TypeInv, NEW p \in Requests, BeginStatus(p)
    PROVE  /\ TypeInv'
           /\ \E s \in Live(staff), want \in Wanted, pc \in {"ban", "stamp"} :
                Begun(p, "status", staff[s].login, s, want, pc)
<1>1. PICK s \in Live(staff), status \in {"active"} \cup STATUS_BANNED :
        /\ UNCHANGED faults \/ Fault
        /\ Begin(p, "status", staff[s].login, s, [Wants EXCEPT !.status = status],
                 AfterLoad(staff[s].login))
  BY DEF BeginStatus, Guarded
<1> DEFINE want == [Wants EXCEPT !.status = status]
           pc == AfterLoad(staff[s].login)
<1>2. want \in Wanted
  BY WantsIs DEF Wanted, Statuses
<1>3. pc \in {"ban", "stamp"} /\ (pc = "ban" => staff[s].login # None)
  BY DEF AfterLoad
<1> HIDE DEF want, pc
<1>4. Begin(p, "status", staff[s].login, s, want, pc)
  BY <1>1 DEF want, pc
<1>5. /\ "status" \in Kinds /\ pc \in Stages /\ staff[s].login \in Logins \cup {None}
      /\ s \in Rows \cup {None} /\ pc \notin {"claim", "commit"}
  BY <1>3, LiveRows DEF Kinds, Stages, TypeInv
<1>6. Begun(p, "status", staff[s].login, s, want, pc)
  BY <1>2, <1>4, <1>5, BeginIs
<1>7. Placed(req'[p])
  BY <1>3, <1>6, LiveRows DEF Begun, Placed, TypeInv
<1>8. TypeInv'
  BY <1>1, <1>2, <1>5, <1>6, <1>7, BegunTypes, CountsFaults
<1> QED
  BY <1>2, <1>3, <1>6, <1>8

LEMMA BeginCloseIs ==
    ASSUME TypeInv, NEW p \in Requests, BeginClose(p)
    PROVE  /\ TypeInv'
           /\ \E want \in Wanted : Begun(p, "close", None, None, want, "each")
<1>1. PICK t \in Tenants :
        /\ Begin(p, "close", None, None,
                 [Wants EXCEPT !.tenant = t, !.status = "suspended"], "each")
        /\ UNCHANGED faults
  BY DEF BeginClose
<1> DEFINE want == [Wants EXCEPT !.tenant = t, !.status = "suspended"]
<1>2. want \in Wanted
  BY WantsIs DEF Wanted, Statuses, STATUS_BANNED
<1> HIDE DEF want
<1>4. Begun(p, "close", None, None, want, "each")
  BY <1>1, <1>2, BeginIs DEF want, Kinds, Stages
<1>5. Placed(req'[p])
  BY <1>4 DEF Begun, Placed
<1> QED
  BY <1>1, <1>2, <1>4, <1>5, BegunTypes, CountsFaults DEF Kinds, Stages

LEMMA BeginResetIs ==
    ASSUME TypeInv, NEW p \in Requests, BeginReset(p)
    PROVE  /\ TypeInv'
           /\ \E s \in Live(staff), want \in Wanted :
                Begun(p, "reset", staff[s].login, s, want, "reissue")
<1>1. PICK s \in Live(staff), must \in {"yes", "no"} :
        /\ staff[s].login # None
        /\ Begin(p, "reset", staff[s].login, s, [Wants EXCEPT !.must = must], "reissue")
        /\ UNCHANGED faults
  BY DEF BeginReset
<1> DEFINE want == [Wants EXCEPT !.must = must]
<1>2. want \in Wanted
  BY WantsIs DEF Wanted
<1> HIDE DEF want
<1>4. Begun(p, "reset", staff[s].login, s, want, "reissue")
  BY <1>1, <1>2, BeginIs, LiveRows DEF want, Kinds, Stages, TypeInv
<1>5. Placed(req'[p])
  BY <1>1, <1>4, LiveRows DEF Begun, Placed, TypeInv
<1> QED
  BY <1>1, <1>2, <1>4, <1>5, BegunTypes, CountsFaults, LiveRows DEF Kinds, Stages, TypeInv

LEMMA BeginPasswordIs ==
    ASSUME TypeInv, NEW p \in Requests, BeginPassword(p)
    PROVE  /\ TypeInv'
           /\ \E i \in Live(login), want \in Wanted :
                Begun(p, "password", i, None, want, "reissue")
<1>1. PICK i \in Live(login) :
        /\ Begin(p, "password", i, None, [Wants EXCEPT !.must = "no"], "reissue")
        /\ UNCHANGED faults
  BY DEF BeginPassword
<1> DEFINE want == [Wants EXCEPT !.must = "no"]
<1>2. want \in Wanted
  BY WantsIs DEF Wanted
<1> HIDE DEF want
<1>4. Begun(p, "password", i, None, want, "reissue")
  BY <1>1, <1>2, BeginIs, LiveLogins DEF want, Kinds, Stages, TypeInv
<1>5. Placed(req'[p])
  BY <1>1, <1>4, LiveLogins DEF Begun, Placed, TypeInv
<1> QED
  BY <1>1, <1>2, <1>4, <1>5, BegunTypes, CountsFaults, LiveLogins DEF Kinds, Stages, TypeInv

LEMMA BeginMoveIs ==
    ASSUME TypeInv, NEW p \in Requests, BeginMove(p)
    PROVE  /\ TypeInv'
           /\ \E s \in Live(staff), want \in Wanted :
                /\ Begun(p, "move", staff[s].login, s, want, "lock")
                /\ want.app # "unset"
<1>1. PICK s \in Live(staff), t \in Tenants, app \in AppRoles \cup {"platform_admin"} :
        /\ ReadAppRole(staff[s].login, app)
        /\ Begin(p, "move", staff[s].login, s, [Wants EXCEPT !.tenant = t, !.app = app], "lock")
  BY DEF BeginMove
<1> DEFINE want == [Wants EXCEPT !.tenant = t, !.app = app]
<1>2. want \in Wanted /\ want.tenant = t /\ want.app = app /\ t # None /\ app # "unset"
  BY WantsIs, NoneIsNothing DEF Wanted, AppRoles
<1>3. UNCHANGED faults \/ Fault
  BY <1>1 DEF ReadAppRole
<1> HIDE DEF want
<1>4. Begun(p, "move", staff[s].login, s, want, "lock")
  BY <1>1, <1>2, BeginIs, LiveRows DEF want, Kinds, Stages, TypeInv
<1>5. Placed(req'[p])
  BY <1>2, <1>4, LiveRows DEF Begun, Placed, TypeInv
<1> QED
  BY <1>2, <1>3, <1>4, <1>5, BegunTypes, CountsFaults, LiveRows DEF Kinds, Stages, TypeInv

LEMMA BeginRemoveIs ==
    ASSUME TypeInv, NEW p \in Requests, BeginRemove(p)
    PROVE  /\ TypeInv'
           /\ \E s \in Live(staff) :
                Begun(p, "remove", staff[s].login, s, Wants,
                      IF staff[s].login = None THEN "erase" ELSE "unlogin")
<1>1. PICK s \in Live(staff) :
        /\ UNCHANGED faults \/ Fault
        /\ Begin(p, "remove", staff[s].login, s, Wants,
                 IF staff[s].login = None THEN "erase" ELSE "unlogin")
  BY DEF BeginRemove, Guarded
<1> DEFINE pc == IF staff[s].login = None THEN "erase" ELSE "unlogin"
<1>3. pc \in {"erase", "unlogin"} /\ (pc = "unlogin" => staff[s].login # None)
  OBVIOUS
<1> HIDE DEF pc
<1>4. Begun(p, "remove", staff[s].login, s, Wants, pc)
  BY <1>1, <1>3, BeginIs, WantsIs, LiveRows DEF pc, Kinds, Stages, TypeInv
<1>5. Placed(req'[p])
  BY <1>3, <1>4, LiveRows DEF Begun, Placed, TypeInv
<1>6. TypeInv'
  <2>1. "remove" \in Kinds /\ pc \in Stages /\ pc \notin {"claim", "commit"}
    BY <1>3 DEF Kinds, Stages
  <2>2. staff[s].login \in Logins \cup {None} /\ s \in Rows \cup {None}
    BY LiveRows DEF TypeInv
  <2>3. faults' \in 0 .. MaxFaults
    BY <1>1, CountsFaults
  <2> QED
    BY <1>4, <1>5, <2>1, <2>2, <2>3, BegunTypes, WantsIs
<1> QED
  BY <1>4, <1>6 DEF pc

LEMMA BeginPromoteIs ==
    ASSUME TypeInv, NEW p \in Requests, BeginPromote(p)
    PROVE  /\ TypeInv'
           /\ \E s \in Live(staff), want \in Wanted :
                Begun(p, "promote", staff[s].login, s, want, "grant") /\ want.app \in AppRoles
<1>1. PICK s \in Live(staff), app \in AppRoles :
        /\ staff[s].login # None
        /\ ReadAppRole(staff[s].login, app)
        /\ Begin(p, "promote", staff[s].login, s, [Wants EXCEPT !.app = app], "grant")
  BY DEF BeginPromote
<1> DEFINE want == [Wants EXCEPT !.app = app]
<1>2. want \in Wanted /\ want.app = app /\ app # "unset"
  BY WantsIs DEF Wanted, AppRoles
<1>3. UNCHANGED faults \/ Fault
  BY <1>1 DEF ReadAppRole
<1> HIDE DEF want
<1>4. Begun(p, "promote", staff[s].login, s, want, "grant")
  BY <1>1, <1>2, BeginIs, LiveRows DEF want, Kinds, Stages, TypeInv
<1>5. Placed(req'[p])
  BY <1>1, <1>2, <1>4, LiveRows DEF Begun, Placed, TypeInv
<1> QED
  BY <1>2, <1>3, <1>4, <1>5, BegunTypes, CountsFaults, LiveRows DEF Kinds, Stages, TypeInv

LEMMA BeginDemoteIs ==
    ASSUME TypeInv, NEW p \in Requests, BeginDemote(p)
    PROVE  /\ TypeInv'
           /\ \E i \in Admins, want \in Wanted :
                \/ /\ \A s \in Live(staff) : staff[s].login # i
                   /\ Begun(p, "demote", i, None, want, "land")
                \/ \E s \in Live(staff) :
                     /\ staff[s].login = i
                     /\ Begun(p, "demote", i, s, want,
                              IF staff[s].tenant = want.tenant THEN "revoke" ELSE "load")
<1>1. PICK i \in Admins, t \in Tenants, app \in AppRolesAsked, r \in Roles \cup {"same"} :
        LET rows == {s \in Live(staff) : staff[s].login = i}
            want == [Wants EXCEPT !.tenant = t, !.app = app, !.role = r, !.email = login[i].email]
        IN
        /\ UNCHANGED faults \/ Fault
        /\ \/ rows = {} /\ Begin(p, "demote", i, None, want, "land")
           \/ \E s \in rows :
                Begin(p, "demote", i, s, want, IF staff[s].tenant = t THEN "revoke" ELSE "load")
  BY DEF BeginDemote, Guarded
<1> DEFINE want == [Wants EXCEPT !.tenant = t, !.app = app, !.role = r, !.email = login[i].email]
<1>2. i \in Live(login) /\ i \in Logins /\ i # None /\ login[i].email \in Emails
  BY LiveLogins DEF Admins, TypeInv
<1>3. want \in Wanted /\ want.tenant = t /\ t # None /\ want.email # None
  BY <1>2, WantsIs, ConstantsAssumption, NoneIsNothing DEF Wanted, AppRoles
<1> HIDE DEF want
<1>4. CASE /\ \A s \in Live(staff) : staff[s].login # i
           /\ Begin(p, "demote", i, None, want, "land")
  <2>1. Begun(p, "demote", i, None, want, "land")
    BY <1>4, <1>2, <1>3, BeginIs DEF Kinds, Stages
  <2>2. Placed(req'[p])
    BY <1>2, <1>3, <2>1 DEF Begun, Placed
  <2> QED
    BY <1>1, <1>2, <1>3, <1>4, <2>1, <2>2, BegunTypes, CountsFaults DEF Kinds, Stages
<1>5. ASSUME NEW s \in Live(staff), staff[s].login = i,
             Begin(p, "demote", i, s, want, IF staff[s].tenant = t THEN "revoke" ELSE "load")
      PROVE  /\ TypeInv'
             /\ Begun(p, "demote", i, s, want,
                              IF staff[s].tenant = want.tenant THEN "revoke" ELSE "load")
  <2> DEFINE pc == IF staff[s].tenant = t THEN "revoke" ELSE "load"
  <2>1. pc \in {"revoke", "load"}
    OBVIOUS
  <2> HIDE DEF pc
  <2>2. Begun(p, "demote", i, s, want, pc)
    BY <1>5, <1>2, <1>3, <2>1, BeginIs, LiveRows DEF pc, Kinds, Stages, TypeInv
  <2>3. Placed(req'[p])
    BY <1>2, <1>3, <2>1, <2>2, LiveRows DEF Begun, Placed, TypeInv
  <2>4. TypeInv'
    BY <1>1, <1>2, <1>3, <2>1, <2>2, <2>3, BegunTypes, CountsFaults, LiveRows DEF Kinds, Stages, TypeInv
  <2> QED
    BY <1>3, <2>2, <2>4 DEF pc
<1> QED
  BY <1>1, <1>3, <1>4, <1>5 DEF want

LEMMA BeginProfileIs ==
    ASSUME TypeInv, NEW p \in Requests, BeginProfile(p)
    PROVE  /\ TypeInv'
           /\ \E i \in Live(login), s \in Rows \cup {None}, want \in Wanted :
                /\ Begun(p, "profile", i, s, want, "keep")
                /\ want.tenant = login[i].tenant
                /\ s # None => s \in Live(staff)
<1>1. PICK i \in Live(login) :
        LET t == login[i].tenant
            invited == {s \in Live(staff) : staff[s].tenant = t /\ staff[s].login = None
                                            /\ staff[s].email = login[i].email}
        IN
        /\ t # None
        /\ \E s \in IF invited = {} THEN {None} ELSE invited :
             Begin(p, "profile", i, s, [Wants EXCEPT !.tenant = t, !.email = login[i].email], "keep")
        /\ UNCHANGED faults
  BY DEF BeginProfile
<1> DEFINE want == [Wants EXCEPT !.tenant = login[i].tenant, !.email = login[i].email]
<1>2. /\ i \in Logins /\ i # None /\ login[i].email \in Emails
      /\ login[i].tenant \in Tenants /\ login[i].tenant # None
  BY <1>1, LiveLogins DEF TypeInv
<1>3. want \in Wanted /\ want.tenant = login[i].tenant /\ want.email # None
  BY <1>2, WantsIs, NoneIsNothing DEF Wanted
<1> HIDE DEF want
<1>4. PICK s \in Live(staff) \cup {None} : Begin(p, "profile", i, s, want, "keep")
  BY <1>1 DEF want
<1>5. s \in Rows \cup {None}
  BY <1>4, LiveRows DEF TypeInv
<1>6. Begun(p, "profile", i, s, want, "keep")
  BY <1>2, <1>3, <1>4, <1>5, BeginIs DEF Kinds, Stages
<1>7. Placed(req'[p])
  BY <1>2, <1>3, <1>6 DEF Begun, Placed
<1>8. TypeInv'
  BY <1>1, <1>2, <1>3, <1>5, <1>6, <1>7, BegunTypes, CountsFaults DEF Kinds, Stages
<1> QED
  BY <1>3, <1>4, <1>5, <1>6, <1>8

LEMMA BeginEventIs ==
    ASSUME TypeInv, NEW p \in Requests, BeginEvent(p)
    PROVE  /\ TypeInv'
           /\ \E s \in Live(staff), want \in Wanted :
                Begun(p, "event", staff[s].login, s, want, "event")
<1>1. PICK i \in Live(login), s \in Live(staff) :
        /\ staff[s].login = i
        /\ Begin(p, "event", i, s, [Wants EXCEPT !.status = "active"], "event")
        /\ UNCHANGED faults
  BY DEF BeginEvent
<1> DEFINE want == [Wants EXCEPT !.status = "active"]
<1>2. want \in Wanted
  BY WantsIs DEF Wanted, Statuses
<1> HIDE DEF want
<1>3. i \in Logins /\ i # None
  BY LiveLogins DEF TypeInv
<1>4. Begun(p, "event", staff[s].login, s, want, "event")
  BY <1>1, <1>2, <1>3, BeginIs, LiveRows DEF want, Kinds, Stages, TypeInv
<1>5. Placed(req'[p])
  BY <1>1, <1>3, <1>4, LiveRows DEF Begun, Placed, TypeInv
<1> QED
  BY <1>1, <1>2, <1>4, <1>5, BegunTypes, CountsFaults, LiveRows DEF Kinds, Stages, TypeInv

-----------------------------------------------------------------------------
(* The inductive invariant.                                                *)

\* A login that is there and that no request has left half changed.
Sound(i) == i \in Logins /\ login[i].live /\ i \notin adrift

Held(i) == \E s \in Rows : staff[s].live /\ staff[s].login = i

\* A creation that has written a login's claims and has not yet entered its row
\* or taken the claims back.
Contending(p, i) == req[p].pc \in {"insert", "uncreate"} /\ req[p].who = i
Contested(i) == \E p \in Requests : Contending(p, i)

\* The login, the row, that a request is named for have been created.
Used(i) == i \in Requests => req[i].pc \notin {"fresh", "identity"}
Entered(s) == s \in Requests =>
    \/ req[s].pc \in {"done", "failed", "dead"}
    \/ req[s].pc \in {"revoke", "recorded"} /\ req[s].row = s

\* Nobody speaks of a login or of a row that has not been created yet.
Identities ==
    /\ \A i \in Logins : login[i].live => Used(i)
    /\ \A s \in Rows : staff[s].live => Entered(s) /\ Used(staff[s].login)
    /\ \A p \in Running : Used(req[p].who) /\ Entered(req[p].row)

\* A login is on at most one row.
Unique ==
    \A s, r \in Rows : s # r /\ staff[s].live /\ staff[r].live /\ staff[s].login = staff[r].login
                          => staff[s].login = None

\* A move holds its row from the statement that locks it to its end.
InMove(p) == req[p].pc \in {"claim", "commit"}
Locks ==
    /\ \A p \in Running : InMove(p) => staff[req[p].row].live
    /\ \A p, q \in Running : p # q /\ InMove(p) /\ InMove(q) => req[p].row # req[q].row

\* Two requests know the same login, one of them to write its claims without a
\* lock, only if the other is a creation or a closing that came upon it later.
Rivals ==
    \A p, q \in Running : p # q /\ req[p].who = req[q].who /\ Sound(req[p].who)
                             /\ req[p].op \in Unlocked
                             => req[q].op \in {"create", "close"}

\* The login a request knows is the one on its row.
Linked(q) ==
    LET s == req[q].row
        i == req[q].who
    IN
    /\ req[q].op \in {"move", "demote", "remove"} /\ s # None /\ staff[s].live
          => staff[s].login \in {i} \cup adrift
    /\ req[q].op \in {"update", "move", "demote", "remove", "promote"} /\ s # None /\ Sound(i)
          => staff[s].live /\ staff[s].login = i
    /\ req[q].pc = "erase" /\ i # None => ~login[i].live

\* The tenant a request is about to write is the one its row has, or has got.
Follows(q) ==
    LET i == req[q].who
        s == req[q].row
    IN
    Sound(i) =>
       /\ req[q].op \in {"update", "promote"} => req[q].seen.tenant = staff[s].tenant
       /\ req[q].pc = "revoke" => req[q].want.tenant = staff[s].tenant
       /\ req[q].pc = "commit" => login[i].tenant = req[q].want.tenant \/ Contested(i)

\* A request that is about to enter a row knows what its login claims, unless
\* the login has a row already, or another creation is at it.
Promise(q) == IF req[q].pc = "land" THEN None ELSE req[q].want.tenant
Awaits(q) ==
    LET i == req[q].who IN
    req[q].pc \in {"insert", "keep", "land"} /\ Sound(i) =>
        \/ login[i].tenant = Promise(q)
        \/ Held(i)
        \/ \E p \in Requests \ {q} : Contending(p, i)

\* A move between GoTrue's answer and the end of its transaction.
Moving(q, s) == /\ req[q].pc \in {"commit", "unclaim"}
                /\ req[q].row = s /\ req[q].who = staff[s].login

Agrees(s) ==
    \/ login[staff[s].login].tenant \in {None, staff[s].tenant}
    \/ Contested(staff[s].login)
    \/ \E q \in Requests : Moving(q, s)
Claims == \A s \in Rows : staff[s].live /\ Sound(staff[s].login) => Agrees(s)

Opens(i) == login[i].tenant # None /\ (i = Stray => login[i].app = "platform_admin")
Homes == \A i \in Logins : Sound(i) /\ Opens(i) => Held(i) \/ Contested(i)

\* What a request that has met no other one knows: how the logins were, and
\* that its own is as it was or as the request has written it.
Akin(l, o) == l.live /\ o.live /\ l.email = o.email /\ l.banned = o.banned
Began(q) ==
    LET r == req[q]
        i == r.who
        s == r.row
        old == r.before
    IN
    r.alone =>
       /\ Running = {q}
       /\ old \in [Logins -> LoginRows]
       /\ r.op \in {"create", "move", "promote"} => \A k \in Logins \ {i} : login[k] = old[k]
       /\ r.pc \in {"identity", "adopt", "load", "lock", "claim", "grant"} => login = old
       /\ r.pc = "adopt" => r.was = old[i]
       /\ r.pc \in {"insert", "uncreate"} =>
             IF r.was.live
             THEN /\ r.was = old[i] /\ Akin(login[i], old[i]) /\ login[i].tenant = r.want.tenant
                  /\ login[i].app = r.want.app /\ login[i].must = r.want.must
             ELSE i = q /\ old[q] = Absent
       /\ r.op = "create" /\ r.was.live =>
             /\ r.was.tenant \in {None, r.want.tenant}
             /\ Sound(i) =>
                   /\ \A k \in Rows : staff[k].live /\ staff[k].login = i
                                         => r.was.tenant \in {None, staff[k].tenant}
                   /\ r.was.tenant # None /\ (i = Stray => r.was.app = "platform_admin")
                         => Held(i)
       /\ r.op = "move" /\ r.pc \in {"commit", "unclaim"} /\ i # None =>
             login[i] = old[i] \/ (Akin(login[i], old[i]) /\ login[i].must = old[i].must)
       /\ r.pc \in {"lock", "claim", "commit", "unclaim"} /\ staff[s].live
             => staff[s].tenant = r.seen.tenant
       /\ r.pc \in {"record", "ungrant"} => Akin(login[i], old[i]) /\ login[i].must = old[i].must

IInv ==
    /\ TypeInv
    /\ Identities /\ Unique /\ Locks /\ Rivals /\ Claims /\ Homes
    /\ \A q \in Running : Linked(q) /\ Follows(q) /\ Awaits(q) /\ Began(q)

-----------------------------------------------------------------------------
(* What a step of one request leaves of the others.                        *)

Others(p) ==
    \A q \in Requests \ {p} : req'[q] = req[q] \/ (req[q] \in Work /\ req'[q] = Joined(req[q]))

LEMMA OthersAre ==
    ASSUME TypeInv, TypeInv', NEW p \in Requests, Others(p), NEW q \in Requests \ {p}
    PROVE  /\ q \in Running' <=> q \in Running
           /\ q \in Running =>
                /\ req[q] \in Work /\ req'[q] \in Work
                /\ req'[q].op = req[q].op /\ req'[q].who = req[q].who
                /\ req'[q].row = req[q].row /\ req'[q].want = req[q].want
                /\ req'[q].seen = req[q].seen /\ req'[q].mapped = req[q].mapped
                /\ req'[q].was = req[q].was
                /\ req'[q].alone => req'[q] = req[q]
           /\ q \notin Running => req'[q] = req[q]
           /\ req'[q].pc = req[q].pc
           /\ \A i : Contending(q, i)' <=> Contending(q, i)
<1>1. CASE req'[q] = req[q]
  BY <1>1, RunningWorks DEF Running, Contending, TypeInv
<1>2. CASE req[q] \in Work /\ req'[q] = Joined(req[q])
  <2>1. /\ req'[q] \in Work /\ req'[q].alone = FALSE
        /\ req'[q].op = req[q].op /\ req'[q].pc = req[q].pc /\ req'[q].who = req[q].who
        /\ req'[q].row = req[q].row /\ req'[q].want = req[q].want /\ req'[q].seen = req[q].seen
        /\ req'[q].was = req[q].was /\ req'[q].mapped = req[q].mapped
    <3> DEFINE r == req[q]
    <3>1. r \in Work /\ req'[q] = Joined(r)
      BY <1>2
    <3> HIDE DEF r
    <3>2. /\ Joined(r) \in Work /\ Joined(r).alone = FALSE
          /\ Joined(r).op = r.op /\ Joined(r).pc = r.pc /\ Joined(r).who = r.who
          /\ Joined(r).row = r.row /\ Joined(r).want = r.want /\ Joined(r).seen = r.seen
          /\ Joined(r).was = r.was /\ Joined(r).mapped = r.mapped
      BY <3>1, JoinedIs
    <3> QED
      BY <3>1, <3>2 DEF r
  <2>2. q \in Running /\ q \in Running'
    BY <1>2, <2>1, WorkIsNotEnded DEF Running
  <2> QED
    BY <1>2, <2>1, <2>2 DEF Contending
<1> QED
  BY <1>1, <1>2 DEF Others

LEMMA ContendersRun ==
    ASSUME TypeInv, NEW p \in Requests, NEW i, Contending(p, i)
    PROVE  p \in Running /\ req[p].op = "create" /\ i \in Logins
<1>1. p \in Running
  BY RunningWorks, EndedIs DEF TypeInv, Contending, Ended, Fresh, Running
<1>2. req[p] \in Work /\ Placed(req[p])
  BY <1>1, RunningWorks DEF TypeInv
<1> QED
  BY <1>1, <1>2, WorkFields DEF Placed, Contending, Kinds

LEMMA UsedStays ==
    ASSUME TypeInv, TypeInv', NEW p \in Requests, Others(p), Used(p) => Used(p)', NEW i, Used(i)
    PROVE  Used(i)'
BY OthersAre DEF Used

LEMMA EnteredStays ==
    ASSUME TypeInv, TypeInv', NEW p \in Requests, Others(p), Entered(p) => Entered(p)',
           NEW s, Entered(s)
    PROVE  Entered(s)'
<1>1. CASE s \in Requests \ {p}
  <2>1. req'[s].pc = req[s].pc /\ (s \in Running => req'[s].row = req[s].row)
        /\ (s \notin Running => req'[s] = req[s])
    BY <1>1, OthersAre
  <2> QED
    BY <1>1, <2>1 DEF Entered
<1>2. CASE s = p
  BY <1>2
<1>3. CASE s \notin Requests
  BY <1>3 DEF Entered
<1> QED
  BY <1>1, <1>2, <1>3

\* The logins and rows that the names of a step's request may get.
LEMMA IdentitiesKept ==
    ASSUME TypeInv, TypeInv', Identities, NEW p \in Requests, Others(p),
           Used(p) => Used(p)', Entered(p) => Entered(p)',
           p \in Running' => Used(req[p].who)' /\ Entered(req[p].row)',
           \A i \in Logins : login'[i].live => login[i].live \/ Used(i)',
           \A s \in Rows : staff'[s].live =>
               \/ staff[s].live /\ staff'[s].login = staff[s].login
               \/ Entered(s)' /\ Used(staff[s].login)'
    PROVE  Identities'
<1>1. \A i : Used(i) => Used(i)'
  BY UsedStays
<1>2. \A s : Entered(s) => Entered(s)'
  BY EnteredStays
<1>3. \A i \in Logins : login'[i].live => Used(i)'
  BY <1>1 DEF Identities
<1>4. \A s \in Rows : staff'[s].live => Entered(s)' /\ Used(staff[s].login)'
  BY <1>1, <1>2 DEF Identities, Used, Entered
<1>5. \A q \in Running' : Used(req[q].who)' /\ Entered(req[q].row)'
  <2> SUFFICES ASSUME NEW q \in Running', q # p
               PROVE  Used(req[q].who)' /\ Entered(req[q].row)'
    OBVIOUS
  <2>1. q \in Requests
    BY DEF Running
  <2>2. q \in Running /\ req'[q].who = req[q].who /\ req'[q].row = req[q].row
    BY <2>1, OthersAre
  <2>3. Used(req[q].who) /\ Entered(req[q].row)
    BY <2>2 DEF Identities
  <2> QED
    BY <2>2, <2>3, <1>1, <1>2 DEF Used, Entered
<1> QED
  BY <1>3, <1>4, <1>5 DEF Identities

\* Compensations excepted, no sound login loses its row, its tenant or the
\* creation at work on it without getting a row or a creation instead.
Conserves(p) ==
    /\ adrift \subseteq adrift'
    /\ \A i : Sound(i)' => Sound(i) \/ (~Used(i) /\ Contending(p, i)')
    /\ \A i : Sound(i)' /\ Sound(i) /\ Held(i) => Held(i)'
    /\ \A i : Sound(i)' /\ Sound(i) =>
          \/ login'[i].tenant = login[i].tenant
          \/ Contending(p, i)'
          \/ /\ Held(i)'
             /\ p \in Running /\ req[p].who = i /\ req[p].row # None
             /\ req[p].alone \/ req[p].op \in Unlocked \/ (req[p].op = "move" /\ InMove(p))
    /\ \A i : Sound(i)' /\ Contending(p, i) =>
          Contending(p, i)' \/ (Held(i)' /\ ~Held(i)) \/ req[p].alone

SameRow(s) ==
    /\ staff'[s].live = staff[s].live
    /\ staff[s].live => staff'[s].login = staff[s].login /\ staff'[s].tenant = staff[s].tenant

\* A row keeps its login, or is new, or its login is no longer sound and whoever
\* moves or removes the row knows the one it has got.
LinksStay(p) ==
    /\ \A s \in Rows :
          \/ staff'[s].live = staff[s].live /\ (staff[s].live => staff'[s].login = staff[s].login)
          \/ ~Entered(s)
          \/ /\ \A i \in Logins : i = staff[s].login => ~Sound(i)'
             /\ staff'[s].live => \/ staff'[s].login \in adrift'
                                  \/ \A q \in Running \ {p} :
                                       req[q].op \in {"move", "demote", "remove"} /\ req[q].row = s
                                         => req[q].who = staff'[s].login
    /\ \A i \in Logins : ~login[i].live /\ Used(i) => ~login'[i].live

\* Only a move changes the tenant of a row.
TenantsStay(p) ==
    \A s \in Rows : staff[s].live /\ staff'[s].live =>
        \/ staff'[s].tenant = staff[s].tenant
        \/ p \in Running /\ req[p].row = s /\ req[p].op \in {"move", "demote"}

\* Only what touches neither logins nor links ends next to a request alone.
LeavesAlone(p) ==
    \A q \in Running \ {p} : req'[q].alone =>
        \/ p \in Running
        \/ /\ p \notin Running' /\ login' = login /\ adrift' = adrift
           /\ \A s \in Rows : SameRow(s)

\* The one who is alone is the only one.
LEMMA AloneIsOnly ==
    ASSUME IInv, NEW p \in Running, NEW q \in Running, p # q
    PROVE  req[p].alone = FALSE /\ req[q].alone = FALSE
<1>1. req[p].alone \in BOOLEAN /\ req[q].alone \in BOOLEAN
  BY RunningWorks, WorkFields DEF IInv, TypeInv
<1>2. req[p].alone => Running = {p}
  BY DEF IInv, Began
<1>3. req[q].alone => Running = {q}
  BY DEF IInv, Began
<1> QED
  BY <1>1, <1>2, <1>3

\* What the parts of the invariant say of one request.
LEMMA RunnerIs ==
    ASSUME IInv, NEW q \in Running
    PROVE  /\ q \in Requests /\ req[q] \in Work /\ Placed(req[q])
           /\ req[q].who \in Logins \cup {None} /\ req[q].row \in Rows \cup {None}
           /\ req[q].op \in Kinds /\ req[q].pc \in Stages
           /\ Linked(q) /\ Follows(q) /\ Awaits(q) /\ Began(q)
           /\ Used(req[q].who) /\ Entered(req[q].row)
BY RunningWorks, WorkFields DEF IInv, TypeInv, Identities

\* Whoever knows the sound login of a row it is to write holds it.
LEMMA LinkedHolds ==
    ASSUME IInv, NEW q \in Running, Sound(req[q].who), req[q].row # None,
           req[q].op \in {"update", "move", "demote", "remove", "promote"}
    PROVE  /\ req[q].row \in Rows /\ staff[req[q].row].live
           /\ staff[req[q].row].login = req[q].who /\ Held(req[q].who)
BY RunnerIs DEF Linked, Held

\* Two requests that know the same sound login know the same row.
LEMMA SameRowForBoth ==
    ASSUME IInv, NEW p \in Running, NEW q \in Running,
           req[p].op \in {"update", "move", "demote", "remove", "promote"}, req[p].row # None,
           req[q].op \in {"update", "move", "demote", "remove", "promote"}, req[q].row # None,
           Sound(req[q].who), req[p].who = req[q].who
    PROVE  req[p].row = req[q].row
<1>1. /\ req[p].row \in Rows /\ staff[req[p].row].live /\ staff[req[p].row].login = req[q].who
      /\ req[q].row \in Rows /\ staff[req[q].row].live /\ staff[req[q].row].login = req[q].who
  BY LinkedHolds
<1>2. req[q].who # None
  BY NoneIsNothing DEF Sound
<1> QED
  BY <1>1, <1>2 DEF IInv, Unique

LEMMA AwaitsStays ==
    ASSUME IInv, TypeInv', NEW p \in Requests, Others(p), Conserves(p), NEW q \in Running, q # p
    PROVE  Awaits(q)'
<1>1. /\ q \in Requests /\ Awaits(q) /\ Used(req[q].who)
      /\ req'[q].pc = req[q].pc /\ req'[q].who = req[q].who /\ req'[q].want = req[q].want
      /\ TypeInv
  BY RunnerIs, OthersAre DEF IInv
<1>2. PICK i : i = req[q].who
  OBVIOUS
<1> SUFFICES ASSUME req[q].pc \in {"insert", "keep", "land"}, Sound(i)'
             PROVE  \/ login'[i].tenant = Promise(q)'
                    \/ Held(i)'
                    \/ \E r \in Requests \ {q} : Contending(r, i)'
  BY <1>1, <1>2 DEF Awaits
<1>3. Sound(i) /\ Used(i)
  BY <1>1, <1>2 DEF Conserves
<1>4. Promise(q)' = Promise(q)
  BY <1>1 DEF Promise
<1>5. \/ login[i].tenant = Promise(q)
      \/ Held(i)
      \/ \E r \in Requests \ {q} : Contending(r, i)
  BY <1>1, <1>2, <1>3 DEF Awaits
<1>6. CASE login[i].tenant = Promise(q)
  BY <1>3, <1>4, <1>6, <1>1 DEF Conserves
<1>7. CASE Held(i)
  BY <1>3, <1>7 DEF Conserves
<1>8. ASSUME NEW r \in Requests \ {q}, Contending(r, i)
      PROVE  Held(i)' \/ Contending(r, i)'
  <2>1. CASE r = p
    <3>1. p \in Running
      BY <1>8, <2>1, <1>1, ContendersRun
    <3>2. req[p].alone = FALSE
      BY <3>1, AloneIsOnly
    <3> QED
      BY <1>8, <2>1, <3>2 DEF Conserves
  <2>2. CASE r # p
    BY <1>1, <1>8, <2>2, OthersAre
  <2> QED
    BY <2>1, <2>2
<1> QED
  BY <1>5, <1>6, <1>7, <1>8

LEMMA LinkedStays ==
    ASSUME IInv, TypeInv', NEW p \in Requests, Others(p), Conserves(p), LinksStay(p),
           NEW q \in Running, q # p
    PROVE  Linked(q)'
<1>1. /\ q \in Requests /\ Linked(q) /\ Used(req[q].who) /\ Entered(req[q].row)
      /\ req[q].who \in Logins \cup {None} /\ req[q].row \in Rows \cup {None}
      /\ req'[q].pc = req[q].pc /\ req'[q].who = req[q].who /\ req'[q].row = req[q].row
      /\ req'[q].op = req[q].op /\ TypeInv
  BY RunnerIs, OthersAre DEF IInv
<1>2. PICK i : i = req[q].who
  OBVIOUS
<1>3. PICK s : s = req[q].row
  OBVIOUS
<1>4. ASSUME req[q].op \in {"move", "demote", "remove"}, s # None, staff'[s].live
      PROVE  staff'[s].login \in {i} \cup adrift'
  <2>1. s \in Rows /\ Entered(s)
    BY <1>1, <1>3, <1>4
  <2>2. CASE staff'[s].live = staff[s].live /\ (staff[s].live => staff'[s].login = staff[s].login)
    <3>1. staff[s].live
      BY <2>2, <1>4
    <3>2. staff[s].login \in {i} \cup adrift
      BY <3>1, <1>1, <1>2, <1>3, <1>4 DEF Linked
    <3> QED
      BY <2>2, <3>1, <3>2 DEF Conserves
  <2>3. CASE \/ staff'[s].login \in adrift'
             \/ \A k \in Running \ {p} :
                   req[k].op \in {"move", "demote", "remove"} /\ req[k].row = s
                     => req[k].who = staff'[s].login
    BY <1>2, <1>3, <1>4, <2>3
  <2> QED
    BY <1>4, <2>1, <2>2, <2>3 DEF LinksStay
<1>5. ASSUME req[q].op \in {"update", "move", "demote", "remove", "promote"}, s # None, Sound(i)'
      PROVE  staff'[s].live /\ staff'[s].login = i
  <2>1. s \in Rows /\ Entered(s) /\ Sound(i) /\ i \in Logins
    BY <1>1, <1>2, <1>3, <1>5 DEF Conserves, Sound
  <2>2. staff[s].live /\ staff[s].login = i
    BY <1>1, <1>2, <1>3, <1>5, <2>1 DEF Linked
  <2> QED
    BY <1>5, <2>1, <2>2 DEF LinksStay
<1>6. req[q].pc = "erase" /\ i # None => ~login'[i].live
  BY <1>1, <1>2 DEF Linked, LinksStay
<1> QED
  BY <1>1, <1>2, <1>3, <1>4, <1>5, <1>6 DEF Linked

LEMMA FollowsStays ==
    ASSUME IInv, TypeInv', NEW p \in Requests, Others(p), Conserves(p), LinksStay(p),
           TenantsStay(p), NEW q \in Running, q # p
    PROVE  Follows(q)'
<1>1. /\ q \in Requests /\ Follows(q) /\ Used(req[q].who) /\ Placed(req[q])
      /\ req[q].who \in Logins \cup {None} /\ req[q].row \in Rows \cup {None}
      /\ req'[q].pc = req[q].pc /\ req'[q].who = req[q].who /\ req'[q].row = req[q].row
      /\ req'[q].op = req[q].op /\ req'[q].seen = req[q].seen /\ req'[q].want = req[q].want
      /\ req[q].op \in Kinds /\ TypeInv
  BY RunnerIs, OthersAre DEF IInv
<1>2. PICK i : i = req[q].who
  OBVIOUS
<1>3. PICK s : s = req[q].row
  OBVIOUS
<1> SUFFICES ASSUME Sound(i)'
             PROVE  /\ req[q].op \in {"update", "promote"} => req[q].seen.tenant = staff'[s].tenant
                    /\ req[q].pc = "revoke" => req[q].want.tenant = staff'[s].tenant
                    /\ req[q].pc = "commit" => login'[i].tenant = req[q].want.tenant
                                                 \/ Contested(i)'
  BY <1>1, <1>2, <1>3 DEF Follows
<1>4. Sound(i) /\ Used(i) /\ i \in Logins /\ i # None
  BY <1>1, <1>2, NoneIsNothing DEF Conserves, Sound
<1>5. ASSUME req[q].op \in {"update", "promote"} \/ req[q].pc = "revoke"
      PROVE  staff'[s].tenant = staff[s].tenant
  <2>1. s \in Rows /\ s # None /\ req[q].op \in {"update", "promote", "demote"}
    BY <1>1, <1>3, <1>5 DEF Placed, Kinds
  <2>2. staff[s].live /\ staff[s].login = i
    BY <1>2, <1>3, <1>4, <2>1, LinkedHolds
  <2>3. staff'[s].live
    BY <1>1, <1>2, <1>3, <2>1, LinkedStays DEF Linked
  <2>4. ASSUME p \in Running, req[p].row = s, req[p].op \in {"move", "demote"}
        PROVE  FALSE
    <3>1. staff[s].login \in {req[p].who} \cup adrift
      BY <2>1, <2>2, <2>4, RunnerIs DEF Linked
    <3>2. req[p].who = i
      BY <2>2, <3>1, <1>4 DEF Sound
    <3> QED
      BY <1>2, <1>4, <2>1, <2>4, <3>2 DEF IInv, Rivals, Unlocked
  <2> QED
    BY <2>1, <2>2, <2>3, <2>4 DEF TenantsStay
<1>6. ASSUME req[q].pc = "commit"
      PROVE  login'[i].tenant = req[q].want.tenant \/ Contested(i)'
  <2>1. req[q].op \in {"move", "demote"} /\ s \in Rows /\ s # None
    BY <1>1, <1>3, <1>6 DEF Placed, Kinds
  <2>2. Held(i)
    BY <1>2, <1>3, <1>4, <2>1, LinkedHolds
  <2>3. CASE login[i].tenant = req[q].want.tenant
    <3>1. ASSUME p \in Running, req[p].who = i, req[p].row # None,
                 req[p].alone \/ req[p].op \in Unlocked \/ (req[p].op = "move" /\ InMove(p))
          PROVE  FALSE
      <4>1. req[p].alone = FALSE
        BY <3>1, AloneIsOnly
      <4>2. CASE req[p].op \in Unlocked
        BY <1>2, <1>4, <2>1, <3>1, <4>2 DEF IInv, Rivals
      <4>3. CASE req[p].op = "move" /\ InMove(p)
        <5>1. req[p].row = req[q].row
          BY <1>2, <1>3, <1>4, <2>1, <3>1, <4>3, SameRowForBoth
        <5>2. InMove(q)
          BY <1>6 DEF InMove
        <5> QED
          BY <3>1, <4>3, <5>1, <5>2 DEF IInv, Locks
      <4> QED
        BY <3>1, <4>1, <4>2, <4>3
    <3>2. login'[i].tenant = login[i].tenant \/ Contending(p, i)'
      BY <1>4, <3>1 DEF Conserves
    <3> QED
      BY <2>3, <3>2 DEF Contested
  <2>4. ASSUME NEW r \in Requests, Contending(r, i)
        PROVE  Contending(r, i)'
    <3>1. CASE r = p
      <4>1. p \in Running
        BY <2>4, <3>1, <1>1, ContendersRun
      <4>2. req[p].alone = FALSE
        BY <4>1, AloneIsOnly
      <4> QED
        BY <2>2, <2>4, <3>1, <4>2 DEF Conserves
    <3>2. CASE r # p
      BY <1>1, <2>4, <3>2, OthersAre
    <3> QED
      BY <3>1, <3>2
  <2>5. login[i].tenant = req[q].want.tenant \/ Contested(i)
    BY <1>1, <1>2, <1>4, <1>6 DEF Follows
  <2> QED
    BY <2>3, <2>4, <2>5 DEF Contested
<1>7. /\ req[q].op \in {"update", "promote"} => req[q].seen.tenant = staff[s].tenant
      /\ req[q].pc = "revoke" => req[q].want.tenant = staff[s].tenant
  BY <1>1, <1>2, <1>3, <1>4 DEF Follows
<1> QED
  BY <1>5, <1>6, <1>7

LEMMA BeganStays ==
    ASSUME IInv, TypeInv', NEW p \in Requests, Others(p), LeavesAlone(p),
           NEW q \in Running, q # p
    PROVE  Began(q)'
<1>1. q \in Requests /\ TypeInv /\ Began(q)
  BY RunnerIs DEF IInv
<1> SUFFICES ASSUME req'[q].alone
             PROVE  Began(q)'
  BY DEF Began
<1>2. req'[q] = req[q]
  BY <1>1, OthersAre
<1>3. Running = {q}
  BY <1>1, <1>2 DEF Began
<1>4. p \notin Running' /\ login' = login /\ adrift' = adrift /\ \A s \in Rows : SameRow(s)
  BY <1>3 DEF LeavesAlone
<1>5. Running' = {q}
  <2>1. \A k \in Requests \ {p} : k \in Running' <=> k \in Running
    BY <1>1, OthersAre
  <2> QED
    BY <1>3, <1>4, <2>1 DEF Running
<1>6. \A i : (Sound(i)' <=> Sound(i)) /\ (Held(i)' <=> Held(i))
  BY <1>4 DEF Sound, Held, SameRow
<1>7. req[q].row \in Rows \cup {None} /\ req[q] \in Work /\ Placed(req[q]) /\ req[q].op \in Kinds
  BY RunnerIs
<1>8. req[q].pc \in {"lock", "claim", "commit", "unclaim"} => req[q].row \in Rows
  BY <1>7 DEF Placed, Kinds
<1> QED
  BY <1>1, <1>2, <1>4, <1>5, <1>6, <1>8 DEF Began, SameRow

\* What a request may know next to the others, and hold.
MayKnow(p) ==
    p \in Running' => \A q \in Running \ {p}, i \in Logins :
        i = req'[p].who /\ i = req[q].who /\ Sound(i)' =>
           /\ req'[p].op \in Unlocked => req[q].op \in {"create", "close"}
           /\ req[q].op \in Unlocked => req'[p].op \in {"create", "close"}

MayLock(p) ==
    /\ \A q \in Running \ {p} : InMove(q) => staff'[req[q].row].live
    /\ p \in Running' /\ InMove(p)' =>
          /\ staff'[req'[p].row].live
          /\ \A q \in Running \ {p} : InMove(q) => req[q].row # req'[p].row

LEMMA RivalsKept ==
    ASSUME IInv, TypeInv', NEW p \in Requests, Others(p), Conserves(p), MayKnow(p)
    PROVE  Rivals'
<1> SUFFICES ASSUME NEW q \in Running', NEW r \in Running', q # r,
                    req'[q].who = req'[r].who, Sound(req[q].who)', req'[q].op \in Unlocked
             PROVE  req'[r].op \in {"create", "close"}
  BY DEF Rivals
<1>1. q \in Requests /\ r \in Requests /\ TypeInv
  BY DEF Running, IInv
<1>2. PICK i : i = req'[q].who
  OBVIOUS
<1>3. Sound(i)' /\ i \in Logins
  BY <1>2 DEF Sound
<1>4. CASE q = p
  <2>1. r \in Running /\ req'[r].op = req[r].op /\ req'[r].who = req[r].who
    BY <1>1, <1>4, OthersAre
  <2> QED
    BY <1>2, <1>3, <1>4, <2>1 DEF MayKnow
<1>5. CASE r = p
  <2>1. q \in Running /\ req'[q].op = req[q].op /\ req'[q].who = req[q].who
    BY <1>1, <1>5, OthersAre
  <2> QED
    BY <1>2, <1>3, <1>5, <2>1 DEF MayKnow
<1>6. CASE q # p /\ r # p
  <2>1. q \in Running /\ req'[q].op = req[q].op /\ req'[q].who = req[q].who
    BY <1>1, <1>6, OthersAre
  <2>2. r \in Running /\ req'[r].op = req[r].op /\ req'[r].who = req[r].who
    BY <1>1, <1>6, OthersAre
  <2>3. Used(i)
    BY <1>2, <2>1, RunnerIs
  <2>4. Sound(i)
    BY <1>3, <2>3 DEF Conserves
  <2> QED
    BY <1>2, <2>1, <2>2, <2>4 DEF IInv, Rivals
<1> QED
  BY <1>4, <1>5, <1>6

LEMMA LocksKept ==
    ASSUME IInv, TypeInv', NEW p \in Requests, Others(p), MayLock(p)
    PROVE  Locks'
<1>1. ASSUME NEW q \in Running', q # p
      PROVE  q \in Running /\ req'[q].row = req[q].row /\ (InMove(q)' <=> InMove(q))
  <2>1. q \in Requests /\ TypeInv
    BY DEF Running, IInv
  <2> QED
    BY <1>1, <2>1, OthersAre DEF InMove
<1>2. ASSUME NEW q \in Running', InMove(q)'
      PROVE  staff'[req'[q].row].live
  BY <1>1, <1>2 DEF MayLock
<1>3. ASSUME NEW q \in Running', NEW r \in Running', q # r, InMove(q)', InMove(r)'
      PROVE  req'[q].row # req'[r].row
  BY <1>1, <1>3 DEF MayLock, IInv, Locks
<1> QED
  BY <1>2, <1>3 DEF Locks

\* A step after which each row's login agrees with it, or row, login and the
\* request at work on them are as before.
AgreesStill(p, s) ==
    /\ SameRow(s) /\ staff[s].live
    /\ \A i \in Logins : i = staff[s].login =>
          /\ Sound(i) /\ login'[i].tenant = login[i].tenant
          /\ Contending(p, i) => Contending(p, i)'
          /\ Moving(p, s) => Moving(p, s)'

LEMMA ClaimsKept ==
    ASSUME IInv, TypeInv', NEW p \in Requests, Others(p),
           \A s \in Rows : staff'[s].live /\ Sound(staff[s].login)'
                              => Agrees(s)' \/ AgreesStill(p, s)
    PROVE  Claims'
<1> SUFFICES ASSUME NEW s \in Rows, staff'[s].live, Sound(staff[s].login)', AgreesStill(p, s)
             PROVE  Agrees(s)'
  BY DEF Claims
<1>0. TypeInv
  BY DEF IInv
<1>1. PICK i : i = staff[s].login
  OBVIOUS
<1>2. staff'[s].login = i /\ staff'[s].tenant = staff[s].tenant /\ staff[s].live
  BY <1>1 DEF AgreesStill, SameRow
<1>3. i \in Logins
  BY <1>2 DEF Sound
<1>4. /\ Sound(i) /\ login'[i].tenant = login[i].tenant
      /\ Contending(p, i) => Contending(p, i)'
      /\ Moving(p, s) => Moving(p, s)'
  BY <1>1, <1>3 DEF AgreesStill
<1>5. Agrees(s)
  BY <1>1, <1>2, <1>4 DEF IInv, Claims
<1>6. CASE login[i].tenant \in {None, staff[s].tenant}
  BY <1>2, <1>4, <1>6 DEF Agrees
<1>7. CASE Contested(i)
  <2>1. PICK r \in Requests : Contending(r, i)
    BY <1>7 DEF Contested
  <2>2. Contending(r, i)'
    BY <1>0, <1>4, <2>1, OthersAre
  <2> QED
    BY <1>2, <2>2 DEF Agrees, Contested
<1>8. ASSUME NEW q \in Requests, Moving(q, s)
      PROVE  Moving(q, s)'
  <2>1. CASE q = p
    BY <1>4, <1>8, <2>1
  <2>2. CASE q # p
    <3>1. req[q].pc \in {"commit", "unclaim"} /\ req[q].row = s /\ req[q].who = i
      BY <1>1, <1>8 DEF Moving
    <3>2. q \in Running
      BY <3>1, EndedIs DEF Running, Ended, Fresh
    <3>3. req'[q].pc = req[q].pc /\ req'[q].row = s /\ req'[q].who = i
      BY <1>0, <2>2, <3>1, <3>2, OthersAre
    <3> QED
      BY <3>1, <3>3, <1>2 DEF Moving
  <2> QED
    BY <2>1, <2>2
<1> QED
  BY <1>1, <1>5, <1>6, <1>7, <1>8 DEF Agrees

\* The same for the logins that open a workspace.
OpensStill(p, i) ==
    /\ Sound(i) /\ Opens(i) /\ (Held(i) => Held(i)')
    /\ Contending(p, i) => Contending(p, i)'

LEMMA HomesKept ==
    ASSUME IInv, TypeInv', NEW p \in Requests, Others(p),
           \A i \in Logins : Sound(i)' /\ Opens(i)'
                                => Held(i)' \/ Contending(p, i)' \/ OpensStill(p, i)
    PROVE  Homes'
<1> SUFFICES ASSUME NEW i \in Logins, OpensStill(p, i)
             PROVE  Held(i)' \/ Contested(i)'
  BY DEF Homes, Contested
<1>1. Held(i) \/ \E r \in Requests : Contending(r, i)
  BY DEF OpensStill, IInv, Homes, Contested
<1>2. \A r \in Requests : Contending(r, i) => Contending(r, i)'
  BY OthersAre DEF OpensStill, IInv
<1> QED
  BY <1>1, <1>2 DEF OpensStill, Contested

\* All of it, for a step that is shown to respect the others and leaves its own
\* request right.
Own(p) ==
    p \in Running => /\ Linked(p) /\ Follows(p) /\ Awaits(p) /\ Began(p)
                     /\ Used(req[p].who) /\ Entered(req[p].row)

Names(p) ==
    /\ Used(p) => Used(p)'
    /\ Entered(p) => Entered(p)'
    /\ \A i \in Logins : login'[i].live => login[i].live \/ Used(i)'
    /\ \A s \in Rows : staff'[s].live =>
          \/ staff[s].live /\ staff'[s].login = staff[s].login
          \/ Entered(s)' /\ Used(staff[s].login)'

LEMMA StepKeeps ==
    ASSUME IInv, TypeInv', NEW p \in Requests, Others(p), Own(p)', Names(p),
           Conserves(p), LinksStay(p), TenantsStay(p), LeavesAlone(p), MayKnow(p), MayLock(p),
           Unique',
           \A s \in Rows : staff'[s].live /\ Sound(staff[s].login)'
                              => Agrees(s)' \/ AgreesStill(p, s),
           \A i \in Logins : Sound(i)' /\ Opens(i)'
                                => Held(i)' \/ Contending(p, i)' \/ OpensStill(p, i)
    PROVE  IInv'
<1>1. Identities'
  BY IdentitiesKept DEF Names, Own, IInv
<1>2. Rivals' /\ Locks'
  BY RivalsKept, LocksKept
<1>3. Claims'
  BY ClaimsKept
<1>4. Homes'
  BY HomesKept
<1>5. ASSUME NEW q \in Running', q # p
      PROVE  Linked(q)' /\ Follows(q)' /\ Awaits(q)' /\ Began(q)'
  <2>1. q \in Running
    <3>1. q \in Requests /\ TypeInv
      BY DEF Running, IInv
    <3> QED
      BY <1>5, <3>1, OthersAre
  <2> QED
    BY <1>5, <2>1, LinkedStays, FollowsStays, AwaitsStays, BeganStays
<1> QED
  BY <1>1, <1>2, <1>3, <1>4, <1>5 DEF IInv, Own

-----------------------------------------------------------------------------
(* Steps that change neither a claim nor a link.                           *)

SameLogin(i) ==
    /\ login'[i].live = login[i].live
    /\ login[i].live => /\ login'[i].tenant = login[i].tenant
                        /\ login'[i].app = "platform_admin" => login[i].app = "platform_admin"

Calm(p) ==
    /\ adrift \subseteq adrift'
    /\ \A i \in Logins : SameLogin(i)
    /\ \A s \in Rows : SameRow(s)
    /\ \A i \in Logins : Sound(i)' /\ Contending(p, i) => Contending(p, i)'
    /\ \A s \in Rows, i \in Logins : i = staff[s].login /\ Sound(i)' /\ Moving(p, s) => Moving(p, s)'

LEMMA QuietStep ==
    ASSUME IInv, TypeInv', NEW p \in Requests, Others(p), Own(p)', Calm(p),
           Used(p) => Used(p)', Entered(p) => Entered(p)', LeavesAlone(p), MayKnow(p),
           p \in Running' /\ InMove(p)' =>
              /\ staff[req'[p].row].live /\ req'[p].row \in Rows
              /\ \A q \in Running \ {p} : InMove(q) => req[q].row # req'[p].row
    PROVE  IInv'
<1>1. \A i : Sound(i)' => Sound(i)
  BY DEF Calm, Sound, SameLogin
<1>2. \A i : Held(i) <=> Held(i)'
  BY DEF Calm, Held, SameRow
<1>3. \A i : Sound(i)' => login'[i].tenant = login[i].tenant
  BY <1>1 DEF Calm, SameLogin, Sound
<1>4. \A i : Sound(i)' /\ Contending(p, i) => Contending(p, i)'
  BY DEF Calm, Sound
<1>5. Conserves(p)
  BY <1>1, <1>2, <1>3, <1>4 DEF Conserves, Calm
<1>6. LinksStay(p) /\ TenantsStay(p)
  BY DEF LinksStay, TenantsStay, Calm, SameRow, SameLogin
<1>7. Names(p)
  <2>1. \A i \in Logins : login'[i].live => login[i].live
    BY DEF Calm, SameLogin
  <2>2. \A s \in Rows : staff'[s].live => staff[s].live /\ staff'[s].login = staff[s].login
    BY DEF Calm, SameRow
  <2> QED
    BY <2>1, <2>2 DEF Names
<1>8. MayLock(p)
  <2>1. ASSUME NEW q \in Running, InMove(q)
        PROVE  staff'[req[q].row].live
    <3>1. staff[req[q].row].live /\ req[q].row \in Rows
      <4>1. staff[req[q].row].live
        BY <2>1 DEF IInv, Locks
      <4>2. Placed(req[q]) /\ req[q].row \in Rows \cup {None} /\ req[q].op \in Kinds
        BY RunnerIs
      <4> QED
        BY <2>1, <4>1, <4>2 DEF Placed, InMove, Kinds
    <3> QED
      BY <3>1 DEF Calm, SameRow
  <2> QED
    BY <2>1 DEF MayLock, Calm, SameRow
<1>9. Unique'
  BY DEF IInv, Unique, Calm, SameRow
<1>10. ASSUME NEW s \in Rows, staff'[s].live, Sound(staff[s].login)'
       PROVE  AgreesStill(p, s)
  <2>1. SameRow(s) /\ staff[s].live /\ staff'[s].login = staff[s].login
    BY <1>10 DEF Calm, SameRow
  <2>2. PICK i : i = staff'[s].login
    OBVIOUS
  <2>3. Sound(i)' /\ i \in Logins
    BY <1>10, <2>2 DEF Sound
  <2> QED
    BY <1>1, <1>3, <2>1, <2>2, <2>3 DEF AgreesStill, Calm
<1>11. ASSUME NEW i \in Logins, Sound(i)', Opens(i)'
       PROVE  OpensStill(p, i)
  <2>1. login[i].live
    BY <1>1, <1>11 DEF Sound
  <2>2. Opens(i)
    BY <1>11, <2>1 DEF Opens, Calm, SameLogin
  <2> QED
    BY <1>1, <1>2, <1>4, <1>11, <2>2 DEF OpensStill
<1> QED
  BY <1>5, <1>6, <1>7, <1>8, <1>9, <1>10, <1>11, StepKeeps

LEMMA GoesOthers ==
    ASSUME TypeInv, NEW p \in Requests, NEW r, Goes(p, r)
    PROVE  Others(p) /\ req'[p] = r
BY GoesIs DEF Others, TypeInv

LEMMA RunningThen ==
    ASSUME TypeInv, NEW p \in Requests, NEW r, Goes(p, r)
    PROVE  /\ p \in Running /\ r \in Work => Running' = Running
           /\ r \in Ended => Running' = Running \ {p}
<1>1. req'[p] = r /\ \A q \in Requests \ {p} : req'[q] = req[q]
  BY GoesIs DEF TypeInv
<1> QED
  BY <1>1, WorkIsNotEnded DEF Running

\* A request that ends leaves no creation or move half done, or says so.
LEMMA QuietEnd ==
    ASSUME IInv, TypeInv', NEW p \in Running, NEW r \in Ended, Goes(p, r),
           adrift \subseteq adrift', \A i \in Logins : SameLogin(i), \A s \in Rows : SameRow(s),
           req[p].pc \in {"insert", "uncreate", "commit", "unclaim"}
              => req[p].who \in adrift' \cup {None}
    PROVE  IInv'
<1>1. p \in Requests /\ TypeInv /\ Others(p) /\ req'[p] = r
  BY RunnerIs, GoesOthers DEF IInv
<1>2. p \notin Running' /\ req'[p].pc \in {"done", "failed", "dead"}
  BY <1>1, EndedIs DEF Running, Ended
<1>3. Own(p)' /\ MayKnow(p) /\ LeavesAlone(p) /\ Used(p)' /\ Entered(p)'
  BY <1>2 DEF Own, MayKnow, LeavesAlone, Used, Entered
<1>4. \A i \in Logins : ~(Sound(i)' /\ Contending(p, i))
  BY NoneIsNothing DEF Sound, Contending
<1>5. \A s \in Rows, i \in Logins : ~(i = staff[s].login /\ Sound(i)' /\ Moving(p, s))
  BY NoneIsNothing DEF Sound, Moving
<1>6. Calm(p)
  BY <1>4, <1>5 DEF Calm
<1> QED
  BY <1>1, <1>2, <1>3, <1>6, QuietStep

\* A request that goes on knows what it knew.
LEMMA QuietOn ==
    ASSUME IInv, TypeInv', NEW p \in Running, NEW c \in Stages, Goes(p, Step(p, c)),
           c \notin {"identity", "erase", "revoke", "commit", "insert", "keep", "land", "claim"},
           req[p].pc \in {"insert", "uncreate"} => c = "uncreate",
           req[p].pc \in {"commit", "unclaim"} => c = "unclaim",
           req[p].pc \in {"revoke", "recorded"} => c = "recorded",
           adrift \subseteq adrift', \A i \in Logins : SameLogin(i), \A s \in Rows : SameRow(s),
           Began(p)'
    PROVE  IInv'
<1>1. p \in Requests /\ TypeInv /\ Others(p) /\ req'[p] = Step(p, c) /\ req[p] \in Work
  BY RunnerIs, GoesOthers DEF IInv
<1>2. /\ req'[p].pc = c /\ req'[p].op = req[p].op /\ req'[p].who = req[p].who
      /\ req'[p].row = req[p].row /\ req'[p].want = req[p].want /\ req'[p].seen = req[p].seen
      /\ req'[p] \in Work
  BY <1>1, StepIs
<1>3. /\ Linked(p) /\ Follows(p) /\ Used(req[p].who) /\ Entered(req[p].row)
      /\ req[p].row \in Rows \cup {None} /\ req[p].op \in Kinds /\ Placed(req[p])
      /\ req[p].who \in Logins \cup {None}
  BY RunnerIs
<1>4. Used(p)' /\ (Entered(p) => Entered(p)')
  <2>1. Used(p)'
    BY <1>2, RunningWorks, EndedIs DEF Used, Stages
  <2>2. ASSUME Entered(p)
        PROVE  Entered(p)'
    <3>1. req[p].pc \notin {"done", "failed", "dead"}
      BY <1>1, WorkFields DEF Stages
    <3> QED
      BY <1>2, <2>2, <3>1 DEF Entered
  <2> QED
    BY <2>1, <2>2
<1>5. \A i : Sound(i)' => Sound(i)
  BY DEF Sound, SameLogin
<1>6. Linked(p)'
  <2>1. ASSUME req[p].op \in {"move", "demote", "remove"}, req[p].row # None, staff'[req[p].row].live
        PROVE  staff'[req[p].row].login \in {req[p].who} \cup adrift'
    BY <1>3, <2>1 DEF Linked, SameRow
  <2>2. ASSUME req[p].op \in {"update", "move", "demote", "remove", "promote"}, req[p].row # None,
               Sound(req[p].who)
        PROVE  staff'[req[p].row].live /\ staff'[req[p].row].login = req[p].who
    BY <1>3, <2>2 DEF Linked, SameRow
  <2>3. Sound(req[p].who)' => Sound(req[p].who)
    BY <1>2, <1>5 DEF Sound, SameLogin
  <2> QED
    BY <1>2, <1>5, <2>1, <2>2 DEF Linked
<1>7. Follows(p)'
  <2>1. ASSUME req[p].op \in {"update", "promote"}, Sound(req[p].who)
        PROVE  req[p].seen.tenant = staff'[req[p].row].tenant
    <3>1. req[p].row \in Rows /\ req[p].row # None
      BY <1>3, <2>1 DEF Placed
    <3>2. staff[req[p].row].live
      BY <2>1, <3>1, LinkedHolds
    <3> QED
      BY <1>3, <2>1, <3>1, <3>2 DEF Follows, SameRow
  <2> QED
    BY <1>2, <1>5, <2>1 DEF Follows
<1>8. Awaits(p)'
  BY <1>2 DEF Awaits
<1>9. Own(p)'
  BY <1>2, <1>3, <1>4, <1>6, <1>7, <1>8, UsedStays, EnteredStays, <1>1 DEF Own, Used, Entered
<1>10. LeavesAlone(p)
  BY DEF LeavesAlone
<1>11. MayKnow(p)
  BY <1>2, <1>5 DEF MayKnow, IInv, Rivals
<1>12. \A i \in Logins : Sound(i)' /\ Contending(p, i) => Contending(p, i)'
  BY <1>2 DEF Contending
<1>13. \A s \in Rows, i \in Logins : i = staff[s].login /\ Sound(i)' /\ Moving(p, s) => Moving(p, s)'
  <2> SUFFICES ASSUME NEW s \in Rows, NEW i \in Logins, i = staff[s].login, Sound(i)', Moving(p, s)
               PROVE  Moving(p, s)'
    OBVIOUS
  <2>1. staff'[s].login = staff[s].login
    <3>1. staff[s] \in PersonRows /\ staff'[s] \in PersonRows
      BY <1>1 DEF TypeInv, Types
    <3>2. CASE staff[s].live
      BY <3>2 DEF SameRow
    <3>3. CASE ~staff[s].live
      BY <3>1, <3>3 DEF SameRow, PersonRows, StaffRow
    <3> QED
      BY <3>2, <3>3
  <2> QED
    BY <1>2, <2>1 DEF Moving
<1>14. Calm(p)
  BY <1>12, <1>13 DEF Calm
<1>15. ~InMove(p)'
  BY <1>2 DEF InMove
<1> QED
  BY <1>1, <1>4, <1>9, <1>10, <1>11, <1>14, <1>15, QuietStep

-----------------------------------------------------------------------------
(* Beginnings.                                                             *)

LEMMA BegunKeeps ==
    ASSUME IInv, TypeInv', NEW p \in Requests, NEW op \in Kinds, NEW i \in Logins \cup {None},
           NEW s \in Rows \cup {None}, NEW want \in Wanted, NEW pc \in Stages,
           Begun(p, op, i, s, want, pc),
           pc \in {"identity", "save", "patch", "ban", "stamp", "each", "reissue", "load",
                   "lock", "erase", "unlogin", "grant", "land", "revoke", "keep", "event"},
           Used(i), s # None => staff[s].live,
           s # None /\ op \in {"update", "move", "demote", "remove", "promote"}
              => staff[s].login = i,
           pc = "erase" => i = None,
           pc = "revoke" => s # None /\ want.tenant = staff[s].tenant,
           op \in {"update", "promote"} => s # None,
           pc \in {"keep", "land"} /\ Sound(i) =>
              \/ login[i].tenant = IF pc = "land" THEN None ELSE want.tenant
              \/ Held(i) \/ Contested(i)
    PROVE  IInv'
<1>1. TypeInv /\ Types
  BY DEF IInv, TypeInv
<1>2. /\ req[p] = Fresh /\ req'[p] \in Work
      /\ req'[p].op = op /\ req'[p].pc = pc /\ req'[p].who = i /\ req'[p].row = s
      /\ req'[p].want = want /\ req'[p].was = Absent
      /\ req'[p].seen = IF s = None THEN Absent ELSE staff[s]
      /\ req'[p].alone <=> Running = {}
      /\ req'[p].alone => req'[p].before = login
      /\ adrift \subseteq adrift'
      /\ login' = login /\ staff' = staff /\ role' = role
  BY DEF Begun
<1>3. \A q \in Requests \ {p} :
         req'[q] = req[q] \/ (req[q] \in Work /\ req'[q] = Joined(req[q]))
  BY <1>1, RunningWorks DEF Begun
<1>4. Others(p)
  BY <1>3 DEF Others
<1>5. p \notin Running
  BY <1>2 DEF Running
<1>6. /\ \A k : (Sound(k)' => Sound(k)) /\ (Held(k)' <=> Held(k))
      /\ \A k \in Logins : SameLogin(k)
      /\ \A k \in Rows : SameRow(k)
  BY <1>2 DEF Sound, Held, SameLogin, SameRow
<1>7. /\ \A k \in Logins : ~Contending(p, k)
      /\ \A k \in Rows : ~Moving(p, k)
  BY <1>2 DEF Contending, Moving, Fresh
<1>8. Calm(p)
  BY <1>2, <1>6, <1>7 DEF Calm
<1>9. (Used(p) => Used(p)') /\ (Entered(p) => Entered(p)')
  BY <1>2 DEF Used, Entered, Fresh
<1>10. LeavesAlone(p)
  <2>1. ASSUME NEW q \in Running \ {p}
        PROVE  req'[q].alone = FALSE
    <3>1. q \in Requests \ {p} /\ req[q] \in Work
      BY <1>1, RunningWorks
    <3>2. PICK r \in Work : req'[q] = Joined(r)
      BY <2>1, <3>1 DEF Begun
    <3> QED
      BY <3>2, JoinedIs
  <2> QED
    BY <2>1 DEF LeavesAlone
<1>11. MayKnow(p)
  <2> SUFFICES ASSUME NEW q \in Running \ {p}, NEW k \in Logins, k = i, k = req[q].who, Sound(k)',
                      op \in Unlocked \/ req[q].op \in Unlocked
               PROVE  FALSE
    BY <1>2 DEF MayKnow
  <2>1. i # None
    BY NoneIsNothing
  <2> QED
    BY <2>1 DEF Begun, Sound
<1>12. Linked(p)'
  BY <1>2 DEF Linked
<1>13. Follows(p)'
  BY <1>2 DEF Follows
<1>14. Awaits(p)'
  <2> SUFFICES ASSUME pc \in {"keep", "land"}, Sound(i)'
               PROVE  \/ login[i].tenant = Promise(p)'
                      \/ Held(i)'
                      \/ \E r \in Requests \ {p} : Contending(r, i)'
    BY <1>2 DEF Awaits
  <2>1. Promise(p)' = IF pc = "land" THEN None ELSE want.tenant
    BY <1>2 DEF Promise
  <2>2. \A r \in Requests : Contending(r, i) => r # p /\ Contending(r, i)'
    BY <1>1, <1>4, <1>7, OthersAre DEF Sound
  <2> QED
    BY <1>6, <2>1, <2>2 DEF Contested
<1>15. Began(p)'
  <2> SUFFICES ASSUME Running = {}
               PROVE  Began(p)'
    BY <1>2 DEF Began
  <2>1. Running' = {p}
    <3>1. \A q \in Requests \ {p} : q \in Running' <=> q \in Running
      BY <1>1, <1>4, OthersAre
    <3>2. p \in Running'
      BY <1>2, WorkIsNotEnded DEF Running
    <3> QED
      BY <3>1, <3>2 DEF Running
  <2>2. req'[p].before = login' /\ login' \in [Logins -> LoginRows]
    BY <1>1, <1>2 DEF Types
  <2>3. req'[p].was.live = FALSE
    BY <1>2, AbsentIsDead
  <2>4. pc = "lock" => req'[p].seen = staff[s]
    <3>1. Placed(req'[p])
      BY <1>2, RunningWorks, WorkIsNotEnded DEF TypeInv, Types, Sent, Running
    <3> QED
      BY <1>2, <3>1, AbsentIsDead DEF Placed
  <2> QED
    BY <1>2, <2>1, <2>2, <2>3, <2>4 DEF Began
<1>16. Used(req[p].who)' /\ Entered(req[p].row)'
  <2>1. Entered(s)
    <3>1. s = None => Entered(s)
      BY NoneIsNothing DEF Entered, Rows
    <3> QED
      BY <3>1 DEF IInv, Identities
  <2>2. Used(i)' /\ Entered(s)'
    BY <1>1, <1>4, <1>9, <2>1, UsedStays, EnteredStays
  <2> QED
    BY <1>2, <2>2 DEF Used, Entered
<1>17. Own(p)'
  BY <1>12, <1>13, <1>14, <1>15, <1>16 DEF Own
<1>18. ~InMove(p)'
  BY <1>2 DEF InMove
<1> QED
  BY <1>4, <1>8, <1>9, <1>10, <1>11, <1>17, <1>18, QuietStep

\* The rows and logins that a beginning reads.
LEMMA ReadIs ==
    ASSUME IInv
    PROVE  /\ \A s \in Live(staff) : /\ s \in Rows /\ staff[s].live /\ Used(staff[s].login)
                                     /\ staff[s].login \in Logins \cup {None}
                                     /\ s # None
           /\ \A i \in Live(login) : i \in Logins /\ login[i].live /\ Used(i)
           /\ Used(None)
<1>1. Used(None)
  BY NoneIsNothing DEF Used, Logins
<1>2. \A s \in Live(staff) : /\ s \in Rows /\ staff[s].live /\ Used(staff[s].login)
                             /\ staff[s].login \in Logins \cup {None} /\ s # None
  BY LiveRows DEF IInv, TypeInv, Identities
<1>3. \A i \in Live(login) : i \in Logins /\ login[i].live /\ Used(i)
  BY LiveLogins DEF IInv, TypeInv, Identities
<1> QED
  BY <1>1, <1>2, <1>3

LEMMA BeginningsKeep ==
    ASSUME IInv, NEW p \in Requests,
           \/ BeginCreate(p) \/ BeginUpdate(p) \/ BeginStatus(p) \/ BeginClose(p)
           \/ BeginReset(p) \/ BeginPassword(p) \/ BeginMove(p) \/ BeginRemove(p)
           \/ BeginPromote(p) \/ BeginDemote(p) \/ BeginProfile(p) \/ BeginEvent(p)
    PROVE  IInv'
<1>0. TypeInv
  BY DEF IInv
<1>1. CASE BeginCreate(p)
  <2>1. PICK want \in Wanted : Begun(p, "create", None, None, want, "identity")
    BY <1>0, <1>1, BeginCreateIs
  <2>2. TypeInv'
    BY <1>0, <1>1, BeginCreateIs
  <2> QED
    BY <2>1, <2>2, ReadIs, BegunKeeps DEF Kinds, Stages
<1>2. CASE BeginUpdate(p)
  <2>1. PICK s \in Live(staff), want \in Wanted, pc \in {"save", "patch"} :
           Begun(p, "update", staff[s].login, s, want, pc)
    BY <1>0, <1>2, BeginUpdateIs
  <2>2. TypeInv'
    BY <1>0, <1>2, BeginUpdateIs
  <2> QED
    BY <2>1, <2>2, ReadIs, BegunKeeps DEF Kinds, Stages
<1>3. CASE BeginStatus(p)
  <2>1. PICK s \in Live(staff), want \in Wanted, pc \in {"ban", "stamp"} :
           Begun(p, "status", staff[s].login, s, want, pc)
    BY <1>0, <1>3, BeginStatusIs
  <2>2. TypeInv'
    BY <1>0, <1>3, BeginStatusIs
  <2> QED
    BY <2>1, <2>2, ReadIs, BegunKeeps DEF Kinds, Stages
<1>4. CASE BeginClose(p)
  <2>1. PICK want \in Wanted : Begun(p, "close", None, None, want, "each")
    BY <1>0, <1>4, BeginCloseIs
  <2>2. TypeInv'
    BY <1>0, <1>4, BeginCloseIs
  <2> QED
    BY <2>1, <2>2, ReadIs, BegunKeeps DEF Kinds, Stages
<1>5. CASE BeginReset(p)
  <2>1. PICK s \in Live(staff), want \in Wanted :
           Begun(p, "reset", staff[s].login, s, want, "reissue")
    BY <1>0, <1>5, BeginResetIs
  <2>2. TypeInv'
    BY <1>0, <1>5, BeginResetIs
  <2> QED
    BY <2>1, <2>2, ReadIs, BegunKeeps DEF Kinds, Stages
<1>6. CASE BeginPassword(p)
  <2>1. PICK i \in Live(login), want \in Wanted :
           Begun(p, "password", i, None, want, "reissue")
    BY <1>0, <1>6, BeginPasswordIs
  <2>2. TypeInv'
    BY <1>0, <1>6, BeginPasswordIs
  <2>3. /\ "password" \in Kinds /\ "reissue" \in Stages
        /\ "password" \notin {"update", "move", "demote", "remove", "promote"}
        /\ i \in Logins \cup {None} /\ Used(i)
    BY ReadIs DEF Kinds, Stages
  <2> QED
    BY <2>1, <2>2, <2>3, BegunKeeps
<1>7. CASE BeginMove(p)
  <2>1. PICK s \in Live(staff), want \in Wanted : Begun(p, "move", staff[s].login, s, want, "lock")
    BY <1>0, <1>7, BeginMoveIs
  <2>2. TypeInv'
    BY <1>0, <1>7, BeginMoveIs
  <2>3. /\ "move" \in Kinds /\ "lock" \in Stages /\ "move" \notin {"update", "promote"}
        /\ s \in Rows /\ staff[s].live /\ staff[s].login \in Logins \cup {None}
        /\ Used(staff[s].login)
    BY ReadIs DEF Kinds, Stages
  <2> QED
    BY <2>1, <2>2, <2>3, BegunKeeps
<1>8. CASE BeginRemove(p)
  <2>1. PICK s \in Live(staff) :
           Begun(p, "remove", staff[s].login, s, Wants,
                 IF staff[s].login = None THEN "erase" ELSE "unlogin")
    BY <1>0, <1>8, BeginRemoveIs
  <2>2. TypeInv'
    BY <1>0, <1>8, BeginRemoveIs
  <2> QED
    BY <2>1, <2>2, ReadIs, BegunKeeps, WantsIs DEF Kinds, Stages
<1>9. CASE BeginPromote(p)
  <2>1. PICK s \in Live(staff), want \in Wanted :
           Begun(p, "promote", staff[s].login, s, want, "grant")
    BY <1>0, <1>9, BeginPromoteIs
  <2>2. TypeInv'
    BY <1>0, <1>9, BeginPromoteIs
  <2> QED
    BY <2>1, <2>2, ReadIs, BegunKeeps DEF Kinds, Stages
<1>10. CASE BeginDemote(p)
  <2>1. PICK i \in Admins, want \in Wanted :
           \/ /\ \A s \in Live(staff) : staff[s].login # i
              /\ Begun(p, "demote", i, None, want, "land")
           \/ \E s \in Live(staff) :
                /\ staff[s].login = i
                /\ Begun(p, "demote", i, s, want,
                         IF staff[s].tenant = want.tenant THEN "revoke" ELSE "load")
    BY <1>0, <1>10, BeginDemoteIs
  <2>2. TypeInv'
    BY <1>0, <1>10, BeginDemoteIs
  <2>3. i \in Logins /\ Used(i) /\ login[i].app = "platform_admin"
    BY ReadIs DEF Admins
  <2>4. CASE Begun(p, "demote", i, None, want, "land")
    <3>1. Sound(i) => login[i].tenant = None \/ Held(i) \/ Contested(i)
      BY <2>3 DEF IInv, Homes, Opens
    <3> QED
      BY <2>2, <2>3, <2>4, <3>1, ReadIs, BegunKeeps DEF Kinds, Stages
  <2>5. ASSUME NEW s \in Live(staff), staff[s].login = i,
               Begun(p, "demote", i, s, want,
                     IF staff[s].tenant = want.tenant THEN "revoke" ELSE "load")
        PROVE  IInv'
    BY <2>2, <2>3, <2>5, ReadIs, BegunKeeps DEF Kinds, Stages
  <2> QED
    BY <2>1, <2>4, <2>5
<1>11. CASE BeginProfile(p)
  <2>1. PICK i \in Live(login), s \in Rows \cup {None}, want \in Wanted :
           /\ Begun(p, "profile", i, s, want, "keep")
           /\ want.tenant = login[i].tenant
           /\ s # None => s \in Live(staff)
    BY <1>0, <1>11, BeginProfileIs
  <2>2. TypeInv'
    BY <1>0, <1>11, BeginProfileIs
  <2>3. /\ "profile" \in Kinds /\ "keep" \in Stages
        /\ "profile" \notin {"update", "move", "demote", "remove", "promote"}
        /\ s # None => staff[s].live
        /\ i \in Logins \cup {None} /\ Used(i)
    BY <2>1, ReadIs DEF Kinds, Stages
  <2> QED
    BY <2>1, <2>2, <2>3, BegunKeeps
<1>12. CASE BeginEvent(p)
  <2>1. PICK s \in Live(staff), want \in Wanted :
           Begun(p, "event", staff[s].login, s, want, "event")
    BY <1>0, <1>12, BeginEventIs
  <2>2. TypeInv'
    BY <1>0, <1>12, BeginEventIs
  <2> QED
    BY <2>1, <2>2, ReadIs, BegunKeeps DEF Kinds, Stages
<1> QED
  BY <1>1, <1>2, <1>3, <1>4, <1>5, <1>6, <1>7, <1>8, <1>9, <1>10, <1>11, <1>12

-----------------------------------------------------------------------------
(* Steps that end a request or leave claims and links as they are.          *)

LEMMA SameLogins ==
    ASSUME UNCHANGED login
    PROVE  \A i \in Logins : SameLogin(i)
BY DEF SameLogin

LEMMA SameRows ==
    ASSUME UNCHANGED staff
    PROVE  \A s \in Rows : SameRow(s)
BY DEF SameRow

\* A running request of no other kind knows nothing more of its beginning.
LEMMA BeganPlain ==
    ASSUME IInv, NEW p \in Running, NEW c \in Stages, Goes(p, Step(p, c)),
           req[p].op \notin {"create", "move", "promote"},
           c \notin {"identity", "adopt", "load", "lock", "claim", "grant", "insert", "uncreate",
                     "commit", "unclaim", "record", "ungrant"}
    PROVE  Began(p)'
<1>1. p \in Requests /\ TypeInv /\ req[p] \in Work /\ Began(p) /\ req'[p] = Step(p, c)
  BY RunnerIs, GoesOthers DEF IInv
<1>2. /\ req'[p].pc = c /\ req'[p].op = req[p].op /\ req'[p].who = req[p].who
      /\ req'[p].row = req[p].row /\ req'[p].was = req[p].was /\ req'[p].alone = req[p].alone
      /\ req'[p].before = req[p].before /\ req'[p] \in Work
  BY <1>1, StepIs
<1>3. Running' = Running
  BY <1>1, <1>2, RunningThen
<1> QED
  BY <1>1, <1>2, <1>3 DEF Began

LEMMA CrashKeeps ==
    ASSUME IInv, NEW p \in Requests, Crash(p)
    PROVE  IInv'
<1>1. TypeInv /\ p \in Running /\ req[p].who \in Logins \cup {None}
  BY RunnerIs DEF IInv, Crash
<1>2. faults' \in 0 .. MaxFaults /\ adrift' \subseteq Logins /\ login' \in [Logins -> LoginRows]
  BY <1>1, CountsFaults DEF Crash, TypeInv, Types
<1>3. TypeInv'
  BY <1>1, <1>2, EndedIs, EndedIsSafe, GoesTypes DEF Crash
<1> QED
  BY <1>1, <1>3, SameLogins, SameRows, QuietEnd, EndedIs DEF Crash

\* A transaction that changes neither a link nor a tenant.
LEMMA QuietTx ==
    ASSUME TypeInv, NEW p \in Requests, NEW ok, NEW after,
           NEW good \in Sent \cup Ended, NEW bad \in Sent \cup Ended, RoleSafe(good), RoleSafe(bad),
           ok => Storing(after),
           ok => \A s \in Rows : /\ after[s].live = staff[s].live
                                 /\ staff[s].live => /\ after[s].login = staff[s].login
                                                     /\ after[s].tenant = staff[s].tenant,
           Tx(p, ok, after, good, bad)
    PROVE  /\ TypeInv' /\ (Goes(p, good) \/ Goes(p, bad))
           /\ adrift' = adrift /\ UNCHANGED <<login, role>>
           /\ \A i \in Logins : SameLogin(i)
           /\ \A s \in Rows : SameRow(s)
<1>1. TxLeaves(p, ok, after, {}, good, bad)
  BY DEF Tx
<1>2. TypeInv'
  BY <1>1, TxTypes
<1>3. /\ (ok /\ staff' = after) \/ staff' = staff
      /\ adrift' = adrift /\ UNCHANGED <<login, role>> /\ (Goes(p, good) \/ Goes(p, bad))
  BY <1>1 DEF TxLeaves, NoFault
<1> QED
  BY <1>2, <1>3, SameLogins DEF SameRow

LEMMA CallIs ==
    ASSUME NEW p \in Requests, NEW ok, NEW after, NEW good, NEW bad, Call(p, ok, after, good, bad)
    PROVE  /\ UNCHANGED <<staff, role>> /\ adrift \subseteq adrift'
           /\ \/ ok /\ login' = after /\ Goes(p, good) /\ adrift' = adrift
              \/ login' = login /\ Goes(p, bad) /\ adrift' = adrift
              \/ /\ ok /\ login' = after /\ Goes(p, bad)
                 /\ adrift' = IF bad.pc \in {"failed", "each"}
                              THEN adrift \cup {i \in Logins : after[i] # login[i]} ELSE adrift
BY DEF Call, NoFault

LEMMA UndoIs ==
    ASSUME NEW p \in Requests, NEW ok, NEW after, NEW whole, Undo(p, ok, after, whole)
    PROVE  /\ UNCHANGED <<staff, role>> /\ adrift \subseteq adrift' /\ Goes(p, Failed)
           /\ login' = login \/ (ok /\ login' = after)
           /\ \/ ok /\ login' = after /\ req[p].alone /\ whole /\ adrift' = adrift
              \/ req[p].who \in adrift' /\ adrift' = adrift \cup {req[p].who}
BY DEF Undo

LEMMA BanKeeps ==
    ASSUME IInv, NEW p \in Requests, Ban(p)
    PROVE  IInv'
<1> DEFINE i == req[p].who
           after == [login EXCEPT ![i].banned = req[p].want.status \in STATUS_BANNED]
           good == Step(p, "stamp")
           bad == Answered(p, Failed)
<1>0. TypeInv /\ Types
  BY DEF IInv, TypeInv
<1>1. Call(p, login[i].live, after, good, bad)
  BY DEF Ban
<1>2. /\ p \in Running /\ req[p] \in Work /\ Placed(req[p]) /\ req[p].pc = "ban"
      /\ req[p].op \in {"status", "close"} /\ i \in Logins
  BY <1>0, StageRuns, RunnerIs DEF Ban, Stages, Placed, Kinds
<1>3. login[i].live => /\ after \in [Logins -> LoginRows]
                       /\ \A k \in Logins : /\ after[k].live = login[k].live
                                            /\ login[k].live => /\ after[k].tenant = login[k].tenant
                                                                /\ after[k].app = login[k].app
  <2> SUFFICES ASSUME login[i].live
               PROVE  /\ after \in [Logins -> LoginRows]
                      /\ \A k \in Logins : /\ after[k].live = login[k].live
                                           /\ login[k].live => /\ after[k].tenant = login[k].tenant
                                                               /\ after[k].app = login[k].app
    OBVIOUS
  <2> DEFINE b == req[p].want.status \in STATUS_BANNED
  <2>4. b \in BOOLEAN
    OBVIOUS
  <2> HIDE DEF b
  <2> DEFINE l == [login[i] EXCEPT !.banned = b]
  <2>1. login[i] \in Login /\ login \in [Logins -> LoginRows]
    BY <1>0, <1>2, LoginFields DEF Types
  <2>2. l \in Login /\ l.live = login[i].live /\ l.tenant = login[i].tenant /\ l.app = login[i].app
    BY <2>1, <2>4 DEF Login
  <2>3. after = [login EXCEPT ![i] = l]
    BY <1>2, <2>1 DEF LoginRows, Login, b
  <2> HIDE DEF l, after
  <2> QED
    BY <1>2, <2>1, <2>2, <2>3 DEF LoginRows
<1>4. good \in Sent /\ RoleSafe(good) /\ good = Step(p, "stamp")
  BY <1>2, StepIs DEF Sent, Placed, RoleSafe, Stages
<1>5. bad \in Sent \cup Ended /\ RoleSafe(bad) /\ bad \in {Step(p, "each"), Failed}
      /\ (bad = Step(p, "each") => req[p].op = "close") 
  <2>1. req[p].op = "close" => Step(p, "each") \in Sent /\ RoleSafe(Step(p, "each"))
    BY <1>2, StepIs DEF Sent, Placed, RoleSafe, Stages
  <2>2. req[p].op = "close" \/ Step(p, "each") # Failed
    BY <1>2, StepIs, EndedIs DEF Stages
  <2> QED
    BY <2>1, <2>2, EndedIs, EndedIsSafe DEF Answered
<1> HIDE DEF after, good, bad
<1>6. TypeInv'
  <2>1. CASE login[i].live
    BY <2>1, <1>0, <1>1, <1>3, <1>4, <1>5, CallTypes
  <2>2. CASE ~login[i].live
    <3>1. Call(p, FALSE, login, good, bad)
      BY <1>1, <2>2 DEF Call
    <3> QED
      BY <3>1, <1>0, <1>4, <1>5, CallTypes DEF Types
  <2> QED
    BY <2>1, <2>2
<1>7. (\A k \in Logins : SameLogin(k)) /\ (\A s \in Rows : SameRow(s)) /\ adrift \subseteq adrift'
      /\ (Goes(p, good) \/ Goes(p, bad))
  BY <1>1, <1>3, CallIs DEF SameLogin, SameRow
<1>8. ASSUME NEW c \in {"stamp", "each"}, Goes(p, Step(p, c))
      PROVE  IInv'
  <2>1. c \in Stages /\ Began(p)'
    BY <1>2, <1>8, BeganPlain DEF Stages
  <2> QED
    BY <1>2, <1>6, <1>7, <1>8, <2>1, QuietOn
<1>9. CASE Goes(p, Failed)
  BY <1>2, <1>6, <1>7, <1>9, QuietEnd, EndedIs
<1> QED
  BY <1>4, <1>5, <1>7, <1>8, <1>9

LEMMA StampStatusKeeps ==
    ASSUME IInv, NEW p \in Requests, StampStatus(p)
    PROVE  IInv'
<1> DEFINE s == req[p].row
           status == req[p].want.status
           after == IF staff[s].live THEN [staff EXCEPT ![s].status = status] ELSE staff
           good == Answered(p, Done)
           bad == Answered(p, Failed)
<1>0. TypeInv /\ Types
  BY DEF IInv, TypeInv
<1>1. Tx(p, TRUE, after, good, bad)
  BY DEF StampStatus
<1>2. /\ p \in Running /\ req[p] \in Work /\ Placed(req[p]) /\ req[p].pc = "stamp"
      /\ req[p].op \in {"status", "close"} /\ s \in Rows /\ status \in Statuses
  <2>1. p \in Running /\ req[p] \in Work /\ Placed(req[p]) /\ req[p].pc = "stamp"
    BY <1>0, StageRuns DEF StampStatus, Stages
  <2>2. req[p].op \in Kinds /\ s \in Rows \cup {None} /\ status \in Statuses
    BY <2>1, RunnerIs, WorkFields, WantedFields
  <2> QED
    BY <2>1, <2>2 DEF Placed, Kinds
<1>3. /\ Storing(after)
      /\ \A k \in Rows : /\ after[k].live = staff[k].live
                         /\ staff[k].live => /\ after[k].login = staff[k].login
                                             /\ after[k].tenant = staff[k].tenant
  <2>0. staff \in [Rows -> PersonRows] /\ Storing(staff)
    BY <1>0 DEF Types, Storing, TypeInv, RolesExist
  <2>1. CASE staff[s].live
    <3> DEFINE l == [staff[s] EXCEPT !.status = status]
    <3>1. staff[s] \in StaffRow
      BY <1>2, <2>0, <2>1, PersonFields
    <3>2. /\ l \in StaffRow /\ l.live = staff[s].live /\ l.tenant = staff[s].tenant
          /\ l.login = staff[s].login /\ l.role = staff[s].role
      BY <1>2, <3>1 DEF StaffRow
    <3>3. after = [staff EXCEPT ![s] = l]
      BY <2>1
    <3> HIDE DEF l, after, status
    <3>4. after[s] = l /\ after \in [Rows -> PersonRows] /\ \A k \in Rows \ {s} : after[k] = staff[k]
      BY <1>2, <2>0, <3>2, <3>3 DEF PersonRows
    <3> QED
      BY <1>2, <2>0, <3>2, <3>4 DEF Storing
  <2>2. CASE ~staff[s].live
    BY <2>0, <2>2
  <2> QED
    BY <2>1, <2>2
<1>4. ASSUME NEW o \in {Done, Failed}
      PROVE  /\ Answered(p, o) \in Sent \cup Ended /\ RoleSafe(Answered(p, o))
             /\ Answered(p, o) \in {Step(p, "each"), o}
  <2>1. req[p].op = "close" => Step(p, "each") \in Sent /\ RoleSafe(Step(p, "each"))
    BY <1>2, StepIs DEF Sent, Placed, RoleSafe, Stages
  <2> QED
    BY <2>1, EndedIs, EndedIsSafe DEF Answered
<1>5. /\ good \in Sent \cup Ended /\ RoleSafe(good) /\ good \in {Step(p, "each"), Done}
      /\ bad \in Sent \cup Ended /\ RoleSafe(bad) /\ bad \in {Step(p, "each"), Failed}
  BY <1>4
<1> HIDE DEF after, good, bad
<1>6. /\ TypeInv' /\ (Goes(p, good) \/ Goes(p, bad))
      /\ adrift' = adrift /\ UNCHANGED <<login, role>>
      /\ \A k \in Logins : SameLogin(k)
      /\ \A k \in Rows : SameRow(k)
  BY <1>0, <1>1, <1>3, <1>5, QuietTx
<1>7. CASE Goes(p, Step(p, "each"))
  <2>1. "each" \in Stages /\ Began(p)'
    BY <1>2, <1>7, BeganPlain DEF Stages
  <2> QED
    BY <1>2, <1>6, <1>7, <2>1, QuietOn
<1>8. CASE Goes(p, Done) \/ Goes(p, Failed)
  BY <1>2, <1>6, <1>8, QuietEnd, EndedIs
<1> QED
  BY <1>5, <1>6, <1>7, <1>8

\* Closing looks at one person after the other.
LEMMA EachMemberKeeps ==
    ASSUME IInv, NEW p \in Requests, EachMember(p)
    PROVE  IInv'
<1>0. TypeInv /\ Types
  BY DEF IInv, TypeInv
<1>1. /\ p \in Running /\ req[p] \in Work /\ Placed(req[p]) /\ req[p].pc = "each"
      /\ req[p].op = "close" /\ req[p].todo \subseteq Rows
  <2>1. p \in Running /\ req[p] \in Work /\ Placed(req[p]) /\ req[p].pc = "each"
    BY <1>0, StageRuns DEF EachMember, Stages
  <2> QED
    BY <2>1, WorkFields DEF Placed, Kinds
<1>2. UNCHANGED <<login, staff, role, adrift>> /\ (UNCHANGED faults \/ Fault)
  BY DEF EachMember, Guarded
<1>3. (\A k \in Logins : SameLogin(k)) /\ (\A k \in Rows : SameRow(k))
  BY <1>2, SameLogins, SameRows
<1>4. faults' \in 0 .. MaxFaults /\ login' \in [Logins -> LoginRows] /\ adrift' \subseteq Logins
  BY <1>0, <1>2, CountsFaults DEF Types
<1>5. CASE Goes(p, Done)
  <2>1. TypeInv'
    BY <1>0, <1>2, <1>4, <1>5, EndedIs, EndedIsSafe, GoesTypes
  <2> QED
    BY <1>1, <1>2, <1>3, <1>5, <2>1, EndedIs, QuietEnd
<1>6. ASSUME NEW r \in Work, Goes(p, r), r.op = "close", r.pc \in {"each", "ban", "stamp"},
             r.was = req[p].was, r.alone = req[p].alone, r.before = req[p].before,
             Used(r.who), Entered(r.row), Placed(r)
      PROVE  IInv'
  <2>1. r \in Sent /\ RoleSafe(r)
    BY <1>6 DEF Sent, RoleSafe
  <2>2. TypeInv'
    BY <1>0, <1>2, <1>4, <1>6, <2>1, GoesTypes
  <2>3. Others(p) /\ req'[p] = r /\ Running' = Running
    BY <1>0, <1>1, <1>6, GoesOthers, RunningThen
  <2>4. (Used(p) => Used(p)') /\ (Entered(p) => Entered(p)')
    BY <1>1, <1>6, <2>3 DEF Used, Entered
  <2>5. Began(p)'
    BY <1>1, <1>2, <1>6, <2>3, RunnerIs DEF Began
  <2>6. Linked(p)' /\ Follows(p)' /\ Awaits(p)'
    BY <1>6, <2>3 DEF Linked, Follows, Awaits
  <2>7. Used(req[p].who)' /\ Entered(req[p].row)'
    <3>1. Used(r.who)' /\ Entered(r.row)'
      BY <1>0, <1>6, <2>2, <2>3, <2>4, UsedStays, EnteredStays
    <3> QED
      BY <2>3, <3>1 DEF Used, Entered
  <2>8. Own(p)'
    BY <2>5, <2>6, <2>7 DEF Own
  <2>9. LeavesAlone(p)
    BY <1>1 DEF LeavesAlone
  <2>10. MayKnow(p)
    BY <1>6, <2>3 DEF MayKnow, Unlocked
  <2>11. Calm(p)
    BY <1>1, <1>2, <1>3 DEF Calm, Contending, Moving
  <2>12. ~InMove(p)'
    BY <1>6, <2>3 DEF InMove
  <2> QED
    BY <2>2, <2>3, <2>4, <2>8, <2>9, <2>10, <2>11, <2>12, QuietStep
<1>7. ASSUME NEW s \in req[p].todo,
             LET i == IF staff[s].live THEN staff[s].login ELSE None
                 next == [Step(p, "each") EXCEPT !.todo = @ \ {s}, !.who = None]
                 go == [next EXCEPT !.pc = AfterLoad(i), !.who = i, !.row = s, !.seen = staff[s]]
             IN  (staff[s].live /\ Goes(p, go)) \/ Goes(p, next)
      PROVE  IInv'
  <2> DEFINE i == IF staff[s].live THEN staff[s].login ELSE None
             e == Step(p, "each")
             next == [e EXCEPT !.todo = @ \ {s}, !.who = None]
             go == [next EXCEPT !.pc = AfterLoad(i), !.who = i, !.row = s, !.seen = staff[s]]
  <2>1. /\ e \in Work /\ e.op = "close" /\ e.pc = "each" /\ e.was = req[p].was
        /\ e.alone = req[p].alone /\ e.before = req[p].before /\ e.row = req[p].row
        /\ e.todo = req[p].todo
    BY <1>1, StepIs DEF Stages
  <2>2. s \in Rows /\ staff[s] \in PersonRows /\ i \in Logins \cup {None}
    BY <1>0, <1>1, <1>7, PersonFields DEF Types
  <2>3. AfterLoad(i) \in {"ban", "stamp"} /\ (AfterLoad(i) = "ban" => i # None)
    BY DEF AfterLoad
  <2> HIDE DEF e, i
  <2>4. /\ next \in Work /\ next.op = "close" /\ next.pc = "each" /\ next.was = req[p].was
        /\ next.alone = req[p].alone /\ next.before = req[p].before /\ next.row = req[p].row
        /\ next.who = None
    BY <1>1, <2>1 DEF Work
  <2> HIDE DEF next
  <2>5. /\ go \in Work /\ go.op = "close" /\ go.pc = AfterLoad(i) /\ go.was = req[p].was
        /\ go.alone = req[p].alone /\ go.before = req[p].before /\ go.row = s /\ go.who = i
    <3>1. AfterLoad(i) \in Stages
      BY <2>3 DEF Stages
    <3> QED
      BY <2>2, <2>4, <3>1 DEF Work
  <2> HIDE DEF go
  <2>6. CASE Goes(p, next)
    <3>1. Used(next.who) /\ Entered(next.row)
      BY <1>1, <2>4, ReadIs, RunnerIs
    <3>2. Placed(next)
      BY <2>4 DEF Placed
    <3> QED
      BY <1>6, <2>4, <2>6, <3>1, <3>2
  <2>7. CASE staff[s].live /\ Goes(p, go)
    <3>1. Used(go.who) /\ Entered(go.row)
      BY <2>2, <2>5, <2>7 DEF IInv, Identities, i
    <3>2. Placed(go)
      BY <2>2, <2>3, <2>5, NoneIsNothing DEF Placed
    <3> QED
      BY <1>6, <2>3, <2>5, <2>7, <3>1, <3>2
  <2> QED
    BY <1>7, <2>6, <2>7 DEF next, go, e, i
<1> QED
  BY <1>5, <1>7 DEF EachMember

\* One row rewritten.
LEMMA RowWritten ==
    ASSUME TypeInv, NEW s \in Rows, NEW l \in StaffRow, l.role # None => role[l.role].live
    PROVE  /\ Storing([staff EXCEPT ![s] = l]) /\ [staff EXCEPT ![s] = l][s] = l /\ l.live
           /\ \A k \in Rows \ {s} : [staff EXCEPT ![s] = l][k] = staff[k]
<1> DEFINE after == [staff EXCEPT ![s] = l]
<1>1. staff \in [Rows -> PersonRows] /\ Storing(staff)
  BY DEF Types, Storing, TypeInv, RolesExist
<1>2. l \in PersonRows /\ l.live /\ l.role \in Roles \cup {None}
  BY PersonFields DEF PersonRows, StaffRow
<1>3. after \in [Rows -> PersonRows] /\ after[s] = l /\ \A k \in Rows \ {s} : after[k] = staff[k]
  BY <1>1, <1>2
<1> QED
  BY <1>1, <1>2, <1>3 DEF Storing

LEMMA StaffFields ==
    ASSUME TypeInv, NEW s \in Rows, staff[s].live
    PROVE  /\ staff[s] \in StaffRow
           /\ staff[s].role # None => role[staff[s].role].live
           /\ staff[s].role \in Roles \cup {None}
<1>1. staff[s] \in PersonRows
  BY DEF TypeInv, Types
<1> QED
  BY <1>1, PersonFields DEF TypeInv, RolesExist

LEMMA StoredAlready ==
    ASSUME TypeInv
    PROVE  Storing(staff)
BY DEF TypeInv, Types, RolesExist, Storing

LEMMA ReissueKeeps ==
    ASSUME IInv, NEW p \in Requests, Reissue(p)
    PROVE  IInv'
<1> DEFINE i == req[p].who
           after == Merge(i, "unset", None, req[p].want.must)
<1>0. TypeInv /\ Types
  BY DEF IInv, TypeInv
<1>1. Call(p, login[i].live, after, Done, Failed)
  BY DEF Reissue
<1>2. /\ p \in Running /\ req[p] \in Work /\ Placed(req[p]) /\ req[p].pc = "reissue"
      /\ i \in Logins /\ req[p].want.must \in {"yes", "no", "unset"}
  <2>1. p \in Running /\ req[p] \in Work /\ Placed(req[p]) /\ req[p].pc = "reissue"
    BY <1>0, StageRuns DEF Reissue, Stages
  <2> QED
    BY <2>1, WorkFields, WantedFields DEF Placed
<1>3. login[i].live => /\ after \in [Logins -> LoginRows]
                       /\ \A k \in Logins : /\ after[k].live = login[k].live
                                            /\ login[k].live => /\ after[k].tenant = login[k].tenant
                                                                /\ after[k].app = login[k].app
  <2> SUFFICES ASSUME login[i].live
               PROVE  /\ after \in [Logins -> LoginRows]
                      /\ \A k \in Logins : /\ after[k].live = login[k].live
                                           /\ login[k].live => /\ after[k].tenant = login[k].tenant
                                                               /\ after[k].app = login[k].app
    OBVIOUS
  <2> DEFINE must == req[p].want.must
  <2>1. /\ "unset" \in AppRoles \cup {"platform_admin", "unset"} /\ None \in Tenants \cup {None}
        /\ must \in {"yes", "no", "unset"}
    BY <1>2
  <2> HIDE DEF must
  <2>4. after = Merge(i, "unset", None, must)
    BY DEF must
  <2> HIDE DEF after, i
  <2>5. MergedIs(i, "unset", None, must, after)
    BY <1>0, <1>2, <2>1, <2>4, MergeIs
  <2>2. /\ after \in [Logins -> LoginRows]
        /\ \A k \in Logins \ {i} : after[k] = login[k]
        /\ after[i] \in Login /\ after[i].live
        /\ after[i].app = login[i].app /\ after[i].tenant = login[i].tenant
    BY <2>5 DEF MergedIs
  <2>3. login[i] \in Login /\ login[i].live = TRUE /\ after[i].live = TRUE
    BY <1>0, <1>2, <2>2, LoginFields DEF Types, Login
  <2> QED
    BY <1>2, <2>2, <2>3
<1> HIDE DEF after
<1>4. Call(p, login[i].live, IF login[i].live THEN after ELSE login, Done, Failed)
  BY <1>1 DEF Call
<1>5. TypeInv'
  <2>1. (IF login[i].live THEN after ELSE login) \in [Logins -> LoginRows]
    BY <1>0, <1>3 DEF Types
  <2> QED
    BY <1>0, <1>4, <2>1, EndedIs, EndedIsSafe, CallTypes
<1>6. /\ \A k \in Logins : SameLogin(k)
      /\ \A k \in Rows : SameRow(k)
      /\ adrift \subseteq adrift' /\ (Goes(p, Done) \/ Goes(p, Failed))
  BY <1>1, <1>3, CallIs DEF SameLogin, SameRow
<1> QED
  BY <1>2, <1>5, <1>6, QuietEnd, EndedIs

LEMMA SaveUserKeeps ==
    ASSUME IInv, NEW p \in Requests, SaveUser(p)
    PROVE  IInv'
<1> DEFINE s == req[p].row
           want == req[p].want
           ok == /\ staff[s].live
                 /\ want.role # "same" => AssertRoleInTenant(want.role, req[p].seen.tenant)
                 /\ want.email # None => EmailFree(want.email, s)
           after == [staff EXCEPT ![s].email = IF want.email = None THEN @ ELSE want.email,
                                  ![s].role = IF want.role = "same" THEN @ ELSE want.role]
           bad == IF want.email # None /\ req[p].who # None THEN Step(p, "unpatch") ELSE Failed
<1>0. TypeInv /\ Types
  BY DEF IInv, TypeInv
<1>1. Tx(p, ok, after, Done, bad)
  BY DEF SaveUser
<1>2. /\ p \in Running /\ req[p] \in Work /\ Placed(req[p]) /\ req[p].pc = "save"
      /\ req[p].op = "update" /\ s \in Rows /\ want \in Wanted
  <2>1. p \in Running /\ req[p] \in Work /\ Placed(req[p]) /\ req[p].pc = "save"
    BY <1>0, StageRuns DEF SaveUser, Stages
  <2>2. req[p].op \in Kinds /\ s \in Rows \cup {None} /\ want \in Wanted
    BY <2>1, RunnerIs, WorkFields
  <2> QED
    BY <2>1, <2>2 DEF Placed, Kinds
<1>3. ASSUME ok
      PROVE  /\ Storing(after)
             /\ \A k \in Rows : /\ after[k].live = staff[k].live
                                /\ staff[k].live => /\ after[k].login = staff[k].login
                                                    /\ after[k].tenant = staff[k].tenant
  <2> DEFINE e == IF want.email = None THEN staff[s].email ELSE want.email
             r == IF want.role = "same" THEN staff[s].role ELSE want.role
             l == [staff[s] EXCEPT !.email = e, !.role = r]
  <2>1. /\ staff[s] \in StaffRow /\ staff[s].live
        /\ staff[s].role # None => role[staff[s].role].live
        /\ staff[s].role \in Roles \cup {None}
    BY <1>0, <1>2, <1>3, StaffFields
  <2>2. e \in Emails /\ r \in Roles \cup {None} /\ (r # None => role[r].live)
    BY <1>2, <1>3, <2>1, WantedFields DEF StaffRow, AssertRoleInTenant, Live
  <2>3. after = [staff EXCEPT ![s] = [staff[s] EXCEPT !.email = e, !.role = r]]
    BY <1>0, <1>2, <2>1 DEF Types, StaffRow
  <2> HIDE DEF e, r, want, after, ok
  <2>4. /\ l \in StaffRow /\ l.live = staff[s].live /\ l.tenant = staff[s].tenant
        /\ l.login = staff[s].login /\ l.role = r
    BY <2>1, <2>2 DEF StaffRow
  <2>5. after = [staff EXCEPT ![s] = l]
    BY <2>3
  <2> HIDE DEF l, s
  <2>6. /\ Storing(after) /\ after[s] = l /\ \A k \in Rows \ {s} : after[k] = staff[k]
    <3>1. s \in Rows /\ l \in StaffRow /\ (l.role # None => role[l.role].live)
      BY <1>2, <2>2, <2>4 DEF s
    <3>2. /\ Storing([staff EXCEPT ![s] = l]) /\ [staff EXCEPT ![s] = l][s] = l
          /\ \A k \in Rows \ {s} : [staff EXCEPT ![s] = l][k] = staff[k]
      BY <1>0, <3>1, RowWritten
    <3> QED
      BY <2>5, <3>2
  <2> QED
    BY <2>4, <2>6
<1>4. bad \in Sent \cup Ended /\ RoleSafe(bad) /\ bad \in {Step(p, "unpatch"), Failed}
  <2>1. want.email # None /\ req[p].who # None
           => Step(p, "unpatch") \in Sent /\ RoleSafe(Step(p, "unpatch"))
    BY <1>2, StepIs DEF Sent, Placed, RoleSafe, Stages
  <2> QED
    BY <2>1, EndedIs, EndedIsSafe
<1> HIDE DEF after, bad, ok
<1>5. /\ TypeInv' /\ (Goes(p, Done) \/ Goes(p, bad))
      /\ adrift' = adrift /\ UNCHANGED <<login, role>>
      /\ \A k \in Logins : SameLogin(k)
      /\ \A k \in Rows : SameRow(k)
  BY <1>0, <1>1, <1>3, <1>4, QuietTx, EndedIs, EndedIsSafe
<1>6. CASE Goes(p, Step(p, "unpatch"))
  <2>1. "unpatch" \in Stages /\ Began(p)'
    BY <1>2, <1>6, BeganPlain DEF Stages
  <2> QED
    BY <1>2, <1>5, <1>6, <2>1, QuietOn
<1>7. CASE Goes(p, Done) \/ Goes(p, Failed)
  BY <1>2, <1>5, <1>7, QuietEnd, EndedIs
<1> QED
  BY <1>4, <1>5, <1>6, <1>7

LEMMA UndoPatchKeeps ==
    ASSUME IInv, NEW p \in Requests, UndoPatch(p)
    PROVE  IInv'
<1> DEFINE i == req[p].who
           email == req[p].seen.email
           ok == login[i].live /\ AddressFree(email, i)
           after == [login EXCEPT ![i].email = email]
<1>0. TypeInv /\ Types
  BY DEF IInv, TypeInv
<1>1. Undo(p, ok, after, TRUE)
  BY DEF UndoPatch
<1>2. /\ p \in Running /\ req[p] \in Work /\ Placed(req[p]) /\ req[p].pc = "unpatch"
      /\ req[p].op = "update" /\ i \in Logins /\ email \in Emails
  <2>1. p \in Running /\ req[p] \in Work /\ Placed(req[p]) /\ req[p].pc = "unpatch"
    BY <1>0, StageRuns DEF UndoPatch, Stages
  <2>2. req[p].op \in Kinds /\ i \in Logins \cup {None} /\ req[p].seen \in PersonRows
    BY <2>1, RunnerIs, WorkFields
  <2>3. req[p].op = "update" /\ i # None /\ req[p].seen.live
    BY <2>1, <2>2 DEF Placed, Kinds
  <2> QED
    BY <2>1, <2>2, <2>3, PersonFields
<1>3. login[i].live => /\ after \in [Logins -> LoginRows]
                       /\ \A k \in Logins : /\ after[k].live = login[k].live
                                            /\ login[k].live => /\ after[k].tenant = login[k].tenant
                                                                /\ after[k].app = login[k].app
  <2> SUFFICES ASSUME login[i].live
               PROVE  /\ after \in [Logins -> LoginRows]
                      /\ \A k \in Logins : /\ after[k].live = login[k].live
                                           /\ login[k].live => /\ after[k].tenant = login[k].tenant
                                                               /\ after[k].app = login[k].app
    OBVIOUS
  <2> HIDE DEF email
  <2> DEFINE l == [login[i] EXCEPT !.email = email]
  <2>1. login[i] \in Login /\ login \in [Logins -> LoginRows]
    BY <1>0, <1>2, LoginFields DEF Types
  <2>2. l \in Login /\ l.live = login[i].live /\ l.tenant = login[i].tenant /\ l.app = login[i].app
    BY <1>2, <2>1 DEF Login
  <2>3. after = [login EXCEPT ![i] = l]
    BY <1>2, <2>1 DEF LoginRows, Login
  <2> HIDE DEF l, after
  <2> QED
    BY <1>2, <2>1, <2>2, <2>3 DEF LoginRows
<1> HIDE DEF after
<1>4. Undo(p, ok, IF ok THEN after ELSE login, TRUE)
  BY <1>1 DEF Undo
<1>5. TypeInv'
  <2>1. (IF ok THEN after ELSE login) \in [Logins -> LoginRows]
    BY <1>0, <1>3 DEF Types
  <2> HIDE DEF ok
  <2> QED
    BY <1>0, <1>2, <1>4, <2>1, UndoTypes
<1>6. /\ \A k \in Logins : SameLogin(k)
      /\ \A k \in Rows : SameRow(k)
      /\ adrift \subseteq adrift' /\ Goes(p, Failed)
  BY <1>1, <1>3, UndoIs DEF SameLogin, SameRow
<1> QED
  BY <1>2, <1>5, <1>6, QuietEnd, EndedIs

LEMMA RecordGrantKeeps ==
    ASSUME IInv, NEW p \in Requests, RecordGrant(p)
    PROVE  IInv'
<1> DEFINE bad == Step(p, "ungrant")
<1>0. TypeInv /\ Types
  BY DEF IInv, TypeInv
<1>1. Tx(p, TRUE, staff, Done, bad)
  BY DEF RecordGrant
<1>2. /\ p \in Running /\ req[p] \in Work /\ Placed(req[p]) /\ req[p].pc = "record"
      /\ req[p].op = "promote"
  <2>1. p \in Running /\ req[p] \in Work /\ Placed(req[p]) /\ req[p].pc = "record"
    BY <1>0, StageRuns DEF RecordGrant, Stages
  <2> QED
    BY <2>1, WorkFields DEF Placed, Kinds
<1>3. bad \in Sent /\ RoleSafe(bad)
  BY <1>2, StepIs DEF Sent, Placed, RoleSafe, Stages
<1> HIDE DEF bad
<1>4. /\ TypeInv' /\ (Goes(p, Done) \/ Goes(p, bad))
      /\ adrift' = adrift /\ UNCHANGED <<login, role>>
      /\ \A k \in Logins : SameLogin(k)
      /\ \A k \in Rows : SameRow(k)
  BY <1>0, <1>1, <1>3, StoredAlready, QuietTx, EndedIs, EndedIsSafe
<1>5. CASE Goes(p, Step(p, "ungrant"))
  <2>1. req'[p] = Step(p, "ungrant") /\ "ungrant" \in Stages /\ p \in Requests
    BY <1>0, <1>5, GoesOthers DEF Stages
  <2>2. /\ req'[p].pc = "ungrant" /\ req'[p].op = req[p].op /\ req'[p].who = req[p].who
        /\ req'[p].row = req[p].row /\ req'[p].was = req[p].was /\ req'[p].alone = req[p].alone
        /\ req'[p].before = req[p].before /\ req'[p] \in Work
    BY <1>2, <2>1, StepIs
  <2>3. Running' = Running
    BY <1>0, <1>2, <1>5, <2>1, <2>2, RunningThen
  <2>4. Began(p)'
    <3>1. Began(p) /\ login' = login
      BY <1>2, <1>4, RunnerIs
    <3> QED
      BY <1>2, <2>2, <2>3, <3>1 DEF Began, Akin
  <2> QED
    BY <1>2, <1>4, <1>5, <2>1, <2>4, QuietOn
<1>6. CASE Goes(p, Done)
  BY <1>2, <1>4, <1>6, QuietEnd, EndedIs
<1> QED
  BY <1>4, <1>5, <1>6 DEF bad

LEMMA RecordRevokeKeeps ==
    ASSUME IInv, NEW p \in Requests, RecordRevoke(p)
    PROVE  IInv'
<1> DEFINE s == req[p].row
           r == req[p].want.role
           ok == r \in Live(role) \cup {"same"}
           after == IF r = "same" \/ ~staff[s].live THEN staff ELSE [staff EXCEPT ![s].role = r]
<1>0. TypeInv /\ Types
  BY DEF IInv, TypeInv
<1>1. Tx(p, ok, after, Done, Failed)
  BY DEF RecordRevoke
<1>2. /\ p \in Running /\ req[p] \in Work /\ Placed(req[p]) /\ req[p].pc = "recorded"
      /\ s \in Rows
  <2>1. p \in Running /\ req[p] \in Work /\ Placed(req[p]) /\ req[p].pc = "recorded"
    BY <1>0, StageRuns DEF RecordRevoke, Stages
  <2> QED
    BY <2>1, WorkFields DEF Placed, Kinds
<1>3. ASSUME ok
      PROVE  /\ Storing(after)
             /\ \A k \in Rows : /\ after[k].live = staff[k].live
                                /\ staff[k].live => /\ after[k].login = staff[k].login
                                                    /\ after[k].tenant = staff[k].tenant
  <2>1. CASE r = "same" \/ ~staff[s].live
    BY <1>0, <2>1, StoredAlready
  <2>2. CASE ~(r = "same" \/ ~staff[s].live)
    <3> DEFINE l == [staff[s] EXCEPT !.role = r]
    <3>1. /\ staff[s] \in StaffRow /\ staff[s].live
      BY <1>0, <1>2, <2>2, StaffFields
    <3>2. r \in Roles /\ role[r].live
      BY <1>0, <1>3, <2>2 DEF Live, Types
    <3>3. after = [staff EXCEPT ![s] = l]
      BY <2>2
    <3> HIDE DEF r, after, ok
    <3>4. /\ l \in StaffRow /\ l.live = staff[s].live /\ l.tenant = staff[s].tenant
          /\ l.login = staff[s].login /\ l.role = r
      BY <3>1, <3>2 DEF StaffRow
    <3> HIDE DEF l, s
    <3>5. /\ Storing([staff EXCEPT ![s] = l]) /\ [staff EXCEPT ![s] = l][s] = l
          /\ \A k \in Rows \ {s} : [staff EXCEPT ![s] = l][k] = staff[k]
      <4>1. s \in Rows
        BY <1>2 DEF s
      <4> QED
        BY <1>0, <3>2, <3>4, <4>1, RowWritten
    <3> QED
      BY <3>3, <3>4, <3>5
  <2> QED
    BY <2>1, <2>2
<1> HIDE DEF after, ok
<1>5. /\ TypeInv' /\ (Goes(p, Done) \/ Goes(p, Failed))
      /\ adrift' = adrift /\ UNCHANGED <<login, role>>
      /\ \A k \in Logins : SameLogin(k)
      /\ \A k \in Rows : SameRow(k)
  BY <1>0, <1>1, <1>3, QuietTx, EndedIs, EndedIsSafe
<1> QED
  BY <1>2, <1>5, QuietEnd, EndedIs

LEMMA AcceptInviteKeeps ==
    ASSUME IInv, NEW p \in Requests, AcceptInvite(p)
    PROVE  IInv'
<1> DEFINE s == req[p].row
           after == [staff EXCEPT ![s].status = "active"]
<1>0. TypeInv /\ Types
  BY DEF IInv, TypeInv
<1>1. Tx(p, staff[s].live, after, Done, Failed)
  BY DEF AcceptInvite
<1>2. /\ p \in Running /\ req[p] \in Work /\ Placed(req[p]) /\ req[p].pc = "event"
      /\ s \in Rows
  <2>1. p \in Running /\ req[p] \in Work /\ Placed(req[p]) /\ req[p].pc = "event"
    BY <1>0, StageRuns DEF AcceptInvite, Stages
  <2> QED
    BY <2>1, WorkFields DEF Placed, Kinds
<1>3. ASSUME staff[s].live
      PROVE  /\ Storing(after)
             /\ \A k \in Rows : /\ after[k].live = staff[k].live
                                /\ staff[k].live => /\ after[k].login = staff[k].login
                                                    /\ after[k].tenant = staff[k].tenant
  <2> DEFINE l == [staff[s] EXCEPT !.status = "active"]
  <2>1. /\ staff[s] \in StaffRow /\ (staff[s].role # None => role[staff[s].role].live)
    BY <1>0, <1>2, <1>3, StaffFields
  <2>2. after = [staff EXCEPT ![s] = l]
    OBVIOUS
  <2> HIDE DEF after
  <2>3. /\ l \in StaffRow /\ l.live = staff[s].live /\ l.tenant = staff[s].tenant
        /\ l.login = staff[s].login /\ l.role = staff[s].role
    BY <2>1 DEF StaffRow, Statuses
  <2> HIDE DEF l, s
  <2>4. /\ Storing([staff EXCEPT ![s] = l]) /\ [staff EXCEPT ![s] = l][s] = l
        /\ \A k \in Rows \ {s} : [staff EXCEPT ![s] = l][k] = staff[k]
    <3>1. s \in Rows /\ (l.role # None => role[l.role].live)
      BY <1>2, <2>1, <2>3 DEF s
    <3> QED
      BY <1>0, <2>3, <3>1, RowWritten
  <2> QED
    BY <2>2, <2>3, <2>4
<1> HIDE DEF after
<1>5. /\ TypeInv' /\ (Goes(p, Done) \/ Goes(p, Failed))
      /\ adrift' = adrift /\ UNCHANGED <<login, role>>
      /\ \A k \in Logins : SameLogin(k)
      /\ \A k \in Rows : SameRow(k)
  BY <1>0, <1>1, <1>3, QuietTx, EndedIs, EndedIsSafe
<1> QED
  BY <1>2, <1>5, QuietEnd, EndedIs

\* A request of one transaction.
LEMMA QuietDone ==
    ASSUME IInv, TypeInv', NEW p \in Requests, req[p] = Fresh, Goes(p, Done),
           UNCHANGED <<login, adrift>>, \A s \in Rows : SameRow(s)
    PROVE  IInv'
<1>1. TypeInv /\ Others(p) /\ req'[p] = Done
  BY GoesOthers DEF IInv
<1>2. p \notin Running' /\ p \notin Running /\ req'[p].pc = "done"
  BY <1>1, EndedIs DEF Running
<1>3. Own(p)' /\ MayKnow(p) /\ LeavesAlone(p) /\ Used(p)' /\ Entered(p)'
  BY <1>2 DEF Own, MayKnow, LeavesAlone, Used, Entered
<1>4. Calm(p)
  BY SameLogins DEF Calm, Contending, Moving, Fresh
<1> QED
  BY <1>1, <1>2, <1>3, <1>4, QuietStep

LEMMA DoneTypes ==
    ASSUME TypeInv, NEW p \in Requests, Goes(p, Done), UNCHANGED <<login, faults, adrift>>,
           Types => staff' \in [Rows -> PersonRows] /\ role' \in [Roles -> RoleRows],
           \A s \in Rows : staff'[s].live /\ staff'[s].role # None
                              => staff'[s].role \in Roles /\ role'[staff'[s].role].live,
           \A q \in Running : req[q].pc \in {"claim", "commit"} /\ req[q].mapped # None
                                 => role'[req[q].mapped].live
    PROVE  TypeInv'
<1>1. req'[p] = Done /\ \A q \in Requests \ {p} : req'[q] = req[q]
  BY GoesIs DEF TypeInv
<1>2. Types'
  BY EndedIs DEF TypeInv, Types, Goes
<1>3. \A q \in Running' : req'[q].pc \in {"claim", "commit"} /\ req'[q].mapped # None
                             => role'[req'[q].mapped].live
  BY <1>1, EndedIs DEF Running
<1> QED
  BY <1>2, <1>3 DEF TypeInv, RolesExist

LEMMA EditStaffKeeps ==
    ASSUME IInv, NEW p \in Requests, EditStaff(p)
    PROVE  IInv'
<1>0. TypeInv /\ Types
  BY DEF IInv, TypeInv
<1>1. req[p] = Fresh /\ Goes(p, Done) /\ UNCHANGED <<login, faults, adrift, role>>
  BY DEF EditStaff, At1
<1>2. PICK s \in Live(staff) :
        \/ \E r \in Live(role) \cup {None} : staff' = [staff EXCEPT ![s].role = r]
        \/ \E status \in Statuses : staff' = [staff EXCEPT ![s].status = status]
  BY DEF EditStaff
<1>3. /\ s \in Rows /\ staff[s] \in StaffRow /\ staff[s].live
      /\ staff[s].role # None => role[staff[s].role].live
  BY <1>0, LiveRows, StaffFields
<1>4. ASSUME NEW l \in StaffRow, l.role # None => role[l.role].live, l.tenant = staff[s].tenant,
             l.login = staff[s].login, staff' = [staff EXCEPT ![s] = l]
      PROVE  Storing(staff') /\ \A k \in Rows : SameRow(k)
  <2>1. /\ Storing([staff EXCEPT ![s] = l]) /\ [staff EXCEPT ![s] = l][s] = l /\ l.live
        /\ \A k \in Rows \ {s} : [staff EXCEPT ![s] = l][k] = staff[k]
    BY <1>0, <1>3, <1>4, RowWritten
  <2>2. l.live = TRUE /\ staff[s].live = TRUE
    BY <1>3 DEF StaffRow
  <2> QED
    BY <1>3, <1>4, <2>1, <2>2 DEF SameRow
<1>5. Storing(staff') /\ \A k \in Rows : SameRow(k)
  <2>1. ASSUME NEW r \in Live(role) \cup {None}, staff' = [staff EXCEPT ![s].role = r]
        PROVE  Storing(staff') /\ \A k \in Rows : SameRow(k)
    <3> DEFINE l == [staff[s] EXCEPT !.role = r]
    <3>1. r \in Roles \cup {None} /\ (r # None => role[r].live)
      BY <1>0 DEF Live, Types
    <3>2. staff' = [staff EXCEPT ![s] = l]
      BY <2>1
    <3>3. l \in StaffRow /\ l.tenant = staff[s].tenant /\ l.login = staff[s].login /\ l.role = r
      BY <1>3, <3>1 DEF StaffRow
    <3> HIDE DEF l
    <3> QED
      BY <1>4, <3>1, <3>2, <3>3
  <2>2. ASSUME NEW status \in Statuses, staff' = [staff EXCEPT ![s].status = status]
        PROVE  Storing(staff') /\ \A k \in Rows : SameRow(k)
    <3> DEFINE l == [staff[s] EXCEPT !.status = status]
    <3>2. staff' = [staff EXCEPT ![s] = l]
      BY <2>2
    <3>3. /\ l \in StaffRow /\ l.tenant = staff[s].tenant /\ l.login = staff[s].login
          /\ l.role = staff[s].role
      BY <1>3 DEF StaffRow
    <3> HIDE DEF l
    <3> QED
      BY <1>3, <1>4, <3>2, <3>3
  <2> QED
    BY <1>2, <2>1, <2>2
<1>6. TypeInv'
  BY <1>0, <1>1, <1>5, DoneTypes DEF Storing, Types, TypeInv, RolesExist
<1> QED
  BY <1>1, <1>5, <1>6, QuietDone

LEMMA RolesKeep ==
    ASSUME IInv, NEW p \in Requests, AddRole(p) \/ RenameRole(p)
    PROVE  IInv'
<1>0. TypeInv /\ Types
  BY DEF IInv, TypeInv
<1>1. req[p] = Fresh /\ Goes(p, Done) /\ UNCHANGED <<login, faults, adrift, staff>>
  BY DEF AddRole, RenameRole, At1
<1>2. role' \in [Roles -> RoleRows] /\ \A r \in Roles : role[r].live => role'[r].live
  <2>0. role \in [Roles -> RoleRows]
    BY <1>0 DEF Types
  <2>1. CASE AddRole(p)
    <3>1. PICK r \in Roles \ Live(role), t \in Tenants, name \in RoleNames :
             role' = [role EXCEPT ![r] = [live |-> TRUE, tenant |-> t, name |-> name]]
      BY <2>1 DEF AddRole
    <3>2. [live |-> TRUE, tenant |-> t, name |-> name] \in Role
      BY DEF Role
    <3> QED
      BY <2>0, <3>1, <3>2 DEF RoleRows
  <2>2. CASE RenameRole(p)
    <3>1. PICK r \in Live(role), name \in RoleNames : role' = [role EXCEPT ![r].name = name]
      BY <2>2 DEF RenameRole
    <3> DEFINE l == [role[r] EXCEPT !.name = name]
    <3>2. r \in Roles /\ role[r] \in Role
      BY <2>0 DEF Live, RoleRows, Absent
    <3>3. l \in Role /\ l.live
      BY <3>2 DEF Role
    <3>4. role' = [role EXCEPT ![r] = l]
      BY <3>1
    <3> HIDE DEF l
    <3> QED
      BY <2>0, <3>2, <3>3, <3>4 DEF RoleRows
  <2> QED
    BY <2>1, <2>2
<1>3. TypeInv'
  <2>1. \A q \in Running : req[q].pc \in {"claim", "commit"} /\ req[q].mapped # None
                              => role'[req[q].mapped].live
    <3> SUFFICES ASSUME NEW q \in Running, req[q].pc \in {"claim", "commit"}, req[q].mapped # None
                 PROVE  role'[req[q].mapped].live
      OBVIOUS
    <3>1. role[req[q].mapped].live /\ req[q].mapped \in Roles
      BY <1>0, RunningWorks, WorkFields DEF TypeInv, RolesExist
    <3> QED
      BY <1>2, <3>1
  <2>2. \A s \in Rows : staff'[s].live /\ staff'[s].role # None
                              => staff'[s].role \in Roles /\ role'[staff'[s].role].live
    BY <1>0, <1>1, <1>2 DEF TypeInv, RolesExist
  <2>3. Types => staff' \in [Rows -> PersonRows] /\ role' \in [Roles -> RoleRows]
    BY <1>1, <1>2 DEF Types
  <2> QED
    BY <1>0, <1>1, <2>1, <2>2, <2>3, DoneTypes
<1> QED
  BY <1>1, <1>3, SameRows, QuietDone

LEMMA RemoveRoleKeeps ==
    ASSUME IInv, NEW p \in Requests, RemoveRole(p)
    PROVE  IInv'
<1>0. TypeInv /\ Types
  BY DEF IInv, TypeInv
<1>1. req[p] = Fresh /\ Goes(p, Done) /\ UNCHANGED <<login, faults, adrift>>
  BY DEF RemoveRole, At1
<1>2. PICK r \in Live(role) :
         /\ \A q \in Running : req[q].pc \in {"claim", "commit"} => req[q].mapped # r
         /\ role' = [role EXCEPT ![r] = Absent]
         /\ staff' = [s \in Rows |-> IF staff[s].live /\ staff[s].role = r
                                     THEN [staff[s] EXCEPT !.role = None] ELSE staff[s]]
  BY DEF RemoveRole
<1>3. /\ r \in Roles /\ role' \in [Roles -> RoleRows]
      /\ \A k \in Roles \ {r} : role'[k] = role[k]
  BY <1>0, <1>2 DEF Types, Live, RoleRows
<1>4. ASSUME NEW s \in Rows
      PROVE  /\ staff'[s] \in PersonRows /\ SameRow(s)
             /\ staff'[s].role = IF staff[s].live /\ staff[s].role = r THEN None ELSE staff[s].role
             /\ staff'[s].live = staff[s].live
  <2>1. CASE staff[s].live /\ staff[s].role = r
    <3> DEFINE l == [staff[s] EXCEPT !.role = None]
    <3>1. staff[s] \in StaffRow
      BY <1>0, <2>1, StaffFields
    <3>2. /\ l \in StaffRow /\ l.tenant = staff[s].tenant /\ l.login = staff[s].login
          /\ l.role = None /\ l.live = staff[s].live
      BY <3>1 DEF StaffRow
    <3>3. staff'[s] = l
      BY <1>2, <2>1
    <3> HIDE DEF l
    <3> QED
      BY <2>1, <3>2, <3>3 DEF SameRow, PersonRows
  <2>2. CASE ~(staff[s].live /\ staff[s].role = r)
    <3>1. staff'[s] = staff[s]
      BY <1>2, <2>2
    <3> QED
      BY <1>0, <2>2, <3>1 DEF SameRow, Types
  <2> QED
    BY <2>1, <2>2
<1>5. TypeInv'
  <2>1. \A s \in Rows : staff'[s].live /\ staff'[s].role # None
                              => staff'[s].role \in Roles /\ role'[staff'[s].role].live
    <3> SUFFICES ASSUME NEW s \in Rows, staff'[s].live, staff'[s].role # None
                 PROVE  staff'[s].role \in Roles /\ role'[staff'[s].role].live
      OBVIOUS
    <3>1. staff'[s].role = staff[s].role /\ staff[s].live /\ staff[s].role # r
      BY <1>4
    <3>2. staff[s].role \in Roles /\ role[staff[s].role].live
      BY <1>0, <3>1 DEF TypeInv, RolesExist
    <3> QED
      BY <1>3, <3>1, <3>2
  <2>2. \A q \in Running : req[q].pc \in {"claim", "commit"} /\ req[q].mapped # None
                              => role'[req[q].mapped].live
    <3> SUFFICES ASSUME NEW q \in Running, req[q].pc \in {"claim", "commit"}, req[q].mapped # None
                 PROVE  role'[req[q].mapped].live
      OBVIOUS
    <3>1. role[req[q].mapped].live /\ req[q].mapped \in Roles /\ req[q].mapped # r
      BY <1>0, <1>2, RunningWorks, WorkFields DEF TypeInv, RolesExist
    <3> QED
      BY <1>3, <3>1
  <2>3. staff' \in [Rows -> PersonRows]
    BY <1>2, <1>4
  <2> QED
    BY <1>0, <1>1, <1>3, <2>1, <2>2, <2>3, DoneTypes
<1> QED
  BY <1>1, <1>4, <1>5, QuietDone

LEMMA RoleNamedIs ==
    ASSUME NEW r, NEW t, Types
    PROVE  RoleNamed(r, t) \in Roles \cup {None}
           /\ (RoleNamed(r, t) # None => role[RoleNamed(r, t)].live)
BY DEF RoleNamed, Live, Types

LEMMA MovesAsIs ==
    ASSUME NEW p \in Requests, req[p] \in Work
    PROVE  MovesAs(p) \in AppRoles \cup {"platform_admin", "unset"}
<1>1. req[p].was \in LoginRows /\ req[p].want.app \in AppRoles \cup {"platform_admin", "unset"}
  BY WorkFields, WantedFields
<1>2. req[p].was.live => req[p].was \in Login
  BY <1>1, AbsentIsDead DEF LoginRows
<1> QED
  BY <1>1, <1>2 DEF MovesAs, Login, AppRoles

LEMMA LoadMoveKeeps ==
    ASSUME IInv, NEW p \in Requests, LoadMove(p)
    PROVE  IInv'
<1> DEFINE s == req[p].row
           i == req[p].who
           e == Step(p, "lock")
           read == [e EXCEPT !.seen = staff[s]]
<1>0. TypeInv /\ Types
  BY DEF IInv, TypeInv
<1>2. /\ p \in Running /\ req[p] \in Work /\ Placed(req[p]) /\ req[p].pc = "load"
      /\ req[p].op = "demote" /\ s \in Rows /\ i \in Logins
  <2>1. p \in Running /\ req[p] \in Work /\ Placed(req[p]) /\ req[p].pc = "load"
    BY <1>0, StageRuns DEF LoadMove, Stages
  <2> QED
    BY <2>1, WorkFields DEF Placed, Kinds
<1>3. /\ UNCHANGED <<login, staff, role, adrift>> /\ faults' \in 0 .. MaxFaults
      /\ adrift' \subseteq Logins /\ login' \in [Logins -> LoginRows]
  BY <1>0, ConstantsAssumption DEF LoadMove, Fault, Types
<1>4. (\A k \in Logins : SameLogin(k)) /\ (\A k \in Rows : SameRow(k))
  BY <1>3, SameLogins, SameRows
<1>5. CASE Goes(p, Failed)
  <2>1. TypeInv'
    BY <1>0, <1>3, <1>5, GoesTypes, EndedIs, EndedIsSafe
  <2> QED
    BY <1>2, <1>3, <1>4, <1>5, <2>1, EndedIs, QuietEnd
<1>6. ASSUME NEW l \in LoginRows, staff[s].live,
             Goes(p, [read EXCEPT !.was = l]) \/ Goes(p, read)
      PROVE  IInv'
  <2>1. /\ e \in Work /\ e.pc = "lock" /\ e.op = req[p].op /\ e.who = req[p].who
        /\ e.row = req[p].row /\ e.was = req[p].was /\ e.alone = req[p].alone
        /\ e.before = req[p].before /\ e.seen = req[p].seen /\ e.want = req[p].want
    BY <1>2, StepIs DEF Stages
  <2>2. staff[s] \in PersonRows
    BY <1>0, <1>2 DEF Types
  <2> HIDE DEF e
  <2>3. PICK r : /\ Goes(p, r) /\ r \in Work /\ r.pc = "lock" /\ r.op = req[p].op
                 /\ r.who = req[p].who /\ r.row = req[p].row /\ r.alone = req[p].alone
                 /\ r.before = req[p].before /\ r.seen = staff[s] /\ r.want = req[p].want
    <3> DEFINE o == [e EXCEPT !.seen = staff[s]]
               w == [o EXCEPT !.was = l]
    <3>1. /\ o \in Work /\ o.pc = "lock" /\ o.op = req[p].op
          /\ o.who = req[p].who /\ o.row = req[p].row /\ o.alone = req[p].alone
          /\ o.before = req[p].before /\ o.seen = staff[s] /\ o.want = req[p].want
      BY <2>1, <2>2 DEF Work
    <3> HIDE DEF o
    <3>2. /\ w \in Work /\ w.pc = "lock" /\ w.op = req[p].op
          /\ w.who = req[p].who /\ w.row = req[p].row /\ w.alone = req[p].alone
          /\ w.before = req[p].before /\ w.seen = staff[s] /\ w.want = req[p].want
      BY <3>1 DEF Work
    <3>3. Goes(p, w) \/ Goes(p, o)
      BY <1>6 DEF o
    <3> QED
      BY <3>1, <3>2, <3>3
  <2>4. r \in Sent /\ RoleSafe(r)
    BY <1>2, <1>6, <2>3 DEF Sent, Placed, RoleSafe
  <2>5. TypeInv'
    BY <1>0, <1>3, <2>3, <2>4, GoesTypes
  <2>6. Others(p) /\ req'[p] = r /\ Running' = Running
    BY <1>0, <1>2, <2>3, GoesOthers, RunningThen
  <2>7. Linked(p) /\ Began(p) /\ Used(req[p].who) /\ Entered(req[p].row)
    BY <1>2, RunnerIs
  <2>8. (Used(p) => Used(p)') /\ (Entered(p) => Entered(p)')
    BY <1>2, <2>3, <2>6 DEF Used, Entered
  <2>9. Used(req[p].who)' /\ Entered(req[p].row)'
    <3>1. PICK k : k = req[p].who
      OBVIOUS
    <3>2. PICK j : j = req[p].row
      OBVIOUS
    <3>3. Used(k)' /\ Entered(j)'
      BY <1>0, <1>2, <2>5, <2>6, <2>7, <2>8, <3>1, <3>2, UsedStays, EnteredStays
    <3> QED
      BY <2>3, <2>6, <3>1, <3>2, <3>3 DEF Used, Entered
  <2>10. Linked(p)'
    BY <1>2, <1>3, <2>3, <2>6, <2>7 DEF Linked, Sound
  <2>11. Follows(p)'
    BY <1>2, <2>3, <2>6 DEF Follows, Sound
  <2>12. Awaits(p)'
    BY <2>3, <2>6 DEF Awaits
  <2>13. Began(p)'
    BY <1>2, <1>3, <2>3, <2>6, <2>7 DEF Began
  <2>14. Own(p)'
    BY <2>3, <2>6, <2>9, <2>10, <2>11, <2>12, <2>13 DEF Own
  <2>15. LeavesAlone(p)
    BY <1>2 DEF LeavesAlone
  <2>16. MayKnow(p)
    BY <1>2, <1>3, <2>3, <2>6 DEF MayKnow, IInv, Rivals, Sound
  <2>17. Calm(p)
    BY <1>2, <1>3, <1>4 DEF Calm, Contending, Moving
  <2>18. ~InMove(p)'
    BY <2>3, <2>6 DEF InMove
  <2> QED
    BY <1>2, <2>5, <2>6, <2>8, <2>14, <2>15, <2>16, <2>17, <2>18, QuietStep
<1>7. \/ Goes(p, Failed)
      \/ staff[s].live /\ (Goes(p, [read EXCEPT !.was = login[i]]) \/ Goes(p, read))
  BY DEF LoadMove
<1> QED
  BY <1>0, <1>2, <1>5, <1>6, <1>7 DEF Types

LEMMA LockRowKeeps ==
    ASSUME IInv, NEW p \in Requests, LockRow(p)
    PROVE  IInv'
<1> DEFINE s == req[p].row
           i == req[p].who
           mapped == RoleNamed(staff[s].role, req[p].want.tenant)
           c == IF i = None THEN "commit" ELSE "claim"
           e == Step(p, c)
           r == [e EXCEPT !.mapped = mapped]
<1>0. TypeInv /\ Types
  BY DEF IInv, TypeInv
<1>1. /\ ~Locked(s) /\ UNCHANGED <<login, staff, role, faults, adrift>>
      /\ Goes(p, IF staff[s].live THEN r ELSE Unclaim(p))
  BY DEF LockRow
<1>2. /\ p \in Running /\ req[p] \in Work /\ Placed(req[p]) /\ req[p].pc = "lock"
      /\ req[p].op \in {"move", "demote"} /\ s \in Rows /\ i \in Logins \cup {None}
      /\ p \in Requests
  <2>1. p \in Running /\ req[p] \in Work /\ Placed(req[p]) /\ req[p].pc = "lock"
    BY <1>0, StageRuns DEF LockRow, Stages
  <2> QED
    BY <2>1, WorkFields DEF Placed, Kinds
<1>3. (\A k \in Logins : SameLogin(k)) /\ (\A k \in Rows : SameRow(k))
  BY <1>1, SameLogins, SameRows
<1>4. faults' \in 0 .. MaxFaults /\ adrift' \subseteq Logins /\ login' \in [Logins -> LoginRows]
  BY <1>0, <1>1 DEF Types
<1>5. CASE ~staff[s].live /\ i = None
  <2>1. Goes(p, Failed)
    BY <1>1, <1>5 DEF Unclaim
  <2>2. TypeInv'
    BY <1>0, <1>1, <1>4, <2>1, GoesTypes, EndedIs, EndedIsSafe
  <2> QED
    BY <1>1, <1>2, <1>3, <2>1, <2>2, EndedIs, QuietEnd
<1>6. CASE ~staff[s].live /\ i # None
  <2>1. Goes(p, Step(p, "unclaim")) /\ "unclaim" \in Stages
    BY <1>1, <1>6 DEF Unclaim, Stages
  <2>2. Step(p, "unclaim") \in Sent /\ RoleSafe(Step(p, "unclaim"))
    BY <1>2, <1>6, StepIs DEF Sent, Placed, RoleSafe, Stages
  <2>3. TypeInv'
    BY <1>0, <1>1, <1>4, <2>1, <2>2, GoesTypes
  <2>4. Began(p)'
    <3>1. req'[p] = Step(p, "unclaim")
      BY <1>0, <2>1, GoesOthers
    <3>2. /\ req'[p].pc = "unclaim" /\ req'[p].op = req[p].op /\ req'[p].who = req[p].who
          /\ req'[p].row = req[p].row /\ req'[p].was = req[p].was /\ req'[p].alone = req[p].alone
          /\ req'[p].before = req[p].before /\ req'[p] \in Work /\ req'[p].seen = req[p].seen
      BY <1>2, <2>1, <3>1, StepIs
    <3>3. Running' = Running
      BY <1>0, <1>2, <2>1, <3>1, <3>2, RunningThen
    <3>4. Began(p) /\ login' = login /\ staff' = staff
      BY <1>1, <1>2, RunnerIs
    <3> QED
      BY <1>2, <3>2, <3>3, <3>4 DEF Began, Akin
  <2> QED
    BY <1>1, <1>2, <1>3, <2>1, <2>3, <2>4, QuietOn
<1>7. CASE staff[s].live
  <2>1. Goes(p, r)
    BY <1>1, <1>7
  <2>2. c \in {"claim", "commit"} /\ (c = "claim" => i # None) /\ (c = "commit" => i = None)
        /\ c \in Stages
    BY DEF Stages
  <2>3. mapped \in Roles \cup {None} /\ (mapped # None => role[mapped].live)
    BY <1>0, RoleNamedIs
  <2> HIDE DEF c, mapped
  <2>4. /\ e \in Work /\ e.pc = c /\ e.op = req[p].op /\ e.who = req[p].who
        /\ e.row = req[p].row /\ e.was = req[p].was /\ e.alone = req[p].alone
        /\ e.before = req[p].before /\ e.seen = req[p].seen /\ e.want = req[p].want
    BY <1>2, <2>2, StepIs
  <2> HIDE DEF e
  <2>5. /\ r \in Work /\ r.pc = c /\ r.op = req[p].op /\ r.who = req[p].who
        /\ r.row = req[p].row /\ r.was = req[p].was /\ r.alone = req[p].alone
        /\ r.before = req[p].before /\ r.seen = req[p].seen /\ r.want = req[p].want
        /\ r.mapped = mapped
    BY <2>3, <2>4 DEF Work
  <2> HIDE DEF r
  <2>6. r \in Sent /\ RoleSafe(r)
    BY <1>2, <2>2, <2>3, <2>5 DEF Sent, Placed, RoleSafe
  <2>7. TypeInv'
    BY <1>0, <1>1, <1>4, <2>1, <2>6, GoesTypes
  <2>8. Others(p) /\ req'[p] = r /\ Running' = Running
    BY <1>0, <1>2, <2>1, <2>5, GoesOthers, RunningThen
  <2>9. /\ Linked(p) /\ Began(p) /\ Used(req[p].who) /\ Entered(req[p].row)
    BY <1>2, RunnerIs
  <2>10. (Used(p) => Used(p)') /\ (Entered(p) => Entered(p)')
    BY <1>2, <2>2, <2>5, <2>8 DEF Used, Entered
  <2>11. Used(req[p].who)' /\ Entered(req[p].row)'
    <3>1. PICK k : k = req[p].who
      OBVIOUS
    <3>2. PICK j : j = req[p].row
      OBVIOUS
    <3>3. Used(k)' /\ Entered(j)'
      BY <1>0, <1>2, <2>7, <2>8, <2>9, <2>10, <3>1, <3>2, UsedStays, EnteredStays
    <3> QED
      BY <2>5, <2>8, <3>1, <3>2, <3>3 DEF Used, Entered
  <2>12. Linked(p)'
    BY <1>1, <1>2, <2>2, <2>5, <2>8, <2>9 DEF Linked, Sound
  <2>13. Follows(p)'
    BY <1>2, <2>2, <2>5, <2>8, NoneIsNothing DEF Follows, Sound
  <2>14. Awaits(p)'
    BY <2>2, <2>5, <2>8 DEF Awaits
  <2>15. Began(p)'
    <3>1. i # None => c = "claim"
      BY DEF c
    <3> QED
      BY <1>1, <1>2, <2>2, <2>5, <2>8, <2>9, <3>1 DEF Began
  <2>16. Own(p)'
    BY <2>11, <2>12, <2>13, <2>14, <2>15 DEF Own
  <2>17. LeavesAlone(p)
    BY <1>2 DEF LeavesAlone
  <2>18. MayKnow(p)
    BY <1>1, <1>2, <2>5, <2>8 DEF MayKnow, IInv, Rivals, Sound
  <2>19. Calm(p)
    BY <1>1, <1>2, <1>3 DEF Calm, Contending, Moving
  <2>20. \A q \in Running \ {p} : InMove(q) => req[q].row # req'[p].row
    BY <1>1, <2>5, <2>8 DEF InMove, Locked
  <2> QED
    BY <1>2, <1>7, <2>5, <2>7, <2>8, <2>10, <2>16, <2>17, <2>18, <2>19, <2>20, QuietStep
<1> QED
  BY <1>5, <1>6, <1>7

-----------------------------------------------------------------------------
(* Steps that write a login.                                               *)

LEMMA RowsLocked ==
    ASSUME IInv, NEW q \in Running, InMove(q)
    PROVE  req[q].row \in Rows /\ staff[req[q].row].live
<1>1. staff[req[q].row].live
  BY DEF IInv, Locks
<1>2. Placed(req[q]) /\ req[q].row \in Rows \cup {None} /\ req[q].op \in Kinds
  BY RunnerIs
<1> QED
  BY <1>1, <1>2 DEF Placed, InMove, Kinds

\* A request that ends and leaves the login it wrote adrift.
LEMMA DriftEnd ==
    ASSUME IInv, TypeInv', NEW p \in Running, NEW r \in Ended, Goes(p, r), UNCHANGED <<staff, role>>,
           adrift \subseteq adrift', NEW i \in Logins, i \in adrift',
           \A k \in Logins \ {i} : login'[k] = login[k],
           login'[i].live => login[i].live \/ (i = p /\ ~Used(i)),
           req[p].pc \in {"insert", "uncreate", "commit", "unclaim"}
              => req[p].who \in adrift' \cup {None}
    PROVE  IInv'
<1>1. p \in Requests /\ TypeInv /\ Others(p) /\ req'[p] = r
  BY RunnerIs, GoesOthers DEF IInv
<1>2. p \notin Running' /\ req'[p].pc \in {"done", "failed", "dead"}
  BY <1>1, EndedIs DEF Running, Ended
<1>3. Own(p)' /\ MayKnow(p) /\ LeavesAlone(p) /\ Used(p)' /\ Entered(p)'
  BY <1>2 DEF Own, MayKnow, LeavesAlone, Used, Entered
<1>4. \A k : Sound(k)' => k # i /\ k \in Logins /\ login'[k] = login[k] /\ Sound(k)
  BY DEF Sound
<1>5. \A k : Held(k)' <=> Held(k)
  BY DEF Held
<1>6. \A k : Sound(k)' => ~Contending(p, k)
  BY NoneIsNothing DEF Sound, Contending
<1>7. \A s \in Rows, k \in Logins : ~(k = staff[s].login /\ Sound(k)' /\ Moving(p, s))
  BY NoneIsNothing DEF Sound, Moving
<1>8. Conserves(p)
  BY <1>4, <1>5, <1>6 DEF Conserves
<1>9. LinksStay(p) /\ TenantsStay(p)
  BY DEF LinksStay, TenantsStay
<1>10. Names(p)
  BY <1>1, <1>3 DEF Names, Used
<1>11. MayLock(p)
  BY <1>2, RowsLocked DEF MayLock
<1>12. Unique'
  BY DEF IInv, Unique
<1>13. ASSUME NEW s \in Rows, staff'[s].live, Sound(staff[s].login)'
       PROVE  AgreesStill(p, s)
  <2>1. PICK k : k = staff'[s].login
    OBVIOUS
  <2>2. Sound(k)'
    BY <1>13, <2>1 DEF Sound
  <2> QED
    BY <1>4, <1>6, <1>7, <1>13, <2>1, <2>2 DEF AgreesStill, SameRow
<1>14. ASSUME NEW k \in Logins, Sound(k)', Opens(k)'
       PROVE  OpensStill(p, k)
  BY <1>4, <1>5, <1>6, <1>14 DEF OpensStill, Opens
<1> QED
  BY <1>1, <1>3, <1>8, <1>9, <1>10, <1>11, <1>12, <1>13, <1>14, StepKeeps

\* A request about a row writes the claims of the row's login.
LEMMA ClaimWritten ==
    ASSUME IInv, TypeInv', NEW p \in Running, NEW i \in Logins, NEW s \in Rows,
           i = req[p].who, s = req[p].row, s # None,
           req[p].op \in {"update", "move", "demote", "promote"}, login[i].live, login'[i].live,
           UNCHANGED <<staff, role>>, adrift \subseteq adrift',
           \A k \in Logins \ {i} : login'[k] = login[k],
           NEW r, Goes(p, r),
           \/ r \in Ended
           \/ /\ r \in Work /\ r.op = req[p].op /\ r.who = i /\ r.row = s /\ Own(p)'
              /\ r.pc \notin {"fresh", "identity"}
              /\ req[p].pc \in {"revoke", "recorded"} => r.pc \in {"revoke", "recorded"}
              /\ r.pc \in {"claim", "commit"} => InMove(p),
           Sound(i)' => /\ \/ login'[i].tenant = staff[s].tenant
                           \/ r.pc \in {"commit", "unclaim"} /\ r.who = i /\ r.row = s
                           \/ login'[i].tenant = login[i].tenant /\ ~Moving(p, s)
                        /\ req[p].alone \/ req[p].op \in Unlocked \/ (req[p].op = "move" /\ InMove(p))
    PROVE  IInv'
<1>1. p \in Requests /\ TypeInv /\ Others(p) /\ req'[p] = r /\ req[p] \in Work
  BY RunnerIs, GoesOthers DEF IInv
<1>2. Own(p)'
  BY <1>1 DEF Own, Running
<1>3. Used(p)' /\ (Entered(p) => Entered(p)')
  <2>1. CASE r \in Ended
    BY <1>1, <2>1, EndedIs DEF Used, Entered, Ended
  <2>2. CASE r \notin Ended
    <3>1. r.pc \notin {"fresh", "identity"} /\ r.row = s
          /\ (req[p].pc \in {"revoke", "recorded"} => r.pc \in {"revoke", "recorded"})
      BY <2>2
    <3>2. req[p].pc \notin {"done", "failed", "dead"}
      BY <1>1, WorkFields DEF Stages
    <3> QED
      BY <1>1, <3>1, <3>2 DEF Used, Entered
  <2> QED
    BY <2>1, <2>2
<1>4. \A k : Sound(k)' => Sound(k)
  BY DEF Sound
<1>5. \A k : Held(k)' <=> Held(k)
  BY DEF Held
<1>6. \A k : ~Contending(p, k)
  BY <1>1, ContendersRun
<1>7. Sound(i)' => staff[s].live /\ staff[s].login = i /\ Held(i)
  BY <1>4, LinkedHolds
<1>8. Conserves(p)
  <2>1. ASSUME NEW k, Sound(k)', Sound(k)
        PROVE  \/ login'[k].tenant = login[k].tenant
               \/ /\ Held(k)'
                  /\ p \in Running /\ req[p].who = k /\ req[p].row # None
                  /\ req[p].alone \/ req[p].op \in Unlocked \/ (req[p].op = "move" /\ InMove(p))
    <3>1. k \in Logins
      BY <2>1 DEF Sound
    <3> QED
      BY <1>5, <1>7, <2>1, <3>1
  <2> QED
    BY <1>4, <1>5, <1>6, <2>1 DEF Conserves
<1>9. LinksStay(p) /\ TenantsStay(p)
  BY DEF LinksStay, TenantsStay
<1>10. Names(p)
  BY <1>1, <1>3 DEF Names, Used
<1>11. MayKnow(p)
  <2>1. p \in Running' => req'[p].op = req[p].op /\ req'[p].who = i
    BY <1>1 DEF Running
  <2> QED
    BY <1>4, <2>1 DEF MayKnow, IInv, Rivals
<1>12. MayLock(p)
  <2>1. p \in Running' /\ InMove(p)' => InMove(p) /\ req'[p].row = req[p].row
    BY <1>1 DEF Running, InMove
  <2> QED
    BY <2>1, RowsLocked DEF MayLock, IInv, Locks
<1>13. Unique'
  BY DEF IInv, Unique
<1>14. LeavesAlone(p)
  BY DEF LeavesAlone
<1>15. ASSUME NEW k \in Rows, staff'[k].live, Sound(staff[k].login)'
       PROVE  Agrees(k)' \/ AgreesStill(p, k)
  <2>1. PICK j : j = staff'[k].login
    OBVIOUS
  <2>2. Sound(j)' /\ j \in Logins /\ staff[k].live
    BY <1>15, <2>1 DEF Sound
  <2>3. CASE j # i
    <3>1. ~Moving(p, k)
      BY <2>1, <2>3 DEF Moving
    <3> QED
      BY <1>4, <1>6, <2>1, <2>2, <2>3, <3>1 DEF AgreesStill, SameRow
  <2>4. CASE j = i
    <3>1. k = s
      BY <1>7, <2>1, <2>2, <2>4, NoneIsNothing DEF IInv, Unique
    <3>2. CASE login'[i].tenant = staff[s].tenant
      BY <2>1, <2>4, <3>1, <3>2 DEF Agrees
    <3>3. CASE r.pc \in {"commit", "unclaim"} /\ r.who = i /\ r.row = s
      <4>1. Moving(p, s)'
        BY <1>1, <2>1, <2>4, <3>1, <3>3 DEF Moving
      <4> QED
        BY <1>1, <3>1, <4>1 DEF Agrees
    <3>4. CASE login'[i].tenant = login[i].tenant /\ ~Moving(p, s)
      BY <1>4, <1>6, <2>1, <2>2, <2>4, <3>1, <3>4 DEF AgreesStill, SameRow
    <3> QED
      BY <2>2, <2>4, <3>2, <3>3, <3>4
  <2> QED
    BY <2>3, <2>4
<1>16. ASSUME NEW k \in Logins, Sound(k)', Opens(k)'
       PROVE  Held(k)' \/ OpensStill(p, k)
  <2>1. CASE k = i
    BY <1>5, <1>7, <1>16, <2>1
  <2>2. CASE k # i
    BY <1>4, <1>5, <1>6, <1>16, <2>2 DEF OpensStill, Opens
  <2> QED
    BY <2>1, <2>2
<1> QED
  BY <1>1, <1>2, <1>3, <1>8, <1>9, <1>10, <1>11, <1>12, <1>13, <1>14, <1>15, <1>16, StepKeeps

LEMMA CallTypesIf ==
    ASSUME TypeInv, NEW p \in Requests, NEW ok, NEW after, ok => after \in [Logins -> LoginRows],
           NEW good \in Sent \cup Ended, NEW bad \in Sent \cup Ended,
           RoleSafe(good), RoleSafe(bad), Call(p, ok, after, good, bad)
    PROVE  TypeInv'
<1>1. CASE ok
  BY <1>1, CallTypes
<1>2. CASE ~ok
  <2>1. Call(p, FALSE, login, good, bad)
    BY <1>2 DEF Call
  <2> QED
    BY <2>1, CallTypes DEF TypeInv, Types
<1> QED
  BY <1>1, <1>2

LEMMA UndoTypesIf ==
    ASSUME TypeInv, NEW p \in Requests, NEW ok, NEW after, ok => after \in [Logins -> LoginRows],
           NEW whole, req[p].who \in Logins, Undo(p, ok, after, whole)
    PROVE  TypeInv'
<1>1. CASE ok
  BY <1>1, UndoTypes
<1>2. CASE ~ok
  <2>1. Undo(p, FALSE, login, whole)
    BY <1>2 DEF Undo
  <2> QED
    BY <2>1, UndoTypes DEF TypeInv, Types
<1> QED
  BY <1>1, <1>2

\* A call that fails for good, the login it was about perhaps written.
LEMMA CallFailed ==
    ASSUME IInv, TypeInv', NEW p \in Running, NEW i \in Logins, NEW after,
           UNCHANGED <<staff, role>>, adrift \subseteq adrift', Goes(p, Failed),
           req[p].pc \notin {"insert", "uncreate", "commit", "unclaim"},
           \/ login' = login
           \/ /\ login' = after /\ adrift' = adrift \cup {k \in Logins : after[k] # login[k]}
              /\ \A k \in Logins \ {i} : after[k] = login[k]
              /\ after[i].live => login[i].live \/ (i = p /\ ~Used(i))
    PROVE  IInv'
<1>1. CASE login' = login
  BY <1>1, SameLogins, SameRows, EndedIs, QuietEnd
<1>2. CASE /\ login' = after /\ adrift' = adrift \cup {k \in Logins : after[k] # login[k]}
           /\ \A k \in Logins \ {i} : after[k] = login[k]
           /\ after[i].live => login[i].live \/ (i = p /\ ~Used(i))
  <2>1. CASE after[i] = login[i]
    <3>1. \A k \in Logins : SameLogin(k)
      BY <1>2, <2>1 DEF SameLogin
    <3> QED
      BY <3>1, SameRows, EndedIs, QuietEnd
  <2>2. CASE after[i] # login[i]
    <3>1. i \in adrift'
      BY <1>2, <2>2
    <3> QED
      BY <1>2, <3>1, EndedIs, DriftEnd
  <2> QED
    BY <2>1, <2>2
<1> QED
  BY <1>1, <1>2

\* An undoing that fails, or that is not all of it, or that was not alone.
LEMMA UndoFailed ==
    ASSUME IInv, TypeInv', NEW p \in Running, NEW i \in Logins, i = req[p].who, NEW after,
           UNCHANGED <<staff, role>>, adrift \subseteq adrift', Goes(p, Failed), i \in adrift',
           \/ login' = login
           \/ /\ login' = after /\ login[i].live
              /\ \A k \in Logins \ {i} : after[k] = login[k]
    PROVE  IInv'
<1>1. /\ \A k \in Logins \ {i} : login'[k] = login[k]
      /\ login'[i].live => login[i].live
  OBVIOUS
<1> QED
  BY <1>1, EndedIs, DriftEnd

\* What a request that goes on with its row as it was knows of it.
LEMMA OwnOn ==
    ASSUME IInv, TypeInv', NEW p \in Running, NEW c \in Stages, Goes(p, Step(p, c)),
           UNCHANGED staff, adrift \subseteq adrift',
           \A k \in Logins : login'[k].live => login[k].live,
           c \notin {"identity", "erase", "revoke", "insert", "keep", "land"},
           req[p].pc \in {"revoke", "recorded"} => c = "recorded",
           NEW i, i = req[p].who,
           c = "commit" /\ Sound(i)' => login'[i].tenant = req[p].want.tenant,
           Began(p)'
    PROVE  Own(p)'
<1>1. p \in Requests /\ TypeInv /\ Others(p) /\ req'[p] = Step(p, c) /\ req[p] \in Work
  BY RunnerIs, GoesOthers DEF IInv
<1>2. /\ req'[p].pc = c /\ req'[p].op = req[p].op /\ req'[p].who = req[p].who
      /\ req'[p].row = req[p].row /\ req'[p].want = req[p].want /\ req'[p].seen = req[p].seen
      /\ req'[p] \in Work
  BY <1>1, StepIs
<1>3. /\ Linked(p) /\ Follows(p) /\ Used(req[p].who) /\ Entered(req[p].row)
      /\ req[p].row \in Rows \cup {None} /\ req[p].op \in Kinds /\ Placed(req[p])
      /\ req[p].who \in Logins \cup {None}
  BY RunnerIs
<1>4. Used(p)' /\ (Entered(p) => Entered(p)')
  <2>1. Used(p)'
    BY <1>2, RunningWorks, EndedIs DEF Used, Stages
  <2>2. ASSUME Entered(p)
        PROVE  Entered(p)'
    <3>1. req[p].pc \notin {"done", "failed", "dead"}
      BY <1>1, WorkFields DEF Stages
    <3> QED
      BY <1>2, <2>2, <3>1 DEF Entered
  <2> QED
    BY <2>1, <2>2
<1>5. \A k : Sound(k)' => Sound(k)
  BY DEF Sound
<1>6. Linked(p)'
  BY <1>2, <1>3, <1>5 DEF Linked
<1>7. Follows(p)'
  BY <1>2, <1>3, <1>5 DEF Follows
<1>8. Awaits(p)'
  BY <1>2 DEF Awaits
<1>9. Used(req[p].who)' /\ Entered(req[p].row)'
  <2>1. PICK k : k = req[p].who
    OBVIOUS
  <2>2. PICK j : j = req[p].row
    OBVIOUS
  <2>3. Used(k)' /\ Entered(j)'
    BY <1>1, <1>3, <1>4, <2>1, <2>2, UsedStays, EnteredStays
  <2> QED
    BY <1>2, <2>1, <2>2, <2>3 DEF Used, Entered
<1> QED
  BY <1>6, <1>7, <1>8, <1>9 DEF Own

LEMMA PatchIdentityKeeps ==
    ASSUME IInv, NEW p \in Requests, PatchIdentity(p)
    PROVE  IInv'
<1>0. TypeInv /\ Types
  BY DEF IInv, TypeInv
<1>1. PICK i : i = req[p].who
  OBVIOUS
<1>2. PICK s : s = req[p].row
  OBVIOUS
<1>3. PICK want : want = req[p].want
  OBVIOUS
<1>4. PICK t : t = req[p].seen.tenant
  OBVIOUS
<1> DEFINE claims == IF want.app = "unset" THEN login ELSE Merge(i, want.app, t, "unset")
           ok == login[i].live /\ (want.email # None => AddressFree(want.email, i))
           after == IF want.email = None THEN claims ELSE [claims EXCEPT ![i].email = want.email]
           good == Step(p, "save")
<1>5. Call(p, ok, after, good, Failed)
  BY <1>1, <1>3, <1>4 DEF PatchIdentity
<1>6. /\ p \in Running /\ req[p] \in Work /\ Placed(req[p]) /\ req[p].pc = "patch"
      /\ req[p].op = "update" /\ s \in Rows /\ i \in Logins /\ want \in Wanted
      /\ t \in Tenants /\ s # None
  <2>1. p \in Running /\ req[p] \in Work /\ Placed(req[p]) /\ req[p].pc = "patch"
    BY <1>0, StageRuns DEF PatchIdentity, Stages
  <2>2. /\ req[p].op \in Kinds /\ s \in Rows \cup {None} /\ want \in Wanted
        /\ i \in Logins \cup {None} /\ req[p].seen \in PersonRows
    BY <1>1, <1>2, <1>3, <2>1, WorkFields
  <2>3. req[p].op = "update" /\ s # None /\ i # None /\ req[p].seen.live
    BY <1>1, <1>2, <2>1, <2>2 DEF Placed, Kinds
  <2> QED
    BY <1>4, <2>1, <2>2, <2>3, PersonFields
<1>7. good \in Sent /\ RoleSafe(good)
  BY <1>6, StepIs DEF Sent, Placed, RoleSafe, Stages
<1>8. ASSUME login[i].live
      PROVE  /\ after \in [Logins -> LoginRows]
             /\ \A k \in Logins \ {i} : after[k] = login[k]
             /\ after[i].live /\ after[i].tenant \in {login[i].tenant, t}
  <2>1. /\ claims \in [Logins -> LoginRows] /\ \A k \in Logins \ {i} : claims[k] = login[k]
        /\ claims[i] \in Login /\ claims[i].live /\ claims[i].tenant \in {login[i].tenant, t}
    <3>1. CASE want.app = "unset"
      BY <1>0, <1>6, <1>8, <3>1, LoginFields DEF Types
    <3>2. CASE want.app # "unset"
      <4> DEFINE app == want.app
                 must == "unset"
                 merged == Merge(i, app, t, must)
      <4>1. /\ app \in AppRoles \cup {"platform_admin", "unset"} /\ t \in Tenants \cup {None}
            /\ must \in {"yes", "no", "unset"}
        BY <1>6, WantedFields
      <4>2. claims = merged
        BY <3>2
      <4> HIDE DEF app, claims, must
      <4>3. MergedIs(i, app, t, must, merged)
        BY <1>0, <1>6, <1>8, <4>1, MergeIs
      <4> HIDE DEF merged
      <4> QED
        BY <4>2, <4>3 DEF MergedIs
    <3> QED
      BY <3>1, <3>2
  <2> HIDE DEF claims
  <2>2. CASE want.email = None
    BY <2>1, <2>2
  <2>3. CASE want.email # None
    <3> DEFINE email == want.email
               l == [claims[i] EXCEPT !.email = email]
    <3>1. email \in Emails
      BY <1>6, <2>3, WantedFields
    <3>2. after = [claims EXCEPT ![i] = l]
      BY <2>3
    <3> HIDE DEF email, after
    <3>3. l \in Login /\ l.live = claims[i].live /\ l.tenant = claims[i].tenant
      BY <2>1, <3>1 DEF Login
    <3> HIDE DEF l
    <3> QED
      BY <1>6, <2>1, <3>2, <3>3 DEF LoginRows
  <2> QED
    BY <2>2, <2>3
<1> HIDE DEF claims, after
<1>9. TypeInv'
  <2> HIDE DEF good
  <2> QED
    BY <1>0, <1>5, <1>7, <1>8, EndedIs, EndedIsSafe, CallTypesIf
<1>10. /\ UNCHANGED <<staff, role>> /\ adrift \subseteq adrift'
       /\ \/ ok /\ login' = after /\ Goes(p, good) /\ adrift' = adrift
          \/ login' = login /\ Goes(p, Failed) /\ adrift' = adrift
          \/ /\ ok /\ login' = after /\ Goes(p, Failed)
             /\ adrift' = adrift \cup {k \in Logins : after[k] # login[k]}
  <2> HIDE DEF good, ok
  <2> QED
    BY <1>5, CallIs, EndedIs
<1>11. CASE ok /\ login' = after /\ Goes(p, good)
  <2>1. "save" \in Stages /\ Began(p)'
    BY <1>6, <1>11, BeganPlain DEF Stages
  <2>2. \A k \in Logins : login'[k].live => login[k].live
    BY <1>8, <1>11
  <2>3. Own(p)'
    BY <1>1, <1>6, <1>9, <1>10, <1>11, <2>1, <2>2, OwnOn
  <2>4. good \in Work /\ good.op = req[p].op /\ good.who = i /\ good.row = s /\ good.pc = "save"
    BY <1>1, <1>2, <1>6, <2>1, StepIs
  <2>5. Sound(i)' => t = staff[s].tenant
    BY <1>1, <1>2, <1>4, <1>6, <1>10, <1>11, <2>2, RunnerIs DEF Follows, Sound
  <2>6. ~Moving(p, s)
    BY <1>6 DEF Moving
  <2> HIDE DEF good
  <2>7. login[i].live /\ login'[i].live /\ \A k \in Logins \ {i} : login'[k] = login[k]
    BY <1>8, <1>11
  <2>8. login'[i].tenant \in {login[i].tenant, t}
    BY <1>8, <1>11
  <2>9. req[p].op \in Unlocked
    BY <1>6 DEF Unlocked
  <2> QED
    BY <1>1, <1>2, <1>6, <1>9, <1>10, <1>11, <2>3, <2>4, <2>5, <2>6, <2>7, <2>8, <2>9, ClaimWritten
<1>12. CASE Goes(p, Failed)
  <2>1. Goes(p, good) => FALSE
    <3>1. good # Failed
      BY <1>6, StepIs, EndedIs DEF Stages
    <3> HIDE DEF good
    <3> QED
      BY <1>0, <1>12, <3>1, GoesOthers
  <2> HIDE DEF good
  <2>2. \/ login' = login
        \/ /\ login' = after /\ adrift' = adrift \cup {k \in Logins : after[k] # login[k]}
           /\ \A k \in Logins \ {i} : after[k] = login[k]
           /\ login[i].live
    BY <1>8, <1>10, <2>1
  <2>3. req[p].pc \notin {"insert", "uncreate", "commit", "unclaim"}
    BY <1>6
  <2> QED
    BY <1>6, <1>9, <1>10, <1>12, <2>2, <2>3, CallFailed
<1> QED
  BY <1>10, <1>11, <1>12

\* What a merge of a role and a tenant leaves.
LEMMA ClaimsMerged ==
    ASSUME Types, NEW i \in Logins, login[i].live,
           NEW app \in AppRoles \cup {"platform_admin", "unset"}, NEW t \in Tenants
    PROVE  /\ Merge(i, app, t, "unset") \in [Logins -> LoginRows]
           /\ \A k \in Logins \ {i} : Merge(i, app, t, "unset")[k] = login[k]
           /\ Merge(i, app, t, "unset")[i].live
           /\ Merge(i, app, t, "unset")[i].tenant = t
           /\ app # "unset" => Merge(i, app, t, "unset")[i].app = app
           /\ Merge(i, app, t, "unset")[i].must = login[i].must
           /\ Akin(Merge(i, app, t, "unset")[i], login[i])
<1> DEFINE a == IF app = "unset" THEN login[i].app ELSE app
           l == [login[i] EXCEPT !.app = a, !.tenant = t]
<1>1. login[i] \in Login /\ login \in [Logins -> LoginRows]
  BY LoginFields DEF Types
<1>2. /\ l \in Login /\ l.live /\ l.email = login[i].email /\ l.banned = login[i].banned
      /\ l.app = a /\ l.tenant = t /\ l.must = login[i].must
  BY <1>1 DEF Login
<1>3. [login[i] EXCEPT !.app = a, !.tenant = t, !.must = login[i].must] = l
  BY <1>1 DEF Login
<1>4. Merge(i, app, t, "unset") = [login EXCEPT ![i] = l]
  BY <1>1, <1>3, NoneIsNothing DEF Merge, LoginRows, Login
<1> HIDE DEF l
<1> QED
  BY <1>1, <1>2, <1>4 DEF LoginRows, Akin

LEMMA ClaimTenantKeeps ==
    ASSUME IInv, NEW p \in Requests, ClaimTenant(p)
    PROVE  IInv'
<1>0. TypeInv /\ Types
  BY DEF IInv, TypeInv
<1>1. PICK i : i = req[p].who
  OBVIOUS
<1>2. PICK s : s = req[p].row
  OBVIOUS
<1>3. PICK t : t = req[p].want.tenant
  OBVIOUS
<1>4. PICK app : app = MovesAs(p)
  OBVIOUS
<1> DEFINE ok == login[i].live
           after == Merge(i, app, t, "unset")
           good == Step(p, "commit")
           bad == Step(p, "unclaim")
<1>5. /\ p \in Running /\ req[p] \in Work /\ Placed(req[p]) /\ req[p].pc = "claim"
      /\ req[p].op \in {"move", "demote"} /\ s \in Rows /\ i \in Logins
      /\ t \in Tenants /\ s # None /\ app \in AppRoles \cup {"platform_admin", "unset"}
      /\ i # None
  <2>1. p \in Running /\ req[p] \in Work /\ Placed(req[p]) /\ req[p].pc = "claim"
    BY <1>0, StageRuns DEF ClaimTenant, Stages
  <2>2. /\ req[p].op \in Kinds /\ s \in Rows \cup {None} /\ req[p].want \in Wanted
        /\ i \in Logins \cup {None}
    BY <1>1, <1>2, <2>1, WorkFields
  <2>3. req[p].op \in {"move", "demote"} /\ s # None /\ i # None /\ req[p].want.tenant # None
    BY <1>1, <1>2, <2>1, <2>2 DEF Placed, Kinds
  <2> QED
    BY <1>3, <1>4, <2>1, <2>2, <2>3, WantedFields, MovesAsIs
<1>6. Call(p, ok, after, good, bad)
  BY <1>1, <1>3, <1>4, <1>5 DEF ClaimTenant, Unclaim
<1>7. good \in Sent /\ RoleSafe(good) /\ bad \in Sent /\ RoleSafe(bad)
  <2>1. RoleSafe(req[p])
    BY <1>0, <1>5, RunningIsSafe
  <2> QED
    BY <1>5, <2>1, StepIs DEF Sent, Placed, RoleSafe, Stages
<1>8. ASSUME login[i].live
      PROVE  /\ after \in [Logins -> LoginRows]
             /\ \A k \in Logins \ {i} : after[k] = login[k]
             /\ after[i].live /\ after[i].tenant = t
             /\ after[i].must = login[i].must /\ Akin(after[i], login[i])
  BY <1>0, <1>5, <1>8, ClaimsMerged
<1> HIDE DEF after
<1>9. TypeInv'
  <2> HIDE DEF good, bad
  <2> QED
    BY <1>0, <1>6, <1>7, <1>8, CallTypesIf
<1>10. /\ UNCHANGED <<staff, role>> /\ adrift' = adrift
       /\ \/ ok /\ login' = after /\ Goes(p, good)
          \/ login' = login /\ Goes(p, bad)
          \/ ok /\ login' = after /\ Goes(p, bad)
  <2>1. bad.pc = "unclaim"
    BY <1>5, StepIs DEF Stages
  <2> HIDE DEF good, ok, bad
  <2> QED
    BY <1>6, <2>1, CallIs
<1>11. ASSUME NEW c \in {"commit", "unclaim"}, Goes(p, Step(p, c)), UNCHANGED <<staff>>,
              \A k \in Logins \ {i} : login'[k] = login[k],
              login' = login \/ (Akin(login'[i], login[i]) /\ login'[i].must = login[i].must)
       PROVE  Began(p)'
  <2>1. req'[p] = Step(p, c) /\ c \in Stages
    BY <1>0, <1>11, GoesOthers DEF Stages
  <2>2. /\ req'[p].pc = c /\ req'[p].op = req[p].op /\ req'[p].who = i
        /\ req'[p].row = req[p].row /\ req'[p].was = req[p].was /\ req'[p].alone = req[p].alone
        /\ req'[p].before = req[p].before /\ req'[p] \in Work /\ req'[p].seen = req[p].seen
    BY <1>1, <1>5, <2>1, StepIs
  <2>3. Running' = Running
    BY <1>0, <1>5, <1>11, <2>1, <2>2, RunningThen
  <2>4. Began(p)
    BY <1>5, RunnerIs
  <2> QED
    BY <1>1, <1>5, <1>11, <2>2, <2>3, <2>4 DEF Began, Akin
<1>12. CASE login' = login /\ Goes(p, bad)
  <2>1. "unclaim" \in Stages /\ Began(p)'
    BY <1>10, <1>11, <1>12 DEF Stages
  <2> QED
    BY <1>5, <1>9, <1>10, <1>12, <2>1, SameLogins, SameRows, QuietOn
<1>13. ASSUME NEW c \in {"commit", "unclaim"}, ok, login' = after, Goes(p, Step(p, c))
       PROVE  IInv'
  <2>1. c \in Stages /\ Began(p)'
    BY <1>8, <1>10, <1>11, <1>13 DEF Stages
  <2>2. /\ \A k \in Logins : login'[k].live => login[k].live
        /\ login[i].live /\ login'[i].live /\ \A k \in Logins \ {i} : login'[k] = login[k]
        /\ login'[i].tenant = t
    BY <1>8, <1>13
  <2>3. Own(p)'
    BY <1>1, <1>3, <1>5, <1>9, <1>10, <1>13, <2>1, <2>2, OwnOn
  <2>4. PICK r : r = Step(p, c)
    OBVIOUS
  <2>5. r \in Work /\ r.op = req[p].op /\ r.who = i /\ r.row = s /\ r.pc = c
    BY <1>1, <1>2, <1>5, <2>1, <2>4, StepIs
  <2>6. InMove(p) /\ (req[p].op \in Unlocked \/ (req[p].op = "move" /\ InMove(p)))
    BY <1>5 DEF Unlocked, InMove
  <2> HIDE DEF good, bad
  <2> QED
    BY <1>1, <1>2, <1>5, <1>9, <1>10, <1>13, <2>2, <2>3, <2>4, <2>5, <2>6, ClaimWritten
<1> QED
  BY <1>10, <1>12, <1>13

LEMMA UndoClaimKeeps ==
    ASSUME IInv, NEW p \in Requests, UndoClaim(p)
    PROVE  IInv'
<1>0. TypeInv /\ Types
  BY DEF IInv, TypeInv
<1>1. PICK i : i = req[p].who
  OBVIOUS
<1>2. PICK s : s = req[p].row
  OBVIOUS
<1>3. PICK t : t = req[p].seen.tenant
  OBVIOUS
<1>4. PICK app : app = MovesAs(p)
  OBVIOUS
<1> DEFINE after == Merge(i, app, t, "unset")
<1>5. /\ p \in Running /\ req[p] \in Work /\ Placed(req[p]) /\ req[p].pc = "unclaim"
      /\ req[p].op \in {"move", "demote"} /\ s \in Rows /\ i \in Logins
      /\ t \in Tenants /\ s # None /\ app \in AppRoles \cup {"platform_admin", "unset"}
  <2>1. p \in Running /\ req[p] \in Work /\ Placed(req[p]) /\ req[p].pc = "unclaim"
    BY <1>0, StageRuns DEF UndoClaim, Stages
  <2>2. /\ req[p].op \in Kinds /\ s \in Rows \cup {None} /\ req[p].want \in Wanted
        /\ i \in Logins \cup {None} /\ req[p].seen \in PersonRows
    BY <1>1, <1>2, <2>1, WorkFields
  <2>3. req[p].op \in {"move", "demote"} /\ s # None /\ i # None /\ req[p].seen.live
    BY <1>1, <1>2, <2>1, <2>2 DEF Placed, Kinds
  <2> QED
    BY <1>3, <1>4, <2>1, <2>2, <2>3, WantedFields, PersonFields, MovesAsIs
<1>6. Undo(p, login[i].live, after, TRUE)
  BY <1>1, <1>3, <1>4, <1>5 DEF UndoClaim
<1>8. ASSUME login[i].live
      PROVE  /\ after \in [Logins -> LoginRows]
             /\ \A k \in Logins \ {i} : after[k] = login[k]
             /\ after[i].live /\ after[i].tenant = t
  BY <1>0, <1>5, <1>8, ClaimsMerged
<1> HIDE DEF after
<1>9. TypeInv'
  BY <1>0, <1>1, <1>5, <1>6, <1>8, UndoTypesIf
<1>10. /\ UNCHANGED <<staff, role>> /\ adrift \subseteq adrift' /\ Goes(p, Failed)
       /\ login' = login \/ (login[i].live /\ login' = after)
       /\ (login[i].live /\ login' = after /\ req[p].alone) \/ i \in adrift'
  BY <1>1, <1>6 DEF Undo
<1>11. CASE i \in adrift'
  BY <1>1, <1>5, <1>8, <1>9, <1>10, <1>11, UndoFailed
<1>12. CASE login[i].live /\ login' = after /\ req[p].alone
  <2>1. Sound(i)' => login'[i].tenant = staff[s].tenant
    <3> SUFFICES ASSUME Sound(i)'
                 PROVE  t = staff[s].tenant
      BY <1>8, <1>12
    <3>1. Sound(i)
      BY <1>10, <1>12 DEF Sound
    <3>2. staff[s].live
      BY <1>1, <1>2, <1>5, <3>1, LinkedHolds
    <3> QED
      BY <1>2, <1>3, <1>5, <1>12, <3>2, RunnerIs DEF Began
  <2>2. login'[i].live /\ \A k \in Logins \ {i} : login'[k] = login[k]
    BY <1>8, <1>12
  <2> QED
    BY <1>1, <1>2, <1>5, <1>9, <1>10, <1>12, <2>1, <2>2, EndedIs, ClaimWritten
<1> QED
  BY <1>10, <1>11, <1>12

LEMMA GrantKeeps ==
    ASSUME IInv, NEW p \in Requests, Grant(p)
    PROVE  IInv'
<1>0. TypeInv /\ Types
  BY DEF IInv, TypeInv
<1>1. PICK i : i = req[p].who
  OBVIOUS
<1>2. PICK s : s = req[p].row
  OBVIOUS
<1>3. PICK t : t = req[p].seen.tenant
  OBVIOUS
<1>4. PICK app : app = "platform_admin"
  OBVIOUS
<1> DEFINE ok == login[i].live
           after == Merge(i, app, t, "unset")
           good == Step(p, "record")
<1>5. /\ p \in Running /\ req[p] \in Work /\ Placed(req[p]) /\ req[p].pc = "grant"
      /\ req[p].op = "promote" /\ s \in Rows /\ i \in Logins
      /\ t \in Tenants /\ s # None /\ app \in AppRoles \cup {"platform_admin", "unset"}
  <2>1. p \in Running /\ req[p] \in Work /\ Placed(req[p]) /\ req[p].pc = "grant"
    BY <1>0, StageRuns DEF Grant, Stages
  <2>2. /\ req[p].op \in Kinds /\ s \in Rows \cup {None} /\ req[p].want \in Wanted
        /\ i \in Logins \cup {None} /\ req[p].seen \in PersonRows
    BY <1>1, <1>2, <2>1, WorkFields
  <2>3. req[p].op = "promote" /\ s # None /\ i # None /\ req[p].seen.live
    BY <1>1, <1>2, <2>1, <2>2 DEF Placed, Kinds
  <2> QED
    BY <1>3, <1>4, <2>1, <2>2, <2>3, PersonFields
<1>6. Call(p, ok, after, good, Failed)
  BY <1>1, <1>3, <1>4 DEF Grant
<1>7. good \in Sent /\ RoleSafe(good)
  BY <1>5, StepIs DEF Sent, Placed, RoleSafe, Stages
<1>8. ASSUME login[i].live
      PROVE  /\ after \in [Logins -> LoginRows]
             /\ \A k \in Logins \ {i} : after[k] = login[k]
             /\ after[i].live /\ after[i].tenant = t
             /\ after[i].must = login[i].must /\ Akin(after[i], login[i])
  <2>1. /\ after \in [Logins -> LoginRows]
        /\ \A k \in Logins \ {i} : after[k] = login[k]
        /\ after[i].live /\ after[i].tenant = t
    BY <1>0, <1>5, <1>8, ClaimsMerged
  <2>2. after[i].must = login[i].must /\ Akin(after[i], login[i])
    BY <1>0, <1>5, <1>8, ClaimsMerged
  <2> QED
    BY <2>1, <2>2
<1> HIDE DEF after
<1>9. TypeInv'
  <2> HIDE DEF good
  <2> QED
    BY <1>0, <1>6, <1>7, <1>8, EndedIs, EndedIsSafe, CallTypesIf
<1>10. /\ UNCHANGED <<staff, role>> /\ adrift \subseteq adrift'
       /\ \/ ok /\ login' = after /\ Goes(p, good) /\ adrift' = adrift
          \/ /\ Goes(p, Failed)
             /\ \/ login' = login
                \/ ok /\ login' = after /\ adrift' = adrift \cup {k \in Logins : after[k] # login[k]}
  <2> HIDE DEF good, ok
  <2> QED
    BY <1>6, CallIs, EndedIs
<1>11. CASE ok /\ login' = after /\ Goes(p, good)
  <2>0. /\ \A k \in Logins : login'[k].live => login[k].live
        /\ login[i].live /\ login'[i].live /\ \A k \in Logins \ {i} : login'[k] = login[k]
        /\ login'[i].tenant = t /\ Akin(login'[i], login[i]) /\ login'[i].must = login[i].must
    BY <1>8, <1>11
  <2>1. Began(p)'
    <3>1. req'[p] = good /\ "record" \in Stages
      BY <1>0, <1>11, GoesOthers DEF Stages
    <3>2. /\ req'[p].pc = "record" /\ req'[p].op = req[p].op /\ req'[p].who = i
          /\ req'[p].row = req[p].row /\ req'[p].was = req[p].was /\ req'[p].alone = req[p].alone
          /\ req'[p].before = req[p].before /\ req'[p] \in Work
      BY <1>1, <1>5, <3>1, StepIs
    <3>3. Running' = Running
      BY <1>0, <1>5, <1>11, <3>1, <3>2, RunningThen
    <3>4. Began(p)
      BY <1>5, RunnerIs
    <3> QED
      BY <1>1, <1>5, <2>0, <3>2, <3>3, <3>4 DEF Began, Akin
  <2>2. "record" \in Stages
    BY DEF Stages
  <2>3. Own(p)'
    BY <1>1, <1>5, <1>9, <1>10, <1>11, <2>0, <2>1, <2>2, OwnOn
  <2>4. good \in Work /\ good.op = req[p].op /\ good.who = i /\ good.row = s /\ good.pc = "record"
    BY <1>1, <1>2, <1>5, <2>2, StepIs
  <2>5. Sound(i)' => t = staff[s].tenant
    BY <1>1, <1>2, <1>3, <1>5, <1>10, <2>0, RunnerIs DEF Follows, Sound
  <2> HIDE DEF good
  <2>6. req[p].op \in Unlocked
    BY <1>5 DEF Unlocked
  <2> QED
    BY <1>1, <1>2, <1>5, <1>9, <1>10, <1>11, <2>0, <2>3, <2>4, <2>5, <2>6, ClaimWritten
<1>12. CASE /\ Goes(p, Failed)
            /\ \/ login' = login
               \/ ok /\ login' = after /\ adrift' = adrift \cup {k \in Logins : after[k] # login[k]}
  BY <1>5, <1>8, <1>9, <1>10, <1>12, CallFailed
<1> QED
  BY <1>10, <1>11, <1>12

LEMMA UndoGrantKeeps ==
    ASSUME IInv, NEW p \in Requests, UndoGrant(p)
    PROVE  IInv'
<1>0. TypeInv /\ Types
  BY DEF IInv, TypeInv
<1>1. PICK i : i = req[p].who
  OBVIOUS
<1>2. PICK s : s = req[p].row
  OBVIOUS
<1>3. PICK t : t = req[p].seen.tenant
  OBVIOUS
<1>4. PICK app : app = req[p].want.app
  OBVIOUS
<1> DEFINE after == Merge(i, app, t, "unset")
<1>5. /\ p \in Running /\ req[p] \in Work /\ Placed(req[p]) /\ req[p].pc = "ungrant"
      /\ req[p].op = "promote" /\ s \in Rows /\ i \in Logins
      /\ t \in Tenants /\ s # None /\ app \in AppRoles \cup {"platform_admin", "unset"}
  <2>1. p \in Running /\ req[p] \in Work /\ Placed(req[p]) /\ req[p].pc = "ungrant"
    BY <1>0, StageRuns DEF UndoGrant, Stages
  <2>2. /\ req[p].op \in Kinds /\ s \in Rows \cup {None} /\ req[p].want \in Wanted
        /\ i \in Logins \cup {None} /\ req[p].seen \in PersonRows
    BY <1>1, <1>2, <2>1, WorkFields
  <2>3. req[p].op = "promote" /\ s # None /\ i # None /\ req[p].seen.live
    BY <1>1, <1>2, <2>1, <2>2 DEF Placed, Kinds
  <2> QED
    BY <1>3, <1>4, <2>1, <2>2, <2>3, WantedFields, PersonFields
<1>6. Undo(p, login[i].live, after, TRUE)
  BY <1>1, <1>3, <1>4 DEF UndoGrant
<1>8. ASSUME login[i].live
      PROVE  /\ after \in [Logins -> LoginRows]
             /\ \A k \in Logins \ {i} : after[k] = login[k]
             /\ after[i].live /\ after[i].tenant = t
  BY <1>0, <1>5, <1>8, ClaimsMerged
<1> HIDE DEF after
<1>9. TypeInv'
  BY <1>0, <1>1, <1>5, <1>6, <1>8, UndoTypesIf
<1>10. /\ UNCHANGED <<staff, role>> /\ adrift \subseteq adrift' /\ Goes(p, Failed)
       /\ login' = login \/ (login[i].live /\ login' = after)
       /\ (login[i].live /\ login' = after /\ req[p].alone) \/ i \in adrift'
  BY <1>1, <1>6 DEF Undo
<1>11. CASE i \in adrift'
  BY <1>1, <1>5, <1>8, <1>9, <1>10, <1>11, UndoFailed
<1>12. CASE login[i].live /\ login' = after /\ req[p].alone
  <2>1. Sound(i)' => login'[i].tenant = staff[s].tenant
    BY <1>1, <1>2, <1>3, <1>5, <1>8, <1>10, <1>12, RunnerIs DEF Follows, Sound
  <2>2. login'[i].live /\ \A k \in Logins \ {i} : login'[k] = login[k]
    BY <1>8, <1>12
  <2> QED
    BY <1>1, <1>2, <1>5, <1>9, <1>10, <1>12, <2>1, <2>2, EndedIs, ClaimWritten
<1> QED
  BY <1>10, <1>11, <1>12

LEMMA RevokeKeeps ==
    ASSUME IInv, NEW p \in Requests, Revoke(p)
    PROVE  IInv'
<1>0. TypeInv /\ Types
  BY DEF IInv, TypeInv
<1>1. PICK i : i = req[p].who
  OBVIOUS
<1>2. PICK s : s = req[p].row
  OBVIOUS
<1>3. PICK t : t = req[p].want.tenant
  OBVIOUS
<1>4. PICK app : app = req[p].want.app
  OBVIOUS
<1> DEFINE ok == login[i].live
           after == Merge(i, app, t, "unset")
           good == Step(p, "recorded")
<1>5. /\ p \in Running /\ req[p] \in Work /\ Placed(req[p]) /\ req[p].pc = "revoke"
      /\ req[p].op = "demote" /\ s \in Rows /\ i \in Logins
      /\ t \in Tenants /\ s # None /\ app \in AppRoles \cup {"platform_admin", "unset"}
  <2>1. p \in Running /\ req[p] \in Work /\ Placed(req[p]) /\ req[p].pc = "revoke"
    BY <1>0, StageRuns DEF Revoke, Stages
  <2>2. /\ req[p].op \in Kinds /\ s \in Rows \cup {None} /\ req[p].want \in Wanted
        /\ i \in Logins \cup {None}
    BY <1>1, <1>2, <2>1, WorkFields
  <2>3. req[p].op = "demote" /\ s # None /\ i # None /\ req[p].want.tenant # None
    BY <1>1, <1>2, <2>1, <2>2 DEF Placed, Kinds
  <2> QED
    BY <1>3, <1>4, <2>1, <2>2, <2>3, WantedFields
<1>6. Call(p, ok, after, good, Failed)
  BY <1>1, <1>3, <1>4 DEF Revoke
<1>7. good \in Sent /\ RoleSafe(good)
  BY <1>5, StepIs DEF Sent, Placed, RoleSafe, Stages
<1>8. ASSUME login[i].live
      PROVE  /\ after \in [Logins -> LoginRows]
             /\ \A k \in Logins \ {i} : after[k] = login[k]
             /\ after[i].live /\ after[i].tenant = t
  BY <1>0, <1>5, <1>8, ClaimsMerged
<1> HIDE DEF after
<1>9. TypeInv'
  <2> HIDE DEF good
  <2> QED
    BY <1>0, <1>6, <1>7, <1>8, EndedIs, EndedIsSafe, CallTypesIf
<1>10. /\ UNCHANGED <<staff, role>> /\ adrift \subseteq adrift'
       /\ \/ ok /\ login' = after /\ Goes(p, good) /\ adrift' = adrift
          \/ /\ Goes(p, Failed)
             /\ \/ login' = login
                \/ ok /\ login' = after /\ adrift' = adrift \cup {k \in Logins : after[k] # login[k]}
  <2> HIDE DEF good, ok
  <2> QED
    BY <1>6, CallIs, EndedIs
<1>11. CASE ok /\ login' = after /\ Goes(p, good)
  <2>0. /\ \A k \in Logins : login'[k].live => login[k].live
        /\ login[i].live /\ login'[i].live /\ \A k \in Logins \ {i} : login'[k] = login[k]
        /\ login'[i].tenant = t
    BY <1>8, <1>11
  <2>1. "recorded" \in Stages /\ Began(p)'
    BY <1>5, <1>11, BeganPlain DEF Stages
  <2>3. Own(p)'
    BY <1>1, <1>5, <1>9, <1>10, <1>11, <2>0, <2>1, OwnOn
  <2>4. good \in Work /\ good.op = req[p].op /\ good.who = i /\ good.row = s /\ good.pc = "recorded"
    BY <1>1, <1>2, <1>5, <2>1, StepIs
  <2>5. Sound(i)' => t = staff[s].tenant
    BY <1>1, <1>2, <1>3, <1>5, <1>10, <2>0, RunnerIs DEF Follows, Sound
  <2> HIDE DEF good
  <2>6. req[p].op \in Unlocked
    BY <1>5 DEF Unlocked
  <2> QED
    BY <1>1, <1>2, <1>5, <1>9, <1>10, <1>11, <2>0, <2>3, <2>4, <2>5, <2>6, ClaimWritten
<1>12. CASE /\ Goes(p, Failed)
            /\ \/ login' = login
               \/ ok /\ login' = after /\ adrift' = adrift \cup {k \in Logins : after[k] # login[k]}
  BY <1>5, <1>8, <1>9, <1>10, <1>12, CallFailed
<1> QED
  BY <1>10, <1>11, <1>12

-----------------------------------------------------------------------------
(* Creations.                                                              *)

\* The login of a creation gets its claims; the row is still to come.
LEMMA CreationWrites ==
    ASSUME IInv, TypeInv', NEW p \in Running, NEW i \in Logins, NEW r \in Work,
           req[p].op = "create", req[p].pc \in {"identity", "adopt"},
           Goes(p, r), r.op = "create", r.pc = "insert", r.who = i, r.want = req[p].want,
           r.row = req[p].row,
           UNCHANGED <<staff, role, adrift>>, \A k \in Logins \ {i} : login'[k] = login[k],
           login'[i].live, login'[i].tenant = r.want.tenant,
           (Used(i) /\ login[i].live) \/ (i = p /\ ~Used(p)), Began(p)'
    PROVE  IInv'
<1>1. p \in Requests /\ TypeInv /\ Others(p) /\ req'[p] = r /\ Running' = Running
      /\ Entered(req[p].row) /\ req[p] \in Work
  BY RunnerIs, GoesOthers, RunningThen DEF IInv
<1>2. Used(p)' /\ (Entered(p) => Entered(p)')
  <2>1. Used(p)'
    BY <1>1 DEF Used
  <2>2. ~Entered(p)
    BY <1>1, WorkFields DEF Entered
  <2> QED
    BY <2>1, <2>2
<1>3. \A k : Sound(k)' => Sound(k) \/ (k = i /\ ~Used(k))
  BY DEF Sound
<1>4. Contending(p, i)' /\ \A k : ~Contending(p, k)
  BY <1>1 DEF Contending
<1>5. \A k : Held(k)' <=> Held(k)
  BY DEF Held
<1>6. Conserves(p)
  <2>1. \A k : Sound(k)' => Sound(k) \/ (~Used(k) /\ Contending(p, k)')
    BY <1>3, <1>4 DEF Contending
  <2>2. ASSUME NEW k, Sound(k)', Sound(k)
        PROVE  login'[k].tenant = login[k].tenant \/ Contending(p, k)'
    BY <1>4, <2>2 DEF Sound, Contending
  <2> QED
    BY <1>4, <1>5, <2>1, <2>2 DEF Conserves
<1>7. LinksStay(p) /\ TenantsStay(p) /\ LeavesAlone(p)
  BY <1>1 DEF LinksStay, TenantsStay, LeavesAlone
<1>8. Names(p)
  BY <1>2 DEF Names, Used
<1>9. MayKnow(p)
  BY <1>1 DEF MayKnow, Unlocked
<1>10. MayLock(p)
  BY <1>1, RowsLocked DEF MayLock, InMove
<1>11. Unique'
  BY DEF IInv, Unique
<1>12. Linked(p)' /\ Follows(p)' /\ Awaits(p)'
  BY <1>1 DEF Linked, Follows, Awaits, Promise
<1>13. Used(req[p].who)' /\ Entered(req[p].row)'
  <2>1. PICK j : j = req[p].row
    OBVIOUS
  <2>2. Entered(j)'
    BY <1>1, <1>2, <2>1, EnteredStays
  <2>3. Used(i)'
    <3>1. CASE i = p
      BY <1>2, <3>1 DEF Used
    <3>2. CASE i # p
      BY <1>1, <1>2, <3>2, UsedStays
    <3> QED
      BY <3>1, <3>2
  <2> QED
    BY <1>1, <2>1, <2>2, <2>3 DEF Used, Entered
<1>14. Own(p)'
  BY <1>12, <1>13 DEF Own
<1>15. ASSUME NEW k \in Rows, staff'[k].live, Sound(staff[k].login)'
       PROVE  Agrees(k)' \/ AgreesStill(p, k)
  <2>1. PICK j : j = staff'[k].login
    OBVIOUS
  <2>2. Sound(j)' /\ j \in Logins /\ staff[k].live /\ Used(j)
    BY <1>15, <2>1 DEF Sound, IInv, Identities
  <2>3. CASE j = i
    BY <1>1, <1>4, <2>1, <2>3 DEF Agrees, Contested, Contending
  <2>4. CASE j # i
    <3>1. ~Moving(p, k)
      BY <1>1 DEF Moving
    <3> QED
      BY <1>3, <1>4, <2>1, <2>2, <2>4, <3>1 DEF AgreesStill, SameRow
  <2> QED
    BY <2>3, <2>4
<1>16. ASSUME NEW k \in Logins, Sound(k)', Opens(k)'
       PROVE  Contending(p, k)' \/ OpensStill(p, k)
  <2>1. CASE k = i
    BY <1>4, <2>1
  <2>2. CASE k # i
    BY <1>3, <1>4, <1>5, <1>16, <2>2 DEF OpensStill, Opens
  <2> QED
    BY <2>1, <2>2
<1> QED
  BY <1>1, <1>6, <1>7, <1>8, <1>9, <1>10, <1>11, <1>14, <1>15, <1>16, StepKeeps

LEMMA AdoptKeeps ==
    ASSUME IInv, NEW p \in Requests, Adopt(p)
    PROVE  IInv'
<1>0. TypeInv /\ Types
  BY DEF IInv, TypeInv
<1>1. PICK i : i = req[p].who
  OBVIOUS
<1>2. PICK want : want = req[p].want
  OBVIOUS
<1> DEFINE ok == login[i].live
           app == want.app
           t == want.tenant
           must == want.must
           after == Merge(i, app, t, must)
           good == Step(p, "insert")
<1>3. /\ p \in Running /\ req[p] \in Work /\ Placed(req[p]) /\ req[p].pc = "adopt"
      /\ req[p].op = "create" /\ i \in Logins /\ req[p].was.live
      /\ t \in Tenants \cup {None} /\ app \in AppRoles \cup {"platform_admin", "unset"}
      /\ must \in {"yes", "no", "unset"} /\ t # None /\ app # "unset" /\ must # "unset"
  <2>1. p \in Running /\ req[p] \in Work /\ Placed(req[p]) /\ req[p].pc = "adopt"
    BY <1>0, StageRuns DEF Adopt, Stages
  <2>2. req[p].op \in Kinds /\ want \in Wanted /\ i \in Logins \cup {None}
    BY <1>1, <1>2, <2>1, WorkFields
  <2>3. /\ req[p].op = "create" /\ i # None /\ t # None /\ req[p].was.live
        /\ app \in AppRoles /\ must # "unset"
    BY <1>1, <1>2, <2>1, <2>2 DEF Placed, Kinds
  <2> QED
    BY <2>1, <2>2, <2>3, WantedFields DEF AppRoles
<1>4. Call(p, ok, after, good, Failed)
  BY <1>1, <1>2 DEF Adopt
<1>5. good \in Sent /\ RoleSafe(good)
  BY <1>3, StepIs DEF Sent, Placed, RoleSafe, Stages
<1> HIDE DEF app, t, must
<1>6. ASSUME login[i].live
      PROVE  /\ after \in [Logins -> LoginRows]
             /\ \A k \in Logins \ {i} : after[k] = login[k]
             /\ after[i].live /\ after[i].tenant = t /\ Akin(after[i], login[i])
             /\ after[i].app = app /\ after[i].must = must
  <2>1. MergedIs(i, app, t, must, after)
    BY <1>0, <1>3, <1>6, MergeIs
  <2> HIDE DEF after
  <2> QED
    BY <1>3, <1>6, <2>1 DEF MergedIs, Akin
<1> HIDE DEF after
<1>7. TypeInv'
  <2> HIDE DEF good
  <2> QED
    BY <1>0, <1>4, <1>5, <1>6, EndedIs, EndedIsSafe, CallTypesIf
<1>8. /\ UNCHANGED <<staff, role>> /\ adrift \subseteq adrift'
      /\ \/ ok /\ login' = after /\ Goes(p, good) /\ adrift' = adrift
         \/ /\ Goes(p, Failed)
            /\ \/ login' = login
               \/ ok /\ login' = after /\ adrift' = adrift \cup {k \in Logins : after[k] # login[k]}
  <2> HIDE DEF good, ok
  <2> QED
    BY <1>4, CallIs, EndedIs
<1>9. CASE ok /\ login' = after /\ Goes(p, good) /\ adrift' = adrift
  <2>0. /\ login[i].live /\ login'[i].live /\ \A k \in Logins \ {i} : login'[k] = login[k]
        /\ login'[i].tenant = t /\ Akin(login'[i], login[i])
        /\ login'[i].app = app /\ login'[i].must = must
    BY <1>6, <1>9
  <2>1. req'[p] = good /\ "insert" \in Stages
    BY <1>0, <1>9, GoesOthers DEF Stages
  <2>2. /\ good.pc = "insert" /\ good.op = "create" /\ good.who = i /\ good.want = want
        /\ good.row = req[p].row /\ good.was = req[p].was /\ good.alone = req[p].alone
        /\ good.before = req[p].before /\ good \in Work
    BY <1>1, <1>2, <1>3, <2>1, StepIs
  <2> HIDE DEF good
  <2>3. Began(p)'
    <3>1. Running' = Running
      BY <1>0, <1>3, <1>9, <2>2, RunningThen
    <3>2. Began(p)
      BY <1>3, RunnerIs
    <3>3. (Sound(i)' => Sound(i)) /\ (Held(i)' <=> Held(i))
      BY <1>8, <1>9, <2>0 DEF Sound, Held
    <3>4. \A k \in Rows : staff'[k] = staff[k]
      BY <1>8
    <3>5. want.tenant = t /\ want.app = app /\ want.must = must
      BY DEF t, app, must
    <3> QED
      BY <1>1, <1>2, <1>3, <1>8, <2>0, <2>1, <2>2, <3>1, <3>2, <3>3, <3>5 DEF Began, Akin
  <2>4. Used(i)
    BY <1>1, <1>3, RunnerIs
  <2> QED
    BY <1>2, <1>3, <1>7, <1>8, <1>9, <2>0, <2>2, <2>3, <2>4, CreationWrites DEF t
<1>10. CASE /\ Goes(p, Failed)
            /\ \/ login' = login
               \/ ok /\ login' = after /\ adrift' = adrift \cup {k \in Logins : after[k] # login[k]}
  BY <1>3, <1>6, <1>7, <1>8, <1>10, CallFailed
<1> QED
  BY <1>8, <1>9, <1>10

LEMMA CreateUserKeeps ==
    ASSUME IInv, NEW p \in Requests, CreateUser(p)
    PROVE  IInv'
<1>0. TypeInv /\ Types
  BY DEF IInv, TypeInv
<1>1. PICK want : want = req[p].want
  OBVIOUS
<1> DEFINE made == [live |-> TRUE, email |-> want.email, app |-> want.app,
                    tenant |-> want.tenant, must |-> want.must, banned |-> FALSE]
<1>2. /\ p \in Running /\ req[p] \in Work /\ Placed(req[p]) /\ req[p].pc = "identity"
      /\ req[p].op = "create" /\ p \in Logins /\ req[p].who = None /\ req[p].was = Absent
      /\ req[p].row = None
      /\ want.tenant \in Tenants /\ want.app \in AppRoles /\ want.email \in Emails
      /\ want.must \in {"yes", "no"}
  <2>1. p \in Running /\ req[p] \in Work /\ Placed(req[p]) /\ req[p].pc = "identity"
    BY <1>0, StageRuns DEF CreateUser, Stages
  <2>2. req[p].op \in Kinds /\ want \in Wanted
    BY <1>1, <2>1, WorkFields
  <2>3. /\ req[p].op = "create" /\ req[p].who = None /\ want.tenant # None /\ want.email # None
        /\ want.app \in AppRoles /\ want.must # "unset" /\ req[p].was = Absent /\ req[p].row = None
    BY <1>1, <2>1, <2>2 DEF Placed, Kinds
  <2> QED
    BY <2>1, <2>2, <2>3, WantedFields DEF Logins
<1>3. ~Used(p) /\ login[p] = Absent
  <2>1. ~Used(p)
    BY <1>2 DEF Used
  <2>2. ~login[p].live
    BY <1>2, <2>1 DEF IInv, Identities
  <2> QED
    BY <1>0, <1>2, <2>1, <2>2 DEF Types, LoginRows, Login
<1>4. ASSUME Call(p, TRUE, [login EXCEPT ![p] = made],
                  [Step(p, "insert") EXCEPT !.who = p], Failed)
      PROVE  IInv'
  <2> DEFINE after == [login EXCEPT ![p] = made]
             e == Step(p, "insert")
             good == [e EXCEPT !.who = p]
  <2>1. /\ e \in Work /\ e.pc = "insert" /\ e.op = "create" /\ e.want = want
        /\ e.row = None /\ e.was = Absent /\ e.alone = req[p].alone /\ e.before = req[p].before
    BY <1>1, <1>2, StepIs DEF Stages
  <2> HIDE DEF e
  <2>2. /\ good \in Work /\ good.pc = "insert" /\ good.op = "create" /\ good.want = want
        /\ good.row = None /\ good.was = Absent /\ good.alone = req[p].alone
        /\ good.before = req[p].before /\ good.who = p
    BY <1>2, <2>1 DEF Work
  <2>3. made \in Login /\ made.live /\ made.tenant = want.tenant
    BY <1>2 DEF Login
  <2> HIDE DEF made
  <2>4. /\ after \in [Logins -> LoginRows] /\ after[p] = made
        /\ \A k \in Logins \ {p} : after[k] = login[k]
    BY <1>0, <1>2, <2>3 DEF Types, LoginRows
  <2>5. Call(p, TRUE, after, good, Failed)
    BY <1>4 DEF made, e
  <2> HIDE DEF after, good
  <2>6. good \in Sent /\ RoleSafe(good)
    BY <1>2, <2>2, NoneIsNothing, AbsentIsDead DEF Sent, Placed, RoleSafe
  <2>7. TypeInv'
    BY <1>0, <2>4, <2>5, <2>6, EndedIs, EndedIsSafe, CallTypes
  <2>8. /\ UNCHANGED <<staff, role>> /\ adrift \subseteq adrift'
        /\ \/ login' = after /\ Goes(p, good) /\ adrift' = adrift
           \/ /\ Goes(p, Failed)
              /\ \/ login' = login
                 \/ login' = after /\ adrift' = adrift \cup {k \in Logins : after[k] # login[k]}
    BY <2>5, CallIs, EndedIs
  <2>9. CASE login' = after /\ Goes(p, good) /\ adrift' = adrift
    <3>1. req'[p] = good /\ Running' = Running
      BY <1>0, <1>2, <2>2, <2>9, GoesOthers, RunningThen
    <3>2. /\ login'[p].live /\ login'[p].tenant = good.want.tenant
          /\ \A k \in Logins \ {p} : login'[k] = login[k]
      BY <2>2, <2>3, <2>4, <2>9
    <3>3. Began(p)'
      <4>1. Began(p)
        BY <1>2, RunnerIs
      <4>2. req[p].alone => req[p].before = login
        BY <1>2, <4>1 DEF Began
      <4> QED
        BY <1>0, <1>2, <1>3, <2>2, <3>1, <3>2, <4>1, <4>2, AbsentIsDead DEF Began, Types
    <3> QED
      BY <1>1, <1>2, <1>3, <2>2, <2>7, <2>8, <2>9, <3>2, <3>3, CreationWrites
  <2>10. CASE /\ Goes(p, Failed)
              /\ \/ login' = login
                 \/ login' = after /\ adrift' = adrift \cup {k \in Logins : after[k] # login[k]}
    BY <1>2, <1>3, <2>4, <2>7, <2>8, <2>10, CallFailed
  <2> QED
    BY <2>8, <2>9, <2>10
<1>5. ASSUME NEW i \in Live(login),
             Call(p, login[i].tenant \in {None, want.tenant}, login,
                  [Step(p, "adopt") EXCEPT !.who = i, !.was = login[i]], Failed)
      PROVE  IInv'
  <2> DEFINE ok == login[i].tenant \in {None, want.tenant}
             e == Step(p, "adopt")
             good == [e EXCEPT !.who = i, !.was = login[i]]
  <2>1. /\ e \in Work /\ e.pc = "adopt" /\ e.op = "create" /\ e.want = want
        /\ e.row = None /\ e.alone = req[p].alone /\ e.before = req[p].before
    BY <1>1, <1>2, StepIs DEF Stages
  <2>2. i \in Logins /\ login[i] \in LoginRows /\ login[i].live /\ Used(i) /\ i # None
    BY <1>0, ReadIs, NoneIsNothing DEF Types
  <2> HIDE DEF e
  <2>3. /\ good \in Work /\ good.pc = "adopt" /\ good.op = "create" /\ good.want = want
        /\ good.row = None /\ good.was = login[i] /\ good.alone = req[p].alone
        /\ good.before = req[p].before /\ good.who = i
    BY <2>1, <2>2 DEF Work
  <2>4. Call(p, ok, login, good, Failed)
    BY <1>5 DEF e
  <2> HIDE DEF good
  <2>5. good \in Sent /\ RoleSafe(good)
    BY <1>2, <2>2, <2>3, NoneIsNothing DEF Sent, Placed, RoleSafe
  <2>6. TypeInv'
    <3> HIDE DEF ok
    <3>1. login \in [Logins -> LoginRows]
      BY <1>0 DEF Types
    <3> QED
      BY <1>0, <2>4, <2>5, <3>1, EndedIs, EndedIsSafe, CallTypes
  <2>7. /\ UNCHANGED <<login, staff, role>> /\ adrift' = adrift
        /\ (ok /\ Goes(p, good)) \/ Goes(p, Failed)
    <3>1. {k \in Logins : login[k] # login[k]} = {}
      OBVIOUS
    <3> HIDE DEF ok
    <3> QED
      BY <2>4, <3>1, CallIs, EndedIs
  <2>8. CASE Goes(p, Failed)
    BY <1>2, <2>6, <2>7, <2>8, SameLogins, SameRows, EndedIs, QuietEnd
  <2>9. CASE ok /\ Goes(p, good)
    <3>1. Others(p) /\ req'[p] = good /\ Running' = Running /\ p \in Requests
      BY <1>0, <1>2, <2>3, <2>9, GoesOthers, RunningThen
    <3>2. Used(p)' /\ ~Entered(p)
      BY <1>2, <2>3, <3>1 DEF Used, Entered
    <3>3. Linked(p)' /\ Follows(p)' /\ Awaits(p)'
      BY <2>3, <3>1 DEF Linked, Follows, Awaits
    <3>4. \A k : (Sound(k)' <=> Sound(k)) /\ (Held(k)' <=> Held(k))
      BY <2>7 DEF Sound, Held
    <3>5. Began(p)'
      <4> SUFFICES ASSUME req[p].alone
                   PROVE  Began(p)'
        BY <2>3, <3>1 DEF Began
      <4>1. Began(p)
        BY <1>2, RunnerIs
      <4>2. Running = {p} /\ req[p].before = login
        BY <1>2, <4>1 DEF Began
      <4>3. ~Contested(i)
        <5>1. \A q \in Requests : Contending(q, i) => q = p
          BY <1>0, <4>2, ContendersRun
        <5> QED
          BY <1>2, <5>1 DEF Contested, Contending
      <4>4. ASSUME NEW k \in Rows, staff[k].live, staff[k].login = i, Sound(i)
            PROVE  login[i].tenant \in {None, staff[k].tenant}
        <5>1. Agrees(k)
          BY <4>4 DEF IInv, Claims
        <5>2. \A q \in Requests : ~Moving(q, k)
          <6> SUFFICES ASSUME NEW q \in Requests, Moving(q, k)
                       PROVE  FALSE
            OBVIOUS
          <6>1. req[q].pc \in {"commit", "unclaim"}
            BY DEF Moving
          <6>2. q \in Running
            BY <6>1, EndedIs DEF Running, Ended, Fresh
          <6> QED
            BY <1>2, <4>2, <6>1, <6>2
        <5> QED
          BY <4>3, <4>4, <5>1, <5>2 DEF Agrees
      <4>5. Sound(i) /\ login[i].tenant # None /\ (i = Stray => login[i].app = "platform_admin")
               => Held(i)
        BY <2>2, <4>3 DEF IInv, Homes, Opens
      <4> QED
        BY <1>2, <2>2, <2>3, <2>7, <2>9, <3>1, <3>4, <4>1, <4>2, <4>4, <4>5 DEF Began
    <3>6. Used(req[p].who)' /\ Entered(req[p].row)'
      <4>1. Used(i)'
        BY <1>0, <2>2, <2>6, <3>1, <3>2, UsedStays
      <4> QED
        BY <2>3, <3>1, <4>1, NoneIsNothing DEF Used, Entered, Rows
    <3>7. Own(p)'
      BY <3>3, <3>5, <3>6 DEF Own
    <3>8. Calm(p)
      BY <1>2, <2>7, SameLogins, SameRows DEF Calm, Contending, Moving
    <3>9. LeavesAlone(p)
      BY <1>2 DEF LeavesAlone
    <3>10. MayKnow(p)
      BY <2>3, <3>1 DEF MayKnow, Unlocked
    <3>11. ~InMove(p)'
      BY <2>3, <3>1 DEF InMove
    <3> QED
      BY <2>6, <3>1, <3>2, <3>7, <3>8, <3>9, <3>10, <3>11, QuietStep
  <2> QED
    BY <2>7, <2>8, <2>9
<1> QED
  BY <1>1, <1>4, <1>5 DEF CreateUser

-----------------------------------------------------------------------------
(* Rows entered.                                                           *)

\* A row for a login that has none.
LEMMA RowEntered ==
    ASSUME IInv, TypeInv', NEW p \in Running, NEW i \in Logins, i = req[p].who,
           NEW row \in StaffRow, row.login = i, p \in Rows,
           staff' = [staff EXCEPT ![p] = row], UNCHANGED <<login, adrift>>,
           LoginFree(i, None), req[p].pc \in {"insert", "keep", "land"},
           Promise(p) \in {None, row.tenant},
           NEW r, Goes(p, r),
           \/ r \in Ended
           \/ /\ r \in Work /\ r.op = req[p].op /\ r.who = i /\ r.row = p /\ r.pc = "revoke"
              /\ r.want.tenant = row.tenant /\ r.op = "demote"
              /\ r.alone = req[p].alone /\ r.before = req[p].before
    PROVE  IInv'
<1>1. p \in Requests /\ TypeInv /\ Others(p) /\ req'[p] = r /\ req[p] \in Work /\ i # None
  BY RunnerIs, GoesOthers, NoneIsNothing DEF IInv
<1>2. ~staff[p].live
  <2>1. ~Entered(p)
    BY <1>1 DEF Entered
  <2> QED
    BY <2>1 DEF IInv, Identities
<1>3. \A k \in Rows : staff[k].live => staff[k].login # i
  BY NoneIsNothing DEF LoginFree, Live, TypeInv, Types, IInv
<1>4. /\ staff'[p] = row /\ row.live /\ \A k \in Rows \ {p} : staff'[k] = staff[k]
  BY DEF IInv, TypeInv, Types, StaffRow
<1>5. Entered(p)' /\ Used(p)'
  <2>1. CASE r \in Ended
    BY <1>1, <2>1, EndedIs DEF Entered, Used, Ended
  <2>2. CASE r \notin Ended
    BY <1>1, <2>2 DEF Entered, Used
  <2> QED
    BY <2>1, <2>2
<1>6. \A k : Sound(k)' <=> Sound(k)
  BY DEF Sound
<1>7. (\A k : Held(k) => Held(k)') /\ Held(i)' /\ ~Held(i)
  BY <1>2, <1>3, <1>4 DEF Held
<1>8. \A k : Contending(p, k) => k = i
  BY DEF Contending
<1>9. \A k \in Rows : ~Moving(p, k)
  BY DEF Moving
<1>10. Conserves(p)
  BY <1>6, <1>7, <1>8 DEF Conserves
<1>11. LinksStay(p) /\ TenantsStay(p) /\ LeavesAlone(p)
  <2>1. ~Entered(p)
    BY <1>1 DEF Entered
  <2> QED
    BY <1>2, <1>4, <2>1 DEF LinksStay, TenantsStay, LeavesAlone
<1>12. Used(req[p].who) /\ Used(i)'
  <2>1. Used(i)
    BY RunnerIs
  <2> QED
    BY <1>1, <1>5, <2>1, UsedStays
<1>13. Names(p)
  <2>1. \A k \in Rows : staff'[k].live =>
          \/ staff[k].live /\ staff'[k].login = staff[k].login
          \/ Entered(k)' /\ Used(staff[k].login)'
    BY <1>4, <1>5, <1>12 DEF Used
  <2> QED
    BY <1>5, <2>1 DEF Names
<1>14. MayKnow(p)
  <2>1. p \in Running' => req'[p].op = req[p].op /\ req'[p].who = i
    BY <1>1 DEF Running
  <2> QED
    BY <1>6, <2>1 DEF MayKnow, IInv, Rivals
<1>15. MayLock(p)
  <2>1. ~(p \in Running' /\ InMove(p)')
    BY <1>1 DEF Running, InMove
  <2>2. ASSUME NEW q \in Running, InMove(q)
        PROVE  staff'[req[q].row].live
    BY <1>2, <1>4, <2>2, RowsLocked
  <2> QED
    BY <2>1, <2>2 DEF MayLock
<1>16. Unique'
  BY <1>2, <1>3, <1>4 DEF IInv, Unique
<1>17. Own(p)'
  <2> SUFFICES ASSUME r \notin Ended
               PROVE  Own(p)'
    BY <1>1 DEF Own, Running
  <2>1. /\ r \in Work /\ r.op = "demote" /\ r.who = i /\ r.row = p /\ r.pc = "revoke"
        /\ r.want.tenant = row.tenant /\ req[p].op = "demote"
        /\ r.alone = req[p].alone /\ r.before = req[p].before
    OBVIOUS
  <2>2. Linked(p)'
    BY <1>1, <1>4, <2>1 DEF Linked
  <2>3. Follows(p)' /\ Awaits(p)'
    BY <1>1, <1>4, <2>1 DEF Follows, Awaits
  <2>4. Began(p)'
    <3>1. Began(p)
      BY RunnerIs
    <3>2. Running' = Running
      BY <1>1, <2>1, RunningThen
    <3> QED
      BY <1>1, <2>1, <3>1, <3>2 DEF Began
  <2>5. Used(req[p].who)' /\ Entered(req[p].row)'
    BY <1>1, <1>5, <1>12, <2>1 DEF Used, Entered
  <2> QED
    BY <2>2, <2>3, <2>4, <2>5 DEF Own
<1>18. ASSUME NEW k \in Rows, staff'[k].live, Sound(staff[k].login)'
       PROVE  Agrees(k)' \/ AgreesStill(p, k)
  <2>1. CASE k = p
    <3>1. Sound(i)
      BY <1>4, <1>6, <1>18, <2>1 DEF Sound
    <3>2. Awaits(p)
      BY RunnerIs
    <3>3. CASE login[i].tenant = Promise(p)
      BY <1>4, <2>1, <3>3 DEF Agrees
    <3>4. ASSUME NEW q \in Requests \ {p}, Contending(q, i)
          PROVE  Agrees(k)'
      <4>1. Contending(q, i)'
        BY <1>1, <3>4, OthersAre
      <4> QED
        BY <1>4, <2>1, <4>1 DEF Agrees, Contested, Contending
    <3> QED
      BY <1>7, <3>1, <3>2, <3>3, <3>4 DEF Awaits
  <2>2. CASE k # p
    <3>1. PICK j : j = staff[k].login
      OBVIOUS
    <3>2. Sound(j) /\ staff[k].live /\ j # i
      BY <1>3, <1>4, <1>18, <2>2, <3>1 DEF Sound
    <3> QED
      BY <1>4, <1>8, <1>9, <2>2, <3>1, <3>2 DEF AgreesStill, SameRow
  <2> QED
    BY <2>1, <2>2
<1>19. ASSUME NEW k \in Logins, Sound(k)', Opens(k)'
       PROVE  Held(k)' \/ OpensStill(p, k)
  <2>1. CASE k = i
    BY <1>7, <2>1
  <2>2. CASE k # i
    BY <1>6, <1>7, <1>8, <1>19, <2>2 DEF OpensStill, Opens
  <2> QED
    BY <2>1, <2>2
<1> QED
  BY <1>1, <1>10, <1>11, <1>13, <1>14, <1>15, <1>16, <1>17, <1>18, <1>19, StepKeeps

\* What a transaction leaves when it works and when it does not.
LEMMA TxIs ==
    ASSUME NEW p \in Requests, NEW ok, NEW after, NEW left, NEW good, NEW bad,
           TxLeaves(p, ok, after, left, good, bad)
    PROVE  /\ UNCHANGED <<login, role>>
           /\ \/ ok /\ staff' = after /\ Goes(p, good) /\ adrift' = adrift \cup left
              \/ staff' = staff /\ Goes(p, bad) /\ adrift' = adrift
BY DEF TxLeaves, NoFault

LEMMA InsertUserKeeps ==
    ASSUME IInv, NEW p \in Requests, InsertUser(p)
    PROVE  IInv'
<1>0. TypeInv /\ Types
  BY DEF IInv, TypeInv
<1>1. PICK i : i = req[p].who
  OBVIOUS
<1>2. PICK want : want = req[p].want
  OBVIOUS
<1> DEFINE row == [live |-> TRUE, tenant |-> want.tenant, login |-> i,
                   email |-> want.email, role |-> want.role, status |-> want.status]
           ok == /\ EmailFree(want.email, None) /\ LoginFree(i, None)
                 /\ want.role \in Live(role) \cup {None}
           after == [staff EXCEPT ![p] = row]
           bad == Step(p, "uncreate")
<1>3. TxLeaves(p, ok, after, {}, Done, bad)
  BY <1>1, <1>2 DEF InsertUser, Tx
<1>4. /\ p \in Running /\ req[p] \in Work /\ Placed(req[p]) /\ req[p].pc = "insert"
      /\ req[p].op = "create" /\ i \in Logins /\ p \in Rows
      /\ want.tenant \in Tenants /\ want.email \in Emails /\ want.status \in Statuses
  <2>1. p \in Running /\ req[p] \in Work /\ Placed(req[p]) /\ req[p].pc = "insert"
    BY <1>0, StageRuns DEF InsertUser, Stages
  <2>2. req[p].op \in Kinds /\ want \in Wanted /\ i \in Logins \cup {None}
    BY <1>1, <1>2, <2>1, WorkFields
  <2>3. req[p].op = "create" /\ i # None /\ want.tenant # None /\ want.email # None
    BY <1>1, <1>2, <2>1, <2>2 DEF Placed, Kinds
  <2> QED
    BY <2>1, <2>2, <2>3, WantedFields DEF Rows
<1>5. ASSUME ok
      PROVE  /\ row \in StaffRow /\ row.login = i /\ row.tenant = want.tenant /\ Storing(after)
  <2>1. want.role \in Roles \cup {None} /\ (want.role # None => role[want.role].live)
    BY <1>0, <1>5 DEF Live, Types
  <2>2. /\ row \in StaffRow /\ row.login = i /\ row.tenant = want.tenant
        /\ row.role # None => role[row.role].live
    BY <1>4, <2>1 DEF StaffRow
  <2> HIDE DEF row, ok
  <2> QED
    BY <1>0, <1>4, <2>2, RowWritten
<1>6. bad \in Sent /\ RoleSafe(bad)
  BY <1>4, StepIs DEF Sent, Placed, RoleSafe, Stages
<1> HIDE DEF row
<1>7. TypeInv'
  <2> HIDE DEF ok, after, bad
  <2> QED
    BY <1>0, <1>3, <1>5, <1>6, EndedIs, EndedIsSafe, TxTypes
<1>8. /\ UNCHANGED <<login, role>> /\ adrift' = adrift
      /\ \/ ok /\ staff' = after /\ Goes(p, Done)
         \/ staff' = staff /\ Goes(p, bad)
  <2> HIDE DEF ok, after, bad
  <2> QED
    BY <1>3, TxIs
<1>9. CASE ok /\ staff' = after /\ Goes(p, Done)
  <2>1. Promise(p) = row.tenant
    BY <1>2, <1>4, <1>5, <1>9 DEF Promise
  <2> QED
    BY <1>1, <1>4, <1>5, <1>7, <1>8, <1>9, <2>1, EndedIs, RowEntered
<1>10. CASE staff' = staff /\ Goes(p, bad)
  <2>1. Began(p)'
    <3>1. req'[p] = Step(p, "uncreate") /\ "uncreate" \in Stages
      BY <1>0, <1>10, GoesOthers DEF Stages
    <3>2. /\ req'[p].pc = "uncreate" /\ req'[p].op = req[p].op /\ req'[p].who = i
          /\ req'[p].row = req[p].row /\ req'[p].was = req[p].was /\ req'[p].alone = req[p].alone
          /\ req'[p].before = req[p].before /\ req'[p] \in Work /\ req'[p].want = req[p].want
      BY <1>1, <1>4, <3>1, StepIs
    <3>3. Running' = Running
      BY <1>0, <1>4, <1>10, <3>1, <3>2, RunningThen
    <3>4. \A k : (Sound(k)' <=> Sound(k)) /\ (Held(k)' <=> Held(k))
      BY <1>8, <1>10 DEF Sound, Held
    <3>5. Began(p) /\ login' = login /\ staff' = staff
      BY <1>4, <1>8, <1>10, RunnerIs
    <3> QED
      BY <1>1, <1>4, <3>2, <3>3, <3>4, <3>5 DEF Began, Akin
  <2>2. "uncreate" \in Stages
    BY DEF Stages
  <2> QED
    BY <1>4, <1>7, <1>8, <1>10, <2>1, <2>2, SameLogins, SameRows, QuietOn
<1> QED
  BY <1>8, <1>9, <1>10


\* A demoted administrator's row, entered for the revocation that follows.
LEMMA EnteredIs ==
    ASSUME NEW p \in Requests, req[p] \in Work
    PROVE  \E r \in Work :
             /\ r = [Step(p, "revoke") EXCEPT !.row = p] /\ r.pc = "revoke" /\ r.row = p
             /\ r.op = req[p].op /\ r.who = req[p].who /\ r.want = req[p].want
             /\ r.seen = req[p].seen /\ r.was = req[p].was /\ r.mapped = req[p].mapped
             /\ r.alone = req[p].alone /\ r.before = req[p].before
<1>1. PICK l \in Work : l = Step(p, "revoke")
  BY StepIs DEF Stages
<1>2. /\ l.pc = "revoke" /\ l.op = req[p].op /\ l.who = req[p].who /\ l.want = req[p].want
      /\ l.seen = req[p].seen /\ l.was = req[p].was /\ l.mapped = req[p].mapped
      /\ l.alone = req[p].alone /\ l.before = req[p].before
  BY <1>1, StepIs DEF Stages
<1> DEFINE r == [l EXCEPT !.row = p]
<1>3. /\ r \in Work /\ r.row = p /\ r.pc = l.pc /\ r.op = l.op /\ r.who = l.who /\ r.want = l.want
      /\ r.seen = l.seen /\ r.was = l.was /\ r.mapped = l.mapped
      /\ r.alone = l.alone /\ r.before = l.before
  BY <1>1 DEF Work, Rows
<1>4. r = [Step(p, "revoke") EXCEPT !.row = p]
  BY <1>1
<1> HIDE DEF r
<1> QED
  BY <1>2, <1>3, <1>4

LEMMA LandKeeps ==
    ASSUME IInv, NEW p \in Requests, Land(p)
    PROVE  IInv'
<1>0. TypeInv /\ Types
  BY DEF IInv, TypeInv
<1>1. PICK i : i = req[p].who
  OBVIOUS
<1>2. PICK want : want = req[p].want
  OBVIOUS
<1> DEFINE row == [live |-> TRUE, tenant |-> want.tenant, login |-> i, email |-> want.email,
                   role |-> IF want.role = "same" THEN None ELSE want.role, status |-> "active"]
           ok == /\ EmailFree(want.email, None) /\ LoginFree(i, None)
                 /\ row.role \in Live(role) \cup {None}
           after == [staff EXCEPT ![p] = row]
<1>4. /\ p \in Running /\ req[p] \in Work /\ Placed(req[p]) /\ req[p].pc = "land"
      /\ req[p].op = "demote" /\ i \in Logins /\ p \in Rows
      /\ want.tenant \in Tenants /\ want.email \in Emails
  <2>1. p \in Running /\ req[p] \in Work /\ Placed(req[p]) /\ req[p].pc = "land"
    BY <1>0, StageRuns DEF Land, Stages
  <2>2. req[p].op \in Kinds /\ want \in Wanted /\ i \in Logins \cup {None}
    BY <1>1, <1>2, <2>1, WorkFields
  <2>3. req[p].op = "demote" /\ i # None /\ want.tenant # None /\ want.email # None
    BY <1>1, <1>2, <2>1, <2>2 DEF Placed, Kinds
  <2> QED
    BY <2>1, <2>2, <2>3, WantedFields DEF Rows
<1>5. PICK good \in Work :
        /\ good = [Step(p, "revoke") EXCEPT !.row = p] /\ good.pc = "revoke" /\ good.row = p
        /\ good.op = "demote" /\ good.who = i /\ good.want = want
        /\ good.alone = req[p].alone /\ good.before = req[p].before
  BY <1>1, <1>2, <1>4, EnteredIs
<1>3. TxLeaves(p, ok, after, {}, good, Failed)
  BY <1>1, <1>2, <1>5 DEF Land, Tx
<1>6. good \in Sent /\ RoleSafe(good)
  BY <1>0, <1>1, <1>2, <1>4, <1>5, NoneIsNothing DEF Sent, Placed, RoleSafe
<1>7. ASSUME ok
      PROVE  /\ row \in StaffRow /\ row.login = i /\ row.tenant = want.tenant /\ Storing(after)
  <2>1. row.role \in Roles \cup {None} /\ (row.role # None => role[row.role].live)
    BY <1>0, <1>7 DEF Live, Types
  <2>2. row \in StaffRow /\ row.login = i /\ row.tenant = want.tenant
    BY <1>4, <2>1 DEF StaffRow, Statuses
  <2> HIDE DEF row, ok
  <2> QED
    BY <1>0, <1>4, <2>1, <2>2, RowWritten
<1> HIDE DEF row
<1>8. TypeInv'
  <2> HIDE DEF ok, after
  <2> QED
    BY <1>0, <1>3, <1>6, <1>7, EndedIs, EndedIsSafe, TxTypes
<1>9. /\ UNCHANGED <<login, role>> /\ adrift' = adrift
      /\ \/ ok /\ staff' = after /\ Goes(p, good)
         \/ staff' = staff /\ Goes(p, Failed)
  <2> HIDE DEF ok, after
  <2> QED
    BY <1>3, TxIs
<1>10. CASE ok /\ staff' = after /\ Goes(p, good)
  <2>1. Promise(p) = None
    BY <1>4 DEF Promise
  <2> QED
    BY <1>1, <1>2, <1>4, <1>5, <1>7, <1>8, <1>9, <1>10, <2>1, RowEntered
<1>11. CASE staff' = staff /\ Goes(p, Failed)
  BY <1>4, <1>8, <1>9, <1>11, SameLogins, SameRows, EndedIs, QuietEnd
<1> QED
  BY <1>9, <1>10, <1>11


-----------------------------------------------------------------------------
(* Rows moved, erased and linked.                                          *)

\* The row a move has locked gets the tenant its login was told.
LEMMA RowMoved ==
    ASSUME IInv, TypeInv', NEW p \in Running, NEW s \in Rows, s = req[p].row, s # None,
           req[p].op \in {"move", "demote"}, req[p].pc = "commit", UNCHANGED <<login, adrift>>,
           \A k \in Rows \ {s} : staff'[k] = staff[k],
           staff'[s].live = staff[s].live, staff'[s].login = staff[s].login,
           staff'[s].tenant = req[p].want.tenant,
           NEW r, Goes(p, r),
           \/ r \in Ended
           \/ r = Step(p, "revoke") /\ req[p].op = "demote"
    PROVE  IInv'
<1>1. p \in Requests /\ TypeInv /\ Others(p) /\ req'[p] = r /\ req[p] \in Work
  BY RunnerIs, GoesOthers DEF IInv
<1>2. PICK i : i = req[p].who
  OBVIOUS
<1>3. \A k \in Rows : /\ staff'[k].live = staff[k].live /\ staff'[k].login = staff[k].login
  OBVIOUS
<1>4. r \in Ended \/ (/\ r \in Work /\ r.pc = "revoke" /\ r.op = "demote" /\ r.who = i
                      /\ r.row = s /\ r.want = req[p].want)
  BY <1>1, <1>2, StepIs DEF Stages
<1>5. Used(p)' /\ (Entered(p) => Entered(p)')
  <2>1. CASE r \in Ended
    BY <1>1, <2>1, EndedIs DEF Entered, Used, Ended
  <2>2. CASE r \notin Ended
    <3>1. ~Entered(p) \/ p \notin Requests
      BY <1>1 DEF Entered
    <3> QED
      BY <1>1, <1>4, <2>2, <3>1 DEF Used
  <2> QED
    BY <2>1, <2>2
<1>6. \A k : (Sound(k)' <=> Sound(k)) /\ (Held(k)' <=> Held(k)) /\ ~Contending(p, k)
  BY <1>3 DEF Sound, Held, Contending
<1>7. Conserves(p)
  BY <1>6 DEF Conserves
<1>8. LinksStay(p) /\ TenantsStay(p) /\ LeavesAlone(p)
  BY <1>3 DEF LinksStay, TenantsStay, LeavesAlone
<1>9. Names(p)
  BY <1>3, <1>5 DEF Names
<1>10. MayKnow(p)
  <2>1. p \in Running' => req'[p].op = req[p].op /\ req'[p].who = i
    BY <1>1, <1>4 DEF Running
  <2> QED
    BY <1>2, <1>6, <2>1 DEF MayKnow, IInv, Rivals
<1>11. MayLock(p)
  <2>1. ~(p \in Running' /\ InMove(p)')
    BY <1>1, <1>4 DEF Running, InMove
  <2>2. ASSUME NEW q \in Running, InMove(q)
        PROVE  staff'[req[q].row].live
    BY <1>3, <2>2, RowsLocked
  <2> QED
    BY <2>1, <2>2 DEF MayLock
<1>12. Unique'
  BY <1>3 DEF IInv, Unique
<1>13. Own(p)'
  <2> SUFFICES ASSUME r \notin Ended
               PROVE  Own(p)'
    BY <1>1 DEF Own, Running
  <2>1. /\ r \in Work /\ r.pc = "revoke" /\ r.op = "demote" /\ r.who = i
        /\ r.row = s /\ r.want = req[p].want /\ r = Step(p, "revoke") /\ req[p].op = "demote"
    BY <1>4
  <2>2. /\ Linked(p) /\ Used(req[p].who) /\ Entered(req[p].row)
    BY RunnerIs
  <2>3. Linked(p)'
    BY <1>1, <1>2, <1>3, <1>6, <2>1, <2>2 DEF Linked
  <2>4. Follows(p)' /\ Awaits(p)'
    BY <1>1, <2>1 DEF Follows, Awaits
  <2>5. Began(p)'
    BY <2>1, BeganPlain DEF Stages
  <2>6. Used(req[p].who)' /\ Entered(req[p].row)'
    <3>1. Used(i)' /\ Entered(s)'
      BY <1>1, <1>2, <1>5, <2>2, UsedStays, EnteredStays
    <3> QED
      BY <1>1, <2>1, <3>1 DEF Used, Entered
  <2> QED
    BY <2>3, <2>4, <2>5, <2>6 DEF Own
<1>14. ASSUME NEW k \in Rows, staff'[k].live, Sound(staff[k].login)'
       PROVE  Agrees(k)' \/ AgreesStill(p, k)
  <2>1. PICK j : j = staff[k].login
    OBVIOUS
  <2>2. Sound(j) /\ staff[k].live /\ staff'[k].login = j
    BY <1>3, <1>14, <2>1 DEF Sound
  <2>3. CASE k = s
    <3>1. j = i
      BY <1>2, <2>1, <2>2, <2>3, RunnerIs DEF Linked, Sound
    <3>2. login[i].tenant = req[p].want.tenant \/ Contested(i)
      BY <1>2, <2>2, <3>1, RunnerIs DEF Follows
    <3>3. CASE login[i].tenant = req[p].want.tenant
      BY <2>2, <2>3, <3>1, <3>3 DEF Agrees
    <3>4. ASSUME NEW q \in Requests, Contending(q, i)
          PROVE  Agrees(k)'
      <4>1. q # p
        BY <3>4 DEF Contending
      <4>2. Contending(q, i)'
        BY <1>1, <3>4, <4>1, OthersAre
      <4> QED
        BY <2>2, <3>1, <4>2 DEF Agrees, Contested, Contending
    <3> QED
      BY <3>2, <3>3, <3>4 DEF Contested
  <2>4. CASE k # s
    <3>1. ~Moving(p, k)
      BY <2>4 DEF Moving
    <3> QED
      BY <1>6, <2>1, <2>2, <2>4, <3>1 DEF AgreesStill, SameRow
  <2> QED
    BY <2>3, <2>4
<1>15. ASSUME NEW k \in Logins, Sound(k)', Opens(k)'
       PROVE  OpensStill(p, k)
  BY <1>6, <1>15 DEF OpensStill, Opens
<1> QED
  BY <1>1, <1>7, <1>8, <1>9, <1>10, <1>11, <1>12, <1>13, <1>14, <1>15, <1>5, StepKeeps

LEMMA CommitMoveKeeps ==
    ASSUME IInv, NEW p \in Requests, CommitMove(p)
    PROVE  IInv'
<1>0. TypeInv /\ Types
  BY DEF IInv, TypeInv
<1>1. PICK i : i = req[p].who
  OBVIOUS
<1>2. PICK s : s = req[p].row
  OBVIOUS
<1>3. PICK t : t = req[p].want.tenant
  OBVIOUS
<1>4. PICK m : m = req[p].mapped
  OBVIOUS
<1> DEFINE after == [staff EXCEPT ![s].tenant = t, ![s].role = m]
           good == IF req[p].op = "demote" THEN Step(p, "revoke") ELSE Done
           bad == Unclaim(p)
<1>5. /\ p \in Running /\ req[p] \in Work /\ Placed(req[p]) /\ req[p].pc = "commit"
      /\ req[p].op \in {"move", "demote"} /\ s \in Rows /\ i \in Logins \cup {None}
      /\ t \in Tenants /\ s # None /\ staff[s].live /\ m \in Roles \cup {None}
      /\ m # None => role[m].live
      /\ i # None \/ req[p].op = "move"
  <2>1. p \in Running /\ req[p] \in Work /\ Placed(req[p]) /\ req[p].pc = "commit"
    BY <1>0, StageRuns DEF CommitMove, Stages
  <2>2. /\ req[p].op \in Kinds /\ req[p].want \in Wanted /\ m \in Roles \cup {None}
        /\ i \in Logins \cup {None}
    BY <1>1, <1>4, <2>1, WorkFields
  <2>3. /\ req[p].op \in {"move", "demote"} /\ req[p].want.tenant # None
        /\ i # None \/ req[p].op = "move"
    BY <1>1, <2>1, <2>2 DEF Placed, Kinds
  <2>4. s \in Rows /\ staff[s].live
    BY <1>2, <2>1, RowsLocked DEF InMove
  <2>5. m # None => role[m].live
    BY <1>0, <1>4, <2>1, RunningIsSafe DEF RoleSafe
  <2> QED
    BY <1>1, <1>3, <2>1, <2>2, <2>3, <2>4, <2>5, WantedFields, NoneIsNothing
<1>6. TxLeaves(p, TRUE, after, {}, good, bad)
  BY <1>2, <1>3, <1>4 DEF CommitMove, Tx
<1>7. [staff[s] EXCEPT !.tenant = t, !.role = m] \in StaffRow
  BY <1>0, <1>5, StaffFields DEF StaffRow
<1>8. PICK l \in StaffRow : l = [staff[s] EXCEPT !.tenant = t, !.role = m]
  BY <1>7
<1>9. /\ l.live /\ l.tenant = t /\ l.role = m /\ l.login = staff[s].login
      /\ after = [staff EXCEPT ![s] = l]
  BY <1>0, <1>5, <1>8, StaffFields DEF StaffRow
<1>10. /\ Storing(after) /\ after[s] = l /\ \A k \in Rows \ {s} : after[k] = staff[k]
  <2> HIDE DEF after
  <2>1. l.role # None => role[l.role].live
    BY <1>5, <1>9
  <2>2. /\ Storing([staff EXCEPT ![s] = l]) /\ [staff EXCEPT ![s] = l][s] = l
        /\ \A k \in Rows \ {s} : [staff EXCEPT ![s] = l][k] = staff[k]
    BY <1>0, <1>5, <2>1, RowWritten
  <2> QED
    BY <1>9, <2>2
<1>11. good \in Sent \cup Ended /\ RoleSafe(good) /\ bad \in Sent \cup Ended /\ RoleSafe(bad)
  <2>1. /\ Failed \in Ended /\ Done \in Ended /\ RoleSafe(Failed) /\ RoleSafe(Done)
    BY EndedIs, EndedIsSafe
  <2>2. ASSUME req[p].op = "demote"
        PROVE  Step(p, "revoke") \in Sent /\ RoleSafe(Step(p, "revoke"))
    BY <1>1, <1>2, <1>5, <2>2, StepIs DEF Sent, Placed, RoleSafe, Stages
  <2>3. ASSUME i # None
        PROVE  Step(p, "unclaim") \in Sent /\ RoleSafe(Step(p, "unclaim"))
    BY <1>1, <1>2, <1>5, <2>3, StepIs DEF Sent, Placed, RoleSafe, Stages
  <2> QED
    BY <1>1, <2>1, <2>2, <2>3 DEF Unclaim
<1> HIDE DEF after
<1>12. TypeInv'
  <2> HIDE DEF good, bad
  <2> QED
    BY <1>0, <1>6, <1>10, <1>11, TxTypes
<1>13. /\ UNCHANGED <<login, role>> /\ adrift' = adrift
       /\ \/ staff' = after /\ Goes(p, good)
          \/ staff' = staff /\ Goes(p, bad)
  <2> HIDE DEF good, bad
  <2> QED
    BY <1>6 DEF TxLeaves, NoFault
<1>14. CASE staff' = after /\ Goes(p, good)
  <2>1. good \in Ended \/ (good = Step(p, "revoke") /\ req[p].op = "demote")
    BY EndedIs
  <2>2. /\ \A k \in Rows \ {s} : staff'[k] = staff[k]
        /\ staff'[s].live = staff[s].live /\ staff'[s].login = staff[s].login
        /\ staff'[s].tenant = req[p].want.tenant
    BY <1>0, <1>3, <1>5, <1>9, <1>10, <1>14, StaffFields DEF StaffRow
  <2> HIDE DEF good
  <2> QED
    BY <1>2, <1>5, <1>12, <1>13, <1>14, <2>1, <2>2, RowMoved
<1>15. CASE staff' = staff /\ Goes(p, bad)
  <2>1. CASE i = None
    BY <1>1, <1>5, <1>12, <1>13, <1>15, <2>1, SameLogins, SameRows, EndedIs, QuietEnd DEF Unclaim
  <2>2. CASE i # None
    <3>1. Goes(p, Step(p, "unclaim")) /\ "unclaim" \in Stages
      BY <1>1, <1>15, <2>2 DEF Unclaim, Stages
    <3>2. req'[p] = Step(p, "unclaim")
      BY <1>0, <3>1, GoesOthers
    <3>3. /\ req'[p].pc = "unclaim" /\ req'[p].op = req[p].op /\ req'[p].who = i
          /\ req'[p].row = req[p].row /\ req'[p].was = req[p].was /\ req'[p].alone = req[p].alone
          /\ req'[p].before = req[p].before /\ req'[p] \in Work /\ req'[p].seen = req[p].seen
      BY <1>1, <1>5, <3>1, <3>2, StepIs
    <3>4. Running' = Running
      BY <1>0, <1>5, <3>1, <3>2, <3>3, RunningThen
    <3>5. Began(p)
      BY <1>5, RunnerIs
    <3>6. Began(p)'
      BY <1>1, <1>5, <1>13, <1>15, <3>3, <3>4, <3>5 DEF Began, Akin
    <3> QED
      BY <1>5, <1>12, <1>13, <1>15, <3>1, <3>6, SameLogins, SameRows, QuietOn
  <2> QED
    BY <2>1, <2>2
<1> QED
  BY <1>13, <1>14, <1>15


LEMMA EraseRowKeeps ==
    ASSUME IInv, NEW p \in Requests, EraseRow(p)
    PROVE  IInv'
<1>0. TypeInv /\ Types
  BY DEF IInv, TypeInv
<1>1. PICK i : i = req[p].who
  OBVIOUS
<1>2. PICK s : s = req[p].row
  OBVIOUS
<1> DEFINE after == [staff EXCEPT ![s] = Absent]
<1>5. /\ p \in Running /\ req[p] \in Work /\ Placed(req[p]) /\ req[p].pc = "erase"
      /\ req[p].op = "remove" /\ s \in Rows /\ s # None /\ ~Locked(s)
  <2>1. p \in Running /\ req[p] \in Work /\ Placed(req[p]) /\ req[p].pc = "erase"
    BY <1>0, StageRuns DEF EraseRow, Stages
  <2>2. req[p].op \in Kinds /\ s \in Rows \cup {None}
    BY <1>2, <2>1, WorkFields
  <2>3. req[p].op = "remove" /\ s # None
    BY <1>2, <2>1, <2>2 DEF Placed, Kinds
  <2> QED
    BY <1>2, <2>1, <2>2, <2>3 DEF EraseRow
<1>6. TxLeaves(p, TRUE, after, {}, Done, Failed)
  BY <1>2 DEF EraseRow, Tx
<1>7. after \in [Rows -> PersonRows] /\ after[s] = Absent /\ \A k \in Rows \ {s} : after[k] = staff[k]
  BY <1>0, <1>5 DEF Types, PersonRows
<1>8. Storing(after)
  BY <1>0, <1>7, StoredAlready, AbsentIsDead DEF Storing
<1> HIDE DEF after
<1>9. TypeInv'
  BY <1>0, <1>6, <1>8, EndedIs, EndedIsSafe, TxTypes
<1>10. /\ UNCHANGED <<login, role>> /\ adrift' = adrift
       /\ \/ staff' = after /\ Goes(p, Done)
          \/ staff' = staff /\ Goes(p, Failed)
  BY <1>6 DEF TxLeaves, NoFault
<1>11. CASE staff' = staff /\ Goes(p, Failed)
  BY <1>5, <1>9, <1>10, <1>11, SameLogins, SameRows, EndedIs, QuietEnd
<1>12. CASE staff' = after /\ Goes(p, Done)
  <2>1. req'[p] = Done /\ Others(p)
    BY <1>0, <1>12, GoesOthers
  <2>2. p \notin Running' /\ req'[p].pc = "done"
    BY <2>1, EndedIs DEF Running, Ended
  <2>3. Own(p)' /\ MayKnow(p) /\ LeavesAlone(p) /\ Used(p)' /\ Entered(p)'
    BY <1>5, <2>2 DEF Own, MayKnow, LeavesAlone, Used, Entered
  <2>4. ~staff'[s].live /\ \A k \in Rows \ {s} : staff'[k] = staff[k]
    BY <1>7, <1>12, AbsentIsDead
  <2>5. staff[s].live => \A k \in Logins : k = staff[s].login => ~Sound(k)
    BY <1>1, <1>2, <1>5, NoneIsNothing, RunnerIs DEF Linked, Sound
  <2>6. \A k : (Sound(k)' <=> Sound(k)) /\ ~Contending(p, k)
    BY <1>5, <1>10 DEF Sound, Contending
  <2>7. \A k : Sound(k) /\ Held(k) => Held(k)'
    BY <2>4, <2>5 DEF Held, Sound
  <2>8. Conserves(p)
    BY <1>10, <2>6, <2>7 DEF Conserves
  <2>9. LinksStay(p)
    <3>1. ~staff[s].live => staff[s].live = FALSE
      BY <1>0, <1>5, PersonFields DEF Types, PersonRows, Absent
    <3>2. staff'[s].live = FALSE
      BY <1>7, <1>12 DEF Absent
    <3>3. \A k : Sound(k)' => Sound(k)
      BY <2>6
    <3> QED
      BY <1>10, <2>4, <2>5, <3>1, <3>2, <3>3 DEF LinksStay
  <2>10. TenantsStay(p) /\ Names(p)
    BY <1>10, <2>3, <2>4 DEF TenantsStay, Names
  <2>11. MayLock(p)
    <3>1. ASSUME NEW q \in Running, InMove(q)
          PROVE  staff'[req[q].row].live
      <4>1. req[q].row # s
        BY <1>5, <3>1 DEF Locked, InMove
      <4> QED
        BY <2>4, <3>1, <4>1, RowsLocked
    <3> QED
      BY <2>2, <3>1 DEF MayLock
  <2>12. Unique'
    BY <2>4 DEF IInv, Unique
  <2>13. ASSUME NEW k \in Rows, staff'[k].live, Sound(staff[k].login)'
         PROVE  AgreesStill(p, k)
    <3>1. PICK j : j = staff'[k].login
      OBVIOUS
    <3>2. k # s /\ staff'[k] = staff[k] /\ ~Moving(p, k)
      BY <1>5, <2>4, <2>13 DEF Moving
    <3>3. Sound(j)
      BY <2>6, <2>13, <3>1 DEF Sound
    <3> QED
      BY <1>10, <2>6, <2>13, <3>1, <3>2, <3>3 DEF AgreesStill, SameRow
  <2>14. ASSUME NEW k \in Logins, Sound(k)', Opens(k)'
         PROVE  OpensStill(p, k)
    BY <1>10, <2>6, <2>7, <2>14 DEF OpensStill, Opens
  <2> QED
    BY <1>9, <2>1, <2>3, <2>8, <2>9, <2>10, <2>11, <2>12, <2>13, <2>14, StepKeeps
<1> QED
  BY <1>10, <1>11, <1>12

LEMMA DeleteUserKeeps ==
    ASSUME IInv, NEW p \in Requests, DeleteUser(p)
    PROVE  IInv'
<1>0. TypeInv /\ Types
  BY DEF IInv, TypeInv
<1>1. PICK i : i = req[p].who
  OBVIOUS
<1>2. PICK s : s = req[p].row
  OBVIOUS
<1> DEFINE after == [login EXCEPT ![i] = Absent]
           ok == login[i].live
           good == Step(p, "erase")
<1>5. /\ p \in Running /\ req[p] \in Work /\ Placed(req[p]) /\ req[p].pc = "unlogin"
      /\ req[p].op = "remove" /\ s \in Rows /\ s # None /\ i \in Logins
  <2>1. p \in Running /\ req[p] \in Work /\ Placed(req[p]) /\ req[p].pc = "unlogin"
    BY <1>0, StageRuns DEF DeleteUser, Stages
  <2>2. req[p].op \in Kinds /\ s \in Rows \cup {None} /\ i \in Logins \cup {None}
    BY <1>1, <1>2, <2>1, WorkFields
  <2>3. req[p].op = "remove" /\ s # None /\ i # None
    BY <1>1, <1>2, <2>1, <2>2 DEF Placed, Kinds
  <2> QED
    BY <2>1, <2>2, <2>3
<1>6. Call(p, ok, after, good, Failed)
  BY <1>1 DEF DeleteUser
<1>7. /\ after \in [Logins -> LoginRows] /\ after[i] = Absent /\ ~after[i].live
      /\ \A k \in Logins \ {i} : after[k] = login[k]
  BY <1>0, <1>5, AbsentIsDead DEF Types, LoginRows
<1>8. good \in Sent /\ RoleSafe(good)
  BY <1>5, StepIs DEF Sent, Placed, RoleSafe, Stages
<1> HIDE DEF after
<1>9. TypeInv'
  <2> HIDE DEF good, ok
  <2> QED
    BY <1>0, <1>6, <1>7, <1>8, EndedIs, EndedIsSafe, CallTypes
<1>10. /\ UNCHANGED <<staff, role>> /\ adrift \subseteq adrift'
       /\ \/ login' = after /\ Goes(p, good) /\ adrift' = adrift
          \/ login' = login /\ Goes(p, Failed)
          \/ /\ login' = after /\ Goes(p, Failed)
             /\ adrift' = adrift \cup {k \in Logins : after[k] # login[k]}
  <2> HIDE DEF good, ok
  <2> QED
    BY <1>6, CallIs, EndedIs
<1>11. CASE /\ Goes(p, Failed)
            /\ \/ login' = login
               \/ login' = after /\ adrift' = adrift \cup {k \in Logins : after[k] # login[k]}
  BY <1>5, <1>7, <1>9, <1>10, <1>11, CallFailed
<1>12. CASE login' = after /\ Goes(p, good) /\ adrift' = adrift
  <2>1. req'[p] = good /\ Others(p)
    BY <1>0, <1>12, GoesOthers
  <2>2. /\ good.pc = "erase" /\ good.op = "remove" /\ good.who = i /\ good.row = s /\ good \in Work
    BY <1>1, <1>2, <1>5, StepIs DEF Stages
  <2> HIDE DEF good
  <2>3. ~login'[i].live /\ \A k \in Logins \ {i} : login'[k] = login[k]
    BY <1>7, <1>12
  <2>4. \A k : Sound(k)' => k # i /\ k \in Logins /\ Sound(k) /\ login'[k] = login[k]
    BY <1>12, <2>3 DEF Sound
  <2>5. \A k : (Held(k)' <=> Held(k)) /\ ~Contending(p, k)
    BY <1>5, <1>10 DEF Held, Contending
  <2>6. Used(p)' /\ (Entered(p) => Entered(p)')
    <3>1. p \in Requests => ~Entered(p)
      BY <1>5 DEF Entered
    <3> QED
      BY <2>1, <2>2, <3>1 DEF Used
  <2>7. Own(p)'
    <3>1. Linked(p) /\ Used(req[p].who) /\ Entered(req[p].row)
      BY <1>5, RunnerIs
    <3>2. Linked(p)'
      BY <1>1, <1>2, <1>5, <1>10, <2>1, <2>2, <2>3, <2>4, <3>1 DEF Linked
    <3>3. Follows(p)' /\ Awaits(p)'
      BY <2>1, <2>2 DEF Follows, Awaits
    <3>4. Began(p)'
      BY <1>5, <1>12, BeganPlain DEF good, Stages
    <3>5. Used(req[p].who)' /\ Entered(req[p].row)'
      <4>1. Used(i)' /\ Entered(s)'
        BY <1>0, <1>1, <1>2, <1>9, <2>1, <2>6, <3>1, UsedStays, EnteredStays
      <4> QED
        BY <2>1, <2>2, <4>1 DEF Used, Entered
    <3> QED
      BY <3>2, <3>3, <3>4, <3>5 DEF Own
  <2>8. Conserves(p)
    BY <1>12, <2>4, <2>5 DEF Conserves
  <2>9. LinksStay(p) /\ TenantsStay(p) /\ LeavesAlone(p)
    BY <1>5, <1>10, <2>3 DEF LinksStay, TenantsStay, LeavesAlone
  <2>10. Names(p)
    BY <1>10, <2>3, <2>6 DEF Names
  <2>11. MayKnow(p)
    BY <1>1, <1>5, <2>1, <2>2, <2>4 DEF MayKnow, IInv, Rivals
  <2>12. MayLock(p)
    <3>1. ~InMove(p)'
      BY <2>1, <2>2 DEF InMove
    <3> QED
      BY <1>10, <3>1, RowsLocked DEF MayLock
  <2>13. Unique'
    BY <1>10 DEF IInv, Unique
  <2>14. ASSUME NEW k \in Rows, staff'[k].live, Sound(staff[k].login)'
         PROVE  AgreesStill(p, k)
    <3>1. PICK j : j = staff'[k].login
      OBVIOUS
    <3>2. Sound(j)' /\ ~Moving(p, k)
      BY <1>5, <2>14, <3>1 DEF Moving, Sound
    <3> QED
      BY <1>10, <2>4, <2>5, <2>14, <3>1, <3>2 DEF AgreesStill, SameRow
  <2>15. ASSUME NEW k \in Logins, Sound(k)', Opens(k)'
         PROVE  OpensStill(p, k)
    BY <2>4, <2>5, <2>15 DEF OpensStill, Opens
  <2> QED
    BY <1>9, <2>1, <2>6, <2>7, <2>8, <2>9, <2>10, <2>11, <2>12, <2>13, <2>14, <2>15, StepKeeps
<1> QED
  BY <1>10, <1>11, <1>12


\* A person's row is given their login.
LEMMA RowLinked ==
    ASSUME IInv, TypeInv', NEW p \in Running, NEW i \in Logins, NEW s \in Rows,
           i = req[p].who, req[p].pc = "keep",
           staff[s].live, staff[s].tenant = req[p].want.tenant, LoginFree(i, s),
           UNCHANGED login, \A k \in Rows \ {s} : staff'[k] = staff[k],
           staff'[s].live = staff[s].live, staff'[s].login = i, staff'[s].tenant = staff[s].tenant,
           adrift \subseteq adrift', staff[s].login \in {None, i} \cup adrift',
           \/ i \in adrift'
           \/ \A q \in Running : req[q].op \in {"move", "demote", "remove"} /\ req[q].row = s
                                    => req[q].who = i,
           Goes(p, Done)
    PROVE  IInv'
<1>1. p \in Requests /\ TypeInv /\ Others(p) /\ req'[p] = Done /\ i # None
  BY RunnerIs, GoesOthers, NoneIsNothing DEF IInv
<1>2. p \notin Running' /\ req'[p].pc = "done"
  BY <1>1, EndedIs DEF Running, Ended
<1>3. Own(p)' /\ MayKnow(p) /\ LeavesAlone(p) /\ Used(p)' /\ Entered(p)'
  BY <1>2 DEF Own, MayKnow, LeavesAlone, Used, Entered
<1>4. \A k : (Sound(k)' => Sound(k)) /\ ~Contending(p, k)
  BY DEF Sound, Contending
<1>5. \A k \in Rows : ~Moving(p, k)
  BY DEF Moving
<1>6. \A k \in Rows \ {s} : staff[k].live => staff[k].login # i
  BY <1>1 DEF LoginFree, Live, TypeInv, Types
<1>7. \A k : Sound(k)' /\ Held(k) => Held(k)'
  <2> SUFFICES ASSUME NEW k, Sound(k)', Held(k)
               PROVE  Held(k)'
    OBVIOUS
  <2>1. PICK r \in Rows : staff[r].live /\ staff[r].login = k
    BY DEF Held
  <2>2. CASE r # s
    BY <2>1, <2>2 DEF Held
  <2>3. CASE r = s
    <3>1. k = i
      BY <2>1, <2>3, NoneIsNothing DEF Sound
    <3> QED
      BY <3>1 DEF Held
  <2> QED
    BY <2>2, <2>3
<1>8. Conserves(p)
  BY <1>4, <1>7 DEF Conserves
<1>9. LinksStay(p)
  <2>1. \/ staff'[s].live = staff[s].live /\ (staff[s].live => staff'[s].login = staff[s].login)
        \/ /\ \A k \in Logins : k = staff[s].login => ~Sound(k)'
           /\ staff'[s].live => \/ staff'[s].login \in adrift'
                                \/ \A q \in Running \ {p} :
                                     req[q].op \in {"move", "demote", "remove"} /\ req[q].row = s
                                       => req[q].who = staff'[s].login
    <3>1. CASE staff[s].login = i
      BY <3>1
    <3>2. CASE staff[s].login # i
      <4>1. \A k \in Logins : k = staff[s].login => ~Sound(k)'
        BY <3>2, NoneIsNothing DEF Sound
      <4> QED
        BY <4>1
    <3> QED
      BY <3>1, <3>2
  <2>2. \A k \in Rows \ {s} :
          staff'[k].live = staff[k].live /\ (staff[k].live => staff'[k].login = staff[k].login)
    OBVIOUS
  <2>3. \A k \in Logins : ~login[k].live /\ Used(k) => ~login'[k].live
    OBVIOUS
  <2> QED
    BY <2>1, <2>2, <2>3 DEF LinksStay
<1>10. TenantsStay(p)
  BY DEF TenantsStay
<1>11. Names(p)
  <2>1. Entered(s) /\ Used(i)
    BY RunnerIs DEF IInv, Identities
  <2>2. Entered(s)' /\ Used(i)'
    BY <1>1, <1>3, <2>1, UsedStays, EnteredStays
  <2>3. Used(staff[s].login)'
    BY <2>2 DEF Used
  <2> QED
    BY <1>3, <2>2, <2>3 DEF Names
<1>12. MayLock(p)
  <2>1. ASSUME NEW q \in Running, InMove(q)
        PROVE  staff'[req[q].row].live
    BY <2>1, RowsLocked
  <2> QED
    BY <1>2, <2>1 DEF MayLock
<1>13. Unique'
  BY <1>1, <1>6 DEF IInv, Unique
<1>14. ASSUME NEW k \in Rows, staff'[k].live, Sound(staff[k].login)'
       PROVE  Agrees(k)' \/ AgreesStill(p, k)
  <2>1. PICK j : j = staff'[k].login
    OBVIOUS
  <2>2. Sound(j)' /\ Sound(j)
    BY <1>4, <1>14, <2>1 DEF Sound
  <2>3. CASE k # s
    BY <1>4, <1>5, <1>14, <2>1, <2>2, <2>3 DEF AgreesStill, SameRow
  <2>4. CASE k = s
    <3>1. j = i /\ Awaits(p)
      BY <2>1, <2>4, RunnerIs
    <3>2. CASE login[i].tenant = Promise(p)
      BY <2>4, <3>2 DEF Promise, Agrees
    <3>3. CASE Held(i)
      <4>1. staff[s].login = i
        BY <1>6, <3>3 DEF Held
      <4> QED
        BY <1>4, <1>5, <2>2, <2>4, <3>1, <4>1 DEF AgreesStill, SameRow
    <3>4. ASSUME NEW q \in Requests \ {p}, Contending(q, i)
          PROVE  Agrees(k)'
      <4>1. Contending(q, i)'
        BY <1>1, <3>4, OthersAre
      <4> QED
        BY <2>4, <4>1 DEF Agrees, Contested, Contending
    <3> QED
      BY <2>2, <3>1, <3>2, <3>3, <3>4 DEF Awaits
  <2> QED
    BY <2>3, <2>4
<1>15. ASSUME NEW k \in Logins, Sound(k)', Opens(k)'
       PROVE  OpensStill(p, k)
  BY <1>4, <1>7, <1>15 DEF OpensStill, Opens
<1> QED
  BY <1>1, <1>3, <1>8, <1>9, <1>10, <1>11, <1>12, <1>13, <1>14, <1>15, StepKeeps

LEMMA KeepProfileKeeps ==
    ASSUME IInv, NEW p \in Requests, KeepProfile(p)
    PROVE  IInv'
<1>0. TypeInv /\ Types
  BY DEF IInv, TypeInv
<1>1. PICK i : i = req[p].who
  OBVIOUS
<1>2. PICK s : s = req[p].row
  OBVIOUS
<1>3. PICK want : want = req[p].want
  OBVIOUS
<1>4. /\ p \in Running /\ req[p] \in Work /\ Placed(req[p]) /\ req[p].pc = "keep"
      /\ req[p].op = "profile" /\ i \in Logins /\ p \in Rows /\ s \in Rows \cup {None}
      /\ want.tenant \in Tenants /\ want.email \in Emails
  <2>1. p \in Running /\ req[p] \in Work /\ Placed(req[p]) /\ req[p].pc = "keep"
    BY <1>0, StageRuns DEF KeepProfile, Stages
  <2>2. req[p].op \in Kinds /\ want \in Wanted /\ i \in Logins \cup {None} /\ s \in Rows \cup {None}
    BY <1>1, <1>2, <1>3, <2>1, WorkFields
  <2>3. req[p].op = "profile" /\ i # None /\ want.tenant # None /\ want.email # None
    BY <1>1, <1>3, <2>1, <2>2 DEF Placed, Kinds
  <2> QED
    BY <2>1, <2>2, <2>3, WantedFields DEF Rows
<1>5. CASE s = None
  <2> DEFINE row == [live |-> TRUE, tenant |-> want.tenant, login |-> i, email |-> want.email,
                     role |-> None, status |-> "active"]
             ok == EmailFree(want.email, None) /\ LoginFree(i, None)
             after == [staff EXCEPT ![p] = row]
  <2>1. TxLeaves(p, ok, after, {}, Done, Failed)
    BY <1>1, <1>2, <1>3, <1>5 DEF KeepProfile, Tx
  <2>2. /\ row \in StaffRow /\ row.login = i /\ row.tenant = want.tenant /\ row.role = None
    BY <1>4 DEF StaffRow, Statuses
  <2> HIDE DEF row, ok
  <2>3. Storing(after)
    BY <1>0, <1>4, <2>2, RowWritten
  <2>4. TypeInv'
    <3> HIDE DEF after
    <3> QED
      BY <1>0, <2>1, <2>3, EndedIs, EndedIsSafe, TxTypes
  <2>5. /\ UNCHANGED <<login, role>> /\ adrift' = adrift
        /\ \/ ok /\ staff' = after /\ Goes(p, Done)
           \/ staff' = staff /\ Goes(p, Failed)
    <3> HIDE DEF after
    <3> QED
      BY <2>1, TxIs
  <2>6. CASE ok /\ staff' = after /\ Goes(p, Done)
    <3>1. Promise(p) = row.tenant
      BY <1>3, <1>4, <2>2 DEF Promise
    <3>2. LoginFree(i, None)
      BY <2>6 DEF ok
    <3> QED
      BY <1>1, <1>4, <2>2, <2>4, <2>5, <2>6, <3>1, <3>2, EndedIs, RowEntered
  <2>7. CASE staff' = staff /\ Goes(p, Failed)
    BY <1>4, <2>4, <2>5, <2>7, SameLogins, SameRows, EndedIs, QuietEnd
  <2> QED
    BY <2>5, <2>6, <2>7
<1>6. CASE s # None
  <2> DEFINE mine == staff[s].live /\ staff[s].tenant = want.tenant
             unaware == \E q \in Running : /\ req[q].op \in {"move", "demote", "remove"}
                                           /\ req[q].row = s /\ req[q].who # i
             ok == LoginFree(i, s)
             after == IF mine THEN [staff EXCEPT ![s].login = i] ELSE staff
             left == IF ~mine THEN {}
                     ELSE ({staff[s].login} \ {None, i}) \cup IF unaware THEN {i} ELSE {}
  <2>1. TxLeaves(p, ok, after, left, Done, Failed)
    BY <1>1, <1>2, <1>3, <1>6 DEF KeepProfile
  <2>2. s \in Rows
    BY <1>4, <1>6
  <2>3. ASSUME mine
        PROVE  /\ Storing(after) /\ \A k \in Rows \ {s} : after[k] = staff[k]
               /\ after[s].live = staff[s].live /\ after[s].login = i
               /\ after[s].tenant = staff[s].tenant
               /\ staff[s].login \in Logins \cup {None}
    <3>1. staff[s] \in StaffRow /\ (staff[s].role # None => role[staff[s].role].live)
      BY <1>0, <2>2, <2>3, StaffFields
    <3>2. [staff[s] EXCEPT !.login = i] \in StaffRow
      BY <1>4, <3>1 DEF StaffRow
    <3>3. PICK l \in StaffRow : l = [staff[s] EXCEPT !.login = i]
      BY <3>2
    <3>4. /\ l.live = staff[s].live /\ l.tenant = staff[s].tenant /\ l.role = staff[s].role
          /\ l.login = i /\ staff[s].login \in Logins \cup {None}
      BY <1>4, <3>1, <3>3 DEF StaffRow
    <3>5. [staff EXCEPT ![s].login = i] = [staff EXCEPT ![s] = l]
      BY <3>3
    <3>6. l.role # None => role[l.role].live
      BY <3>1, <3>4
    <3>7. /\ Storing([staff EXCEPT ![s] = l]) /\ [staff EXCEPT ![s] = l][s] = l
          /\ \A k \in Rows \ {s} : [staff EXCEPT ![s] = l][k] = staff[k]
      BY <1>0, <2>2, <3>6, RowWritten
    <3>8. after = [staff EXCEPT ![s] = l]
      BY <2>3, <3>5
    <3> HIDE DEF after, mine
    <3> QED
      BY <3>4, <3>7, <3>8
  <2>4. ~mine => after = staff /\ Storing(after) /\ left = {}
    BY <1>0, StoredAlready
  <2>5. mine => /\ left \subseteq Logins /\ staff[s].login \in {None, i} \cup left
                /\ unaware => i \in left
    <3>1. mine => left = ({staff[s].login} \ {None, i}) \cup IF unaware THEN {i} ELSE {}
      OBVIOUS
    <3> HIDE DEF left, mine, unaware, after
    <3> QED
      BY <1>4, <2>3, <3>1
  <2>6. ~unaware => \A q \in Running : req[q].op \in {"move", "demote", "remove"} /\ req[q].row = s
                                          => req[q].who = i
    OBVIOUS
  <2>7. mine => staff[s].live /\ staff[s].tenant = want.tenant
    OBVIOUS
  <2> HIDE DEF left, mine, unaware, after
  <2>8. TypeInv'
    <3> HIDE DEF ok
    <3> QED
      BY <1>0, <2>1, <2>3, <2>4, <2>5, EndedIs, EndedIsSafe, TxTypes
  <2>9. /\ UNCHANGED <<login, role>>
        /\ \/ ok /\ staff' = after /\ Goes(p, Done) /\ adrift' = adrift \cup left
           \/ staff' = staff /\ Goes(p, Failed) /\ adrift' = adrift
    <3> HIDE DEF ok
    <3> QED
      BY <2>1, TxIs
  <2>10. CASE staff' = staff /\ Goes(p, Failed) /\ adrift' = adrift
    BY <1>4, <2>8, <2>9, <2>10, SameLogins, SameRows, EndedIs, QuietEnd
  <2>11. CASE ok /\ staff' = after /\ Goes(p, Done) /\ adrift' = adrift \cup left
    <3>1. CASE mine
      <4>1. /\ \A k \in Rows \ {s} : staff'[k] = staff[k]
            /\ staff'[s].live = staff[s].live /\ staff'[s].login = i
            /\ staff'[s].tenant = staff[s].tenant
            /\ staff[s].live /\ staff[s].tenant = req[p].want.tenant
            /\ adrift \subseteq adrift' /\ staff[s].login \in {None, i} \cup adrift'
        BY <1>3, <2>3, <2>5, <2>7, <2>11, <3>1
      <4>2. \/ i \in adrift'
            \/ \A q \in Running : req[q].op \in {"move", "demote", "remove"} /\ req[q].row = s
                                     => req[q].who = i
        BY <2>5, <2>6, <2>11, <3>1
      <4> QED
        BY <1>1, <1>4, <2>2, <2>8, <2>9, <2>11, <4>1, <4>2, RowLinked
    <3>2. CASE ~mine
      BY <1>4, <2>4, <2>8, <2>9, <2>11, <3>2, SameLogins, SameRows, EndedIs, QuietEnd
    <3> QED
      BY <3>1, <3>2
  <2> QED
    BY <2>9, <2>10, <2>11
<1> QED
  BY <1>5, <1>6


-----------------------------------------------------------------------------
(* A creation undone.                                                      *)

\* A creation that met no other request takes its claims back.
LEMMA CreationUndone ==
    ASSUME IInv, TypeInv', NEW p \in Running, NEW i \in Logins, i = req[p].who,
           req[p].pc = "uncreate", req[p].alone, Goes(p, Failed),
           UNCHANGED <<staff, role, adrift>>, \A k \in Logins \ {i} : login'[k] = login[k],
           login'[i].live => login[i].live,
           Sound(i)' => /\ login'[i].tenant = login[i].tenant
                        /\ \A k \in Rows : staff[k].live /\ staff[k].login = i
                              => login'[i].tenant \in {None, staff[k].tenant}
                        /\ Opens(i)' => Held(i)
    PROVE  IInv'
<1>1. p \in Requests /\ TypeInv /\ Others(p) /\ req'[p] = Failed
  BY RunnerIs, GoesOthers DEF IInv
<1>2. p \notin Running' /\ req'[p].pc = "failed"
  BY <1>1, EndedIs DEF Running, Ended
<1>3. Own(p)' /\ MayKnow(p) /\ LeavesAlone(p) /\ Used(p)' /\ Entered(p)'
  BY <1>2 DEF Own, MayKnow, LeavesAlone, Used, Entered
<1>4. \A k : (Sound(k)' => Sound(k)) /\ (Contending(p, k) => k = i) /\ (Held(k)' <=> Held(k))
  BY DEF Sound, Contending, Held
<1>5. \A k \in Rows : ~Moving(p, k)
  BY DEF Moving
<1>6. Conserves(p)
  BY <1>4 DEF Conserves, Sound
<1>7. LinksStay(p) /\ TenantsStay(p)
  BY DEF LinksStay, TenantsStay
<1>8. Names(p)
  BY <1>3 DEF Names
<1>9. MayLock(p)
  BY <1>2, RowsLocked DEF MayLock
<1>10. Unique'
  BY DEF IInv, Unique
<1>11. ASSUME NEW k \in Rows, staff'[k].live, Sound(staff[k].login)'
       PROVE  Agrees(k)' \/ AgreesStill(p, k)
  <2>1. PICK j : j = staff'[k].login
    OBVIOUS
  <2>2. Sound(j)' /\ Sound(j)
    BY <1>4, <1>11, <2>1 DEF Sound
  <2>3. CASE j = i
    BY <1>11, <2>1, <2>2, <2>3 DEF Agrees
  <2>4. CASE j # i
    BY <1>4, <1>5, <1>11, <2>1, <2>2, <2>4 DEF AgreesStill, SameRow, Sound
  <2> QED
    BY <2>3, <2>4
<1>12. ASSUME NEW k \in Logins, Sound(k)', Opens(k)'
       PROVE  Held(k)' \/ OpensStill(p, k)
  <2>1. CASE k = i
    BY <1>4, <1>12, <2>1
  <2>2. CASE k # i
    BY <1>4, <1>12, <2>2 DEF OpensStill, Opens
  <2> QED
    BY <2>1, <2>2
<1> QED
  BY <1>1, <1>3, <1>6, <1>7, <1>8, <1>9, <1>10, <1>11, <1>12, StepKeeps

LEMMA UndoCreateKeeps ==
    ASSUME IInv, NEW p \in Requests, UndoCreate(p)
    PROVE  IInv'
<1>0. TypeInv /\ Types
  BY DEF IInv, TypeInv
<1>1. PICK i : i = req[p].who
  OBVIOUS
<1>2. PICK was : was = req[p].was
  OBVIOUS
<1> DEFINE after == IF was.live THEN Merge(i, was.app, was.tenant, was.must)
                    ELSE [login EXCEPT ![i] = Absent]
           whole == was.live => was.app # "unset" /\ was.tenant # None /\ was.must # "unset"
<1>3. Undo(p, login[i].live, after, whole)
  BY <1>1, <1>2 DEF UndoCreate
<1>4. /\ p \in Running /\ req[p] \in Work /\ Placed(req[p]) /\ req[p].pc = "uncreate"
      /\ req[p].op = "create" /\ i \in Logins /\ was \in LoginRows
  <2>1. p \in Running /\ req[p] \in Work /\ Placed(req[p]) /\ req[p].pc = "uncreate"
    BY <1>0, StageRuns DEF UndoCreate, Stages
  <2>2. req[p].op \in Kinds /\ i \in Logins \cup {None} /\ was \in LoginRows
    BY <1>1, <1>2, <2>1, WorkFields
  <2>3. req[p].op = "create" /\ i # None
    BY <1>1, <2>1, <2>2 DEF Placed, Kinds
  <2> QED
    BY <2>1, <2>2, <2>3
<1>5. ASSUME login[i].live, was.live
      PROVE  MergedIs(i, was.app, was.tenant, was.must, after)
  <2>1. was \in Login
    BY <1>4, <1>5, AbsentIsDead DEF LoginRows
  <2>2. /\ was.app \in AppRoles \cup {"platform_admin", "unset"}
        /\ was.tenant \in Tenants \cup {None} /\ was.must \in {"yes", "no", "unset"}
    BY <2>1 DEF Login
  <2>3. MergedIs(i, was.app, was.tenant, was.must, Merge(i, was.app, was.tenant, was.must))
    BY <1>0, <1>4, <1>5, <2>2, MergeIs
  <2> QED
    BY <1>5, <2>3
<1>6. ASSUME ~was.live
      PROVE  /\ after \in [Logins -> LoginRows] /\ after[i] = Absent /\ ~after[i].live
             /\ \A k \in Logins \ {i} : after[k] = login[k]
  <2>1. after = [login EXCEPT ![i] = Absent]
    BY <1>6
  <2> HIDE DEF after
  <2> QED
    BY <1>0, <1>4, <2>1, AbsentIsDead DEF Types, LoginRows
<1> HIDE DEF after
<1>7. ASSUME login[i].live
      PROVE  after \in [Logins -> LoginRows] /\ \A k \in Logins \ {i} : after[k] = login[k]
  BY <1>5, <1>6, <1>7 DEF MergedIs
<1>8. TypeInv'
  <2> HIDE DEF whole
  <2> QED
    BY <1>0, <1>1, <1>3, <1>4, <1>7, UndoTypesIf
<1>9. /\ UNCHANGED <<staff, role>> /\ adrift \subseteq adrift' /\ Goes(p, Failed)
      /\ login' = login \/ (login[i].live /\ login' = after)
      /\ \/ /\ login[i].live /\ login' = after /\ req[p].alone /\ whole /\ adrift' = adrift
         \/ i \in adrift'
  <2> HIDE DEF whole
  <2> QED
    BY <1>1, <1>3, UndoIs
<1>10. CASE i \in adrift'
  BY <1>1, <1>4, <1>7, <1>8, <1>9, <1>10, UndoFailed
<1>11. CASE login[i].live /\ login' = after /\ req[p].alone /\ whole /\ adrift' = adrift
  <2>1. Began(p)
    BY <1>4, RunnerIs
  <2>2. CASE was.live
    <3>1. /\ login'[i].live /\ login'[i].tenant = was.tenant /\ login'[i].app = was.app
          /\ was.tenant # None
      BY <1>5, <1>11, <2>2 DEF MergedIs
    <3>2. was.tenant = req[p].want.tenant /\ login[i].tenant = req[p].want.tenant
      BY <1>1, <1>2, <1>4, <1>11, <2>1, <2>2, <3>1 DEF Began
    <3>3. ASSUME Sound(i)'
          PROVE  /\ \A k \in Rows : staff[k].live /\ staff[k].login = i
                       => login'[i].tenant \in {None, staff[k].tenant}
                 /\ Opens(i)' => Held(i)
      <4>1. Sound(i)
        BY <1>11, <3>3 DEF Sound
      <4> QED
        BY <1>1, <1>2, <1>4, <1>11, <2>1, <2>2, <3>1, <4>1 DEF Began, Opens
    <3> QED
      BY <1>1, <1>4, <1>7, <1>8, <1>9, <1>11, <3>1, <3>2, <3>3, CreationUndone
  <2>3. CASE ~was.live
    <3>1. ~login'[i].live /\ ~Sound(i)'
      BY <1>6, <1>11, <2>3 DEF Sound
    <3> QED
      BY <1>1, <1>4, <1>7, <1>8, <1>9, <1>11, <3>1, CreationUndone
  <2> QED
    BY <2>2, <2>3
<1> QED
  BY <1>9, <1>10, <1>11


-----------------------------------------------------------------------------
(* Every step, and the first state.                                        *)

Beginning(p) ==
    \/ BeginCreate(p) \/ BeginUpdate(p) \/ BeginStatus(p) \/ BeginClose(p)
    \/ BeginReset(p) \/ BeginPassword(p) \/ BeginMove(p) \/ BeginRemove(p)
    \/ BeginPromote(p) \/ BeginDemote(p) \/ BeginProfile(p) \/ BeginEvent(p)
Single(p) == EditStaff(p) \/ AddRole(p) \/ RenameRole(p) \/ RemoveRole(p)
Creating(p) == CreateUser(p) \/ Adopt(p) \/ InsertUser(p) \/ UndoCreate(p)
Moves(p) == LoadMove(p) \/ LockRow(p) \/ ClaimTenant(p) \/ CommitMove(p) \/ UndoClaim(p)
Promoting(p) == Grant(p) \/ RecordGrant(p) \/ UndoGrant(p)
Demoting(p) == Land(p) \/ Revoke(p) \/ RecordRevoke(p)
Plain(p) ==
    \/ PatchIdentity(p) \/ SaveUser(p) \/ UndoPatch(p)
    \/ Ban(p) \/ StampStatus(p) \/ EachMember(p) \/ Reissue(p)
    \/ DeleteUser(p) \/ EraseRow(p) \/ KeepProfile(p) \/ AcceptInvite(p)

LEMMA NextIs ==
    ASSUME Next
    PROVE  \/ \E p \in Requests : \/ Beginning(p) \/ Single(p) \/ Creating(p) \/ Moves(p)
                                  \/ Promoting(p) \/ Demoting(p) \/ Plain(p) \/ Crash(p)
           \/ Idle
BY DEF Next, Beginning, Single, Creating, Moves, Promoting, Demoting, Plain

LEMMA NextKeeps == IInv /\ Next => IInv'
<1> SUFFICES ASSUME IInv, Next
             PROVE  IInv'
  OBVIOUS
<1>1. ASSUME NEW p \in Requests, Beginning(p)
      PROVE  IInv'
  BY <1>1, BeginningsKeep DEF Beginning
<1>2. ASSUME NEW p \in Requests, Single(p)
      PROVE  IInv'
  BY <1>2, EditStaffKeeps, RolesKeep, RemoveRoleKeeps DEF Single
<1>3. ASSUME NEW p \in Requests, Creating(p)
      PROVE  IInv'
  BY <1>3, CreateUserKeeps, AdoptKeeps, InsertUserKeeps, UndoCreateKeeps DEF Creating
<1>4. ASSUME NEW p \in Requests, Moves(p)
      PROVE  IInv'
  BY <1>4, LoadMoveKeeps, LockRowKeeps, ClaimTenantKeeps, CommitMoveKeeps, UndoClaimKeeps DEF Moves
<1>5. ASSUME NEW p \in Requests, Promoting(p)
      PROVE  IInv'
  BY <1>5, GrantKeeps, RecordGrantKeeps, UndoGrantKeeps DEF Promoting
<1>6. ASSUME NEW p \in Requests, Demoting(p)
      PROVE  IInv'
  BY <1>6, LandKeeps, RevokeKeeps, RecordRevokeKeeps DEF Demoting
<1>7. ASSUME NEW p \in Requests, Plain(p)
      PROVE  IInv'
  BY <1>7, PatchIdentityKeeps, SaveUserKeeps, UndoPatchKeeps, BanKeeps, StampStatusKeeps,
     EachMemberKeeps, ReissueKeeps, DeleteUserKeeps, EraseRowKeeps, KeepProfileKeeps,
     AcceptInviteKeeps DEF Plain
<1>8. ASSUME NEW p \in Requests, Crash(p)
      PROVE  IInv'
  BY <1>8, CrashKeeps
<1>9. CASE Idle
  BY <1>9 DEF Idle, vars, IInv, TypeInv, Types, RolesExist, Running, Ended, Identities, Used,
     Entered, Unique, Locks, InMove, Rivals, Sound, Claims, Agrees, Contested, Contending,
     Moving, Homes, Opens, Held, Linked, Follows, Awaits, Promise, Began
<1> QED
  BY <1>1, <1>2, <1>3, <1>4, <1>5, <1>6, <1>7, <1>8, <1>9, NextIs

LEMMA StutterKeeps == IInv /\ UNCHANGED vars => IInv'
BY DEF vars, IInv, TypeInv, Types, RolesExist, Running, Ended, Identities, Used, Entered,
   Unique, Locks, InMove, Rivals, Sound, Claims, Agrees, Contested, Contending, Moving,
   Homes, Opens, Held, Linked, Follows, Awaits, Promise, Began


LEMMA InitKeeps == Init => IInv
<1> SUFFICES ASSUME Init
             PROVE  IInv
  OBVIOUS
<1> DEFINE person(e, app, t, must) == [live |-> TRUE, email |-> e, app |-> app, tenant |-> t,
                                       must |-> must, banned |-> FALSE]
           row(i, e, r, status) == [live |-> TRUE, tenant |-> Home, login |-> i, email |-> e,
                                    role |-> r, status |-> status]
           first(seats, i) ==
              CASE i = Root -> IF seats = 0 THEN Absent
                               ELSE person(RootEmail, "platform_admin", None, "unset")
                [] i = Member -> person(MemberEmail, IF seats = 2 THEN "platform_admin" ELSE "owner",
                                        Home, "no")
                [] i = Stray -> IF seats = 0 THEN person(StrayEmail, "unset", None, "unset")
                                ELSE person(StrayEmail, "staff", Home, "no")
                [] OTHER -> Absent
<1>1. /\ Root # Member /\ Root # Stray /\ Member # Stray /\ Owner # Invitee
      /\ Requests \cap {Root, Member, Stray} = {} /\ Requests \cap {Owner, Invitee} = {}
      /\ Member \in Logins /\ Owner \in Rows /\ Invitee \in Rows
      /\ None \notin Logins
      /\ Home \in Tenants /\ Home # None /\ HomeRole \in Roles /\ Clerk \in RoleNames
      /\ RootEmail \in Emails /\ MemberEmail \in Emails /\ StrayEmail \in Emails
      /\ InviteeEmail \in Emails /\ MaxFaults \in Nat
  BY ConstantsAssumption DEF Logins, Rows
<1>2. PICK seats \in {0, IF Singleton THEN 1 ELSE 2} : login = [i \in Logins |-> first(seats, i)]
  BY Zenon DEF Init
<1>3. /\ role = [r \in Roles |-> IF r = HomeRole THEN [live |-> TRUE, tenant |-> Home, name |-> Clerk]
                                 ELSE Absent]
      /\ staff = [s \in Rows |-> CASE s = Owner -> row(Member, MemberEmail, HomeRole, "active")
                                   [] s = Invitee -> row(None, InviteeEmail, HomeRole, "invited")
                                   [] OTHER -> Absent]
      /\ req = [p \in Requests |-> Fresh] /\ faults = 0 /\ adrift = {}
  BY DEF Init
<1>4. /\ \A e \in Emails, app \in AppRoles \cup {"platform_admin", "unset"},
            t \in Tenants \cup {None}, must \in {"yes", "no", "unset"} :
              person(e, app, t, must) \in Login
      /\ \A i \in Logins \cup {None}, e \in Emails, r \in Roles, status \in Statuses :
              row(i, e, r, status) \in StaffRow
      /\ "owner" \in AppRoles /\ "staff" \in AppRoles /\ "active" \in Statuses /\ "invited" \in Statuses
  BY <1>1 DEF Login, StaffRow, AppRoles, Statuses
<1>5. /\ \A i \in Logins \ {Root, Member, Stray} : login[i] = Absent
      /\ login[Member].live /\ login[Member].tenant = Home
      /\ login[Root].live => login[Root].tenant = None
      /\ login[Stray].app # "platform_admin"
  <2>1. Root \in Logins /\ Stray \in Logins
    BY DEF Logins
  <2>2. \A i \in Logins : login[i] = first(seats, i)
    BY <1>2
  <2>3. \A i \in Logins \ {Root, Member, Stray} : login[i] = Absent
    BY <2>2
  <2>4. login[Member].live /\ login[Member].tenant = Home
    BY <1>1, <2>2
  <2>5. login[Root].live => login[Root].tenant = None
    BY <1>1, <2>1, <2>2 DEF Absent
  <2>6. login[Stray].app # "platform_admin"
    BY <1>1, <2>1, <2>2
  <2> QED
    BY <2>3, <2>4, <2>5, <2>6
<1>6. \A i \in Logins : login[i] \in LoginRows
  <2>1. /\ login[Root] \in LoginRows /\ login[Member] \in LoginRows /\ login[Stray] \in LoginRows
    BY <1>1, <1>2, <1>4 DEF Logins, LoginRows
  <2> QED
    BY <1>5, <2>1 DEF LoginRows
<1>7. /\ \A s \in Rows \ {Owner, Invitee} : staff[s] = Absent
      /\ staff[Owner] = row(Member, MemberEmail, HomeRole, "active")
      /\ staff[Invitee] = row(None, InviteeEmail, HomeRole, "invited")
  BY <1>1, <1>3
<1>8. /\ staff[Owner].live /\ staff[Owner].login = Member /\ staff[Owner].tenant = Home
      /\ staff[Owner].role = HomeRole /\ staff[Owner] \in StaffRow
      /\ staff[Invitee].live /\ staff[Invitee].login = None /\ staff[Invitee].role = HomeRole
      /\ staff[Invitee] \in StaffRow
  BY <1>1, <1>4, <1>7
<1>9. \A s \in Rows : staff[s] \in PersonRows
  BY <1>7, <1>8 DEF PersonRows
<1>10. role \in [Roles -> RoleRows] /\ role[HomeRole].live
  BY <1>1, <1>3 DEF RoleRows, Role
<1>11. /\ login \in [Logins -> LoginRows] /\ staff \in [Rows -> PersonRows]
  BY <1>2, <1>3, <1>6, <1>9
<1> HIDE DEF person, row, first
<1>12. Running = {}
  BY <1>3 DEF Running
<1>13. \A s \in Rows : staff[s].live => s \in {Owner, Invitee}
  BY <1>7, AbsentIsDead
<1>14. TypeInv
  <2>1. faults \in 0 .. MaxFaults
    BY <1>1, <1>3
  <2>3. req \in [Requests -> Sent \cup Ended \cup {Fresh}] /\ adrift \subseteq Logins
    BY <1>3
  <2>4. Types
    BY <1>10, <1>11, <2>1, <2>3 DEF Types
  <2>2. RolesExist
    BY <1>1, <1>8, <1>10, <1>12, <1>13 DEF RolesExist
  <2> QED
    BY <2>2, <2>4 DEF TypeInv
<1>15. Identities
  <2>1. \A i \in Logins : login[i].live => Used(i)
    BY <1>1, <1>5, AbsentIsDead DEF Used
  <2>2. \A s \in Rows : staff[s].live => Entered(s) /\ Used(staff[s].login)
    BY <1>1, <1>8, <1>13 DEF Used, Entered, Logins
  <2> QED
    BY <1>12, <2>1, <2>2 DEF Identities
<1>16. Unique /\ Locks /\ Rivals
  BY <1>8, <1>12, <1>13 DEF Unique, Locks, Rivals
<1>17. Claims
  <2>1. ASSUME NEW s \in Rows, staff[s].live, Sound(staff[s].login)
        PROVE  Agrees(s)
    BY <1>1, <1>5, <1>8, <1>13, <2>1 DEF Sound, Agrees
  <2> QED
    BY <2>1 DEF Claims
<1>18. Homes
  <2>1. ASSUME NEW i \in Logins, Sound(i), Opens(i)
        PROVE  Held(i)
    BY <1>1, <1>5, <1>8, <2>1, AbsentIsDead DEF Sound, Opens, Held
  <2> QED
    BY <2>1 DEF Homes
<1> QED
  BY <1>12, <1>14, <1>15, <1>16, <1>17, <1>18 DEF IInv

-----------------------------------------------------------------------------
(* The theorems.                                                           *)

\* The invariant above holds of every run.
THEOREM Inductive == Spec => []IInv
BY InitKeeps, NextKeeps, StutterKeeps, PTL DEF Spec

\* Rows, logins, roles and the roles that rows point to keep their types, whatever
\* requests meet, fail or crash.
THEOREM TypeCorrect == Spec => []TypeOK
<1>1. IInv => TypeOK
  BY LiveRows DEF IInv, TypeInv, Types, RolesExist, TypeOK, LoginRows, PersonRows, RoleRows, Live
<1> QED
  BY <1>1, Inductive, PTL

\* The tenant in a token follows the person's row, for any number of requests and
\* faults: what moveTenant, create, promote and demote write to GoTrue and to
\* PostgreSQL agrees once they are through, or the login is known to be adrift.
THEOREM ClaimsFollowRows == Spec => []ClaimFollowsRow
<1>1. IInv => ClaimFollowsRow
  <2> SUFFICES ASSUME IInv, NEW s \in Live(staff), staff[s].login \in Live(login) \ adrift,
                      Quiet(staff[s].login, s)
               PROVE  login[staff[s].login].tenant \in {None, staff[s].tenant}
    BY DEF ClaimFollowsRow
  <2>1. TypeInv /\ s \in Rows /\ staff[s].live /\ Sound(staff[s].login)
    BY LiveRows, LiveLogins DEF IInv, Sound, Live, TypeInv
  <2>2. Agrees(s)
    BY <2>1 DEF IInv, Claims
  <2>3. ~Contested(staff[s].login)
    BY <2>1, ContendersRun DEF Contested, Contending, Quiet
  <2>4. ASSUME NEW q \in Requests, Moving(q, s)
        PROVE  FALSE
    <3>1. q \in Running
      BY <2>4, EndedIs DEF Moving, Running, Ended, Fresh
    <3>2. Placed(req[q]) /\ req[q].op \in Kinds
      BY <3>1, RunnerIs
    <3>3. req[q].op # "close"
      BY <2>4, <3>2 DEF Placed, Moving
    <3> QED
      BY <2>4, <3>1, <3>3 DEF Moving, Quiet
  <2> QED
    BY <2>2, <2>3, <2>4 DEF Agrees
<1> QED
  BY <1>1, Inductive, PTL

\* No login that opens a workspace is left without a person: whoever creates one
\* enters its row, takes it back or says that it could not; removal takes both.
THEOREM NoneOrphaned == Spec => []NoOrphans
<1>1. IInv => NoOrphans
  <2> SUFFICES ASSUME IInv, NEW i \in Live(login) \ (adrift \cup {Stray}), login[i].tenant # None
               PROVE  \/ \E s \in Live(staff) : staff[s].login = i
                      \/ \E p \in Running : req[p].who = i
    BY DEF NoOrphans
  <2>1. TypeInv /\ i \in Logins /\ Sound(i) /\ Opens(i)
    BY LiveLogins DEF IInv, Sound, Live, TypeInv, Opens
  <2>2. Held(i) \/ Contested(i)
    BY <2>1 DEF IInv, Homes
  <2>3. CASE Held(i)
    BY <2>1, <2>3 DEF Held, Live, TypeInv, Types
  <2>4. CASE Contested(i)
    BY <2>1, <2>4, ContendersRun DEF Contested, Contending
  <2> QED
    BY <2>2, <2>3, <2>4
<1> QED
  BY <1>1, Inductive, PTL


-----------------------------------------------------------------------------
(* What a failure leaves.                                                  *)

\* What FailureUndone says of one request.
Undone(p) ==
    \A i \in Logins :
       LET was == req[p].before[i]
           want == req[p].want
           undoing == req[p].pc \in {"uncreate", "unclaim", "ungrant"}
       IN  \/ login'[i] = was
           \/ i = req[p].who /\ was.live /\ login'[i] =
                IF req[p].op = "create" THEN Filled(was, want)
                ELSE [was EXCEPT !.app = want.app, !.tenant = req[p].seen.tenant]
           \/ i \in adrift' /\ (undoing => login' = login)

\* Only the request itself can make it fail, when it is alone.
LEMMA OtherBegins ==
    ASSUME TypeInv, NEW p \in Running, NEW q \in Requests, q # p,
           NEW op, NEW i, NEW s, NEW want, NEW pc, Begin(q, op, i, s, want, pc)
    PROVE  req'[p] # Failed
<1>1. req'[p] = Joined(req[p]) /\ req[p] \in Work
  BY RunningWorks DEF Begin, Joined, TypeInv, Running
<1> QED
  BY <1>1, JoinedIs, WorkIsNotEnded, EndedIs

LEMMA BeginsFresh ==
    ASSUME NEW p \in Requests, NEW op, NEW i, NEW s, NEW want, NEW pc,
           Begin(p, op, i, s, want, pc)
    PROVE  p \notin Running
BY DEF Begin, Running

LEMMA BeginningIsOthers ==
    ASSUME TypeInv, NEW p \in Running, NEW q \in Requests, Beginning(q)
    PROVE  req'[p] # Failed
<1>1. \E op, i, s, want, pc : Begin(q, op, i, s, want, pc)
  <2>1. CASE BeginCreate(q)
    BY <2>1 DEF BeginCreate
  <2>2. CASE BeginUpdate(q)
    BY <2>2 DEF BeginUpdate
  <2>3. CASE BeginStatus(q)
    BY <2>3 DEF BeginStatus
  <2>4. CASE BeginClose(q)
    BY <2>4 DEF BeginClose
  <2>5. CASE BeginReset(q)
    BY <2>5 DEF BeginReset
  <2>6. CASE BeginPassword(q)
    BY <2>6 DEF BeginPassword
  <2>7. CASE BeginMove(q)
    BY <2>7 DEF BeginMove
  <2>8. CASE BeginRemove(q)
    BY <2>8 DEF BeginRemove
  <2>9. CASE BeginPromote(q)
    BY <2>9 DEF BeginPromote
  <2>10. CASE BeginDemote(q)
    BY <2>10 DEF BeginDemote
  <2>11. CASE BeginProfile(q)
    BY <2>11 DEF BeginProfile
  <2>12. CASE BeginEvent(q)
    BY <2>12 DEF BeginEvent
  <2> QED
    BY <2>1, <2>2, <2>3, <2>4, <2>5, <2>6, <2>7, <2>8, <2>9, <2>10, <2>11, <2>12 DEF Beginning
<1> QED
  BY <1>1, OtherBegins, BeginsFresh

LEMMA SingleIsOthers ==
    ASSUME TypeInv, NEW p \in Running, NEW q \in Requests, Single(q)
    PROVE  req'[p] # Failed
<1>1. req[q] = Fresh /\ Goes(q, Done)
  BY DEF Single, EditStaff, AddRole, RenameRole, RemoveRole, At1
<1> QED
  BY <1>1, GoesIs, EndedIs DEF TypeInv, Running

LEMMA WorkingRuns ==
    ASSUME Types, NEW q \in Requests,
           Creating(q) \/ Moves(q) \/ Promoting(q) \/ Demoting(q) \/ Plain(q) \/ Crash(q)
    PROVE  q \in Running
<1>1. \/ Crash(q)
      \/ \E c \in Stages : At(q, c)
  BY DEF Creating, Moves, Promoting, Demoting, Plain, CreateUser, Adopt, InsertUser, UndoCreate,
     LoadMove, LockRow, ClaimTenant, CommitMove, UndoClaim, Grant, RecordGrant, UndoGrant, Land, Revoke,
     RecordRevoke, PatchIdentity, SaveUser, UndoPatch, Ban, StampStatus, EachMember, Reissue,
     DeleteUser, EraseRow, KeepProfile, AcceptInvite, Stages
<1> QED
  BY <1>1, StageRuns DEF Crash

\* A call that failed for good left its login alone, or the log names it.
LEMMA CallUndone ==
    ASSUME TypeInv, NEW p \in Requests, NEW ok, NEW after, NEW good \in Work,
           Call(p, ok, after, good, Failed), req'[p] = Failed, req[p].before = login,
           req[p].pc \notin {"uncreate", "unclaim", "ungrant"}
    PROVE  Undone(p)
<1>1. ~Goes(p, good)
  BY GoesIs, WorkIsNotEnded, EndedIs DEF TypeInv
<1>2. \/ login' = login
      \/ /\ login' = after
         /\ adrift' = adrift \cup {i \in Logins : after[i] # login[i]}
  BY <1>1, CallIs, EndedIs
<1> QED
  BY <1>2 DEF Undone


\* What Began says of the request's own login and of the others.
LEMMA BeganIs ==
    ASSUME IInv, NEW p \in Running, req[p].alone, req[p].op \in {"create", "move", "promote"}
    PROVE  /\ req[p].before \in [Logins -> LoginRows]
           /\ \A k \in Logins \ {req[p].who} : login[k] = req[p].before[k]
           /\ req[p].pc \in {"identity", "adopt", "load", "lock", "claim", "grant"} => login = req[p].before
<1>1. Began(p)
  BY RunnerIs
<1> QED
  BY <1>1 DEF Began

\* A login is its fields.
LEMMA LoginIs ==
    ASSUME NEW l \in Login, NEW o \in Login, l.email = o.email, l.app = o.app,
           l.tenant = o.tenant, l.must = o.must, l.banned = o.banned
    PROVE  l = o
<1>1. /\ l = [live |-> l.live, email |-> l.email, app |-> l.app, tenant |-> l.tenant,
              must |-> l.must, banned |-> l.banned]
      /\ o = [live |-> o.live, email |-> o.email, app |-> o.app, tenant |-> o.tenant,
              must |-> o.must, banned |-> o.banned]
      /\ l.live = TRUE /\ o.live = TRUE
  BY DEF Login
<1> QED
  BY <1>1

LEMMA CreatingUndone ==
    ASSUME IInv, NEW p \in Running, req[p].alone, req[p].op = "create", req'[p] = Failed, Creating(p)
    PROVE  Undone(p)
<1>0. TypeInv /\ Types /\ p \in Requests /\ req[p] \in Work /\ Placed(req[p])
  BY RunnerIs DEF IInv, TypeInv
<1>1. CASE CreateUser(p)
  <2>1. login = req[p].before /\ req[p].pc = "identity"
    BY <1>1, BeganIs DEF CreateUser, At
  <2>2. /\ [Step(p, "insert") EXCEPT !.who = p] \in Work
        /\ \A i \in Logins, was \in LoginRows :
              [Step(p, "adopt") EXCEPT !.who = i, !.was = was] \in Work
    BY <1>0 DEF Step, Work, Stages, Logins
  <2>3. CASE {i \in Live(login) : login[i].email = req[p].want.email} = {}
    <3>1. \E after : Call(p, TRUE, after, [Step(p, "insert") EXCEPT !.who = p], Failed)
      BY <1>1, <2>3 DEF CreateUser
    <3> QED
      BY <1>0, <2>1, <2>2, <3>1, CallUndone
  <2>4. CASE \E i \in {i \in Live(login) : login[i].email = req[p].want.email} :
               Call(p, login[i].tenant \in {None, req[p].want.tenant}, login,
                    [Step(p, "adopt") EXCEPT !.who = i, !.was = login[i]], Failed)
    <3>1. PICK i \in Live(login) :
             Call(p, login[i].tenant \in {None, req[p].want.tenant}, login,
                  [Step(p, "adopt") EXCEPT !.who = i, !.was = login[i]], Failed)
      BY <2>4
    <3>2. i \in Logins /\ login[i] \in LoginRows
      BY <1>0, LiveLogins DEF Types
    <3>3. [Step(p, "adopt") EXCEPT !.who = i, !.was = login[i]] \in Work
      BY <2>2, <3>2
    <3> QED
      BY <1>0, <2>1, <3>1, <3>3, CallUndone
  <2> QED
    BY <1>1, <2>3, <2>4 DEF CreateUser
<1>2. CASE Adopt(p)
  <2>1. login = req[p].before /\ req[p].pc = "adopt"
    BY <1>2, BeganIs DEF Adopt, At
  <2>2. Step(p, "insert") \in Work
    BY <1>0, StepIs DEF Stages
  <2>3. \E ok, after : Call(p, ok, after, Step(p, "insert"), Failed)
    BY <1>2 DEF Adopt
  <2> QED
    BY <1>0, <2>1, <2>2, <2>3, CallUndone
<1>3. CASE InsertUser(p)
  <2>1. Goes(p, Done) \/ Goes(p, Step(p, "uncreate"))
    BY <1>3 DEF InsertUser, Tx, TxLeaves
  <2>2. Step(p, "uncreate") \in Work
    BY <1>0, StepIs DEF Stages
  <2> QED
    BY <1>0, <2>1, <2>2, GoesIs, EndedIs, WorkIsNotEnded
<1>4. CASE UndoCreate(p)
  <2>1. PICK i : i = req[p].who
    OBVIOUS
  <2>2. PICK was : was = req[p].was
    OBVIOUS
  <2>3. PICK old : old = req[p].before
    OBVIOUS
  <2> DEFINE after == IF was.live THEN Merge(i, was.app, was.tenant, was.must)
                      ELSE [login EXCEPT ![i] = Absent]
             whole == was.live => was.app # "unset" /\ was.tenant # None /\ was.must # "unset"
  <2>4. Undo(p, login[i].live, after, whole) /\ req[p].pc = "uncreate"
    BY <1>4, <2>1, <2>2 DEF UndoCreate, At
  <2>5. i \in Logins /\ was \in LoginRows
    BY <1>0, <2>1, <2>2, <2>4, WorkFields DEF Placed
  <2>6. \/ login' = login /\ i \in adrift'
        \/ login[i].live /\ login' = after
    <3> HIDE DEF after, whole
    <3> QED
      BY <1>0, <2>1, <2>4, UndoIs
  <2>7. Began(p) /\ old \in [Logins -> LoginRows] /\ \A k \in Logins \ {i} : login[k] = old[k]
    BY <2>1, <2>3, BeganIs, RunnerIs
  <2>8. CASE login' = login /\ i \in adrift'
    BY <2>3, <2>7, <2>8 DEF Undone
  <2>9. CASE login[i].live /\ login' = after /\ was.live
    <3>1. PICK want : want = req[p].want
      OBVIOUS
    <3>2. /\ was.app \in AppRoles \cup {"platform_admin", "unset"}
          /\ was.tenant \in Tenants \cup {None} /\ was.must \in {"yes", "no", "unset"}
          /\ was \in Login
      BY <2>5, <2>9, AbsentIsDead DEF LoginRows, Login
    <3>3. MergedIs(i, was.app, was.tenant, was.must, Merge(i, was.app, was.tenant, was.must))
      BY <1>0, <2>5, <2>9, <3>2, MergeIs
    <3>4. /\ was = old[i] /\ login[i].email = was.email /\ login[i].banned = was.banned
          /\ login[i].app = want.app /\ login[i].tenant = want.tenant /\ login[i].must = want.must
      BY <2>1, <2>2, <2>3, <2>4, <2>7, <2>9, <3>1 DEF Began, Akin
    <3>5. PICK full : full = Filled(was, want)
      OBVIOUS
    <3>6. login[i] \in Login
      BY <1>0, <2>5, <2>9, AbsentIsDead DEF Types, LoginRows
    <3>7. /\ full \in Login /\ full.email = was.email /\ full.banned = was.banned
          /\ full.app = IF was.app = "unset" THEN want.app ELSE was.app
          /\ full.tenant = IF was.tenant = None THEN want.tenant ELSE was.tenant
          /\ full.must = IF was.must = "unset" THEN want.must ELSE was.must
      BY <3>2, <3>4, <3>5, <3>6 DEF Filled, Login
    <3>8. /\ \A k \in Logins \ {i} : login'[k] = login[k]
          /\ login'[i] \in Login /\ login'[i].email = login[i].email
          /\ login'[i].banned = login[i].banned
          /\ login'[i].app = IF was.app = "unset" THEN login[i].app ELSE was.app
          /\ login'[i].tenant = IF was.tenant = None THEN login[i].tenant ELSE was.tenant
          /\ login'[i].must = IF was.must = "unset" THEN login[i].must ELSE was.must
      BY <2>9, <3>3 DEF MergedIs
    <3>9. login'[i] = full
      <4>1. PICK l \in Login : l = login'[i]
        BY <3>8
      <4>2. /\ l.email = full.email /\ l.banned = full.banned /\ l.app = full.app
            /\ l.tenant = full.tenant /\ l.must = full.must
        BY <3>4, <3>7, <3>8, <4>1
      <4> QED
        BY <3>7, <4>1, <4>2, LoginIs
    <3>10. \A k \in Logins \ {i} : login'[k] = req[p].before[k]
      BY <2>3, <2>7, <3>8
    <3>11. /\ i = req[p].who /\ req[p].before[i].live
           /\ login'[i] = Filled(req[p].before[i], req[p].want)
      BY <2>1, <2>3, <2>9, <3>1, <3>4, <3>5, <3>9
    <3> QED
      BY <3>10, <3>11 DEF Undone
  <2>10. CASE login[i].live /\ login' = after /\ ~was.live
    <3>1. i = p /\ old[p] = Absent
      BY <2>1, <2>2, <2>3, <2>4, <2>7, <2>10 DEF Began
    <3>2. login' = [login EXCEPT ![i] = Absent]
      BY <2>10
    <3>3. login'[i] = Absent /\ \A k \in Logins \ {i} : login'[k] = login[k]
      BY <1>0, <2>5, <3>2 DEF Types
    <3> QED
      BY <2>3, <2>7, <3>1, <3>3 DEF Undone
  <2> QED
    BY <2>6, <2>8, <2>9, <2>10
<1> QED
  BY <1>1, <1>2, <1>3, <1>4 DEF Creating


\* The claims as a compensation writes them.
PutBack(i, old, app, t) ==
    /\ \A k \in Logins \ {i} : login'[k] = login[k]
    /\ login'[i] = [old EXCEPT !.app = app, !.tenant = t]

LEMMA ClaimsPutBack ==
    ASSUME Types, NEW i \in Logins, login[i].live, NEW old \in Login,
           NEW app \in AppRoles \cup {"platform_admin"}, NEW t \in Tenants,
           login[i] = old \/ (Akin(login[i], old) /\ login[i].must = old.must),
           login' = Merge(i, app, t, "unset")
    PROVE  PutBack(i, old, app, t)
<1>1. MergedIs(i, app, t, "unset", login')
  BY MergeIs
<1>2. /\ login'[i] \in Login /\ \A k \in Logins \ {i} : login'[k] = login[k]
      /\ login'[i].email = login[i].email /\ login'[i].banned = login[i].banned
      /\ login'[i].app = app /\ login'[i].tenant = t /\ login'[i].must = login[i].must
  BY <1>1, NoneIsNothing DEF MergedIs, AppRoles
<1>3. login[i].email = old.email /\ login[i].banned = old.banned /\ login[i].must = old.must
  BY DEF Akin
<1> DEFINE new == [old EXCEPT !.app = app, !.tenant = t]
<1>4. /\ new \in Login /\ new.email = old.email /\ new.banned = old.banned
      /\ new.app = app /\ new.tenant = t /\ new.must = old.must
  BY DEF Login
<1> HIDE DEF new
<1>5. login'[i] = new
  BY <1>2, <1>3, <1>4, LoginIs
<1> QED
  BY <1>2, <1>5 DEF new, PutBack

\* An undoing of a move or of a promotion.
LEMMA UndoneBack ==
    ASSUME IInv, NEW p \in Running, req[p].alone, req[p].op \in {"move", "promote"},
           req[p].pc \in {"unclaim", "ungrant"}, NEW i, i = req[p].who,
           Undo(p, login[i].live, Merge(i, req[p].want.app, req[p].seen.tenant, "unset"), TRUE)
    PROVE  Undone(p)
<1>0. TypeInv /\ Types /\ p \in Requests /\ req[p] \in Work /\ Placed(req[p]) /\ Began(p)
  BY RunnerIs DEF IInv, TypeInv
<1>1. PICK old : old = req[p].before
  OBVIOUS
<1>2. PICK app : app = req[p].want.app
  OBVIOUS
<1>3. PICK t : t = req[p].seen.tenant
  OBVIOUS
<1>4. i \in Logins /\ app \in AppRoles \cup {"platform_admin"} /\ t \in Tenants
  <2>1. i \in Logins \cup {None} /\ i # None
    BY <1>0, WorkFields DEF Placed
  <2>2. req[p].want \in Wanted /\ app # "unset"
    BY <1>0, <1>2, WorkFields DEF Placed
  <2>3. req[p].seen \in PersonRows /\ req[p].seen.live
    BY <1>0, WorkFields DEF Placed
  <2> QED
    BY <1>2, <1>3, <2>1, <2>2, <2>3, WantedFields, PersonFields
<1>5. old \in [Logins -> LoginRows] /\ \A k \in Logins \ {i} : login[k] = old[k]
  BY <1>1, BeganIs
<1>6. \/ login' = login /\ i \in adrift'
      \/ login[i].live /\ login' = Merge(i, app, t, "unset")
  BY <1>2, <1>3 DEF Undo
<1>7. CASE login' = login /\ i \in adrift'
  BY <1>1, <1>5, <1>7 DEF Undone
<1>8. CASE login[i].live /\ login' = Merge(i, app, t, "unset")
  <2>1. login[i] = old[i] \/ (Akin(login[i], old[i]) /\ login[i].must = old[i].must)
    BY <1>0, <1>1, <1>4, NoneIsNothing DEF Began, Placed
  <2>2. old[i] \in Login
    <3>1. old[i].live
      BY <1>8, <2>1 DEF Akin
    <3> QED
      BY <1>4, <1>5, <3>1, AbsentIsDead DEF LoginRows
  <2>3. PutBack(i, old[i], app, t)
    <3>1. PICK o \in Login : o = old[i]
      BY <2>2
    <3>2. PutBack(i, o, app, t)
      BY <1>0, <1>4, <1>8, <2>1, <3>1, ClaimsPutBack
    <3> QED
      BY <3>1, <3>2
  <2>4. req[p].op # "create"
    OBVIOUS
  <2>5. \A k \in Logins \ {i} : login'[k] = req[p].before[k]
    BY <1>1, <1>5, <2>3 DEF PutBack
  <2>6. /\ i = req[p].who /\ req[p].before[i].live
        /\ login'[i] = [req[p].before[i] EXCEPT !.app = req[p].want.app,
                                              !.tenant = req[p].seen.tenant]
    BY <1>1, <1>2, <1>3, <2>2, <2>3 DEF PutBack, Login
  <2> QED
    BY <2>4, <2>5, <2>6 DEF Undone
<1> QED
  BY <1>6, <1>7, <1>8

LEMMA MovesUndone ==
    ASSUME IInv, NEW p \in Running, req[p].alone, req[p].op = "move", req'[p] = Failed, Moves(p)
    PROVE  Undone(p)
<1>0. TypeInv /\ Types /\ p \in Requests /\ req[p] \in Work /\ Placed(req[p])
  BY RunnerIs DEF IInv, TypeInv
<1>1. \A c \in Stages : ~Goes(p, Step(p, c))
  BY <1>0, StepIs, GoesIs, EndedIs, WorkIsNotEnded
<1>2. CASE LockRow(p) \/ LoadMove(p)
  BY <1>0, <1>2, BeganIs DEF LockRow, LoadMove, At, Undone
<1>3. CASE ClaimTenant(p)
  <2>1. req[p].who # None
    BY <1>0, <1>3 DEF ClaimTenant, At, Placed
  <2>2. Goes(p, Step(p, "commit")) \/ Goes(p, Step(p, "unclaim"))
    BY <1>3, <2>1 DEF ClaimTenant, Call, Unclaim
  <2> QED
    BY <1>1, <2>2 DEF Stages
<1>4. CASE CommitMove(p)
  <2>1. login' = login /\ (Goes(p, Done) \/ Goes(p, Unclaim(p)))
    BY <1>0, <1>4 DEF CommitMove, Tx, TxLeaves
  <2>2. req[p].who = None
    BY <1>0, <1>1, <2>1, GoesIs, EndedIs DEF Unclaim, Stages
  <2> QED
    BY <2>1, <2>2, BeganIs, NoneIsNothing DEF Undone
<1>5. CASE UndoClaim(p)
  <2>1. req[p].pc = "unclaim" /\ MovesAs(p) = req[p].want.app
    BY <1>5 DEF UndoClaim, At, MovesAs
  <2>2. PICK i : i = req[p].who
    OBVIOUS
  <2>3. Undo(p, login[i].live, Merge(i, req[p].want.app, req[p].seen.tenant, "unset"), TRUE)
    BY <1>5, <2>1, <2>2 DEF UndoClaim
  <2> QED
    BY <2>1, <2>2, <2>3, UndoneBack
<1> QED
  BY <1>2, <1>3, <1>4, <1>5 DEF Moves

LEMMA PromotingUndone ==
    ASSUME IInv, NEW p \in Running, req[p].alone, req[p].op = "promote", req'[p] = Failed,
           Promoting(p)
    PROVE  Undone(p)
<1>0. TypeInv /\ Types /\ p \in Requests /\ req[p] \in Work /\ Placed(req[p])
  BY RunnerIs DEF IInv, TypeInv
<1>1. \A c \in Stages : ~Goes(p, Step(p, c))
  BY <1>0, StepIs, GoesIs, EndedIs, WorkIsNotEnded
<1>2. CASE Grant(p)
  <2>1. login = req[p].before /\ req[p].pc = "grant"
    BY <1>2, BeganIs DEF Grant, At
  <2>2. Step(p, "record") \in Work
    BY <1>0, StepIs DEF Stages
  <2>3. \E ok, after : Call(p, ok, after, Step(p, "record"), Failed)
    BY <1>2 DEF Grant
  <2> QED
    BY <1>0, <2>1, <2>2, <2>3, CallUndone
<1>3. CASE RecordGrant(p)
  <2>1. Goes(p, Done) \/ Goes(p, Step(p, "ungrant"))
    BY <1>3 DEF RecordGrant, Tx, TxLeaves
  <2> QED
    BY <1>0, <1>1, <2>1, GoesIs, EndedIs DEF Stages
<1>4. CASE UndoGrant(p)
  <2>1. req[p].pc = "ungrant"
    BY <1>4 DEF UndoGrant, At
  <2>2. PICK i : i = req[p].who
    OBVIOUS
  <2>3. Undo(p, login[i].live, Merge(i, req[p].want.app, req[p].seen.tenant, "unset"), TRUE)
    BY <1>4, <2>2 DEF UndoGrant
  <2> QED
    BY <2>1, <2>2, <2>3, UndoneBack
<1> QED
  BY <1>2, <1>3, <1>4 DEF Promoting

\* No other step is one of a creation, a move or a promotion, but a crash, which
\* does not answer.
LEMMA OwnStage ==
    ASSUME IInv, NEW p \in Running, req'[p] = Failed,
           Creating(p) \/ Moves(p) \/ Promoting(p) \/ Demoting(p) \/ Plain(p) \/ Crash(p)
    PROVE  /\ req[p].op = "create" => Creating(p)
           /\ req[p].op = "move" => Moves(p)
           /\ req[p].op = "promote" => Promoting(p)
<1>0. TypeInv /\ Types /\ p \in Requests /\ req[p] \in Work /\ Placed(req[p])
  BY RunnerIs DEF IInv, TypeInv
<1>1. Creating(p) => req[p].pc \in {"identity", "adopt", "insert", "uncreate"}
  BY DEF Creating, At, CreateUser, Adopt, InsertUser, UndoCreate
<1>2. Moves(p) => req[p].pc \in {"load", "lock", "claim", "commit", "unclaim"}
  BY DEF Moves, At, LoadMove, LockRow, ClaimTenant, CommitMove, UndoClaim
<1>3. Promoting(p) => req[p].pc \in {"grant", "record", "ungrant"}
  BY DEF Promoting, At, Grant, RecordGrant, UndoGrant
<1>4. Demoting(p) => req[p].pc \in {"land", "revoke", "recorded"}
  BY DEF Demoting, At, Land, Revoke, RecordRevoke
<1>5. Plain(p) => req[p].pc \in {"patch", "save", "unpatch", "ban", "stamp", "each", "reissue",
                                 "unlogin", "erase", "keep", "event"}
  BY DEF Plain, At, PatchIdentity, SaveUser, UndoPatch, Ban, StampStatus, EachMember, Reissue,
     DeleteUser, EraseRow, KeepProfile, AcceptInvite
<1>6. ~Crash(p)
  BY <1>0, GoesIs, EndedIs DEF Crash
<1> QED
  BY <1>0, <1>1, <1>2, <1>3, <1>4, <1>5, <1>6 DEF Placed

\* What a failed create, move or promotion that met no other request wrote to
\* GoTrue it has taken back, call by call, but for the keys that an adopted login
\* did not have; or the log names the login, which no undoing then has written.
THEOREM FailuresUndone == Spec => FailureUndone
<1>1. ASSUME IInv, Next, NEW p \in Requests, p \in Running, req'[p] = Failed,
             req[p].op \in {"create", "move", "promote"}, req[p].alone
      PROVE  Undone(p)
  <2>1. TypeInv /\ Types /\ Running = {p}
    BY <1>1, RunnerIs DEF IInv, TypeInv, Began
  <2>2. ~Idle
    BY <1>1, <2>1 DEF Idle
  <2>3. PICK q \in Requests :
          \/ Beginning(q) \/ Single(q) \/ Creating(q) \/ Moves(q)
          \/ Promoting(q) \/ Demoting(q) \/ Plain(q) \/ Crash(q)
    BY <1>1, <2>2, NextIs
  <2>4. ~Beginning(q) /\ ~Single(q)
    BY <1>1, <2>1, BeginningIsOthers, SingleIsOthers
  <2>5. q = p
    BY <2>1, <2>3, <2>4, WorkingRuns
  <2>6. /\ req[p].op = "create" => Creating(p)
        /\ req[p].op = "move" => Moves(p)
        /\ req[p].op = "promote" => Promoting(p)
    BY <1>1, <2>3, <2>4, <2>5, OwnStage
  <2> QED
    BY <1>1, <2>6, CreatingUndone, MovesUndone, PromotingUndone
<1>2. IInv /\ [Next]_vars =>
        [\A p \in Requests :
           p \in Running /\ req'[p] = Failed /\ req[p].op \in {"create", "move", "promote"}
              /\ req[p].alone =>
              \A i \in Logins :
                 LET was == req[p].before[i]
                     want == req[p].want
                     undoing == req[p].pc \in {"uncreate", "unclaim", "ungrant"}
                 IN  \/ login'[i] = was
                     \/ i = req[p].who /\ was.live /\ login'[i] =
                          IF req[p].op = "create" THEN Filled(was, want)
                          ELSE [was EXCEPT !.app = want.app, !.tenant = req[p].seen.tenant]
                     \/ i \in adrift' /\ (undoing => login' = login)]_vars
  BY <1>1 DEF Undone
<1> QED
  BY <1>2, Inductive, PTL DEF Spec, FailureUndone
=============================================================================
