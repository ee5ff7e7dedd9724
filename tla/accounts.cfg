SPECIFICATION Spec
CONSTANTS
  p1 = p1  p2 = p2  root = root  member = member  stray = stray
  owner = owner  invitee = invitee  clerk = clerk  lead = lead
  r1 = r1  r2 = r2  t1 = t1  t2 = t2  e0 = e0  e1 = e1  e2 = e2  e3 = e3
  Requests = {p1, p2}
  Root = root  Member = member  Stray = stray
  Owner = owner  Invitee = invitee
  Roles = {r1, r2}  RoleNames = {clerk, lead}  Tenants = {t1, t2}  Emails = {e0, e1, e2, e3}
  RootEmail = e0  MemberEmail = e1  StrayEmail = e2  InviteeEmail = e3
  Home = t1  HomeRole = r1  Clerk = clerk
  None = None
  Singleton = FALSE
  Operations = {"create", "update", "status", "close", "reset", "password", "move", "remove",
                "promote", "demote", "profile", "event", "edit", "role"}
  AppRolesAsked = {"staff"}
  MaxFaults = 1
SYMMETRY Interchangeable
INVARIANTS ClaimFollowsRow NoOrphans
PROPERTIES FailureUndone
