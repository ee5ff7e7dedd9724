------------------------------- MODULE Rights -------------------------------
(***************************************************************************)
(* What a member of a workspace may do: the modules the platform sold it   *)
(* (tenant_entitlements, under the ceiling of its type), the keys of the   *)
(* member's role (role_permissions) and the tables of the source that      *)
(* relate the two: the capability catalogue, the presets and templates of  *)
(* every type, and the gates of the generic resources.                     *)
(*                                                                         *)
(* One workspace, from its creation or from before the permission model    *)
(* existed; platform admins patch it, members with the right keys edit     *)
(* its roles and staff, and scripts/backfill-rbac.ts may run at any time.  *)
(* A role's list of menu entries is one key, "menu:listed".  What the      *)
(* caches of a process add to this is in Workspace.                        *)
(***************************************************************************)
EXTENDS Naturals, FiniteSets, TLC

CONSTANTS
    Admins,          \* requests of platform admins that may be under way at once
    Members,
    ModuleLists,     \* explicit `entitlements` a request may send
    Toggles,         \* permission keys a role edit may add
    LegacyRoles,     \* permission sets of a role that predates the model
    MaxRequests,     \* bound: updates, edits and runs of the backfill
    None

ASSUME RightsAssumption ==
    MaxRequests \in Nat /\ IsFiniteSet(Members)

VARIABLES
    tenant,     \* None, or [type, modules, crossed]: crossed if the ceiling was left on purpose
    roles,      \* the permission sets of the workspace's roles, by name
    member,     \* staff_users with the claim of their login: None, or [claim, role]
    patch,      \* PATCH /api/admin/tenants/:id under way, by admin
    script,     \* the run of the backfill
    mixed,      \* updates overlapped, or one failed half-way, and none was whole since
    requests

rights == <<tenant, roles, member, patch, script, mixed, requests>>

-----------------------------------------------------------------------------
(* Modules, types and ceilings.                                            *)

TENANT_TYPES == {"ecommerce", "warehouse", "marketplace"}

BASE == {"dashboard", "schedule", "notes", "messages", "staff", "roles", "activity",
         "configuration", "language"}

ECOMMERCE == BASE \cup
    {"products", "categories", "brands", "manufacturers", "badges", "reviews", "sales", "returns",
     "customers", "discounts", "tax", "cms", "storefront", "inventory", "shipments", "delivery"}

WAREHOUSE == BASE \cup
    {"products", "categories", "manufacturers", "inventory", "inventoryInbound",
     "inventoryOutbound", "inventoryTransfers", "inventoryCounts", "warehouses", "packing",
     "packingShipments", "shipments", "delivery", "location", "returns"}

MODULE_KEYS == ECOMMERCE \cup WAREHOUSE \cup {"sellers"}

presetFor(type) ==
    CASE type = "warehouse" -> WAREHOUSE
      [] type = "marketplace" -> ECOMMERCE \cup {"sellers", "warehouses", "location"}
      [] type = "ecommerce" -> ECOMMERCE

allowedFor(type) ==
    IF type = "warehouse" THEN WAREHOUSE \cup {"brands", "sellers"} ELSE MODULE_KEYS

assertModulesWithinType(type, modules, override) == override \/ modules \subseteq allowedFor(type)

-----------------------------------------------------------------------------
(* Capabilities, and the other keys of the permission column.              *)

\* Which keys each module brings.
CAPABILITIES ==
    [products |-> {"catalog.view", "catalog.manage"},
     sales |-> {"orders.view", "orders.manage"},
     returns |-> {"returns.manage"},
     customers |-> {"customers.view", "customers.manage"},
     sellers |-> {"sellers.manage"},
     discounts |-> {"marketing.manage"},
     reviews |-> {"reviews.moderate"},
     storefront |-> {"storefront.manage"},
     inventory |-> {"inventory.view", "inventory.adjust"},
     inventoryInbound |-> {"inventory.receive"},
     inventoryOutbound |-> {"inventory.ship"},
     inventoryTransfers |-> {"inventory.transfer"},
     inventoryCounts |-> {"inventory.count"},
     warehouses |-> {"warehouses.manage"},
     packing |-> {"packing.manage"},
     shipments |-> {"shipments.manage"},
     delivery |-> {"delivery.manage"},
     staff |-> {"staff.manage"},
     configuration |-> {"settings.manage"}]

CAPABILITY_KEYS == UNION {CAPABILITIES[module] : module \in DOMAIN CAPABILITIES}
ViewKeys == {"catalog.view", "orders.view", "customers.view", "inventory.view"}

\* The keys a workspace with these modules can use.
capabilitiesFor(modules) == UNION {CAPABILITIES[m] : m \in modules \cap DOMAIN CAPABILITIES}
intersectWithEntitlements(keys, modules) == keys \cap capabilitiesFor(modules)

MENU_ALL == "menu:*"
MENU_NONE == "menu:none"
MenuKeys == {MENU_ALL, MENU_NONE, "menu:listed"}
isMenuKey(key) == key \in MenuKeys

\* A mistake: a key is a capability if the catalogue knows it.
CataloguedKey(key) == key \in CAPABILITY_KEYS

\* By its form and not by the catalogue: a key of an older release counts.
isCapabilityKey(key) == ~isMenuKey(key)

-----------------------------------------------------------------------------
(* The roles a workspace opens with.                                       *)

Template(keys, menu) == [capabilities |-> keys, menu |-> {menu}]

DeskRoles == {"CatalogEditor", "OrderDesk", "CustomerSupport"}
DockRoles == {"InboundClerk", "PickerPacker", "StockController"}

Templates ==
    [CatalogEditor |-> Template({"catalog.view", "catalog.manage", "reviews.moderate",
                                 "storefront.manage"}, "menu:listed"),
     OrderDesk |-> Template({"catalog.view", "orders.view", "orders.manage", "returns.manage",
                             "customers.view", "shipments.manage", "packing.manage"}, "menu:listed"),
     CustomerSupport |-> Template({"orders.view", "customers.view", "customers.manage",
                                   "reviews.moderate"}, "menu:listed"),
     InboundClerk |-> Template({"catalog.view", "catalog.manage", "inventory.view",
                                "inventory.receive"}, "menu:listed"),
     PickerPacker |-> Template({"catalog.view", "inventory.view", "inventory.ship",
                                "packing.manage", "shipments.manage"}, "menu:listed"),
     StockController |-> Template({"catalog.view", "catalog.manage", "inventory.view",
                                   "inventory.adjust", "inventory.transfer", "inventory.count",
                                   "warehouses.manage"}, "menu:listed"),
     SellerManager |-> Template({"catalog.view", "sellers.manage", "orders.view"}, "menu:listed"),
     Viewer |-> Template(ViewKeys, MENU_ALL),
     Manager |-> Template(CAPABILITY_KEYS, MENU_ALL)]

templatesFor(type) ==
    LET own == CASE type = "ecommerce" -> DeskRoles
                 [] type = "warehouse" -> DockRoles
                 [] type = "marketplace" -> DeskRoles \cup {"SellerManager"}
    IN  [name \in own \cup {"Viewer", "Manager"} |-> Templates[name]]

managerTemplateFor(type) == templatesFor(type)["Manager"]

permissionsFor(template, modules) ==
    intersectWithEntitlements(template.capabilities, modules) \cup template.menu

\* The roles of a workspace that has none.
TemplateRoles(type, modules) ==
    [name \in DOMAIN templatesFor(type) |-> permissionsFor(templatesFor(type)[name], modules)]

RoleNames == {"Legacy", "Custom"} \cup UNION {DOMAIN templatesFor(type) : type \in TENANT_TYPES}

-----------------------------------------------------------------------------
(* The generic resources: module, key to read, key to write.  None is a    *)
(* key nobody asks for.                                                    *)

Gate(module, read, write) == [module |-> module, read |-> read, write |-> write]
Gates(names, gate) == [name \in names |-> gate]

CatalogResources ==
    [name \in {"categories", "brands", "manufacturers", "badges", "products"} |->
        Gate(name, "catalog.view", "catalog.manage")]

StockResources ==
    Gates({"stock-batches", "skus", "inventory-levels", "stock-movements"},
          Gate("inventory", "inventory.view", "inventory.adjust")) @@
    Gates({"inventory-reservations"}, Gate("inventoryOutbound", "inventory.view", "inventory.ship")) @@
    Gates({"stock-transfers"}, Gate("inventoryTransfers", "inventory.view", "inventory.transfer")) @@
    Gates({"suppliers", "inbound-receipts"},
          Gate("inventoryInbound", "inventory.view", "inventory.receive")) @@
    Gates({"cycle-counts"}, Gate("inventoryCounts", "inventory.view", "inventory.count")) @@
    Gates({"warehouses"}, Gate("warehouses", "inventory.view", "warehouses.manage"))

OrderResources == Gates({"orders"}, Gate("sales", "orders.view", "orders.manage"))

TradeResources ==
    Gates({"delivery-channels"}, Gate("delivery", None, "delivery.manage")) @@
    Gates({"customers"}, Gate("customers", "customers.view", "customers.manage")) @@
    Gates({"sellers"}, Gate("sellers", None, "sellers.manage")) @@
    Gates({"promo-codes"}, Gate("discounts", None, "marketing.manage")) @@
    Gates({"reviews"}, Gate("reviews", None, "reviews.moderate")) @@
    Gates({"returns"}, Gate("returns", None, "returns.manage")) @@
    Gates({"tax-rates"}, Gate("tax", None, "settings.manage"))

OfficeResources ==
    [name \in {"roles", "staff"} |-> Gate(name, "staff.manage", "staff.manage")] @@
    Gates({"activities"}, Gate("activity", None, None)) @@
    Gates({"shipments"}, Gate("shipments", None, "shipments.manage")) @@
    Gates({"conversations"}, Gate("messages", None, None)) @@
    Gates({"schedule-events"}, Gate("schedule", None, None)) @@
    Gates({"notes"}, Gate("notes", None, None))

DeskResources ==
    Gates({"packing-lists"}, Gate("packing", None, "packing.manage")) @@
    Gates({"cms-blocks"}, Gate("cms", None, "storefront.manage")) @@
    Gates({"language-entries"}, Gate("language", None, "settings.manage"))

RESOURCES ==
    CatalogResources @@ OrderResources @@ StockResources @@ TradeResources @@ OfficeResources
        @@ DeskResources

Operations == {"read", "create", "update", "delete"}

\* What the generic layer leaves to an endpoint of its own.
Denied == {<<"staff", "create">>, <<"staff", "delete">>, <<"packing-lists", "delete">>}
              \cup {<<"activities", op>> : op \in Operations \ {"read"}}

Calls == ((DOMAIN RESOURCES) \X Operations) \ Denied
KeyOf(call) == IF call[2] = "read" THEN RESOURCES[call[1]].read ELSE RESOURCES[call[1]].write

-----------------------------------------------------------------------------
(* The decision.                                                           *)

\* Old tokens carry roles that no longer exist.
normalizeAppRole(claim) == IF claim \in {"platform_admin", "owner"} THEN claim ELSE "staff"
bypassesCapabilityChecks(appRole) == appRole \in {"platform_admin", "owner"}
bypassesMenuChecks(appRole) == appRole = "platform_admin"

CapabilityKeys(permissions) == {key \in permissions : isCapabilityKey(key)}
Permissions(m) == IF member[m].role = None THEN {} ELSE roles[member[m].role]

\* UserAccess, read afresh.
Load(m) ==
    [hasRole |-> member[m].role /= None,
     capabilities |-> CapabilityKeys(Permissions(m)),
     bypass |-> bypassesCapabilityChecks(normalizeAppRole(member[m].claim))]

unconfigured(access) == ~access.hasRole \/ access.capabilities = {}

assertCapabilities(access, required) ==
    access.bypass \/ unconfigured(access) \/ required \subseteq access.capabilities

\* The generic calls a member gets through.
Reach(m) ==
    LET access == Load(m)
    IN  {call \in Calls :
            /\ RESOURCES[call[1]].module \in tenant.modules
            /\ assertCapabilities(access, {KeyOf(call)} \ {None})}

\* The menu is cosmetic, and a role without menu keys hides nothing.
Menu(m) ==
    LET keys == {key \in Permissions(m) : isMenuKey(key)}
    IN  IF \/ bypassesMenuChecks(normalizeAppRole(member[m].claim))
           \/ member[m].role = None \/ keys = {} \/ MENU_ALL \in keys
        THEN {MENU_ALL, "menu:listed"}
        ELSE keys \ {MENU_NONE}

Present(m) == member[m] /= None
MayCall(by, call) == Present(by) /\ call \in Reach(by)

\* POST staff/invite has a module and a key of its own.
MayInvite(by) ==
    Present(by) /\ "staff" \in tenant.modules /\ assertCapabilities(Load(by), {"staff.manage"})

assertMayGrant(inviterRole, appRole) == inviterRole = "platform_admin" \/ appRole /= "owner"

-----------------------------------------------------------------------------
(* States.                                                                 *)

Tenants == [type : TENANT_TYPES,
            modules : ModuleLists \cup {presetFor(type) : type \in TENANT_TYPES},
            crossed : BOOLEAN]
Updates == [at : {"row", "modules"}, type : TENANT_TYPES \cup {None},
            modules : ModuleLists \cup {None}, override : BOOLEAN, alone : BOOLEAN]

ASSUME NoneAssumption == None \notin Tenants \cup Updates

IdleScript == [at |-> "idle", modules |-> {}, viewer |-> None]

Unborn ==
    /\ tenant = None
    /\ roles = <<>>
    /\ member = [m \in Members |-> None]

\* A workspace from before capabilities and ceilings, with a person in it.
Predates ==
    \E type \in TENANT_TYPES, modules \in ModuleLists, m \in Members,
       claim \in {"owner", "viewer"} :
        /\ tenant = [type |-> type, modules |-> modules,
                     crossed |-> ~(modules \subseteq allowedFor(type))]
        /\ \/ roles = <<>>
           \/ \E permissions \in LegacyRoles : roles = [name \in {"Legacy"} |-> permissions]
        /\ \E role \in DOMAIN roles \cup {None} :
               member = [x \in Members |-> IF x = m THEN [claim |-> claim, role |-> role] ELSE None]

RightsInit ==
    /\ Unborn \/ Predates
    /\ patch = [a \in Admins |-> None]
    /\ script = IdleScript
    /\ mixed = FALSE
    /\ requests = 0

-----------------------------------------------------------------------------
(* The platform: POST and PATCH /api/admin/tenants.                        *)

CreateTenant(type, modules, override) ==
    /\ tenant = None
    /\ assertModulesWithinType(type, modules, override)
    /\ tenant' = [type |-> type, modules |-> modules, crossed |-> override]
    /\ roles' = TemplateRoles(type, modules)
    /\ UNCHANGED <<member, patch, script, mixed, requests>>

\* A mistake: the modules a request does not send are not looked at.
SentOnly(type, modules) ==
    [type |-> IF type = None THEN tenant.type ELSE type,
     modules |-> IF modules = None THEN {} ELSE modules]

\* The pair an update would leave, from what it sends and what it read.
Effective(type, modules) ==
    [type |-> IF type = None THEN tenant.type ELSE type,
     modules |-> IF modules = None THEN tenant.modules ELSE modules]

\* An update during which another one began.
Accompanied(update) == IF update = None THEN None ELSE [update EXCEPT !.alone = FALSE]

BeginUpdate(a, type, modules, override) ==
    /\ tenant /= None /\ patch[a] = None
    /\ requests < MaxRequests
    /\ LET pair == Effective(type, modules)
       IN  assertModulesWithinType(pair.type, pair.modules, override)
    /\ LET alone == \A other \in Admins : patch[other] = None
       IN  /\ patch' = [other \in Admins |->
                           IF other = a
                           THEN [at |-> "row", type |-> type, modules |-> modules,
                                 override |-> override, alone |-> alone]
                           ELSE Accompanied(patch[other])]
           /\ mixed' = (mixed \/ ~alone)
    /\ requests' = requests + 1
    /\ UNCHANGED <<tenant, roles, member, script>>

\* The tenants row, and then the modules in a transaction of their own.
WriteRow(a) ==
    /\ patch[a] /= None /\ patch[a].at = "row"
    /\ tenant' = [tenant EXCEPT !.type = IF patch[a].type = None THEN @ ELSE patch[a].type,
                                !.crossed = patch[a].override]
    /\ patch' = [patch EXCEPT ![a] = IF patch[a].modules = None THEN None
                                     ELSE [@ EXCEPT !.at = "modules"]]
    /\ mixed' = (mixed /\ ~(patch[a].modules = None /\ patch[a].alone))
    /\ UNCHANGED <<roles, member, script, requests>>

replaceEntitlements(a) ==
    /\ patch[a] /= None /\ patch[a].at = "modules"
    /\ tenant' = [tenant EXCEPT !.modules = patch[a].modules]
    /\ patch' = [patch EXCEPT ![a] = None]
    /\ mixed' = (mixed /\ ~patch[a].alone)
    /\ UNCHANGED <<roles, member, script, requests>>

\* A statement fails: what was committed before it stays.
FailUpdate(a) ==
    /\ patch[a] /= None
    /\ patch' = [patch EXCEPT ![a] = None]
    /\ mixed' = (mixed \/ patch[a].at = "modules")
    /\ UNCHANGED <<tenant, roles, member, script, requests>>

-----------------------------------------------------------------------------
(* Roles and staff, by a member of the workspace or by the platform.       *)

Editing(by, call) ==
    /\ tenant /= None
    /\ by \in Members => MayCall(by, call)
    /\ requests < MaxRequests
    /\ requests' = requests + 1
    /\ UNCHANGED <<tenant, patch, script, mixed>>

\* The permissions of a role are replaced as a whole, by any keys.
replacePermissions(by, name, permissions) ==
    /\ Editing(by, <<"roles", "update">>)
    /\ name \in DOMAIN roles
    /\ roles' = [roles EXCEPT ![name] = permissions]
    /\ UNCHANGED member

CreateRole(by, permissions) ==
    /\ Editing(by, <<"roles", "create">>)
    /\ "Custom" \notin DOMAIN roles
    /\ roles' = [name \in DOMAIN roles \cup {"Custom"} |->
                    IF name = "Custom" THEN permissions ELSE roles[name]]
    /\ UNCHANGED member

\* staff_users.role_id is ON DELETE SET NULL.
RemoveRole(by, name) ==
    /\ Editing(by, <<"roles", "delete">>)
    /\ name \in DOMAIN roles
    /\ roles' = [other \in DOMAIN roles \ {name} |-> roles[other]]
    /\ member' = [m \in Members |-> IF Present(m) /\ member[m].role = name
                                    THEN [member[m] EXCEPT !.role = None] ELSE member[m]]

AssignRole(by, m, role) ==
    /\ Editing(by, <<"staff", "update">>)
    /\ Present(m)
    /\ role \in DOMAIN roles \cup {None}
    /\ member' = [member EXCEPT ![m].role = role]
    /\ UNCHANGED roles

\* StaffInviteService.invite; the login and the row are in Accounts.
Invite(by, m, appRole, role) ==
    /\ tenant /= None /\ ~Present(m)
    /\ by \in Members =>
           MayInvite(by) /\ assertMayGrant(normalizeAppRole(member[by].claim), appRole)
    /\ requests < MaxRequests /\ requests' = requests + 1
    /\ role \in DOMAIN roles
    /\ member' = [member EXCEPT ![m] = [claim |-> appRole, role |-> role]]
    /\ UNCHANGED <<tenant, roles, patch, script, mixed>>

-----------------------------------------------------------------------------
(* scripts/backfill-rbac.ts, which runs outside any transaction.           *)

BackfillReads ==
    /\ tenant /= None /\ script.at = "idle"
    /\ requests < MaxRequests
    /\ requests' = requests + 1
    /\ script' = [at |-> "roles", modules |-> tenant.modules, viewer |-> None]
    /\ UNCHANGED <<tenant, roles, member, patch, mixed>>

Unset(permissions) == CapabilityKeys(permissions) = {}

\* A mistake: the last template instead of the first.
ViewerGrant(type, modules) ==
    intersectWithEntitlements(templatesFor(type)["Viewer"].capabilities, modules)

\* What pass 1 gives a role nobody configured.
ManagerGrant(type, modules) ==
    intersectWithEntitlements(managerTemplateFor(type).capabilities, modules)

\* The role pass 3 hands to people without one.
ViewerOf(names) == IF "Viewer" \in names THEN {"Viewer"} ELSE names

\* Pass 2 for a workspace without roles, pass 1 for the others.  The
\* database driver refuses to insert no rows, which ends the script.
BackfillRoles ==
    /\ script.at = "roles"
    /\ LET grant == ManagerGrant(tenant.type, script.modules)
           filled == [name \in DOMAIN roles |->
                         IF Unset(roles[name]) THEN roles[name] \cup grant ELSE roles[name]]
       IN  IF /\ grant = {} /\ \E name \in DOMAIN roles : Unset(roles[name])
           THEN script' = IdleScript /\ UNCHANGED roles
           ELSE /\ roles' = IF roles = <<>> THEN TemplateRoles(tenant.type, script.modules)
                            ELSE filled
                /\ \E viewer \in ViewerOf(DOMAIN roles') :
                       script' = [script EXCEPT !.at = "staff", !.viewer = viewer]
    /\ UNCHANGED <<tenant, member, patch, mixed, requests>>

\* Pass 3.  A role deleted meanwhile is a failed foreign key.
BackfillStaff ==
    /\ script.at = "staff"
    /\ member' = [m \in Members |->
                     IF Present(m) /\ member[m].role = None /\ script.viewer \in DOMAIN roles
                     THEN [member[m] EXCEPT !.role = script.viewer] ELSE member[m]]
    /\ script' = IdleScript
    /\ UNCHANGED <<tenant, roles, patch, mixed, requests>>

-----------------------------------------------------------------------------

Platform == "platform"
Editors == Members \cup {Platform}

CreateSome ==
    \E type \in TENANT_TYPES, override \in BOOLEAN :
        \E modules \in ModuleLists \cup {presetFor(type)} : CreateTenant(type, modules, override)

UpdateSome ==
    \E a \in Admins :
        \/ \E type \in TENANT_TYPES \cup {None}, modules \in ModuleLists \cup {None},
              override \in BOOLEAN : BeginUpdate(a, type, modules, override)
        \/ WriteRow(a)
        \/ replaceEntitlements(a)
        \/ FailUpdate(a)

EditSome ==
    \E by \in Editors :
        \/ \E name \in DOMAIN roles :
               \/ \E key \in roles[name] : replacePermissions(by, name, roles[name] \ {key})
               \/ \E key \in Toggles : replacePermissions(by, name, roles[name] \cup {key})
               \/ RemoveRole(by, name)
        \/ \E key \in Toggles : CreateRole(by, {key, MENU_ALL})
        \/ \E m \in Members, role \in RoleNames \cup {None} :
               \/ AssignRole(by, m, role)
               \/ \E appRole \in {"owner", "staff"} : Invite(by, m, appRole, role)

RightsNext == CreateSome \/ UpdateSome \/ EditSome \/ BackfillReads \/ BackfillRoles \/ BackfillStaff

RightsSpec == RightsInit /\ [][RightsNext]_rights

-----------------------------------------------------------------------------
(* Properties.                                                             *)

\* A workspace holds a module outside the ceiling of its type only if the
\* last update said so: an update that changes the type alone re-checks the
\* modules nobody mentioned.  Updates that overlap each validate against
\* what they read, and one that fails half-way leaves the new type with the
\* old modules: `mixed` from either until some update runs from start to end
\* with no other beside it, which looks at the whole pair and so repairs it.
CeilingIsCrossedOnPurpose ==
    (tenant /= None /\ ~mixed /\ \A a \in Admins : patch[a] = None)
        => tenant.crossed \/ tenant.modules \subseteq allowedFor(tenant.type)

HasMenu(permissions) == \E key \in permissions : isMenuKey(key)

\* Nothing was given in this step: modules, keys and roles were only taken.
OnlyTaken ==
    /\ tenant /= None /\ tenant'.modules \subseteq tenant.modules
    /\ \A m \in Members : Present(m) =>
          member'[m] \in {member[m], [member[m] EXCEPT !.role = None]}
    /\ \A name \in DOMAIN roles' : name \in DOMAIN roles /\ roles'[name] \subseteq roles[name]

\* The member's role, or the member, was left without a key of the kind.
LosesCapabilities(m) == Permissions(m)' \subseteq MenuKeys /\ ~(Permissions(m) \subseteq MenuKeys)
LosesMenu(m) == HasMenu(Permissions(m)) /\ ~HasMenu(Permissions(m))'

\* What nobody's role has a say in.
Sold == {call \in Calls : RESOURCES[call[1]].module \in tenant.modules}

\* Taking modules, keys or roles away lets nobody do or see more, with one
\* exception: who is left without a single capability is bound by none, and
\* then may do whatever the workspace's modules offer and no call besides;
\* who is left without a menu key sees every entry.  A key the catalogue no
\* longer has still makes a role a configured one.
NarrowingNarrows ==
    [][OnlyTaken => \A m \in Members : Present(m) =>
           /\ IF LosesCapabilities(m) THEN Reach(m)' = Sold' ELSE Reach(m)' \subseteq Reach(m)
           /\ IF LosesMenu(m) THEN Menu(m)' = {MENU_ALL, "menu:listed"}
              ELSE Menu(m)' \subseteq Menu(m)]_rights

\* "Nobody LOSES access" when the backfill turns an unconfigured role into a
\* configured one, except to resources whose key belongs to a module the
\* workspace does not have: the tables of gates, capabilities and templates
\* agree on what the manager of a workspace needs.
BackfillTakesNothing ==
    [][BackfillRoles /\ script.modules = tenant.modules =>
         \A m \in Members : Present(m) /\ member[m].role /= None =>
             {call \in Reach(m) : KeyOf(call) \in {None} \cup capabilitiesFor(tenant.modules)}
                 \subseteq Reach(m)']_rights

=============================================================================
