------------------------------ MODULE MCRights ------------------------------
(* A shop, a warehouse and a marketplace; lists that mix, lock or omit      *)
(* modules; a role from before the model and one with a retired key.        *)
EXTENDS Rights

CONSTANTS m1, m2, a1, a2

MCModuleLists ==
    {{"staff", "roles", "products", "tax", "inventoryOutbound"},   \* taxes without their key
     {"notes", "cms"}}                                             \* no module that brings a key

MCToggles == {"staff.manage"}

MCLegacyRoles == {{}, {MENU_NONE}, {"labels.print", "orders.view", MENU_ALL}}

Symmetry == Permutations(Admins)
=============================================================================
