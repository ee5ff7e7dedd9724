----------------------------- MODULE MCAccounts -----------------------------
(* Two requests of any kind on one workspace's people, with one fault.       *)
EXTENDS Accounts, TLC

CONSTANTS p1, p2, root, member, stray, owner, invitee, clerk, lead, r1, r2, t1, t2, e0, e1, e2, e3

Interchangeable == Permutations(Requests)
=============================================================================
