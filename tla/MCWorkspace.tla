---------------------------- MODULE MCWorkspace ----------------------------
(* Two requests at a time, one change to the records, here or elsewhere.    *)
EXTENDS Workspace

CONSTANTS s1, s2
=============================================================================
