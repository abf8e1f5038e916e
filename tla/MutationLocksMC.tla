-------------------------- MODULE MutationLocksMC --------------------------
(***************************************************************************)
(* Three requests on a folder, a page in it and a page elsewhere: one      *)
(* deletes the folder, one is a batch over both pages, any may close the   *)
(* gate.                                                                   *)
(***************************************************************************)
EXTENDS MutationLocks, TLC

\* 1: the folder, 2: a page in it, 3: a page elsewhere.
MCAncestors == 1 :> {} @@ 2 :> {1} @@ 3 :> {}

MCCommand == {{1}, {2, 3}}
=============================================================================
