------------------------------ MODULE GitSyncMC ------------------------------
(***************************************************************************)
(* Two devices, an ordinary page, and a journal day for which each device  *)
(* mints a name of its own.                                                *)
(***************************************************************************)
EXTENDS GitSync, TLC

CONSTANTS d1, d2, page, j1, j2

\* The name each device gives the day's journal page.
MCMinted == d1 :> j1 @@ d2 :> j2

\* The order in which the fold picks its survivor.
MCRank == j1 :> 1 @@ j2 :> 2
=============================================================================
