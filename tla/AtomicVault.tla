----------------------------- MODULE AtomicVault -----------------------------
(***************************************************************************)
(* What a batch mutation promises: the vault moves from one state to the   *)
(* next by whole batches, each applied only to the files it was planned    *)
(* against, as long as nobody else writes to files of an unresolved batch. *)
(***************************************************************************)
EXTENDS Naturals

CONSTANTS
  Loc,      \* locations of the vault
  Values,   \* what a location can hold
  Changes   \* batches: records of two functions, "before" and "after"

VARIABLES
  vault,      \* the contents of the vault
  interfered, \* another program wrote to files of an unresolved batch
  edits       \* how many writes other programs made

Init == vault \in [Loc -> Values] /\ interfered = FALSE /\ edits = 0

\* Batch c is applied, to the files it was planned against.
Applied(c) ==
  \A l \in DOMAIN c.before : vault[l] = c.before[l] /\ vault'[l] = c.after[l]

\* Batches that share no file are applied together: one at a time while the
\* server runs, several when a power loss leaves behind the new manifest of
\* each of them.
Commit(C) ==
  /\ \A c, d \in C : c # d => DOMAIN c.before \cap DOMAIN d.before = {}
  /\ \A c \in C : Applied(c)
  /\ \A l \in Loc : (\A c \in C : l \notin DOMAIN c.before) => vault'[l] = vault[l]
  /\ vault' \in [Loc -> Values]
  /\ UNCHANGED <<interfered, edits>>

Edit ==
  /\ edits' = edits + 1
  /\ \E l \in Loc, v \in Values : vault' = [vault EXCEPT ![l] = v]
  /\ UNCHANGED interfered

\* After an interference nothing is promised any more.
Interfere ==
  /\ interfered' = TRUE
  /\ vault' \in [Loc -> Values] /\ edits' \in {edits, edits + 1}

Next == \/ Interfere
        \/ Edit
        \/ \E C \in SUBSET Changes : Commit(C)

Spec == Init /\ [][Next]_<<vault, interfered, edits>>
=============================================================================
