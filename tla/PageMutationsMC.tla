-------------------------- MODULE PageMutationsMC --------------------------
(***************************************************************************)
(* Two requests and the watcher over three paths: a page, the path it      *)
(* belongs at, and a page in a folder that links to the first.             *)
(***************************************************************************)
EXTENDS PageMutations, TLC

CONSTANTS src, dst, ref, a, r

\* Requests are interchangeable.
Symmetry == Permutations(Task)

\* reconcile would move the page at src to dst, and the one at ref as well: the
\* watcher may take the destination of an update that has it locked.
MCHome == src :> dst @@ dst :> dst @@ ref :> dst

\* A page at src, and one in the folder with a link to it.
MCFiles ==
    src :> [id |-> a, ver |-> 0, filed |-> FALSE, link |-> Nothing, by |-> "server"]
    @@ dst :> Nothing
    @@ ref :> [id |-> r, ver |-> 0, filed |-> FALSE, link |-> src, by |-> "server"]
\* What a request that ended was answered is looked at in the step that answers
\* it, unless it was refused: states that differ in it are not told apart.
MCView ==
    <<files, index, events, work, pc, req, held,
      [t \in Task |-> IF result[t] \in Answered THEN "none" ELSE result[t]],
      watchVars, crossed>>
=============================================================================
