---------------------------- MODULE AtomicFileMC ----------------------------
(***************************************************************************)
(* Two calls, two contents, and one inode more than two calls and the page *)
(* need at once, so that numbers are handed out again.                     *)
(***************************************************************************)
EXTENDS AtomicFile, TLC

\* Calls, contents and inode numbers are interchangeable.
Symmetry == Permutations(Writer) \cup Permutations(Text) \cup Permutations(Inode)
=============================================================================
