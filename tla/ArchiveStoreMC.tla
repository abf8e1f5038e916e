--------------------------- MODULE ArchiveStoreMC ---------------------------
(***************************************************************************)
(* A small instance of ArchiveStore: two captures that share a blob; with  *)
(* MCRefs the second has one of its own as well.                           *)
(***************************************************************************)
EXTENDS ArchiveStore, TLC

CONSTANTS p1, p2, b1, b2, u1, u2

\* The blobs of the two captures.
SharedRefs == (p1 :> {b1}) @@ (p2 :> {b1})
MCRefs == (p1 :> {b1}) @@ (p2 :> {b1, b2})

\* Two captures of one web page, or of two.
OneUrl  == (p1 :> u1) @@ (p2 :> u1)
TwoUrls == (p1 :> u1) @@ (p2 :> u2)

\* Rubbish items and requests are interchangeable.
Symmetry == Permutations(Items) \cup Permutations(Requests)
=============================================================================
