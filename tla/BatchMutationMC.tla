-------------------------- MODULE BatchMutationMC --------------------------
(***************************************************************************)
(* A small vault for TLC: two pages at the root, one page position in a    *)
(* folder, one rubbish item, and one batch of every shape the planner      *)
(* makes.                                                                  *)
(***************************************************************************)
EXTENDS BatchMutation, TLC

CONSTANTS p1, p2, p3, r1, d1, c1, c2

MCParent == (p1 :> Root) @@ (p2 :> Root) @@ (p3 :> d1) @@ (d1 :> Root)

MCIntent(kind, path, to, old, new) ==
  [kind |-> kind, path |-> path, to |-> to, old |-> old, new |-> new]

Write(p, old, new) == MCIntent("write", p, p, old, new)
Move(p, q, c)      == MCIntent("move", p, q, c, c)
Delete(p, c)       == MCIntent("delete", p, p, c, c)
Archive(p, r, c)   == MCIntent("archive", p, r, c, c)
Restore(p, r, c)   == MCIntent("restore", p, r, c, c)
MakeDir(d)         == MCIntent("mkdir", d, d, Missing, Directory)
RemoveDir(d)       == MCIntent("rmdir", d, d, Directory, Missing)

RewriteBatch == <<Write(p1, c1, c2), Write(p2, Missing, c1)>>
DeleteBatch  == <<Delete(p1, c2), Write(p2, c1, c2)>>
FolderBatch  == <<MakeDir(d1), Move(p1, p3, c1)>>
UnfolderBatch == <<Move(p3, p1, c1), RemoveDir(d1)>>
ArchiveBatch == <<Archive(p1, r1, c1)>>
RestoreBatch == <<Restore(p1, r1, c1)>>

MCBatches == {RewriteBatch, DeleteBatch, FolderBatch, UnfolderBatch,
              ArchiveBatch, RestoreBatch}

\* For the costlier questions: one batch of each publication protocol, two of
\* which share no file.
SaveBatch  == <<Write(p2, c1, c2), Write(p3, Missing, c1)>>
FewBatches == {SaveBatch, UnfolderBatch, ArchiveBatch}
=============================================================================
