------------------------------- MODULE GitSync -------------------------------
(***************************************************************************)
(* Devices that share a vault through one branch of a git remote: the sync *)
(* algorithm of clep-gitsync/src/engine.rs, the journal merger it runs     *)
(* after a pull and the outcome of the merge driver, with every git call a *)
(* step of its own, while people go on editing, processes die and calls to *)
(* the remote fail.                                                        *)
(*                                                                         *)
(* A file is the set of edits that its text holds.  An edit is a number,   *)
(* made once, so that the properties can say where it went.  Two different *)
(* changes of one text overlap or not, and the model tries both (git       *)
(* merge-file is outside the repository).  A device merges only what it    *)
(* fetched from the branch and pushes only what contains the branch, so    *)
(* the best common ancestor of a device and the branch is the last version *)
(* of the branch that the device's history contains.                       *)
(***************************************************************************)
EXTENDS Naturals, Sequences, FiniteSets

CONSTANTS
    Device,
    Page,       \* paths of pages
    Sealed,     \* pages whose conflicts leave "ours" without markers: encrypted
                \* bodies, two page ids, frontmatter that disagrees, binaries
    Journal,    \* pages of one journal day, under the names the devices mint
    Minted,     \* Minted[d]: the journal path that device d mints for that day
    Rank,       \* Rank[p]: order of journal pages by created_at and path
    Absent,     \* no file
    MaxEdits,   \* edits made in all
    MaxRemoves, \* files removed by people
    MaxFaults   \* processes that die, git calls and remote calls that fail

Edits == 1..MaxEdits

ASSUME JournalAssumption ==
    /\ Journal \subseteq Page /\ Sealed \subseteq Page
    /\ Minted \in [Device -> Journal]
    /\ Rank \in [Journal -> Nat]
    /\ \A p, q \in Journal : Rank[p] = Rank[q] => p = q

VARIABLES
    hist,     \* the remote branch: the tree of every version it had
    head,     \* head[d]: the tree of the last local commit
    work,     \* work[d]: the working tree
    ver,      \* ver[d]: the last version of the branch in head's history
    fresh,    \* fresh[d]: head has commits that no version of the branch has
    track,    \* track[d]: the version origin/<branch> names
    merging,  \* merging[d]: the merge MERGE_HEAD tells of, with its index
    job,      \* job[d]: what the engine is doing
    edits, author,
    dropped,  \* edits in files that people removed
    excused,  \* edits in play when somebody edited an unmerged file, and edits
              \* of a journal page made while it is being folded
    removes, faults

vars == <<hist, head, work, ver, fresh, track, merging, job,
          edits, author, dropped, excused, removes, faults>>

File == (SUBSET Edits) \cup {Absent}
\* marked: the files with conflict markers in them
Tree == [page : [Page -> File], copies : SUBSET (Page \X SUBSET Edits), marked : SUBSET Page]

NoMerge == [on |-> FALSE]
Merges == [on : {TRUE}, index : Tree, unmerged : SUBSET Page, theirs : 1..Len(hist)]
Jobs == [pc : {"idle", "commit", "fetch", "merge", "resolve", "fold", "delete", "push"},
         kind : {"full", "shutdown", "autocommit"}, leftover : BOOLEAN, retried : BOOLEAN,
         losers : SUBSET Journal, copies : SUBSET (Page \X SUBSET Edits)]
Idle == [pc |-> "idle", kind |-> "full", leftover |-> FALSE, retried |-> FALSE,
         losers |-> {}, copies |-> {}]

TypeOK ==
    /\ hist \in Seq(Tree) /\ Len(hist) >= 1
    /\ head \in [Device -> Tree] /\ work \in [Device -> Tree]
    /\ ver \in [Device -> 1..Len(hist)] /\ track \in [Device -> 1..Len(hist)]
    /\ fresh \in [Device -> BOOLEAN]
    /\ \A d \in Device : merging[d] = NoMerge \/ merging[d] \in Merges
    /\ job \in [Device -> Jobs]
    /\ edits \in 0..MaxEdits /\ author \in [Edits -> Device]
    /\ dropped \subseteq Edits /\ excused \subseteq Edits
    /\ removes \in 0..MaxRemoves /\ faults \in 0..MaxFaults

-----------------------------------------------------------------------------
EditsOf(file) == IF file = Absent THEN {} ELSE file
Held(tree) ==
    (UNION {EditsOf(tree.page[p]) : p \in Page}) \cup (UNION {c[2] : c \in tree.copies})

At(d, pc) == job[d].pc = pc
Go(d, pc) == job' = [job EXCEPT ![d].pc = pc]
Stop(d) == job' = [job EXCEPT ![d] = Idle]

Fault == faults < MaxFaults /\ faults' = faults + 1

people == <<edits, author, dropped, excused, removes>>

-----------------------------------------------------------------------------
(* People.                                                                 *)

HasJournal(tree) == \E p \in Journal : tree.page[p] # Absent

\* Somebody adds to a page, or creates one.  A journal entry goes to the page
\* of the day that the device has and to a newly minted one when it has none.
\* Writing to a file with markers resolves it by hand.
Edit(d, p) ==
    /\ edits < MaxEdits
    /\ p \in Journal /\ work[d].page[p] = Absent
          => p = Minted[d] /\ ~HasJournal(work[d])
    /\ LET e == edits + 1 IN
       /\ edits' = e
       /\ author' = [author EXCEPT ![e] = d]
       /\ work' = [work EXCEPT ![d].page[p] = EditsOf(@) \cup {e}, ![d].marked = @ \ {p}]
       /\ excused' = IF merging[d].on /\ p \in merging[d].unmerged
                     THEN excused \cup {e} \cup EditsOf(hist[merging[d].theirs].page[p])
                     ELSE IF At(d, "delete") /\ p \in Journal THEN excused \cup {e}
                     ELSE excused
    /\ UNCHANGED <<hist, head, ver, fresh, track, merging, job, dropped, removes, faults>>

\* Somebody removes a page or a Conflict Copy, with the edits it holds.
Remove(d) ==
    /\ removes < MaxRemoves
    /\ removes' = removes + 1
    /\ \/ \E p \in Page :
            /\ work[d].page[p] # Absent
            /\ work' = [work EXCEPT ![d].page[p] = Absent, ![d].marked = @ \ {p}]
            /\ dropped' = dropped \cup work[d].page[p]
       \/ \E c \in work[d].copies :
            /\ work' = [work EXCEPT ![d].copies = @ \ {c}]
            /\ dropped' = dropped \cup c[2]
    /\ UNCHANGED <<hist, head, ver, fresh, track, merging, job, edits, author, excused, faults>>

-----------------------------------------------------------------------------
(* commit_local.                                                           *)

\* Where a job goes once everything is committed.
AfterCommit(kind) ==
    CASE kind = "full" -> [Idle EXCEPT !.pc = "fetch"]
      [] kind = "shutdown" -> [Idle EXCEPT !.pc = "push", !.kind = kind]
      [] OTHER -> Idle

\* Mutant: a merge in progress is committed like any other change.
MutantCommitLocal(d, kind) ==
    /\ head' = [head EXCEPT ![d] = work[d]]
    /\ fresh' = [fresh EXCEPT ![d] = @ \/ work[d] # head[d]]
    /\ job' = [job EXCEPT ![d] = AfterCommit(kind)]

\* A merge that an earlier run left in progress is finished first; then
\* everything in the working tree is committed.
CommitLocal(d, kind) ==
    \/ /\ merging[d].on
       /\ job' = [job EXCEPT ![d] = [Idle EXCEPT !.pc = "resolve", !.kind = kind, !.leftover = TRUE]]
       /\ UNCHANGED <<head, fresh>>
    \/ /\ ~merging[d].on
       /\ head' = [head EXCEPT ![d] = work[d]]
       /\ fresh' = [fresh EXCEPT ![d] = @ \/ work[d] # head[d]]
       /\ job' = [job EXCEPT ![d] = AfterCommit(kind)]

\* full_sync, commit_and_push at shutdown, or the autocommit.
Start(d, kind) ==
    /\ At(d, "idle")
    /\ CommitLocal(d, kind)
    /\ UNCHANGED <<hist, work, ver, track, merging, people, faults>>

CommitRest(d) ==
    /\ At(d, "commit")
    /\ CommitLocal(d, job[d].kind)
    /\ UNCHANGED <<hist, work, ver, track, merging, people, faults>>

-----------------------------------------------------------------------------
(* pull_inner.                                                             *)

\* Mutant: the fetch leaves the tracking ref behind.
MutantFetch(d) ==
    /\ At(d, "fetch")
    /\ Go(d, "merge")
    /\ UNCHANGED <<hist, head, work, ver, fresh, track, merging, people, faults>>

\* A fetch that fails ends the sync, or, in the retry, leads to the second
\* push all the same.
Fetch(d) ==
    /\ At(d, "fetch")
    /\ \/ /\ track' = [track EXCEPT ![d] = Len(hist)]
          /\ Go(d, "merge")
          /\ UNCHANGED faults
       \/ /\ Fault
          /\ IF job[d].retried THEN Go(d, "push") ELSE Stop(d)
          /\ UNCHANGED track
    /\ UNCHANGED <<hist, head, work, ver, fresh, merging, people>>

\* scalar3: what one side alone changed wins; the rest is a conflict.
Scalar3(base, ours, theirs) ==
    IF base = ours THEN theirs ELSE ours

Conflicts(base, ours, theirs) == ours # theirs /\ base # ours /\ base # theirs

\* set3: the removals and the additions of both sides.
Set3(base, ours, theirs) ==
    (ours \cup theirs) \ {x \in base : x \notin ours \/ x \notin theirs}

\* git merge --no-commit of version v: the files that both sides changed, those
\* of them whose changes the driver may find in different places, and what is
\* staged when it does for the ones in clean.
Contested(d, v) ==
    {p \in Page : Conflicts(hist[ver[d]].page[p], head[d].page[p], hist[v].page[p])}

Mergeable(d, v) ==
    {p \in Contested(d, v) \ Sealed :
        Absent \notin {hist[ver[d]].page[p], head[d].page[p], hist[v].page[p]}}

Staged(d, v, clean) ==
    LET base == hist[ver[d]]  ours == head[d]  theirs == hist[v]
        merged(p) == IF p \in clean THEN Set3(base.page[p], ours.page[p], theirs.page[p])
                     ELSE Scalar3(base.page[p], ours.page[p], theirs.page[p])
    IN  [page |-> [p \in Page |-> merged(p)],
         copies |-> Set3(base.copies, ours.copies, theirs.copies),
         marked |-> {}]

\* What is in the working tree of an unmerged file.
LeftInTree(d, v, p) ==
    LET ours == head[d].page[p]  theirs == hist[v].page[p]
    IN  IF ours # Absent /\ p \in Sealed THEN ours
        ELSE EditsOf(ours) \cup EditsOf(theirs)

Marked(d, v, unmerged) ==
    {p \in unmerged \ Sealed : head[d].page[p] # Absent /\ hist[v].page[p] # Absent}

\* The working tree after files were updated, with the changes made since the
\* last commit kept on the other files.
Checkout(d, tree, marks, unmerged, v) ==
    [page |-> [p \in Page |-> IF p \in unmerged THEN LeftInTree(d, v, p)
                              ELSE IF tree.page[p] # head[d].page[p] THEN tree.page[p]
                              ELSE work[d].page[p]],
     copies |-> (tree.copies \ (head[d].copies \ work[d].copies))
                \cup (work[d].copies \ head[d].copies),
     marked |-> work[d].marked \cup marks]

\* Files changed since the last commit that the merge would overwrite.
InTheWay(d, tree, unmerged) ==
    {p \in Page : /\ work[d].page[p] # head[d].page[p]
                  /\ p \in unmerged \/ tree.page[p] # head[d].page[p]}

Merge(d) ==
    /\ At(d, "merge")
    /\ \E clean \in SUBSET Mergeable(d, track[d]) :
       LET v == track[d]
           unmerged == Contested(d, v) \ clean
           staged == Staged(d, v, clean)
       IN
       \/ /\ v <= ver[d]                                   \* up to date
          /\ Go(d, "push")
          /\ UNCHANGED <<head, work, ver, merging>>
       \/ /\ v > ver[d]                                    \* git refuses
          /\ InTheWay(d, staged, unmerged) # {}
          /\ Stop(d)
          /\ UNCHANGED <<head, work, ver, merging>>
       \/ /\ v > ver[d] /\ ~fresh[d]                       \* fast-forward
          /\ InTheWay(d, staged, unmerged) = {}
          /\ head' = [head EXCEPT ![d] = hist[v]]
          /\ work' = [work EXCEPT ![d] = Checkout(d, hist[v], {}, {}, v)]
          /\ ver' = [ver EXCEPT ![d] = v]
          /\ Go(d, "fold")
          /\ UNCHANGED merging
       \/ /\ v > ver[d] /\ fresh[d]                        \* a merge
          /\ InTheWay(d, staged, unmerged) = {}
          /\ merging' = [merging EXCEPT ![d] =
                           [on |-> TRUE, index |-> staged, unmerged |-> unmerged, theirs |-> v]]
          /\ work' = [work EXCEPT ![d] = Checkout(d, staged, Marked(d, v, unmerged), unmerged, v)]
          /\ Go(d, "resolve")
          /\ UNCHANGED <<head, ver>>
    /\ UNCHANGED <<hist, fresh, track, people, faults>>

\* resolve_unmerged settles one path and stages it.
Settled(d, p, file) ==
    /\ work' = [work EXCEPT ![d].page[p] = file, ![d].marked = @ \ {p}]
    /\ merging' = [merging EXCEPT ![d].index.page[p] = file, ![d].unmerged = @ \ {p}]

\* Mutant: theirs gets no Conflict Copy.
MutantResolve(d) ==
    /\ At(d, "resolve")
    /\ \E p \in merging[d].unmerged :
         Settled(d, p, IF head[d].page[p] # Absent THEN head[d].page[p]
                       ELSE hist[merging[d].theirs].page[p])
    /\ UNCHANGED <<hist, head, ver, fresh, track, job, people, faults>>

\* Both sides changed the file: ours stays and theirs becomes a Conflict Copy,
\* unless somebody resolved the file by hand.  One side deleted it: the other
\* side's file is put back.
Resolve(d) ==
    /\ At(d, "resolve")
    /\ \E p \in merging[d].unmerged :
         LET ours == head[d].page[p]  theirs == hist[merging[d].theirs].page[p]
             now == work[d].page[p]
         IN  \/ /\ ours # Absent /\ theirs # Absent
                /\ p \notin work[d].marked /\ now \notin {ours, Absent}
                /\ Settled(d, p, now)
             \/ /\ ours # Absent /\ theirs # Absent
                /\ p \in work[d].marked \/ now \in {ours, Absent}
                /\ work' = [work EXCEPT ![d].page[p] = ours, ![d].marked = @ \ {p},
                                        ![d].copies = @ \cup {<<p, theirs>>}]
                /\ merging' = [merging EXCEPT ![d].index.page[p] = ours,
                                              ![d].index.copies = @ \cup {<<p, theirs>>},
                                              ![d].unmerged = @ \ {p}]
             \/ /\ ours = Absent \/ theirs = Absent
                /\ Settled(d, p, IF ours = Absent THEN theirs ELSE ours)
    /\ UNCHANGED <<hist, head, ver, fresh, track, job, people, faults>>

\* finish_merge: the index becomes a commit with both histories.
FinishMerge(d) ==
    /\ At(d, "resolve")
    /\ merging[d].unmerged = {}
    /\ head' = [head EXCEPT ![d] = merging[d].index]
    /\ ver' = [ver EXCEPT ![d] = merging[d].theirs]
    /\ fresh' = [fresh EXCEPT ![d] = TRUE]
    /\ merging' = [merging EXCEPT ![d] = NoMerge]
    /\ job' = [job EXCEPT ![d].pc = IF job[d].leftover THEN "commit" ELSE "fold",
                          ![d].leftover = FALSE]
    /\ UNCHANGED <<hist, work, track, people, faults>>

\* A git call of the resolution fails and the merge is aborted: the files it
\* touched are as in the last commit again.  git refuses that when one of them
\* was changed after it had been staged; the merge then stays in progress.
AbortMerge(d) ==
    /\ At(d, "resolve")
    /\ Fault
    /\ Stop(d)
    /\ LET index == merging[d].index
           touched == {p \in Page : index.page[p] # head[d].page[p]}
       IN  IF \E p \in touched \ merging[d].unmerged : work[d].page[p] # index.page[p]
           THEN UNCHANGED <<work, merging>>
           ELSE /\ work' = [work EXCEPT
                     ![d].page = [p \in Page |-> IF p \in touched \cup merging[d].unmerged
                                                 THEN head[d].page[p] ELSE @[p]],
                     ![d].copies = (@ \ (index.copies \ head[d].copies))
                                   \cup (head[d].copies \ index.copies),
                     ![d].marked = {}]
                /\ merging' = [merging EXCEPT ![d] = NoMerge]
    /\ UNCHANGED <<hist, head, ver, fresh, track, people>>

-----------------------------------------------------------------------------
(* merge_journals_after_pull.                                              *)

\* The pages of the day, and the Conflict Copies of its pages.
Members(tree) == {p \in Journal : tree.page[p] # Absent}
JournalCopies(tree) == {c \in tree.copies : c[1] \in Journal}

\* merge_group leaves a group alone that has one member, an encrypted one, or
\* nothing but copies.
Folds(tree) ==
    /\ Members(tree) # {} /\ Members(tree) \cap Sealed = {}
    /\ Cardinality(Members(tree)) + Cardinality(JournalCopies(tree)) > 1

Winner(tree) == CHOOSE p \in Members(tree) : \A q \in Members(tree) : Rank[p] <= Rank[q]

\* The winner is written with the blocks of all; a block is there once.
FoldJournals(d) ==
    /\ At(d, "fold")
    /\ \/ /\ Folds(work[d])
          /\ work' = [work EXCEPT ![d].page[Winner(work[d])] =
                         (UNION {work[d].page[p] : p \in Members(work[d])})
                         \cup (UNION {c[2] : c \in JournalCopies(work[d])})]
          /\ job' = [job EXCEPT ![d].pc = "delete",
                                ![d].losers = Members(work[d]) \ {Winner(work[d])},
                                ![d].copies = JournalCopies(work[d])]
       \/ /\ ~Folds(work[d])
          /\ Go(d, "push")
          /\ UNCHANGED work
    /\ UNCHANGED <<hist, head, ver, fresh, track, merging, people, faults>>

\* Mutant: the losing journal pages stay.
MutantDeleteLosers(d) ==
    /\ At(d, "delete")
    /\ head' = [head EXCEPT ![d] = work[d]]
    /\ fresh' = [fresh EXCEPT ![d] = @ \/ work[d] # head[d]]
    /\ job' = [job EXCEPT ![d].pc = "push", ![d].losers = {}, ![d].copies = {}]
    /\ UNCHANGED <<hist, work, ver, track, merging, people, faults>>

\* The others are removed and the fold is committed.  When the commit fails the
\* fold stays in the working tree.
DeleteLosers(d) ==
    /\ At(d, "delete")
    /\ work' = [work EXCEPT
         ![d].page = [p \in Page |-> IF p \in job[d].losers THEN Absent ELSE @[p]],
         ![d].copies = @ \ job[d].copies]
    /\ \/ /\ head' = [head EXCEPT ![d] = work'[d]]
          /\ fresh' = [fresh EXCEPT ![d] = TRUE]
          /\ UNCHANGED faults
       \/ /\ Fault
          /\ UNCHANGED <<head, fresh>>
    /\ job' = [job EXCEPT ![d].pc = "push", ![d].losers = {}, ![d].copies = {}]
    /\ UNCHANGED <<hist, ver, track, merging, people>>

-----------------------------------------------------------------------------
(* push_with_retry.                                                        *)

Ahead(d) == fresh[d] \/ track[d] < ver[d]

\* The branch moves to head.
Accepted(d) ==
    /\ hist' = Append(hist, head[d])
    /\ ver' = [ver EXCEPT ![d] = Len(hist) + 1]
    /\ fresh' = [fresh EXCEPT ![d] = FALSE]

\* A rejection in a full sync is answered by one more pull and one more push.
\* A call that fails may have reached the remote or not.
Push(d) ==
    /\ At(d, "push")
    /\ \/ /\ ~Ahead(d)
          /\ Stop(d)
          /\ UNCHANGED <<hist, ver, fresh, track, faults>>
       \/ /\ Ahead(d) /\ Len(hist) = ver[d]
          /\ Accepted(d)
          /\ track' = [track EXCEPT ![d] = Len(hist) + 1]
          /\ Stop(d)
          /\ UNCHANGED faults
       \/ /\ Ahead(d) /\ Len(hist) > ver[d]
          /\ IF job[d].kind = "full" /\ ~job[d].retried
             THEN job' = [job EXCEPT ![d].pc = "fetch", ![d].retried = TRUE]
             ELSE Stop(d)
          /\ UNCHANGED <<hist, ver, fresh, track, faults>>
       \/ /\ Ahead(d)
          /\ Fault
          /\ Stop(d)
          /\ \/ UNCHANGED <<hist, ver, fresh>>
             \/ Len(hist) = ver[d] /\ Accepted(d)
          /\ UNCHANGED track
    /\ UNCHANGED <<head, work, merging, people>>

\* The process dies; what git has written stays.
Crash(d) ==
    /\ ~At(d, "idle")
    /\ Fault
    /\ Stop(d)
    /\ UNCHANGED <<hist, head, work, ver, fresh, track, merging, people>>

-----------------------------------------------------------------------------
Empty == [page |-> [p \in Page |-> IF p \in Journal THEN Absent ELSE {}],
          copies |-> {}, marked |-> {}]

Init ==
    /\ hist = <<Empty>>
    /\ head = [d \in Device |-> Empty] /\ work = [d \in Device |-> Empty]
    /\ ver = [d \in Device |-> 1] /\ track = [d \in Device |-> 1]
    /\ fresh = [d \in Device |-> FALSE]
    /\ merging = [d \in Device |-> NoMerge]
    /\ job = [d \in Device |-> Idle]
    /\ edits = 0 /\ author \in [Edits -> {CHOOSE d \in Device : TRUE}]
    /\ dropped = {} /\ excused = {}
    /\ removes = 0 /\ faults = 0

Step(d) ==
    \/ CommitRest(d) \/ Fetch(d) \/ Merge(d) \/ Resolve(d) \/ FinishMerge(d)
    \/ AbortMerge(d) \/ FoldJournals(d) \/ DeleteLosers(d) \/ Push(d)

Next ==
    \E d \in Device :
       \/ \E p \in Page : Edit(d, p)
       \/ \E kind \in {"full", "shutdown", "autocommit"} : Start(d, kind)
       \/ Remove(d) \/ Step(d) \/ Crash(d)

\* A sync that runs goes on, and a full one is asked for again and again (at
\* every start of the server and by hand) and gets its turn among the others.
Fairness ==
    \A d \in Device : /\ WF_vars(Step(d))
                      /\ SF_vars(Start(d, "full"))

Spec == Init /\ [][Next]_vars
FairSpec == Spec /\ Fairness

-----------------------------------------------------------------------------
\* An edit stays in the working tree of the device it was made on, in its file,
\* in the page the journals were folded into or in a Conflict Copy, through
\* every merge, abort, retry and crash, unless somebody removed a file that
\* held it, edited a file that was still unmerged, or wrote past the server
\* to a journal page between the two halves of its fold.
NothingIsLost ==
    \A e \in 1..edits : e \notin dropped \cup excused => e \in Held(work[author[e]])

\* No commit has conflict markers in it and none reaches the branch, also when
\* the process died in the middle of a merge (the comment on commit_local).
MarkersStayHome ==
    /\ \A d \in Device : head[d].marked = {}
    /\ \A v \in 1..Len(hist) : hist[v].marked = {}

InSync(d) ==
    /\ ~merging[d].on
    /\ ver[d] = Len(hist) /\ ~fresh[d]
    /\ work[d] = head[d] /\ head[d] = hist[Len(hist)]

\* When nothing failed and every device has what the branch has, the day has
\* one journal page and no Conflict Copies of it, whoever folded it.
OneJournalADay ==
    /\ faults = 0
    /\ \A d \in Device : InSync(d) /\ At(d, "idle")
    => \A d \in Device : ~Folds(work[d])

\* Once people stop editing, every device ends with what the branch has: the
\* folds and Conflict Copies of the devices do not answer each other for ever.
EventuallyInSync == <>[](\A d \in Device : InSync(d))
=============================================================================
