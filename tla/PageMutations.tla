--------------------------- MODULE PageMutations ---------------------------
(***************************************************************************)
(* The single-page mutations of                                            *)
(* crates/clep-mutate/src/mutation_coordinator.rs and the handlers, the    *)
(* watcher and the folder projection they run beside.  A request reads a   *)
(* page, waits for its path locks, compares the file with what it read,    *)
(* publishes the new content and then tells the index; the watcher indexes *)
(* whatever changed on disk and moves pages to the folder their metadata   *)
(* declares; an editor saves files at any time.                            *)
(*                                                                         *)
(* Path locks are taken as one step (MutationLocks shows that they exclude *)
(* each other).  A batch, once its locks are held, is one step on the      *)
(* files that happens only if they still hold what the plan read           *)
(* (BatchMutation shows that it implements AtomicVault).  The index thread *)
(* runs one closure at a time.                                             *)
(***************************************************************************)
EXTENDS Integers, FiniteSets

CONSTANTS
    Task,        \* requests being served
    Path,        \* vault paths of pages
    Home,        \* Home[p]: where a page at p moves when its metadata is declared
    Folder,      \* the pages below the folder that delete_folder may remove
    FirstPage,   \* ids of the pages on disk at the start
    FirstFiles,  \* the pages on disk at the start
    Nothing,     \* no file, no row, no path
    MaxWork,     \* bound: commands and editor saves of one behaviour
    MaxSaves,    \* bound: how many of the first of these may be editor saves
    MaxAttempts  \* BY_ID_PATH_ATTEMPTS

VARIABLES
    files,    \* files[p]: what is on disk
    index,    \* index[p]: the row of p, as the content it was derived from
    events,   \* paths the file watcher has reported and nobody has indexed
    work,     \* commands and saves so far; numbers the contents they write
    pc,       \* pc[t]: where the request is
    req,      \* req[t]: its command and what it has read
    held,     \* held[t]: the paths it has locked
    result,   \* result[t]: the answer to its last command
    wTodo,    \* upserts the watcher still has to reconcile
    wHeld,    \* paths the watcher's reconcile has locked
    missed,   \* paths whose batch failed to index and was only logged
    crossed   \* paths a move wrote without their lock while a command held it

fileVars == <<files, events>>
taskVars == <<pc, req, held, result>>
watchVars == <<wTodo, wHeld, missed>>
vars == <<files, index, events, work, taskVars, watchVars, crossed>>

(***************************************************************************)
(* A page's content: whose it is, which writing of it, whether its         *)
(* metadata declares its folder, the path it links to, and who wrote it.   *)
(***************************************************************************)
Page == FirstPage \cup 1..MaxWork

Content ==
    [id: Page, ver: 0..MaxWork, filed: BOOLEAN, link: Path \cup {Nothing},
     by: {"server", "editor", "rewrite"}]

Entry == Content \cup {Nothing}

ASSUME BoundAssumption == MaxWork \in Nat /\ MaxSaves \in Nat
ASSUME PathAssumption == Home \in [Path -> Path] /\ Folder \subseteq Path
ASSUME NothingAssumption == Nothing \notin Path /\ Nothing \notin Content
ASSUME FirstAssumption ==
    /\ FirstPage \cap (1..MaxWork) = {}
    /\ FirstFiles \in [Path -> Entry]
    /\ \A p \in Path : FirstFiles[p] # Nothing =>
          /\ FirstFiles[p].id \in FirstPage /\ FirstFiles[p].ver = 0
          /\ \A q \in Path \ {p} : FirstFiles[q] # Nothing => FirstFiles[q].id # FirstFiles[p].id

NoReq ==
    [op |-> "none", path |-> Nothing, dest |-> Nothing, content |-> Nothing,
     expected |-> [p \in Path |-> Nothing], id |-> Nothing, tries |-> 0, rows |-> {}]

Init ==
    /\ files = FirstFiles
    /\ index = FirstFiles
    /\ events = {}
    /\ work = 0
    /\ pc = [t \in Task |-> "idle"]
    /\ req = [t \in Task |-> NoReq]
    /\ held = [t \in Task |-> {}]
    /\ result = [t \in Task |-> "none"]
    /\ wTodo = {}
    /\ wHeld = {}
    /\ missed = {}
    /\ crossed = {}

\* The watcher hears of every path whose entry changes.
WriteFiles(new) ==
    /\ files' = new
    /\ events' = events \cup {p \in Path : new[p] # files[p]}

Begins(t) ==
    /\ pc[t] = "idle" /\ work < MaxWork
    /\ work' = work + 1

Goto(t, label) == pc' = [pc EXCEPT ![t] = label]

\* Answers that leave nothing to say about the command's content.
Answered == {"done", "absent", "vanished", "unstable"}

\* The command ends: its guard is dropped, its answer is known.
Finish(t, answer) ==
    /\ Goto(t, "idle")
    /\ held' = [held EXCEPT ![t] = {}]
    /\ result' = [result EXCEPT ![t] = answer]
    /\ req' = [req EXCEPT ![t] =
          [NoReq EXCEPT !.content = IF answer \in Answered THEN Nothing ELSE req[t].content]]

\* project_path / project_path_cleared, on the declared metadata.
ProjectPath(p, content) ==
    IF content.filed /\ Home[p] # p THEN Home[p] ELSE Nothing

LockedByOthers(t) == wHeld \cup UNION {held[u] : u \in Task \ {t}}

\* lock_paths
Lock(t, paths, label) ==
    /\ paths \cap LockedByOthers(t) = {}
    /\ held' = [held EXCEPT ![t] = paths]
    /\ Goto(t, label)
    /\ UNCHANGED <<req, result>>

(***************************************************************************)
(* Moving a page: the file, and the links to it in every other page.       *)
(***************************************************************************)
\* find_backlink_pages: the pages that link to p as far as the index knows.
Backlinks(p) == {r \in Path \ {p} : index[r] # Nothing /\ index[r].link = p}

\* The plan reads each of them, and rewrites those that have the link.
Plannable(p) == \A r \in Backlinks(p) : files[r] # Nothing

MovedPaths(p, q) == {p, q} \cup {r \in Backlinks(p) : files[r].link = p}

Moved(p, q, paths) ==
    [r \in Path |->
        CASE r = q -> files[p]
          [] r = p -> Nothing
          [] r \in paths \ {p, q} -> [files[r] EXCEPT !.link = q, !.by = "rewrite"]
          [] OTHER -> files[r]]

\* What indexing some paths leaves in the index: a row per file, and, as the
\* page id is the primary key, no older row of the same page.
Reindexed(paths, new) ==
    [r \in Path |->
        CASE r \in paths -> new[r]
          [] /\ r \notin paths
             /\ \E p \in paths : index[r] # Nothing /\ new[p] # Nothing /\ new[p].id = index[r].id -> Nothing
          [] OTHER -> index[r]]

\* move_page_to on the index thread: nothing when the destination is taken,
\* otherwise a batch executed there and then (execute_batch_direct), under the
\* caller's locks and no others.
PublishMoveTo(p, q, locked) ==
    /\ files[p] # Nothing /\ files[q] = Nothing /\ Plannable(p)
    /\ WriteFiles(Moved(p, q, MovedPaths(p, q)))
    /\ crossed' = crossed \cup (MovedPaths(p, q) \cap ((UNION {held[u] : u \in Task}) \ locked))

MovePageTo(p, q, locked) ==
    /\ PublishMoveTo(p, q, locked)
    /\ index' = Reindexed(MovedPaths(p, q), Moved(p, q, MovedPaths(p, q)))

\* The same batch published, its index reconciliation failed.
MovePageToUnindexed(p, q, locked) ==
    /\ PublishMoveTo(p, q, locked)
    /\ UNCHANGED index

(***************************************************************************)
(* Create.                                                                 *)
(***************************************************************************)
\* A new page has a new id.
BeginCreate(t, p) ==
    /\ Begins(t)
    /\ req' = [req EXCEPT ![t] = [NoReq EXCEPT !.op = "create", !.path = p, !.content =
          [id |-> work + 1, ver |-> work + 1, filed |-> FALSE, link |-> Nothing, by |-> "server"]]]
    /\ result' = [result EXCEPT ![t] = "none"]
    /\ Goto(t, "lock")
    /\ UNCHANGED <<fileVars, index, held, watchVars, crossed>>

\* atomic_create succeeds, or the page exists, or nothing could be written.
PublishCreate(t) ==
    /\ pc[t] = "publishCreate"
    /\ \/ /\ files[req[t].path] = Nothing
          /\ WriteFiles([files EXCEPT ![req[t].path] = req[t].content])
          /\ Goto(t, "indexCreate")
          /\ UNCHANGED <<req, held, result>>
       \/ /\ files[req[t].path] # Nothing
          /\ Finish(t, "conflict")
          /\ UNCHANGED fileVars
       \/ /\ Finish(t, "failed")
          /\ UNCHANGED fileVars
    /\ UNCHANGED <<index, work, watchVars, crossed>>

\* Published, but the directory could not be flushed: the file is removed
\* again, or cannot be.
UndurableCreate(t) ==
    /\ pc[t] = "publishCreate"
    /\ files[req[t].path] = Nothing
    /\ \/ /\ Finish(t, "failed")
          /\ events' = events \cup {req[t].path}
          /\ UNCHANGED files
       \/ /\ Finish(t, "done")
          /\ WriteFiles([files EXCEPT ![req[t].path] = req[t].content])
    /\ UNCHANGED <<index, work, watchVars, crossed>>

\* IndexMutation::Created, in one transaction; a failure may leave it open.
IndexCreate(t) ==
    /\ pc[t] = "indexCreate"
    /\ LET p == req[t].path
       IN \/ /\ files[p] # Nothing
             /\ index' = Reindexed({p}, files)
             /\ Finish(t, "done")
          \/ /\ Goto(t, "rollback")
             /\ UNCHANGED <<index, req, held, result>>
          \/ /\ index' = Reindexed({p}, files)
             /\ Goto(t, "rollbackPartial")
             /\ UNCHANGED <<req, held, result>>
    /\ UNCHANGED <<fileVars, work, watchVars, crossed>>

\* Mutant: a rollback that could not remove the page is answered as a plain failure.
MutantRollbackCreate(t) ==
    /\ pc[t] \in {"rollback", "rollbackPartial"}
    /\ Finish(t, "failed")
    /\ UNCHANGED <<fileVars, index, work, watchVars, crossed>>

\* rollback_created_publication
RollbackCreate(t) ==
    /\ pc[t] \in {"rollback", "rollbackPartial"}
    /\ \/ /\ files[req[t].path] # Nothing
          /\ WriteFiles([files EXCEPT ![req[t].path] = Nothing])
          /\ IF pc[t] = "rollback"
               THEN Finish(t, "failed")
               ELSE Goto(t, "compensate") /\ UNCHANGED <<req, held, result>>
       \/ /\ Finish(t, "done")
          /\ UNCHANGED fileVars
    /\ UNCHANGED <<index, work, watchVars, crossed>>

\* IndexMutation::Deleted for what the failed transaction may have left.
CompensateCreate(t) ==
    /\ pc[t] = "compensate"
    /\ \/ index' = [index EXCEPT ![req[t].path] = Nothing]
       \/ UNCHANGED index
    /\ Finish(t, "failed")
    /\ UNCHANGED <<fileVars, work, watchVars, crossed>>

(***************************************************************************)
(* Update and replace.                                                     *)
(***************************************************************************)
\* The handler reads the page and builds the command from it: an assignment
\* declares the metadata and reconciles, a plain update or replacement neither.
BeginUpdate(t, p, assign) ==
    /\ Begins(t)
    /\ files[p] # Nothing
    /\ LET new == [files[p] EXCEPT !.ver = work + 1, !.filed = @ \/ assign, !.by = "server"]
       IN req' = [req EXCEPT ![t] = [NoReq EXCEPT
                    !.op = "update", !.path = p, !.content = new,
                    !.dest = IF assign THEN ProjectPath(p, new) ELSE Nothing,
                    !.expected[p] = files[p]]]
    /\ result' = [result EXCEPT ![t] = "none"]
    /\ Goto(t, "lock")
    /\ UNCHANGED <<fileVars, index, held, watchVars, crossed>>

\* Mutant: the file is not compared with what the handler read.
MutantCompareUpdate(t) ==
    /\ pc[t] = "compare"
    /\ Goto(t, "prepare")
    /\ UNCHANGED <<fileVars, index, work, req, held, result, watchVars, crossed>>

\* The compare-and-swap read, under the locks.
CompareUpdate(t) ==
    /\ pc[t] = "compare"
    /\ IF files[req[t].path] = req[t].expected[req[t].path]
         THEN Goto(t, "prepare") /\ UNCHANGED <<req, held, result>>
         ELSE Finish(t, "stale")
    /\ UNCHANGED <<fileVars, index, work, watchVars, crossed>>

DestinationTaken(t) == req[t].dest # Nothing /\ files[req[t].dest] # Nothing

\* The destination must be free and the file still there; then its
\* replacement is written beside it.
PrepareUpdate(t) ==
    /\ pc[t] = "prepare"
    /\ \/ /\ DestinationTaken(t)
          /\ Finish(t, "conflict")
       \/ /\ ~DestinationTaken(t)
          /\ files[req[t].path] # Nothing
          /\ Goto(t, "publish")
          /\ UNCHANGED <<req, held, result>>
       \/ /\ ~DestinationTaken(t)
          /\ Finish(t, "failed")
    /\ UNCHANGED <<fileVars, index, work, watchVars, crossed>>

\* atomic_replace renames it over whatever is at the path by now.
PublishUpdate(t) ==
    /\ pc[t] = "publish"
    /\ WriteFiles([files EXCEPT ![req[t].path] = req[t].content])
    /\ Goto(t, "index")
    /\ UNCHANGED <<index, work, req, held, result, watchVars, crossed>>

\* IndexMutation::ContentChanged
IndexUpdate(t) ==
    /\ pc[t] = "index"
    /\ LET p == req[t].path
       IN \/ /\ files[p] # Nothing
             /\ index' = Reindexed({p}, files)
             /\ IF req[t].dest = Nothing
                  THEN Finish(t, "done")
                  ELSE Goto(t, "follow") /\ UNCHANGED <<req, held, result>>
          \/ /\ Finish(t, "done")
             /\ UNCHANGED index
    /\ UNCHANGED <<fileVars, work, watchVars, crossed>>

\* The page follows its metadata; the destination may have been taken since.
\* That answer ("destination became unavailable") is a MutationError::Conflict
\* too: it comes after the content was replaced and indexed, and
\* filesystem_applied() is false of it.
FollowUpdate(t) ==
    /\ pc[t] = "follow"
    /\ \/ /\ MovePageTo(req[t].path, req[t].dest, held[t])
          /\ Finish(t, "done")
       \/ /\ MovePageToUnindexed(req[t].path, req[t].dest, held[t])
          /\ Finish(t, "done")
       \/ /\ files[req[t].dest] # Nothing
          /\ Finish(t, "unavailable")
          /\ UNCHANGED <<fileVars, index, crossed>>
       \/ /\ Finish(t, "done")
          /\ UNCHANGED <<fileVars, index, crossed>>
    /\ UNCHANGED <<work, watchVars>>

(***************************************************************************)
(* Move, as a batch: planned under the two paths' locks, executed under    *)
(* the locks of everything it writes.                                      *)
(***************************************************************************)
PlanMove(t, p) ==
    /\ Begins(t)
    /\ Home[p] # p /\ files[p] # Nothing /\ files[Home[p]] = Nothing /\ Plannable(p)
    /\ {p, Home[p]} \cap LockedByOthers(t) = {}
    /\ req' = [req EXCEPT ![t] = [NoReq EXCEPT !.op = "move", !.path = p, !.dest = Home[p],
          !.rows = MovedPaths(p, Home[p]),
          !.expected = [r \in Path |-> IF r \in MovedPaths(p, Home[p]) THEN files[r] ELSE Nothing]]]
    /\ result' = [result EXCEPT ![t] = "none"]
    /\ Goto(t, "lock")
    /\ UNCHANGED <<fileVars, index, held, watchVars, crossed>>

\* publish_batch: applied exactly when every file is as the plan read it.
PublishMove(t) ==
    /\ pc[t] = "publishMove"
    /\ \/ /\ \A r \in req[t].rows : files[r] = req[t].expected[r]
          /\ WriteFiles(Moved(req[t].path, req[t].dest, req[t].rows))
          /\ Goto(t, "indexMove")
          /\ UNCHANGED <<req, held, result>>
       \/ /\ \E r \in req[t].rows : files[r] # req[t].expected[r]
          /\ Finish(t, "stale")
          /\ UNCHANGED fileVars
       \/ /\ Finish(t, "failed")
          /\ UNCHANGED fileVars
    /\ UNCHANGED <<index, work, watchVars, crossed>>

\* reconcile_batch_index
IndexMove(t) ==
    /\ pc[t] = "indexMove"
    /\ \/ index' = Reindexed(req[t].rows, files) /\ Finish(t, "done")
       \/ UNCHANGED index /\ Finish(t, "done")
    /\ UNCHANGED <<fileVars, work, watchVars, crossed>>

(***************************************************************************)
(* Deleting a folder and everything below it.                              *)
(***************************************************************************)
BeginDeleteFolder(t) ==
    /\ Begins(t)
    /\ req' = [req EXCEPT ![t] = [NoReq EXCEPT !.op = "deleteFolder"]]
    /\ result' = [result EXCEPT ![t] = "none"]
    /\ Goto(t, "lock")
    /\ UNCHANGED <<fileVars, index, held, watchVars, crossed>>

\* Mutant: the rows go before the directory does.
MutantSnapshotFolder(t) ==
    /\ pc[t] = "snapshot"
    /\ index' = [p \in Path |-> IF p \in Folder THEN Nothing ELSE index[p]]
    /\ Goto(t, "removeDir")
    /\ UNCHANGED <<fileVars, work, req, held, result, watchVars, crossed>>

SnapshotFolder(t) ==
    /\ pc[t] = "snapshot"
    /\ req' = [req EXCEPT ![t].rows = {p \in Folder : index[p] # Nothing}]
    /\ Goto(t, "removeDir")
    /\ UNCHANGED <<fileVars, index, work, held, result, watchVars, crossed>>

\* remove_dir_all, or remove_dir of an empty folder; a failure may come after
\* some files are gone, and is answered as not applied all the same.
RemoveFolder(t) ==
    /\ pc[t] = "removeDir"
    /\ \/ /\ WriteFiles([p \in Path |-> IF p \in Folder THEN Nothing ELSE files[p]])
          /\ Goto(t, "indexDelete")
          /\ UNCHANGED <<req, held, result>>
       \/ /\ \E gone \in SUBSET Folder :
               WriteFiles([p \in Path |-> IF p \in gone THEN Nothing ELSE files[p]])
          /\ Finish(t, "failed")
    /\ UNCHANGED <<index, work, watchVars, crossed>>

\* IndexMutation::Deleted, one indexed path after the other.
IndexDeleteFolder(t) ==
    /\ pc[t] = "indexDelete"
    /\ \/ \E p \in req[t].rows :
             /\ index' = [index EXCEPT ![p] = Nothing]
             /\ req' = [req EXCEPT ![t].rows = @ \ {p}]
             /\ UNCHANGED <<pc, held, result>>
       \/ /\ req[t].rows = {}
          /\ Finish(t, "done")
          /\ UNCHANGED index
       \/ /\ Finish(t, "done")
          /\ UNCHANGED index
    /\ UNCHANGED <<fileVars, work, watchVars, crossed>>

\* Every command waits for the locks of what it will write.
Wanted(t) ==
    CASE req[t].op = "create" -> {req[t].path}
      [] req[t].op = "update" -> {req[t].path, req[t].dest} \ {Nothing}
      [] req[t].op = "move" -> req[t].rows
      [] req[t].op = "deleteFolder" -> Folder
      [] req[t].op = "read" -> {req[t].path}

FirstStep(op) ==
    CASE op = "create" -> "publishCreate"
      [] op = "update" -> "compare"
      [] op = "move" -> "publishMove"
      [] op = "deleteFolder" -> "snapshot"
      [] op = "read" -> "confirm"

LockPaths(t) ==
    /\ pc[t] = "lock"
    /\ Lock(t, Wanted(t), FirstStep(req[t].op))
    /\ UNCHANGED <<fileVars, index, work, watchVars, crossed>>

(***************************************************************************)
(* Reading a page by its id (read_stable_by_id).                           *)
(***************************************************************************)
PathsById(id) == {p \in Path : index[p] # Nothing /\ index[p].id = id}

\* The id's path is looked up, and looked up again when it was wrong; BY_ID_PATH_ATTEMPTS times.
LookUp(t, id, tries) ==
    \/ \E p \in PathsById(id) :
        /\ req' = [req EXCEPT ![t] = [NoReq EXCEPT !.op = "read", !.id = id, !.path = p, !.tries = tries]]
        /\ held' = [held EXCEPT ![t] = {}]
        /\ Goto(t, "lock")
        /\ result' = [result EXCEPT ![t] = "none"]
    \/ PathsById(id) = {} /\ Finish(t, "absent")

BeginRead(t, id) ==
    /\ Begins(t)
    /\ LookUp(t, id, 1)
    /\ UNCHANGED <<fileVars, index, watchVars, crossed>>

\* Mutant: a page that is not where the index said is given up at once.
MutantRetry(t) == Finish(t, "vanished")

Retry(t) ==
    IF req[t].tries < MaxAttempts
      THEN LookUp(t, req[t].id, req[t].tries + 1)
      ELSE Finish(t, "unstable")

\* Under the lock, the id must still map to the candidate.
ConfirmRead(t) ==
    /\ pc[t] = "confirm"
    /\ IF req[t].path \in PathsById(req[t].id)
         THEN Goto(t, "read") /\ UNCHANGED <<req, held, result>>
         ELSE Retry(t)
    /\ UNCHANGED <<fileVars, index, work, watchVars, crossed>>

ReadById(t) ==
    /\ pc[t] = "read"
    /\ LET found == files[req[t].path] # Nothing /\ files[req[t].path].id = req[t].id
       IN CASE found -> Finish(t, "done")
            [] ~found /\ req[t].path \in PathsById(req[t].id) -> Finish(t, "vanished")
            [] OTHER -> Retry(t)
    /\ UNCHANGED <<fileVars, index, work, watchVars, crossed>>

(***************************************************************************)
(* The watcher: index the batch, then move each upserted page to its       *)
(* declared folder, under the lock of its source path only.                *)
(***************************************************************************)
IndexBatch ==
    /\ wTodo = {} /\ wHeld = {} /\ events # {}
    /\ \/ index' = Reindexed(events, files) /\ missed' = missed \ events
       \/ UNCHANGED index /\ missed' = missed \cup events
    /\ wTodo' = {p \in events : files[p] # Nothing}
    /\ events' = {}
    /\ UNCHANGED <<files, work, taskVars, wHeld, crossed>>

\* Mutant: the watcher moves pages without their lock.
MutantLockReconcile(p) ==
    /\ p \in wTodo /\ wHeld = {}
    /\ wHeld' = {p}
    /\ UNCHANGED <<files, index, events, work, taskVars, wTodo, missed, crossed>>

LockReconcile(p) ==
    /\ p \in wTodo /\ wHeld = {}
    /\ p \notin UNION {held[u] : u \in Task}
    /\ wHeld' = {p}
    /\ UNCHANGED <<files, index, events, work, taskVars, wTodo, missed, crossed>>

ReconcilePage ==
    /\ wHeld # {}
    /\ LET p == CHOOSE q \in wHeld : TRUE
       IN /\ \/ /\ files[p] # Nothing /\ ProjectPath(p, files[p]) # Nothing
                /\ \/ MovePageTo(p, Home[p], {})
                   \/ MovePageToUnindexed(p, Home[p], {})
             \/ UNCHANGED <<fileVars, index, crossed>>
          /\ wTodo' = wTodo \ {p}
    /\ wHeld' = {}
    /\ UNCHANGED <<work, taskVars, missed>>

(***************************************************************************)
(* Somebody edits a page outside the server.                               *)
(***************************************************************************)
EditorSave(p, filed) ==
    /\ files[p] # Nothing /\ work < MaxWork /\ work < MaxSaves
    /\ work' = work + 1
    /\ WriteFiles([files EXCEPT ![p].ver = work + 1, ![p].filed = filed, ![p].by = "editor"])
    /\ UNCHANGED <<index, taskVars, watchVars, crossed>>

Begin(t) ==
    \/ \E p \in Path : BeginCreate(t, p)
    \/ \E p \in Path, assign \in BOOLEAN : BeginUpdate(t, p, assign)
    \/ \E p \in Path : PlanMove(t, p)
    \/ BeginDeleteFolder(t)
    \/ \E id \in Page : BeginRead(t, id)

Step(t) ==
    \/ LockPaths(t)
    \/ PublishCreate(t)
    \/ UndurableCreate(t)
    \/ IndexCreate(t)
    \/ RollbackCreate(t)
    \/ CompensateCreate(t)
    \/ CompareUpdate(t)
    \/ PrepareUpdate(t)
    \/ PublishUpdate(t)
    \/ IndexUpdate(t)
    \/ FollowUpdate(t)
    \/ PublishMove(t)
    \/ IndexMove(t)
    \/ SnapshotFolder(t)
    \/ RemoveFolder(t)
    \/ IndexDeleteFolder(t)
    \/ ConfirmRead(t)
    \/ ReadById(t)

Next ==
    \/ \E t \in Task : Begin(t) \/ Step(t)
    \/ IndexBatch
    \/ \E p \in Path : LockReconcile(p)
    \/ ReconcilePage
    \/ \E p \in Path, filed \in BOOLEAN : EditorSave(p, filed)

Spec == Init /\ [][Next]_vars

(***************************************************************************)
(* Properties.                                                             *)
(***************************************************************************)
\* The variables have their types.
TypeOK ==
    /\ files \in [Path -> Entry]
    /\ index \in [Path -> Entry]
    /\ events \subseteq Path
    /\ work \in 0..MaxWork
    /\ \A t \in Task : held[t] \subseteq Path
    /\ wTodo \subseteq Path
    /\ wHeld \subseteq Path
    /\ missed \subseteq Path
    /\ crossed \subseteq Path

\* No page is in two files ("leaving two files carrying one page id",
\* reconcile_upserts): moves, updates and creations do not cross.
OneFilePerPage ==
    \A p, q \in Path :
        (p # q /\ files[p] # Nothing /\ files[q] # Nothing) => files[p].id # files[q].id

\* A published update replaces exactly the content it compared, unless an
\* editor saved, or a move rewrote a link, in between (expected_content of
\* UpdatePageCommand and ReplacePageContentCommand).
NoLostUpdate ==
    [][\A t \in Task : (pc[t] = "publish" /\ pc'[t] = "index") =>
        LET old == files[req[t].path]
        IN \/ old = req[t].expected[req[t].path]
           \/ old.by = "editor"
           \/ req[t].path \in crossed]_vars

\* The index disagrees with a file only while a reported change will still be
\* indexed, or a batch's failure was logged, or a move crossed a lock.
IndexFollowsFiles ==
    \A p \in Path : index[p] # files[p] => p \in events \cup missed \cup crossed

\* The answers of which MutationError::filesystem_applied() is false.
Refusals == {"stale", "conflict", "unavailable", "failed"}

\* The content of t's command is in the vault.
InVault(t) == req[t].content # Nothing /\ \E p \in Path : files[p] = req[t].content

\* A create, update or replacement that is answered as not applied has left
\* nothing of its content in the vault, through failed indexing, rollbacks and
\* whatever the others do (MutationError::filesystem_applied), but for one
\* answer: the conflict of an update whose destination was taken after its
\* content was published.
RefusedIsNotApplied ==
    \A t \in Task : (result[t] \in Refusals /\ InVault(t)) => result[t] = "unavailable"

\* A read by id fails on a page that is in the vault only while the index lags
\* behind the files, or the page moved at every attempt: a move in between is
\* always noticed (resolve_stable_by_id).
ReadsFindThePage ==
    [][\A t \in Task : (pc[t] \in {"confirm", "read"} /\ result'[t] \in {"vanished", "absent"}) =>
        \A p \in Path : (files[p] # Nothing /\ files[p].id = req[t].id /\ p # req[t].path) =>
            p \in events \cup missed \cup crossed]_vars

(***************************************************************************)
(* What docs, comments or tests say and the code does not keep: see        *)
(* "Known divergences" in the README.                                      *)
(***************************************************************************)
\* No command writes a path while another has it locked ("Serializes mutations
\* that touch the same normalized vault paths", MutationCoordinator).
MutationsAreSerialized == crossed = {}

\* "Rejected before an authoritative filesystem mutation completes"
\* (mutation_coordinator.rs:356), of a Conflict as of every other refusal.
RefusalsChangeNothing == \A t \in Task : result[t] \in Refusals => ~InVault(t)
=============================================================================
