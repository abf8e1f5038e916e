---------------------------- MODULE ArchiveStore ----------------------------
(***************************************************************************)
(* Captured web pages, the blobs they refer to and the rubbish bin.        *)
(*                                                                         *)
(* An archive page names its blobs by hash; the content store keeps one    *)
(* file per hash and a row with a reference count in cas.db.  A count is   *)
(* taken when a capture is ingested and given back when its page is        *)
(* deleted with its folder, when its rubbish item is purged, or when the   *)
(* ingest fails.  The database commits a statement at a time, the blob     *)
(* files and the rubbish items are outside it, and the server may crash    *)
(* between any two of these steps; `clep cas rebuild` recounts everything  *)
(* while the server is stopped.                                            *)
(*                                                                         *)
(* Sources: clep-archive (cas.rs, archive_hook.rs, cas_scan.rs),           *)
(* clep-vault (rubbish.rs), clep-mutate (mutation_coordinator.rs) and the  *)
(* ingest of clep-api (api/archive.rs).                                    *)
(***************************************************************************)
EXTENDS Integers, FiniteSets

CONSTANTS
  Pages,       \* captures, each with the page it becomes
  Blobs,       \* blob hashes
  Items,       \* rubbish item ids
  Requests,    \* purge, empty, restore and archive requests in flight
  Refs,        \* [Pages -> SUBSET Blobs]: captured_archive_hashes of a page
  Url,         \* [Pages -> url]: what the capture is a capture of
  MaxCrashes,  \* bound on crashes and stops of the server
  MaxFaults,   \* bound on failed file, database and index operations
  MaxRebuilds, \* bound on rebuilds of cas.db
  Nobody       \* no page, no item, no lock holder

ASSUME ArchiveAssumption ==
  /\ Refs \in [Pages -> (SUBSET Blobs) \ {{}}]
  /\ {MaxCrashes, MaxFaults, MaxRebuilds} \subseteq Nat
  /\ Nobody \notin Pages \cup Items \cup Requests \cup Blobs
  /\ IsFiniteSet(Pages) /\ IsFiniteSet(Items) /\ Pages \cap Items = {}

VARIABLES
  up,       \* the server is running
  live,     \* pages whose file is in the vault
  indexed,  \* pages the index knows
  item,     \* [Items -> the page it holds and where its directory is]
  catalog,  \* items with a row in the index's rubbish catalogue
  rows,     \* blobs with a row in cas.db
  refs,     \* [Blobs -> the row's ref_count]
  files,    \* blobs with a file
  ledger,   \* items whose release is recorded (rubbish_archive_releases)
  ingest,   \* [Pages -> the ingest of that capture]
  holder,   \* the capture that holds the ingest lock
  request,  \* [Requests -> the request]
  lock,     \* [Items \cup Pages -> the request that holds the item or the path]
  batches,  \* archive and restore transactions left to the next start
  hooks,    \* [Pages -> blobs a folder deletion still has to give back]
  pruning,  \* the blob gc is removing
  torn,     \* blobs whose file may be missing or incomplete
  unsure,   \* blobs whose count is known to be too low
  overtaken,\* pages another operation took up before their batch was recovered
  blurred,  \* items that a failure or a cancellation left apart from their row
  crashes, faults, rebuilds

vars == <<up, live, indexed, item, catalog, rows, refs, files, ledger, ingest,
          holder, request, lock, batches, hooks, pruning, torn, unsure, overtaken, blurred, crashes, faults, rebuilds>>

vault   == <<live, indexed, item, catalog>>
store   == <<rows, refs, files, ledger, torn, unsure>>
retained == <<batches, overtaken, blurred>>
budgets == <<crashes, faults, rebuilds>>

NoIngest  == [pc |-> "idle", todo |-> {}, stored |-> {}, blob |-> Nobody]
NoRequest == [op |-> "none", pc |-> "idle", item |-> Nobody, todo |-> {}]
NoItem    == [page |-> Nobody, at |-> "none"]

Init ==
  /\ up = TRUE
  /\ live = {} /\ indexed = {} /\ catalog = {}
  /\ item = [i \in Items |-> NoItem]
  /\ rows = {} /\ refs = [h \in Blobs |-> 0] /\ files = {} /\ ledger = {}
  /\ ingest = [p \in Pages |-> NoIngest]
  /\ holder = Nobody
  /\ request = [r \in Requests |-> NoRequest]
  /\ lock = [x \in Items \cup Pages |-> Nobody]
  /\ batches = {}
  /\ hooks = [p \in Pages |-> {}]
  /\ pruning = Nobody
  /\ torn = {} /\ unsure = {} /\ overtaken = {} /\ blurred = {}
  /\ crashes = 0 /\ faults = 0 /\ rebuilds = 0

-----------------------------------------------------------------------------
(***************************************************************************)
(* The content store.  Every operation runs under the store's mutex and    *)
(* its exclusive file lock, so none runs while a store is between its row  *)
(* and its file or a prune between its file and its row.                   *)
(***************************************************************************)
CasFree == pruning = Nobody /\ \A p \in Pages : ingest[p].pc # "write"

Fault == faults < MaxFaults /\ faults' = faults + 1

\* UPDATE blobs SET ref_count = ref_count - 1: no effect without a row.
DecrementRef(S) ==
  refs' = [h \in Blobs |-> IF h \in S \cap rows THEN refs[h] - 1 ELSE refs[h]]

\* Mutant: the prune takes the blobs with one reference as well.
MutantGcRemove(h) ==
  /\ up /\ CasFree
  /\ h \in rows /\ refs[h] <= 1
  /\ files' = files \ {h}
  /\ pruning' = h
  /\ UNCHANGED <<up, vault, rows, refs, ledger, torn, unsure, ingest,
                 holder, request, lock, retained, hooks, budgets>>

\* gc(min_age): of the rows without references some are old enough; the file
\* goes first, the row after it.  No caller of the repository runs it yet.
GcRemove(h) ==
  /\ up /\ CasFree
  /\ h \in rows /\ refs[h] <= 0
  /\ files' = files \ {h}
  /\ pruning' = h
  /\ UNCHANGED <<up, vault, rows, refs, ledger, torn, unsure, ingest,
                 holder, request, lock, retained, hooks, budgets>>

\* When the row cannot be deleted it stays without its file.
GcForget ==
  /\ up /\ pruning # Nobody
  /\ \/ /\ rows' = rows \ {pruning}
        /\ refs' = [refs EXCEPT ![pruning] = 0]
        /\ UNCHANGED <<torn, budgets>>
     \/ /\ Fault /\ torn' = torn \cup {pruning}
        /\ UNCHANGED <<rows, refs, crashes, rebuilds>>
  /\ pruning' = Nobody
  /\ UNCHANGED <<up, vault, files, ledger, unsure, ingest, holder,
                 request, lock, retained, hooks>>

-----------------------------------------------------------------------------
(***************************************************************************)
(* Ingest of a capture, serialised by archive_ingest_lock.                 *)
(***************************************************************************)

\* find_by_archive_url: an indexed page or a catalogued rubbish item.
Owned(u) == \/ \E p \in indexed : Url[p] = u
            \/ \E i \in catalog : item[i].page # Nobody /\ Url[item[i].page] = u

\* ingest up to the first store; a known URL is answered without a change.  A
\* page id is new: a capture counts as new once nothing is left of its page.
BeginIngest(p) ==
  /\ up /\ holder = Nobody /\ ingest[p] = NoIngest
  /\ p \notin live /\ hooks[p] = {} /\ \A i \in Items : item[i].page # p
  /\ ~Owned(Url[p])
  /\ holder' = p
  /\ ingest' = [ingest EXCEPT ![p] = [NoIngest EXCEPT !.pc = "store", !.todo = Refs[p]]]
  /\ UNCHANGED <<up, vault, store, request, lock, retained, hooks, pruning, budgets>>

\* store: INSERT OR IGNORE; a row that exists only counts one more.
StoreRow(p, h) ==
  /\ up /\ CasFree /\ ingest[p].pc = "store" /\ h \in ingest[p].todo
  /\ rows' = rows \cup {h}
  /\ refs' = [refs EXCEPT ![h] = IF h \in rows THEN @ + 1 ELSE 1]
  /\ ingest' = [ingest EXCEPT ![p].todo = @ \ {h},
                              ![p].pc = IF h \in rows THEN "store" ELSE "write",
                              ![p].stored = IF h \in rows THEN @ \cup {h} ELSE @,
                              ![p].blob = IF h \in rows THEN Nobody ELSE h]
  /\ UNCHANGED <<up, vault, files, ledger, torn, unsure, holder,
                 request, lock, retained, hooks, pruning, budgets>>

\* store: the file of a new row.  When it cannot be written the row goes again,
\* unless its directory could not be created or the deletion fails too: then it
\* stays, counted once for nobody.  Ingest gives back what it has stored so far.
StoreFile(p) ==
  LET h == ingest[p].blob IN
  /\ up /\ ingest[p].pc = "write"
  /\ \/ /\ files' = files \cup {h}
        /\ torn' = torn \ {h}
        /\ ingest' = [ingest EXCEPT ![p].pc = "store", ![p].blob = Nobody,
                                    ![p].stored = @ \cup {h}]
        /\ UNCHANGED <<rows, refs, budgets>>
     \/ /\ Fault /\ torn' = torn \cup {h}
        /\ \/ rows' = rows \ {h} /\ refs' = [refs EXCEPT ![h] = 0]
           \/ UNCHANGED <<rows, refs>>
        /\ ingest' = [ingest EXCEPT ![p].pc = "undo", ![p].blob = Nobody,
                                    ![p].todo = {}]
        /\ UNCHANGED <<files, crashes, rebuilds>>
  /\ UNCHANGED <<up, vault, ledger, unsure, holder, request, lock,
                 retained, hooks, pruning>>

\* create_page, under the lock of the page's path.  It may fail with nothing
\* applied, or with the page left behind because its rollback failed too and the
\* compensation found the file changed: then the page stays and its blobs are
\* given back all the same.
CreatePage(p) ==
  /\ up /\ ingest[p].pc = "store" /\ ingest[p].todo = {}
  /\ lock[p] = Nobody
  /\ \/ /\ live' = live \cup {p} /\ indexed' = indexed \cup {p}
        /\ ingest' = [ingest EXCEPT ![p] = NoIngest]
        /\ holder' = IF holder = p THEN Nobody ELSE holder
        /\ UNCHANGED <<unsure, budgets>>
     \/ /\ Fault
        /\ ingest' = [ingest EXCEPT ![p].pc = "undo"]
        /\ \/ UNCHANGED <<live, indexed, unsure>>
           \/ /\ live' = live \cup {p} /\ indexed' = indexed \cup {p}
              /\ unsure' = unsure \cup Refs[p]
        /\ UNCHANGED <<holder, crashes, rebuilds>>
  /\ UNCHANGED <<up, item, catalog, rows, refs, files, ledger, torn,
                 request, lock, retained, hooks, pruning>>

\* rollback_cas: one decrement for every stored hash, then the error.
Compensate(p) ==
  /\ up /\ CasFree /\ ingest[p].pc = "undo"
  /\ DecrementRef(ingest[p].stored)
  /\ ingest' = [ingest EXCEPT ![p] = NoIngest]
  /\ holder' = IF holder = p THEN Nobody ELSE holder
  /\ UNCHANGED <<up, vault, rows, files, ledger, torn, unsure, request,
                 lock, retained, hooks, pruning, budgets>>

\* The client goes away while create_page waits for the path: nothing is undone.
CancelIngest(p) ==
  /\ up /\ ingest[p].pc = "store" /\ ingest[p].todo = {}
  /\ Fault
  /\ ingest' = [ingest EXCEPT ![p] = NoIngest]
  /\ holder' = IF holder = p THEN Nobody ELSE holder
  /\ UNCHANGED <<up, vault, store, request, lock, retained, hooks, pruning,
                 crashes, rebuilds>>

-----------------------------------------------------------------------------
\* Pages of the batches that the next start has to roll back.
Pending == {item[b.item].page : b \in {c \in batches : c.phase = "committing"}}

\* An operation takes up these pages: for those that are pending the vault is
\* no longer what their batch recorded.
Overtake(S) == overtaken' = overtaken \cup (S \cap Pending)

(***************************************************************************)
(* Permanent deletion of a folder: the pages go under the subtree lock,    *)
(* and the hook gives their blobs back after the locks are dropped.        *)
(***************************************************************************)
DeleteFolder(p) ==
  /\ up /\ p \in live /\ lock[p] = Nobody
  /\ live' = live \ {p} /\ indexed' = indexed \ {p}
  /\ hooks' = [hooks EXCEPT ![p] = Refs[p]]
  /\ Overtake({p})
  /\ UNCHANGED <<up, item, catalog, store, ingest, holder, request, lock,
                 batches, blurred, pruning, budgets>>

OnPageDeleted(p, h) ==
  /\ up /\ CasFree /\ h \in hooks[p]
  /\ DecrementRef({h})
  /\ hooks' = [hooks EXCEPT ![p] = @ \ {h}]
  /\ UNCHANGED <<up, vault, rows, files, ledger, torn, unsure, ingest,
                 holder, request, lock, retained, pruning, budgets>>

-----------------------------------------------------------------------------
(***************************************************************************)
(* Requests.  A request holds the locks it takes until it is answered.     *)
(***************************************************************************)
Idle(r) == up /\ request[r] = NoRequest

At(r, op, pc) == up /\ request[r].op = op /\ request[r].pc = pc

Held(r) == {x \in DOMAIN lock : lock[x] = r}

Take(r, S) ==
  /\ \A x \in S : lock[x] = Nobody
  /\ lock' = [x \in DOMAIN lock |-> IF x \in S THEN r ELSE lock[x]]

Drop(r) == lock' = [x \in DOMAIN lock |-> IF lock[x] = r THEN Nobody ELSE lock[x]]

Goto(r, pc) == request' = [request EXCEPT ![r].pc = pc]

\* The request is answered.
Answer(r) == Drop(r) /\ request' = [request EXCEPT ![r] = NoRequest]

\* One item of a purge is done: empty_rubbish goes on with the next.
NextItem(r) ==
  /\ Drop(r)
  /\ request' = [request EXCEPT
       ![r] = IF @.todo = {} THEN NoRequest
              ELSE [@ EXCEPT !.pc = "lock", !.item = Nobody]]

\* purge_rubbish reads nothing before it has the item's lock; without the item
\* or its tombstone it answers "not found" and changes nothing.
BeginPurge(r, i) ==
  /\ Idle(r) /\ item[i].at \in {"store", "tomb"}
  /\ Take(r, {i})
  /\ request' = [request EXCEPT
       ![r] = [op |-> "purge", pc |-> "read", item |-> i, todo |-> {}]]
  /\ UNCHANGED <<up, vault, store, ingest, holder, retained, hooks, pruning, budgets>>

\* empty_rubbish: the items of one enumeration of the store.
BeginEmpty(r) ==
  /\ Idle(r) /\ \E i \in Items : item[i].at = "store"
  /\ request' = [request EXCEPT
       ![r] = [op |-> "purge", pc |-> "lock", item |-> Nobody,
               todo |-> {i \in Items : item[i].at = "store"}]]
  /\ UNCHANGED <<up, vault, store, ingest, holder, lock, retained, hooks, pruning, budgets>>

LockItem(r, i) ==
  /\ At(r, "purge", "lock") /\ i \in request[r].todo
  /\ Take(r, {i})
  /\ request' = [request EXCEPT ![r].pc = "read", ![r].item = i, ![r].todo = @ \ {i}]
  /\ UNCHANGED <<up, vault, store, ingest, holder, retained, hooks, pruning, budgets>>

\* prepare_rubbish_purge_context: finish an interrupted purge, then read the
\* item.  Without one the catalogue row goes (after a tombstone) and the item is
\* reported missing.
PreparePurge(r) ==
  LET i == request[r].item IN
  /\ At(r, "purge", "read")
  /\ item' = [item EXCEPT ![i].at = IF @ = "tomb" THEN "gone" ELSE @]
  /\ \/ item[i].at = "store" /\ Goto(r, "release") /\ UNCHANGED <<lock, catalog>>
     \/ /\ item[i].at # "store" /\ NextItem(r)
        /\ catalog' = IF item[i].at = "tomb" THEN catalog \ {i} ELSE catalog
  /\ UNCHANGED <<up, live, indexed, store, ingest, holder, retained, hooks,
                 pruning, budgets>>

\* prevalidate_rubbish_archive_ref, for every hash.
Releasable(h) == h \in rows /\ refs[h] > 0 /\ h \in files

\* Mutant: the release does not look into its ledger.
MutantReleaseRefs(r) ==
  LET i == request[r].item
      hashes == Refs[item[i].page] IN
  /\ At(r, "purge", "release") /\ CasFree
  /\ \/ /\ \A h \in hashes : Releasable(h)
        /\ DecrementRef(hashes) /\ Overtake({item[i].page})
        /\ ledger' = ledger \cup {i}
        /\ Goto(r, "take") /\ UNCHANGED lock
     \/ /\ \E h \in hashes : ~Releasable(h)
        /\ NextItem(r) /\ UNCHANGED <<refs, ledger, overtaken>>
  /\ UNCHANGED <<up, vault, rows, files, torn, unsure, ingest, holder,
                 batches, blurred, hooks, pruning, budgets>>

\* on_rubbish_purge: one transaction that decrements every hash and records the
\* item; an item that is recorded is not decremented again.
ReleaseRefs(r) ==
  LET i == request[r].item
      hashes == Refs[item[i].page] IN
  /\ At(r, "purge", "release") /\ CasFree
  /\ \/ /\ i \in ledger
        /\ Goto(r, "take") /\ UNCHANGED <<refs, ledger, lock, overtaken>>
     \/ /\ i \notin ledger /\ \A h \in hashes : Releasable(h)
        /\ DecrementRef(hashes) /\ Overtake({item[i].page})
        /\ ledger' = ledger \cup {i}
        /\ Goto(r, "take") /\ UNCHANGED lock
     \/ /\ i \notin ledger /\ \E h \in hashes : ~Releasable(h)
        /\ NextItem(r) /\ UNCHANGED <<refs, ledger, overtaken>>
  /\ UNCHANGED <<up, vault, rows, files, torn, unsure, ingest, holder,
                 batches, blurred, hooks, pruning, budgets>>

TakeEntry(r) ==
  /\ At(r, "purge", "take")
  /\ catalog' = catalog \ {request[r].item}
  /\ Goto(r, "remove")
  /\ UNCHANGED <<up, live, indexed, item, store, ingest, holder, lock, retained,
                 hooks, pruning, budgets>>

\* Mutant: a failed removal leaves the catalogue as it is.
MutantRemoveItem(r) ==
  LET i == request[r].item IN
  /\ At(r, "purge", "remove")
  /\ \/ /\ item' = [item EXCEPT ![i].at = "tomb"]
        /\ Goto(r, "clean") /\ UNCHANGED <<lock, catalog, budgets>>
     \/ /\ Fault /\ NextItem(r) /\ UNCHANGED <<catalog, item, crashes, rebuilds>>
  /\ UNCHANGED <<up, live, indexed, store, ingest, holder, retained, hooks, pruning>>

\* remove_item: the directory becomes a tombstone; when that fails the entry of
\* the item that is still there goes back into the catalogue, unless that fails
\* too or nobody waits for the answer any more.
RemoveItem(r) ==
  LET i == request[r].item IN
  /\ At(r, "purge", "remove")
  /\ \/ /\ item' = [item EXCEPT ![i].at = "tomb"]
        /\ Goto(r, "clean") /\ UNCHANGED <<lock, catalog, blurred, budgets>>
     \/ /\ Fault
        /\ \/ NextItem(r) /\ catalog' = catalog \cup {i} /\ UNCHANGED blurred
           \/ /\ NextItem(r) \/ Answer(r)
              /\ blurred' = blurred \cup {i} /\ UNCHANGED catalog
        /\ UNCHANGED <<item, crashes, rebuilds>>
  /\ UNCHANGED <<up, live, indexed, store, ingest, holder, batches, overtaken,
                 hooks, pruning>>

\* finish_purge_tombstone; a failure leaves the tombstone to a later purge.
FinishTombstone(r) ==
  LET i == request[r].item IN
  /\ At(r, "purge", "clean")
  /\ \/ item' = [item EXCEPT ![i].at = "gone"] /\ UNCHANGED <<catalog, budgets>>
     \/ /\ Fault /\ catalog' = catalog \ {i}
        /\ UNCHANGED <<item, crashes, rebuilds>>
  /\ NextItem(r)
  /\ UNCHANGED <<up, live, indexed, store, ingest, holder, retained, hooks, pruning>>

\* A purge that an error ends (for this item), or a purge or restore whose client
\* goes away: neither is shielded before the batch begins.  The catalogue row may
\* be taken all the same, by the index thread, when nobody holds the item's lock.
Abandon(r) ==
  LET i == request[r].item IN
  /\ up /\ Fault
  /\ \/ request[r].pc = "lock" /\ Answer(r) /\ UNCHANGED <<catalog, blurred>>
     \/ /\ request[r].op = "purge" /\ request[r].pc \in {"read", "release", "take"}
        /\ NextItem(r) \/ Answer(r)
        /\ UNCHANGED <<catalog, blurred>>
     \/ /\ At(r, "purge", "take") /\ Answer(r)
        /\ catalog' = catalog \ {i} /\ blurred' = blurred \cup {i}
  /\ UNCHANGED <<up, live, indexed, item, store, ingest, holder, batches,
                 overtaken, hooks, pruning, crashes, rebuilds>>

-----------------------------------------------------------------------------
(***************************************************************************)
(* Archiving a page and restoring an item, as the batch transaction does   *)
(* them: the copy is published before the original goes, in both           *)
(* directions, and a batch that is not committed is rolled back the other  *)
(* way round (BatchMutation has the transaction itself).  A batch whose     *)
(* rollback or last step fails is retained for the next start, and its     *)
(* locks are dropped.                                                      *)
(***************************************************************************)

\* The item is prepared in the batch's directory: "staged".
BeginArchive(r, p, i) ==
  /\ Idle(r) /\ p \in live /\ item[i] = NoItem
  /\ \A q \in Requests : request[q].item # i
  /\ Take(r, {p, i}) /\ Overtake({p})
  /\ item' = [item EXCEPT ![i] = [page |-> p, at |-> "staged"]]
  /\ request' = [request EXCEPT
       ![r] = [op |-> "archive", pc |-> "publish", item |-> i, todo |-> {}]]
  /\ UNCHANGED <<up, live, indexed, catalog, store, ingest, holder, batches,
                 blurred, hooks, pruning, budgets>>

PublishItem(r) ==
  /\ At(r, "archive", "publish")
  /\ item' = [item EXCEPT ![request[r].item].at = "store"]
  /\ Goto(r, "unlink")
  /\ UNCHANGED <<up, live, indexed, catalog, store, ingest, holder, lock, retained,
                 hooks, pruning, budgets>>

UnlinkPage(r) ==
  /\ At(r, "archive", "unlink")
  /\ live' = live \ {item[request[r].item].page}
  /\ Goto(r, "commit")
  /\ UNCHANGED <<up, indexed, item, catalog, store, ingest, holder, lock, retained,
                 hooks, pruning, budgets>>

\* The batch of request r stays behind, as far as its manifest says.
Retain(r, phase) ==
  batches' = batches \cup
    {[op |-> request[r].op, item |-> request[r].item, phase |-> phase]}

\* The index and the catalogue follow in one savepoint; then the manifest says
\* that the files are committed, and the batch's directory is removed.
CommitArchive(r) ==
  LET i == request[r].item IN
  /\ At(r, "archive", "commit")
  /\ indexed' = indexed \ {item[i].page}
  /\ catalog' = catalog \cup {i}
  /\ Answer(r)
  /\ \/ UNCHANGED <<batches, budgets>>
     \/ /\ Fault /\ (Retain(r, "committing") \/ Retain(r, "committed"))
        /\ UNCHANGED <<crashes, rebuilds>>
  /\ UNCHANGED <<up, live, item, store, ingest, holder, overtaken, blurred, hooks, pruning>>

\* restore_rubbish_item reads the item and plans before any lock is taken.
BeginRestore(r, i) ==
  /\ Idle(r) /\ item[i].at = "store"
  /\ request' = [request EXCEPT
       ![r] = [op |-> "restore", pc |-> "lock", item |-> i, todo |-> {}]]
  /\ UNCHANGED <<up, vault, store, ingest, holder, lock, retained, hooks, pruning, budgets>>

\* restore_rubbish: under the locks, an item whose blobs are released already
\* is refused.
LockRestore(r) ==
  LET i == request[r].item IN
  /\ At(r, "restore", "lock")
  /\ \/ /\ i \notin ledger /\ Take(r, {i, item[i].page}) /\ Goto(r, "publish")
        /\ Overtake({item[i].page})
     \/ /\ i \in ledger /\ (\A x \in {i, item[i].page} : lock[x] = Nobody) /\ Answer(r)
        /\ UNCHANGED overtaken
  /\ UNCHANGED <<up, vault, store, ingest, holder, batches, blurred, hooks, pruning,
                 budgets>>

\* Mutant: the page is written from the copy read before the lock, and nothing
\* checks that the item is still in the store.
MutantPublishPage(r) ==
  LET i == request[r].item IN
  /\ At(r, "restore", "publish")
  /\ live' = live \cup {item[i].page} /\ Goto(r, "withdraw") /\ UNCHANGED lock
  /\ UNCHANGED <<up, indexed, item, catalog, store, ingest, holder, retained,
                 hooks, pruning, budgets>>

\* The batch is prepared against the item and the free destination, then the
\* page is published.
PublishPage(r) ==
  LET i == request[r].item IN
  /\ At(r, "restore", "publish")
  /\ \/ /\ item[i].at = "store" /\ item[i].page \notin live
        /\ live' = live \cup {item[i].page} /\ Goto(r, "withdraw") /\ UNCHANGED lock
     \/ /\ item[i].at # "store" \/ item[i].page \in live
        /\ Answer(r) /\ UNCHANGED live
  /\ UNCHANGED <<up, indexed, item, catalog, store, ingest, holder, retained,
                 hooks, pruning, budgets>>

WithdrawItem(r) ==
  /\ At(r, "restore", "withdraw")
  /\ item' = [item EXCEPT ![request[r].item].at = "txn"]
  /\ Goto(r, "commit")
  /\ UNCHANGED <<up, live, indexed, catalog, store, ingest, holder, lock, retained,
                 hooks, pruning, budgets>>

CommitRestore(r) ==
  LET i == request[r].item IN
  /\ At(r, "restore", "commit")
  /\ indexed' = indexed \cup {item[i].page}
  /\ catalog' = catalog \ {i}
  /\ Answer(r)
  /\ \/ item' = [item EXCEPT ![i].at = "restored"] /\ UNCHANGED <<batches, budgets>>
     \/ /\ Fault /\ UNCHANGED <<crashes, rebuilds>>
        /\ \/ Retain(r, "committing") /\ UNCHANGED item
           \/ Retain(r, "committed") /\ item' = [item EXCEPT ![i].at = "restored"]
  /\ UNCHANGED <<up, live, store, ingest, holder, overtaken, blurred, hooks, pruning>>

\* The batch of item i, rolled back by one file operation: an archive withdraws
\* the item before it puts the page back, a restore publishes the item before it
\* takes the page away.
RolledBack(op, i) ==
  \/ /\ op = "archive" /\ item[i].at = "store"
     /\ item' = [item EXCEPT ![i].at = "staged"] /\ UNCHANGED live
  \/ /\ op = "archive" /\ item[i].at = "staged" /\ item[i].page \notin live
     /\ live' = live \cup {item[i].page} /\ UNCHANGED item
  \/ /\ op = "restore" /\ item[i].at = "txn"
     /\ item' = [item EXCEPT ![i].at = "store"] /\ UNCHANGED live
  \/ /\ op = "restore" /\ item[i].at = "store" /\ item[i].page \in live
     /\ live' = live \ {item[i].page} /\ UNCHANGED item

\* Nothing is left to roll back.
Undone(op, i) ==
  IF op = "archive" THEN item[i].at = "staged" /\ item[i].page \in live
  ELSE item[i].at = "store" /\ item[i].page \notin live

\* A step of the batch fails and the coordinator rolls it back.
FailBatch(r) ==
  /\ up /\ request[r].op \in {"archive", "restore"}
  /\ \/ request[r].pc \in {"unlink", "withdraw", "commit"}
     \/ request[r].pc = "publish" /\ Undone(request[r].op, request[r].item)
  /\ Fault /\ Goto(r, "rollback")
  /\ UNCHANGED <<up, vault, store, ingest, holder, lock, retained, hooks, pruning,
                 crashes, rebuilds>>

\* The item of a rolled back archive leaves with the batch's directory.
Forget(op, i) ==
  item' = IF op = "archive" THEN [item EXCEPT ![i].at = "undone"] ELSE item

RollbackBatch(r) ==
  LET op == request[r].op
      i  == request[r].item IN
  /\ up /\ request[r].pc = "rollback"
  /\ \/ ~Undone(op, i) /\ RolledBack(op, i) /\ UNCHANGED <<request, lock>>
     \/ Undone(op, i) /\ Forget(op, i) /\ Answer(r) /\ UNCHANGED live
  /\ UNCHANGED <<up, indexed, catalog, store, ingest, holder, retained, hooks,
                 pruning, budgets>>

\* The rollback fails as well, before or after any of its steps: the caller is
\* told to recover before continuing, and the coordinator goes on.  The index and
\* the catalogue are as they were before the batch.
RetainBatch(r) ==
  /\ up /\ request[r].pc = "rollback"
  /\ Retain(r, "committing") /\ Answer(r)
  /\ blurred' = blurred \cup {request[r].item}
  /\ UNCHANGED <<up, vault, store, ingest, holder, overtaken, hooks, pruning, budgets>>

-----------------------------------------------------------------------------
(***************************************************************************)
(* Crash, recovery and rebuild.                                            *)
(***************************************************************************)
Crash ==
  /\ up /\ crashes < MaxCrashes
  /\ crashes' = crashes + 1
  /\ up' = FALSE
  /\ torn' = torn \cup {ingest[p].blob : p \in {q \in Pages : ingest[q].pc = "write"}}
                  \cup {h \in {pruning} : h # Nobody}
  /\ batches' = batches \cup
       {[op |-> request[r].op, item |-> request[r].item, phase |-> "committing"] :
          r \in {q \in Requests :
                   \/ request[q].op = "archive"
                   \/ request[q].op = "restore" /\ request[q].pc \notin {"lock", "publish"}}}
  /\ ingest' = [p \in Pages |-> NoIngest]
  /\ holder' = Nobody
  /\ request' = [r \in Requests |-> NoRequest]
  /\ lock' = [x \in DOMAIN lock |-> Nobody]
  /\ hooks' = [p \in Pages |-> {}]
  /\ pruning' = Nobody
  /\ UNCHANGED <<vault, rows, refs, files, ledger, unsure, overtaken,
                 blurred, faults, rebuilds>>

\* Startup rolls an uncommitted batch back.  It is refused, and with it the
\* startup, while the item is neither in the store nor in the batch.
Recover(b) ==
  /\ ~up /\ b \in batches /\ b.phase = "committing"
  /\ \/ ~Undone(b.op, b.item) /\ RolledBack(b.op, b.item) /\ UNCHANGED batches
     \/ /\ Undone(b.op, b.item) /\ Forget(b.op, b.item)
        /\ batches' = batches \ {b} /\ UNCHANGED live
  /\ UNCHANGED <<up, indexed, catalog, store, ingest, holder, request, lock,
                 overtaken, blurred, hooks, pruning, budgets>>

Stored == {i \in Items : item[i].at = "store"}

\* Items of the batches that only wait for their directory to be removed.
Committed(op) == {b.item : b \in {c \in batches : c.op = op /\ c.phase = "committed"}}

\* It removes the tombstones, indexes the vault, replaces the catalogue and
\* repeats the index events of the committed batches, whatever happened since: a
\* page that is gone again refuses the startup, an item that is gone again gets a
\* row.
Start ==
  /\ ~up /\ Pending = {}
  /\ \A i \in Committed("restore") : item[i].page \in live
  /\ up' = TRUE
  /\ item' = [i \in Items |-> IF item[i].at = "tomb"
                              THEN [item[i] EXCEPT !.at = "gone"] ELSE item[i]]
  /\ indexed' = (live \ {item[i].page : i \in Committed("archive")})
                  \cup {item[i].page : i \in Committed("restore")}
  /\ catalog' = (Stored \cup Committed("archive")) \ Committed("restore")
  /\ blurred' = Committed("archive") \ Stored
  /\ batches' = {}
  /\ UNCHANGED <<live, store, ingest, holder, request, lock, overtaken, hooks,
                 pruning, budgets>>

\* scan_archive_refs: one for every page and every rubbish item that names h.
Scan(h) == Cardinality({p \in live : h \in Refs[p]})
           + Cardinality({i \in Items : item[i].at = "store" /\ h \in Refs[item[i].page]})

\* Pages that are neither in the vault nor in the rubbish until a batch is
\* recovered.
InFlight == {item[i].page : i \in {j \in Items : item[j].at \in {"staged", "txn"}}} \ live

\* clep cas rebuild --write, with the server stopped: a row for every file, an
\* incomplete one too, with the scanned count, and an empty ledger.  A blob that
\* is named and has no file is reported as missing and gets no row.
Rebuild ==
  /\ ~up /\ rebuilds < MaxRebuilds
  /\ rebuilds' = rebuilds + 1
  /\ \E part \in SUBSET torn : rows' = files \cup part
  /\ refs' = [h \in Blobs |-> IF h \in rows' THEN Scan(h) ELSE 0]
  /\ ledger' = {}
  /\ unsure' = (UNION {Refs[p] : p \in InFlight}) \cup {h \in Blobs \ rows' : Scan(h) > 0}
  /\ torn' = torn \ files
  /\ UNCHANGED <<up, vault, files, ingest, holder, request, lock, retained, hooks,
                 pruning, crashes, faults>>

-----------------------------------------------------------------------------
IngestStep ==
  \E p \in Pages :
    \/ BeginIngest(p) \/ StoreFile(p) \/ CreatePage(p) \/ Compensate(p)
    \/ CancelIngest(p) \/ DeleteFolder(p)
    \/ \E h \in Blobs : StoreRow(p, h) \/ OnPageDeleted(p, h)

PurgeStep ==
  \E r \in Requests :
    \/ BeginEmpty(r) \/ PreparePurge(r) \/ ReleaseRefs(r) \/ TakeEntry(r)
    \/ RemoveItem(r) \/ FinishTombstone(r) \/ Abandon(r)
    \/ \E i \in Items : BeginPurge(r, i) \/ LockItem(r, i)

BatchStep ==
  \E r \in Requests :
    \/ PublishItem(r) \/ UnlinkPage(r) \/ CommitArchive(r)
    \/ LockRestore(r) \/ PublishPage(r) \/ WithdrawItem(r) \/ CommitRestore(r)
    \/ FailBatch(r) \/ RollbackBatch(r) \/ RetainBatch(r)
    \/ \E i \in Items : BeginRestore(r, i) \/ \E p \in Pages : BeginArchive(r, p, i)

Next ==
  \/ IngestStep \/ PurgeStep \/ BatchStep
  \/ (\E h \in Blobs : GcRemove(h)) \/ GcForget
  \/ Crash \/ (\E b \in batches : Recover(b)) \/ Start \/ Rebuild

Spec == Init /\ [][Next]_vars

-----------------------------------------------------------------------------
TypeOK ==
  /\ up \in BOOLEAN
  /\ live \subseteq Pages /\ indexed \subseteq Pages /\ catalog \subseteq Items
  /\ item \in [Items -> [page : Pages \cup {Nobody},
                         at : {"none", "staged", "store", "txn", "tomb", "gone",
                               "restored", "undone"}]]
  /\ rows \subseteq Blobs /\ files \subseteq Blobs /\ ledger \subseteq Items
  /\ refs \in [Blobs -> Int]
  /\ batches \subseteq [op : {"archive", "restore"}, item : Items,
                         phase : {"committing", "committed"}]
  /\ overtaken \subseteq Pages /\ blurred \subseteq Items
  /\ lock \in [Items \cup Pages -> Requests \cup {Nobody}]
  /\ holder \in Pages \cup {Nobody} /\ pruning \in Blobs \cup {Nobody}
  /\ torn \subseteq Blobs /\ unsure \subseteq Blobs

\* Pages that can still be read or restored.
Kept == live \cup {item[i].page : i \in {j \in Items : item[j].at = "store" /\ j \notin ledger}}

\* Whoever will still give a reference to h back.
Claims(h) ==
  {p \in Pages : /\ h \in Refs[p]
                 /\ \/ p \in Kept
                    \/ \E i \in Items : item[i].page = p /\ item[i].at \in {"staged", "txn"}
                    \/ h \in ingest[p].stored \/ h \in hooks[p]}

\* Blobs known to be counted too low, and those of the overtaken pages.
Excused == unsure \cup UNION {Refs[p] : p \in overtaken}

(***************************************************************************)
(* No blob is counted too low: every page in the vault, every item that    *)
(* can be restored and every operation that still has to give a reference  *)
(* back is counted, whatever crashed, failed, was cancelled, retried or    *)
(* rebuilt.  (cas_scan.rs: "under-counting refs is the unsafe direction".) *)
(* Excused are the blobs of a page that a failed ingest gave back and left *)
(* behind; when cas.db is rebuilt, of a page in the middle of a batch that *)
(* is not recovered yet and those whose file is missing; and of a page     *)
(* that was archived, restored, purged or deleted after its batch had been *)
(* retained and before the restart that rolls it back.                     *)
(***************************************************************************)
CountsCoverClaims ==
  \A h \in Blobs \ Excused :
    Claims(h) # {} => h \in rows /\ refs[h] >= Cardinality(Claims(h))

(***************************************************************************)
(* What a page or a restorable item names can be read: the prune never     *)
(* takes it.  Excused are the blobs whose file did not follow its row, for *)
(* a crash or an error of the disk or the database: the next capture of    *)
(* the same bytes counts the row and writes no file.                       *)
(***************************************************************************)
BlobsAreThere ==
  \A p \in Kept : Refs[p] \subseteq files \cup torn \cup Excused

(***************************************************************************)
(* Between requests the catalogue lists exactly the items of the store,    *)
(* with the exceptions the code leaves to the next start: an item whose    *)
(* batch could not be rolled back, one whose removal failed with no entry  *)
(* put back, one whose purge was given up after its row was taken, and one *)
(* purged before the start that repeated its archive.                      *)
(***************************************************************************)
CatalogFollowsStore ==
  up => \A i \in Items \ blurred : lock[i] = Nobody =>
          (i \in catalog <=> item[i].at = "store")

(***************************************************************************)
(* What was purged does not come back: its item stays gone, and its page   *)
(* returns from nowhere but another item, not by a restore that read the   *)
(* item before the purge, and not after a crash or a rebuild.              *)
(***************************************************************************)
PurgedStaysGone ==
  [][\A i \in Items : item[i].at \in {"tomb", "gone"} =>
        /\ item'[i].at \in {"tomb", "gone"}
        /\ item[i].page \in live' \ live =>
             \E j \in Items : /\ item[j].page = item[i].page
                              /\ item[j].at \in {"staged", "store"}]_vars
=============================================================================
