# TLA+ models of clepsydra

Clepsydra keeps a personal knowledge base as a directory of Markdown files (the
*vault*), an SQLite index derived from it, and a server with a web UI, a browser
extension, an editor plug-in and git-based synchronisation around them. The
files are the truth. What makes the system hard to get right is that one
operation changes several files, the index and sometimes a rubbish item, while
calls fail, the process dies, other programs write to the same files, and a git
merge rewrites the tree.

Paths below are relative to the repository root.

## 1. Inventory

| Part | Source | State | Operations | Interacts with | What is hard | What makes it correct |
|---|---|---|---|---|---|---|
| Batch transactions | `crates/clep-mutate/src/batch_mutation.rs` | a workspace per transaction under `.clepsydra/transactions`: manifest with a phase, staged files, rollback files | prepare, publish, change phase, roll back, finish, recover | called by the coordinator; by startup | crash and failure between any two filesystem calls; writers that race the checks; retained workspaces | batches are all or nothing; the manifest tells the truth; recovery resolves everything |
| Mutation coordinator | `crates/clep-mutate/src/mutation_coordinator.rs`, handlers in `crates/clep-api/src/api` | lock table (path and item keys), a gate, shielded tasks | execute_batch, create/replace/update/delete page, restore, purge, empty rubbish, exclude_mutations | index, batch transactions, rubbish, sync runtime | lock order and pruning; compensation; cancellation of the HTTP request; order of notifications | no deadlock; one writer per path; the answer matches the disk |
| Server startup | `crates/clep-api/src/lib.rs` | recovered batches | recover, build index, replay events, finish, serve | all of the above | failing half way; stale events | the server serves only a resolved vault with a matching index |
| Index | `crates/clep-index` | page rows, links, rubbish catalogue | build, process_events, process_events_atomically | coordinator, watcher, sync runtime | partial failure; stale events | index = vault when idle |
| Vault watcher | `crates/clep-index/src/sync/watcher.rs`, `crates/clep-mutate/src/watch_reconcile.rs` | pause flag, debounced events | forward, drop while paused, reconcile | index, sync runtime | events dropped while paused | no external edit is lost |
| Atomic files | `crates/clep-vault/src/atomic_file.rs` | temporary and claim files | create, replace, replace if unchanged | everything that writes | crash between claim and install; racing editors | old or new content, never neither |
| Rubbish store | `crates/clep-vault/src/rubbish.rs` | items, tombstones | archive, restore, purge, empty | batches, archive | interrupted purge | an item is in exactly one place |
| Archive (CAS) | `crates/clep-archive/src`, `crates/clep-api/src/api/archive.rs` | blobs, reference counts, release ledger | ingest, store, increment, decrement, prune, rebuild | rubbish purge, page delete | counts against crashes | no blob freed while referenced |
| Sync runtime | `crates/clep-api/src/sync_runtime.rs` | sync lock, syncing/pending flags, dirty permit, tasks | full sync window, autocommit, shutdown push, listener, committer, interval | coordinator gate, watcher pause, git engine | lost marks, flag races, a time-out that abandons a running engine | every change is eventually committed; engine and mutations exclude each other |
| Git sync engine | `crates/clep-gitsync/src/engine.rs` and neighbours | git index and tree, remote | commit_local, pull, resolve, journal fold, push with retry | remote, other devices | crash in a merge; rejected pushes; two devices folding | no side of a conflict is lost; devices converge |
| Merge driver, journal merge | `merge_driver.rs`, `journal_merge.rs` of clep-gitsync | none (pure) | three-way merges of frontmatter, tags, bodies | engine | edge cases of three-way merges | symmetric, idempotent, loses nothing |
| Feeds | `crates/clep-feeds/src` | a private database, its public main file and log; subscriptions, entries, due times | publish, checkpoint, recover, back up; reconcile manifest, fetch, prune | worker thread, backup, API | power loss between two file calls; a fetch applied after its subscription changed | acknowledged commands survive, refused ones are gone; newer state wins |
| Browser extension | `extension/src` | in-flight captures, partial transfers, timers | accept metadata/chunk, expire, abort | API | time-outs racing the last chunk; worker suspension | a capture completes once or reports failure |
| Web UI offline cache, editor | `ui/src/offline`, `ui/src/editor` | pending passes, timers, drafts | request full/delta, drain, save | API | requests during a pass | exactly one follow-up pass; no lost save |
| Planners, bases, doctor, LSP, MCP, CLI, backup, academic, config, client | other crates | mostly none | computation and I/O | API | text and query evaluation | not concurrency properties |

`PROJECT.json` lists every part with its status, and under `hazards` what can go
wrong in each at the line where it bites.

## 2. Plan

1. **Done.** `BatchMutation` (transactions, the coordinator's batch path,
   startup) with its abstraction `AtomicVault`; `SyncRuntime` (sync window,
   autocommit, watcher pause, shutdown push). Both model-checked and proved about.
2. **Done**, model-checked and proved about. The coordinator's other half:
   `MutationLocks` (gate, lock table, lock order) and, over locks taken as one
   step, `PageMutations` (single-page commands, moves, folder deletion, watcher,
   reads by id). Below both, `AtomicFile`, the publication of one file. Beside
   them `ArchiveStore` (content store, captures, rubbish).
3. **Done**, model-checked and proved about: `PageEditor` (web client) and
   `CaptureTransfer` (browser extension). **Done**, model-checked: `GitSync`
   (devices and a remote) and `FeedStore` (the feed database).
4. Next, proofs: of `GitSync` first `MarkersStayHome`, then `NothingIsLost`; of
   `FeedStore` `AnswersAreTrue`, with lemmas about the valid part of a log.
5. Not begun: the feed scheduler, the offline replica of the web client, the
   interleaving of journal entries and the field-wise frontmatter merge as pure
   operators against a reference definition.

How the modules lean on each other: `PageMutations` takes the path locks in one
step because `MutationLocks` shows that they exclude, and a batch in one step
because `BatchMutation` implements `AtomicVault`; `BatchMutation` and
`ArchiveStore` replace a file in one step because `AtomicFile` shows that the
answer is true and no third party's text is overwritten; `SyncRuntime` treats an
engine call as one step per change because `GitSync` has its inside.

## 3. Modules

| Module | What it is |
|---|---|
| `BatchMutation` | the detailed specification, its properties, and mutated forms of some definitions |
| `AtomicVault` | what batches promise: the vault changes by whole batches |
| `BatchMutationMC` | a small vault and the batches for TLC |
| `BatchMutationProofs` | control invariant, `TypeCorrect`; data invariant, `ManifestTrue`, `WholeBatches`, `AnswersAreTrue`; refinement, `ImplementsAtomicVault`; index invariant, `IndexIsCoherent`, `StartupResolves`; recovery invariant, `RecoveryNeedsCause` |
| `SyncRuntime` | when the server runs git: the sync runtime, the watcher and the mutations they keep out; its properties and mutated forms; model-checked as it is |
| `SyncRuntimeProofs` | ownership invariant, `SyncTypeCorrect`, `EngineExclusive`, `MutationsWatched`, `MergesIndexed`; sweeping invariant, `MutationsCommitted`, `NothingLeftLocked` |
| `MutationLocks`, `MutationLocksMC` | the gate and the lock table of the mutation coordinator; a folder, a page in it and a page elsewhere |
| `MutationLocksProofs` | `LocksExclude`, `NoCircularWait` |
| `PageMutations`, `PageMutationsMC` | commands on single pages with the handlers, the watcher and an editor; a page, the path it belongs at and a page that links to it |
| `PageMutationsProofs` | `PagesStayApart`, `IndexNeverLies`, `RefusalsAreTrue`, `UpdatesAreNotLost`, `ReadsAreTrue` |
| `AtomicFile`, `AtomicFileMC` | one file published call by call, on a filesystem with inodes, lost directory entries and reused inode numbers |
| `AtomicFileProofs` | `PageStays`, `AnswersAreTrue`, `SeenIsReplaced`, `OthersStay` |
| `GitSync`, `GitSyncMC` | the engine on every device and the remote branch; two devices, a page and a journal day with two names |
| `ArchiveStore`, `ArchiveStoreMC` | captures, blobs, counts, rubbish; two captures that share a blob |
| `ArchiveStoreProofs` | `CountsCover`, `BlobsStay`, `CatalogIsTrue`, `PurgesLast` |
| `FeedStore` | the private copy of the feed database and its publication |
| `PageEditor` | usePageEditor and the server it saves to |
| `PageEditorProofs` | `EditsArePending`, `EditsAreKept` |
| `CaptureTransfer`, `CaptureTransferMC` | the extension's service worker and its content scripts; two tabs on one address |
| `CaptureTransferProofs` | `ProgressIsOwned` |

Names that begin with `Mutant`, or end in a suffix after `_`, are changed forms
of the definition they are named for, used to see that a property can fail.

### BatchMutation: state

| Variable | In the code |
|---|---|
| `fs` | the vault: bytes of each page path, rubbish item or directory, or nothing |
| `index` | page rows and rubbish catalogue entries |
| `ws`, `durable` | per transaction, the phase in `manifest.json` as the next reader sees it, and as a power loss would leave it; `debris` is a workspace directory without a manifest |
| `batch` | the intents in the manifest; directories to create come first, directories to remove last |
| `owned` | which staged directories have been renamed out of the workspace: `created/` entries and rubbish items. The code finds this out by looking at the workspace |
| `payload` | the staged and rollback files are all still there |
| `proc`, `pc`, `cur`, `i`, `j`, `armed` | the process, the place in it, the transaction, intent and operation in hand; `armed` separates a check from the call it guards |
| `verdict`, `reply` | what the caller will be, and was, told: `ok`, `failed` (nothing changed), `retained` (an error that names a workspace) |
| `recovered` | `RecoveredBatch`es that startup must still finish |
| `touched`, `edited` | ghosts: transactions and locations with which somebody else interfered |

### BatchMutation: actions

`Prepare`, `WriteManifest`, `SyncManifest`, `PrepareFails` are `prepare`;
`WritePhase`, `SyncPhase`, `WritePhaseFails`, `PhaseUncertain` are
`change_phase` (rename of the new manifest, then flush, with the two ways to
fail); `PublishCheck`, `PublishIntent`, `PublishRefused`, `PublishFails` are
`publish_inner` and `publish_intent`, one location at a time; `ReconcileIndex`
and its two failures are `reconcile_batch_index` under
`execute_batch_with_guard`; the `Rollback*` actions are `rollback_manifest`;
`RemovePayload`, `RemoveManifest`, `RemoveDirectory`, `RemoveFails` are
`remove_workspace`, whose `remove_dir_all` deletes entries in directory order;
`Restart`, `RecoverPending`, `BuildIndex`, `ReplayRecovered`, `ReplayRefused`,
`StartupFails`, `FinishRecovered`, `Serve` are `build_app_state_with_settings`
and `recover_pending`. `Crash` and `Edit` are the environment.

Rubbish batches (archive, restore) are indexed before their phase becomes
FilesystemCommitted and are rolled back when indexing fails; the others commit
first and are retained when indexing fails. Both orders are in the model
(`Deferred`).

### What is abstracted

* Contents are model values; a hash comparison is an equality of contents. A
  rubbish item (page and item manifest, published by one directory rename) is
  one location.
* One task at a time. Batches on disjoint paths can run concurrently in the
  code; the locks that keep overlapping ones apart belong to `MutationLocks`.
  Overlap across time, which the locks do not prevent, is in the model: a
  retained workspace and later batches over the same files.
* `execute_batch_direct` (relabel and reconcile, which never archive or restore)
  differs from the modelled path only where a rubbish batch fails to index.
* The `created_directories` list in the manifest and the directory identity
  checks are represented by `owned`.
* Startup replays the events of all recovered batches in one step, in which the
  newest batch decides each location; a refusal by any of them is
  `ReplayRefused`. No other task runs then.
* Permissions, hash collisions, the shape checks of a manifest read from disk,
  purge tombstones, post-move hooks and link resolution are left out.

### SyncRuntime

The data is reduced to changes and the places they have reached: `disk`, `git`,
`index`. A change comes from a mutation, another program (`Edits`), a pull
(`Merges`) or a reconcile sweep (`Moves`).

| Variable | In the code |
|---|---|
| `excluder` | who holds the write side of the coordinator's gate |
| `holder` | who holds `sync_lock` |
| `syncing`, `paused`, `pending` | the `AtomicBool`s `syncing`, `watcher_paused`, `pending` |
| `permit` | the permit stored in the `Notify` `dirty` |
| `channel`, `lagged` | notifications that the listener has not received; the broadcast channel overflowed (`Capacity` is 64 in the code) |
| `events`, `batch`, `watch` | events the debouncer holds back; events forwarded to the watch loop; where that loop is |
| `listener`, `committer`, `window`, `pusher` | where the tasks are; `Windows` are full syncs, `Startup` the one of `run_server` |
| `job`, `result` | the blocking engine call of each task and its outcome |
| `timedOut`, `unindexed`, `failures` | ghosts: the shutdown push gave up; a rebuild failed or was skipped after a panic; failures so far |

The `Window*` actions are `run_full_sync_window` and `rebuild_after_sync`
statement by statement, including the order in which the guards are dropped;
`Committer*` is the debounce loop with `autocommit`; `Listener*` the change
listener; `Push*` is `shutdown_push`, whose time-out drops the guards and leaves
the engine running; `Engine*` is the effect of `commit_local`, `full_sync` and
`commit_and_push`; `Watch*` is the debouncer's callback, `process_batch` and
`reconcile_upserts`. Two threads of the code that matter here are separate steps:
an engine call and the task that awaits it.

Abstracted: a mutation writes and indexes in one step (that part is
`BatchMutation`); the engine's merges are one change at a time, and a leftover
merge finished by `commit_local` belongs to `GitSync`; `main` exits after
`run_server`, so a behaviour may end anywhere once the push is over; the
debouncer waits half a second, so its callback does not run within the few
statements that close a window (`Closing`) — that is what lets a mutation whose
notification is ignored there be noticed by its file event. Dropping the request
that asked for a sync changes nothing, because the window is a task of its own.

### MutationLocks

A request is at `pc[t]`; `arc[t][k]` is the lock object it refers to for key `k`
and `table[k]` the table's weak reference, so that "alive" (`strong_count`) is a
question about all `arc`s. `LockResources` and `ExcludeMutations` queue for the
gate, `ExecuteBatchExcluded` goes past it, looking up and pruning happen under
the table's mutex in one step, acquiring is one key at a time in key order, and
Arcs are dropped one at a time outside the mutex. Requests are cancelled while
they wait. tokio's locks are external and taken as first come, first served.

### PageMutations

`files`, `index` and the watcher's `events` are the state; a request first reads
(`req[t].expected`), then locks, then compares, publishes and indexes, each in a
step of its own. `crossed` and `missed` are ghosts for what the code lets happen:
a batch run by `execute_batch_direct` writes paths it has not locked, and a batch
whose indexing failed is only logged. Reads by id (`resolve_stable_by_id`) look
up, read, and confirm, with their bounded number of attempts.

### AtomicFile

Every call into the filesystem of `atomic_create`, `atomic_replace` and
`atomic_replace_if_unchanged` is a step that may fail. `dir` is what programs
see, `past` the directories a power loss may bring back, `Inode` numbers are
reused. The editor saves in place, saves by rename or deletes at any time. The
branches for Windows are left out.

### GitSync

A tree maps pages to sets of edits, with the set of Conflict Copies and the files
that hold markers. `head`, `work`, `track` and `merging` are a device's commit,
working tree, remote-tracking branch and `MERGE_HEAD` with its index. Every git
command of `commit_local`, `pull`, `resolve_conflicts`, `abort`, the journal fold
and `push` with its one retry is a step; a crash forgets the job and leaves the
files. Whether two changes of one text overlap is chosen freely. A fold of a
journal day reads the duplicates and writes the winner in one step
(`journal_merge.rs:129` and `:197`; an editor that saves in between is not seen),
and removes the others in a second. Set-up of a repository, LFS, status and
reports are left out; every device begins with the same initial commit.

### ArchiveStore

Rows, counts and files of blobs are apart, because the code changes them apart;
so are a rubbish item's directory, its catalogue row and its ledger entry.
Requests (archive, restore, purge, empty) hold the item or path lock and advance
step by step, captures advance under the ingest lock, a crash leaves unfinished
batches, and startup completes tombstones. A batch that fails is rolled back one
file operation at a time; the rollback, the phase change after it, or the removal
of the workspace may fail as well (`RetainBatch`, `CommitArchive`,
`CommitRestore`), and then the batch stays in `batches` with its locks dropped,
while the server goes on. `Abandon` is an error in a purge or a request whose
client goes away: the handlers of a purge are not shielded, and a deletion that
was handed to the index thread happens all the same. `Start` rolls back what was
not committed, and repeats the index events of what was. `gc` has no caller in the repository
yet and is modelled as if it had. `cas rebuild` runs while the server is stopped,
as `ui/src/docs/content/cli.mdx` requires.

### FeedStore

A log is a sequence of cells; a database is what SQLite would read from a main
file and a log (`Database`, which stops at the first cell that does not fit). A
command is one opaque commit. The worker's steps are those of
`publish_mutation`, the checkpoint and `rebuild`; `Survivors` are the logs a
power loss may leave. `CreateWal` either makes the log or does not: a failing
`fchmod` after a successful create (`store.rs:1402`), which leaves an empty log
that the worker does not know of and whose next creation is refused, is left out.

### PageEditor

The refs of the hook are variables; a text is the set of its edits. Title, tags
and aliases follow the same generations as the body and are not told apart.
`flight` is the save in flight, with the request of its current pass. A page is
left in one of two ways. `Remount` is what happens today: `TabContent` keys the
page by its path, so the hook is unmounted, and its flight (in `left`) goes on to
the pass that its clean-up requested. `Rerender` is a new path in the same
instance, which the hook's reset effect, its lifecycle epochs and its tests
(`usePageEditor.test.tsx`, `rerender({ path })`) provide for. A behaviour has one
kind or the other. A generated change may hand in a body (`preparedBody`): that is
`Type` followed by `BeginGeneratedChange`. Its write is one step; a write that
fails after the server acted is a `ForeignWrite` and a `CancelGenerated`. A draft
becomes the page at its own path, where the code adopts the path that the server
answers with (`usePageEditor.ts:433`, `:457`). Encrypted pages and their lock
epoch are left out.

### CaptureTransfer

The worker is single-threaded, so an action runs to the next await; what follows
the write of a status to session storage is carried in `tail`. `Die` forgets
everything but `stored`; `Wake` restores from it. `Fault` covers a failing write of
the session storage, injection or read of the settings, and a chunk over the
limits of a transfer. The marker of an abort names the script that aborted, where
the code compares the text of the error (`service-worker.ts:628`), and
`reportUnconditionalError` claims and reports in one step.

## 4. Runs

Constants: two page paths at the root, a page path in a directory, one rubbish
item, two contents; batches of each shape the planners make (rewrite and create,
delete and rewrite, create a folder and move into it, move out and remove the
folder, archive, restore); every vault over these locations as initial state.
Two transactions are what interference needs: an older one that is retained and
a newer one that overlaps it.

| Run | Bounds | Shows |
|---|---|---|
| `batch_recovery` | 6 batches, 2 transactions, 2 faults, 2 crashes, 0 edits | `AllOrNothing`, `IndexCoherent`, `AnswerMatchesVault`, `StartupResolvesAll`. Two crashes let recovery itself be interrupted; two faults let a rollback fail after a failed publication |
| `batch_edits` | 3 batches, 2 transactions, 1 of each | `ManifestIsTrue`, `RecoveryRefusesOnlyForCause`, `AtomicCommit`, `ComesToRest`. One batch of each publication protocol; two of them share no file, so that a power loss can leave two uncertain commits behind. One edit between a check and its call is the race that matters; 952,000 states |
| `sync_runtime` | 1 mutation, 1 other change (an edit, a merge or a move), 2 full syncs, channel of capacity 1, 1 failure | `OneEngineAtATime`, `WatchedMutations`, `MergedIsIndexed`, `CommittedWhenIdle`, `NeverStuck`. Two syncs queue behind the lock and behind an autocommit; capacity 1 makes the channel overflow with two notifications of one mutation |
| `mutation_locks` | 3 requests that repeat for ever, a folder, a page in it and one elsewhere, 2 lock objects per key; 421,853 states | `Exclusion`, `NoStarvation`. Three requests are the least for a waiter that overtakes; two objects are enough for two tasks to disagree |
| `page_mutations` | 2 requests, 3 commands or saves in all (the last one is no save), 3 paths, two of which belong at the third, 2 attempts of a read; 5.1 million states | `OneFilePerPage`, `IndexFollowsFiles`, `RefusedIsNotApplied`, `NoLostUpdate`, `ReadsFindThePage`. Two requests and the watcher meet on one page. The answer of a request that was served is not part of what tells states apart (`MCView`): the properties look at it in the step that gives it. With a save as the third operation too (`MaxSaves = 3`, 7.7 million states) all hold as well |
| `atomic_file` | 2 calls, 2 texts, 3 inodes, 2 edits, 1 fault; 4.6 million states | `PageIsThere`, `AnswerIsTrue`, `ReplacedWhatItSaw`, `OthersAreKept`. Three inodes let the page's number be reused while it is claimed; two edits hit both checks |
| `git_sync` | 2 devices, a page, a journal day, 2 edits, 1 removal, 1 crash or failed call; 786,797 states | `NothingIsLost`, `MarkersStayHome`, `OneJournalADay`, `EventuallyInSync`. Two edits make a conflict, the fault leaves it half merged; with `Sealed = {page}` (conflicts without markers) all hold as well |
| `archive_store` | 2 captures sharing a blob, 2 items, 2 requests, 2 crashes, 1 fault, 1 rebuild; 2.9 million states | `CountsCoverClaims`, `BlobsAreThere`, `CatalogFollowsStore`, `PurgedStaysGone`. The shared blob shows a count that is one too low; one fault begins a rollback, and the rollback may fail without another; the second crash comes after a recovery. With a blob more in one capture (`MCRefs`) and one crash, 6.6 million states, all hold as well |
| `feed_store` | 4 commands of up to 2 cells, a checkpoint at 5 cells, 2 faults, 2 crashes | `AnswersAreTrue`, `LiveIsDurable`, `BackupIsWhole`. Four commands cross a checkpoint and go on; a transaction of two cells can be torn |
| `page_editor` | a page and a draft, 2 edits, another writer, 1 page switch, 1 failed request; 1.95 million states | `UnsavedIsPending`, `NoEditIsLost`, `EditsSettle`. The second edit is typed during the first one's flight |
| `capture_transfer` | 2 tabs on one address, 2 captures of 2 chunks, 1 worker death, 1 fault; 740,020 states | `ProgressHasOwner`, `CaptureEnds`. With two deaths (1.53 million states), or one attempt and three, both hold as well |
| `v_PendingIsSwept` | as `sync_runtime` without failures | violated: see Known divergences |

`CHECK_DEADLOCK FALSE` stands everywhere but in `mutation_locks`: a serving server
with no batch left to submit may rest, a server that was shut down stops, and the
bounds on edits, commands and attempts let the other models come to rest. In
`SyncRuntime` the invariant `NeverStuck` takes the place of the deadlock check:
unless the server is `Idle` or about to exit, one of its own tasks has a step, and
an idle server has no flag up and nothing locked (`IdleIsClean`).

With `MaxOthers = 2` (two changes besides the mutation) the invariants of
`sync_runtime` hold as well; that takes four to five minutes.

`CommittedWhenIdle` says as an invariant what would otherwise be a liveness
property. In a behaviour of the model every task has finitely many steps, so by
`NeverStuck` a server that is left alone becomes `Idle`, and then what was
written is in git. No fairness assumption is involved.

The bounds `MaxEdits`, `MaxFaults` and `MaxCrashes` are guards of `Edit`, `Fault`
and `Crash`; `Tx` bounds the number of batches.

**Properties.** Those about a transaction exclude the ones in `touched`: once
another program, or a later batch over a retained one, changes a file of an
unresolved batch, or a directory that holds one, the code promises a refusal,
not a result. `RecoveryRefusesOnlyForCause` is the other half: without such an
interference, an I/O error or a half-removed workspace, startup never refuses.
`AtomicCommit` is refinement of `AtomicVault` under the mapping that shows the
files of an unresolved, durably Committing batch as they were before it
(`LogicalVault`): readers of the vault after recovery see whole batches.
`AtomicVault` commits a *set* of batches that share no file. While the server
runs it is always a single one, but after `PhaseUncertain` two retained
workspaces may each have a new manifest that is not durable yet; a crash of the
process keeps both, a power loss may keep either, and whichever is read at the
next start counts from then on, several at once if need be.

The properties of the newer modules name what the code gives up, each as a ghost
variable, so that everything outside it is still required:

* `GitSync.NothingIsLost`: `dropped` are edits in files that people removed;
  `excused` are edits made to a file that is still unmerged, with what the other
  side had in it, and edits that another program makes to a journal page between
  the two halves of its fold.
* `ArchiveStore`: `torn`, blobs whose row was committed and whose file a crash, a
  failing write or a failing deletion kept apart from it (below); `unsure`, blobs
  of a page that a failed ingest gave back and left behind, of a page in the
  middle of an unrecovered batch when `cas.db` is rebuilt, and those a rebuild
  found named and without a file; `overtaken`, pages that another operation took
  up while their batch was retained; `blurred`, items that a failed rollback, a
  failed removal, a dropped purge or a repeated archive left apart from their
  catalogue row. `Excused` are the blobs in `unsure` and those of overtaken pages.
* `FeedStore`: `torn` and `risk`, a log that was opened with the rest of a dead
  append at its end (below); `carried`, a refused command left in the private copy
  because the generation lock failed; `unsure`, one that a checkpoint had
  published or whose recovery failed.
* `CaptureTransfer`: `vanished`, tabs whose page was left while its script ran;
  `Stranded`, a tab that is "capturing" with nobody reading its page (below).
* `PageMutations`: `crossed` and `missed`, above.
* `PageEditor`: `given`, what the user took back or replaced by a reload;
  `missed`, what was left behind with a failed save; `stranded`, below.

**Fairness.** Nothing is assumed of faults, crashes, edits or clients.

* `BatchMutation.FairSpec`: weak fairness of `TaskStep`, because a blocking task
  runs to its end and startup is sequential code, and of `Restart`, because an
  operator or service manager starts the server again. `ComesToRest` allows for
  `Blocked`: a workspace that interference or a half-done removal keeps from being
  resolved; that case is real (below) and needs a hand.
* `MutationLocks`: weak fairness of every request's next step: the runtime polls
  every task that can go on, and a mutation's work ends. That a request is not
  overtaken for ever comes from the locks' queues, which are in the model.
* `GitSync`: weak fairness of a running sync's steps. Strong fairness of starting
  a full sync: it is asked for at every start and by hand, and it waits for the
  sync lock among autocommits, which is first come, first served.
* `PageEditor`: timers fire and requests are answered or fail.
* `CaptureTransfer`: the browser wakes the worker for its events, scripts end,
  requests are answered, and the inactivity timer of a transfer fires, because a
  pending transfer keeps the worker alive (`startKeepAlive`). Nothing is assumed
  of the recovery timer: it takes 120 s, and nothing keeps a worker alive that the
  browser stops after about 30 s without work (`service-worker.ts:213`). A death
  ends no capture: while the worker sleeps, a capture is in progress as long as
  its stored status is. Deaths are finitely many (`MaxDeaths`): a worker killed at
  every attempt would end nothing.

### Known divergences

Where a doc, a comment or a test says more than the code keeps, the module states
the claim as a definition of its own. `v_PendingIsSwept` is a run; the others are
seen by putting the definition into the cfg of the module's run.

1. `SyncRuntime.PendingIsSwept`: a sync that changed the tree sets `pending` but
   does not notify `dirty`, so the committer is not woken; the pages that the
   sweep moved stay uncommitted, and `clep sync status` reports a pending commit,
   until an unrelated change. After the startup sync this is what always happens.
   `crates/clep-api/src/sync_runtime.rs:201` says that the debounced autocommit
   sweeps them up.
2. `SyncRuntime.EditsAreIndexed`: the paused watcher drops the debounced event of
   an edit made just before, or during, a sync; a sync that finds nothing new does
   not rebuild, so the edit stays out of the index
   (`docs/superpowers/specs/2026-08-27-clep-sync-design.md:94`: "Afterward: one full
   index build").
3. `BatchMutation.RecoveryResumes`: removal of a rolled-back workspace is not
   atomic; when it is interrupted after the rollback files are gone and before the
   manifest is, every later start fails although the vault is already restored.
4. `BatchMutation.AcknowledgedSurvives`: after "recover before continuing" the
   coordinator does continue; a later acknowledged batch over the same files can
   be undone by the rollback at the next start.
5. `BatchMutation.StartupIndexIsVault`: stale Remove events of a retained batch
   are replayed after the index was built and drop pages that exist.
6. `BatchMutation.RetainedIsRecoverable`: stale Upsert events of a retained batch
   fail at startup when a later batch removed the page; the server does not start.
7. `AtomicFile.NotDurableIsPublished`: `PublishedButNotDurable` is documented as
   "the destination already contains the requested bytes"
   (`crates/clep-vault/src/atomic_file.rs:54`); the same answer is given when a
   stale file was put back and the directory flush after that failed.
8. `PageMutations.MutationsAreSerialized`: the coordinator "Serializes mutations
   that touch the same normalized vault paths" (`mutation_coordinator.rs:66`), but
   the moves of `execute_batch_direct` lock only the page's own path: the
   destination and the backlinks are guarded by the batch's content checks alone.
9. `FeedStore.SuccessIsPublished`: a log that ends in part of a dead append is
   opened as it is, and the next command is appended behind it; SQLite stops
   reading at the torn frame, so an acknowledged command can be missing after the
   next start until a checkpoint replaces the log.
10. `CaptureTransfer.StaleWorkIsSilent`: "stale work must match it to report"
    (`extension/src/lib/badge.ts:20`), but a capture that is not bound yet binds
    to the attempt the tab shows, which may be a newer one than its own.
11. `PageEditor.NoEditIsStranded`: when the mounted hook is given another path
    while a save is in flight, the edit typed during the flight is dropped: the
    flush only requests another pass of that flight, and a stale flight runs none
    (`usePageEditor.ts:565`), although the flush "exists precisely to persist the
    outgoing page's last edit" (line 383). It is latent: the one caller is keyed
    by the path and remounts, and then the pass runs.
12. `PageMutations.RefusalsChangeNothing`: an update whose destination is taken
    after its content was published (by the watcher's own move, which locks only
    its source) answers `MutationError::Conflict`, "destination became
    unavailable", and `filesystem_applied()` is false of every `Conflict`
    (`mutation_coordinator.rs:356`: "Rejected before an authoritative filesystem
    mutation completes"), although the page was replaced and indexed.
    `RefusedIsNotApplied` proves that this is the only such answer of a create, an
    update or a replacement. A folder deletion has one too: a `remove_dir_all`
    that fails half way is answered `filesystem_applied: false`
    (`RemoveFolder`, `mutation_coordinator.rs:1937`).

Five more things that the code lets happen and that no document denies; the
properties except exactly these, by the ghosts above:

* *A retained archive or restore is overtaken* (`overtaken`). When the rollback of
  a batch fails, or the write of its last phase, the coordinator answers "recover
  before continuing" and drops the locks (`mutation_coordinator.rs:1285-1330`).
  The page may then be archived or deleted again, its item purged. The next start
  rolls the old batch back: the page is in the vault with its blobs given back, so
  a count is too low and `gc` would take a blob that is named; or the item is
  neither in the store nor in the workspace, and startup is refused.
* *A committed batch is replayed late* (`blurred`). Startup repeats the index
  events of a batch whose workspace could not be removed. An item purged since
  gets a catalogue row without an item; a restored page archived since refuses the
  startup.
* *A row without a file* (`torn`). When `create_dir_all` fails after the row was
  inserted, or the row cannot be deleted again (`cas.rs:1375-1381`), or `gc` cannot
  delete the row of a file that it removed, the row stays: the next capture of the
  same bytes counts it and writes no file, without any crash.
* *An item without its row* (`blurred`). A purge whose client goes away after the
  row was taken (`mutation_coordinator.rs:956`), or whose removal failed and whose
  catalogue reconcile failed too (`:1003`), leaves the item in the store and out of
  the catalogue until the next start.
* *A stranded capture* (`Stranded`). A worker that dies between the claim of an
  attempt and the injection, or a page that is left while it is read, leaves a tab
  "capturing" with nothing but the recovery timer, or nothing. `claimAttempt`
  refuses another capture of that tab until the timer has fired or the tab is
  closed, and each restart of the worker begins its 120 s anew.

## 5. Proofs

All for arbitrary constants, from `LocAssumption` (paths, items and directories
are disjoint, every path has a parent directory, the special values are
distinct), `BatchAssumption` (batches are sequences of well-formed intents) and
`BoundAssumption` (transaction ids and bounds are natural numbers).

* `TypeCorrect`. `TypeOK` is not inductive: that `batch[cur][i]` exists needs
  `Control`, which says where the loop counters stand (`Position`), which
  workspaces and lists belong together (`Workspaces`), what each process may run
  (`Processes`) and which phases are on disk at each program point
  (`PlacePhase`).
* `ManifestTrue`, `WholeBatches`, `AnswersAreTrue` rest on
  `Inv == Control /\ Separated /\ Truth /\ Progress`. `Separated`: the intents of
  an accepted batch share no location; `validate_intents` alone does not give
  this, it follows only together with `validate_observed_state`
  (`ValidatedIsSeparate`). `Truth`: what each phase of a manifest promises,
  shown and durable; a workspace that lost its manifest is settled; a directory
  not yet made is absent. `Progress`: the part of the batch before the loop
  counters is published, or the part behind them is rolled back. The step proof
  has one step per action; an action that changes a location uses
  `AdvancePublish` or `AdvanceRollback` for its own transaction and
  `EffectTruth` with `TouchFrame` for the others.

* `ImplementsAtomicVault` (`AtomicCommit`) adds `Apart` (unresolved batches with
  which nobody interfered share no location) and `Ladder` (a workspace that shows
  Committing was durably Prepared). They make `LogicalVault`, which picks the
  batch that hides a file with a CHOOSE, say what `Seen` says: every file of a
  durably Committing batch as it was before, every other file as it is. Most
  steps change hidden files only and stutter; a durable phase change commits a
  batch; a crash commits the set of batches whose new manifest outlived it. With
  one batch per commit this last step could not be proved, and TLC found the
  behaviour once two batches of the run shared no file.
* `IndexIsCoherent` and `StartupResolves` rest on `IndexInv`. While a task runs,
  `IndexAt` says for each location of its batch how far the loops of publication,
  rollback and indexing have come there, what the file is and what the index has;
  a rubbish batch is indexed before its commit and the others after it. Everywhere
  else, outside the footprint of retained workspaces and `edited`, index and file
  agree. At startup they agree from `BuildIndex` on, and every workspace is on the
  list of batches to finish or is being removed.
* `RecoveryNeedsCause` rests on `UInv`: the vault is a tree (`Housed`), a batch was
  planned against one (`AllPlanned`), and each unresolved batch that nobody
  touched can be undone (`Undoable`): its items are where `owned` says, nobody put
  anything into directories that it makes, the directories of files to put back
  are there, and nested directories are made and unmade in order. Then each check
  of `rollback_manifest` succeeds whatever point the batch had reached.

`Inv` was model-checked with the constants of `batch_edits` and with all batches
under one transaction before it was proved.

For `SyncRuntime`, from `ActorAssumption` (the tasks are distinct),
`ChangeAssumption` (so are the origins of changes) and `BoundAssumption`:

* `SyncTypeCorrect`: `TypeOK` is inductive; its parts `Flags` and `Places` are
  proved apart where an action changes both.
* `EngineExclusive`, `MutationsWatched`, `MergesIndexed` rest on `Ownership`:
  `sync_lock` (`Holders`) and the gate (`Excluders`) are held exactly between the
  program points that take and drop them, nobody is inside a shut gate (`Kept`),
  the watcher is paused only by a window that has the gate (`Pausing`), a running
  engine call has a task that waits for it, or is that of the push that timed out
  (`Engines`), and a merge that is not indexed yet has a window that is going to
  rebuild (`Indexing`). None of the three properties is inductive without it.

* `MutationsCommitted` (`CommittedWhenIdle`) and `NothingLeftLocked`
  (`IdleIsClean`, a part of `NeverStuck`) add `Swept`: for each mutation that is on
  disk and not in git something will lead to a commit (`Coming`): its file event, a
  notification, the permit, the committer or a window before its engine. The hard
  place is the end of a window, where the gate is open again and notifications are
  still ignored: what is written there has its event to come (`Sweeping`), and
  what was written before is committed (`CleanGate`). "Nothing failed" is a
  hypothesis of `CommittedWhenIdle`: a commit that fails is not retried.

For `MutationLocks`, from `KeyAssumption`, `AncestorAssumption` (keys are numbers
in lock order, a folder comes before what is in it), `CommandAssumption` and
`NoLockAssumption`:

* `LocksExclude` (`Exclusion`). `Inv == Types /\ GateOwners /\ Arcs /\ Holders`.
  The heart is `Arcs`: an object that somebody refers to is the one in the table.
  Pruning may drop an entry whose object is dead and a new object is made only
  then; without `Arcs` two requests could hold different objects of one key, and
  holding would exclude nobody. From the gate and from shared locks on ancestors
  the three parts of `Exclusion` follow.
* `NoCircularWait`: with `Ordered` (what a request has is below what it still
  wants) the keys grow along any chain of waiting requests. That requests which
  wait are eventually served is `NoStarvation`, for TLC.

For `AtomicFile`, from `NoneAssumption` alone, for any number of calls, contents,
inodes, edits and faults:

* `SeenIsReplaced`, `AnswersAreTrue`, `OthersStay` rest on `Sound(w)`, which is
  about one call: where its claim is (`ClaimIsMade`), in which directories it has
  published, those a power loss may bring back included (`AnswerFits`), and that
  its open handle keeps the compared inode from being reused (`ClaimIsSeen`).
* `PageStays` is about all calls together: some version is neither gone nor in a
  claim that its call will drop (`Versions`), and while nothing failed a missing
  page is in the hands of a call that will put it back (`Back`).

For `PageMutations`, from `BoundAssumption`, `PathAssumption`,
`NothingAssumption` and `FirstAssumption` (the first files are well-formed and no
page is in two of them):

* `Inv` says that locks are exclusive (`Locks`), that a request fits its place and
  holds what it wants (`Fits`), where the content that it writes is (`Writing`),
  that what it found out under its locks stays true (`Found`), that every writing
  has a number of its own (`Numbers`), and that index rows belong to different
  pages (`OneRowPerPage`); `OneFilePerPage` and `IndexFollowsFiles` are inductive
  only together with these. `RefusedIsNotApplied` follows from `Writing`,
  `NoLostUpdate` from `Found`, and `ReadsFindThePage` from `IndexFollowsFiles` and
  `OneRowPerPage`.
* Proving it sharpened two properties: `IndexFollowsFiles` allows a difference
  only at a path with an event still to come, a failed indexing that was logged,
  or a move that crossed a lock, and `ReadsFindThePage` allows a failed read of a
  page that exists at another path only while the index may lag behind that very
  file.

For `ArchiveStore`, from `ArchiveAssumption` (every capture names a blob; captures
and items are finite sets and, as lock keys, distinct; the bounds are natural
numbers), and so for any number of crashes, failures and rebuilds:

* `Inv == Types /\ VaultInv /\ StoreInv`. `VaultInv` is about pages, items and
  requests: what a request may rely on at its place because it holds the locks
  (`Fits`), when an item is listed and when its page may be in the vault as well
  (`ItemFits`), that two items never have one page's content (`Unique`), that a
  stopped server does nothing (`Quiet`), and that a capture which is being ingested
  left nothing behind before (`PageFits`). `BatchFits` is about the batches that a
  crash or a failed rollback left: the batch of a page that is not `overtaken`
  still waits (`Waits`), its item where the batch left it and not released, no
  other batch for that item, and nobody at work on its page. Without it the start
  could put a page back whose blobs are given back; for an overtaken page it does,
  and nothing is claimed.
* `StoreInv` counts. `Due(h)` are the pages that have a reference to blob h: in
  the vault, in an item that is not released, in a transaction, in a running
  ingest or in a deletion hook. The count is at least its cardinality, a blob with
  references has a row, the first writer of a row is alone with it, and a blob
  that is pruned is nobody's (`BlobFits`, for blobs not `Excused`); a row has its
  file unless the blob is `torn` (`RowFits`). Each
  step is shown to keep `Due(h)` from growing, or to let it grow or shrink by one
  page together with the count (`BlobKept`, `BlobGivenBack`). For a rebuild the
  scan is compared with `Due` through a surjection from items to their pages
  (`ScanCovers`).
* Steps of requests are proved through one frame, `WorkStep`: a request works on
  one item and one page, everything another request has locked stays as it is,
  waiting batches are spared or their page is overtaken (`Spares`), and a page
  becomes readable only from something that was counted (`VaultStep`,
  `NamedStep`). Recovery is the same frame without a request.
* `CountsCover`, `BlobsStay` and `CatalogIsTrue` follow from `Inv`. `PurgesLast`
  uses `Unique`: a page comes into the vault only as a new capture or from an item
  that holds it (`PagesComeFrom`), and that is never the purged one.

For `CaptureTransfer`, from `CaptureAssumption` (a page has at least one chunk, the
bounds are natural numbers), for any tabs, attempts and deaths of the worker:

* `ProgressIsOwned` (`ProgressHasOwner`). `Owned(t)` names, for each phase that a
  tab shows, who has it: the script that reads the page, before its capture is
  bound (`Reading`), a transfer, a task or a status write whose continuation will
  keep the metadata (`Carries`), or an upload (`Uploads`). A continuation counts
  only while its write is the last one of that tab (`Last`), because a later
  report overtakes it. Around it: numbers in use belong to attempts that were made,
  in every snapshot still to be written as well, since a worker that wakes up
  shows one of them (`Numbered`); a sleeping worker has nothing in memory
  (`Asleep`); what a script has not done yet (`Scripts`); one write per task
  (`Writes`). `Chunked` says that the assembler has only chunks that were sent, so
  that a complete one means that its script has nothing left to send.

For `PageEditor`, from `PageEditorAssumption` (drafts are pages, the bounds are
natural numbers, the user's edits are not another writer's), for any number of
edits, switches, faults and other writers:

* `EditsArePending` (`UnsavedIsPending`). The edit generations are what the code
  decides by, and they say less than the texts: `Generations` relates the two (a
  flight of the current generation carries the text that is shown; if the texts
  differ, a timer or another pass is due), `Modes` says which of flight, conflict,
  session and waiting save exclude one another, `Absences` that a page which does
  not exist has no text.
* `EditsAreKept` (`NoEditIsLost`) has two halves. `Held`: whatever anybody has read
  from the server was accepted by it (`Accepted`), what a flight carries is in the
  editor too, given up or accepted (`Carried`), so every edit is somewhere
  (`Kept`). `Informed`: whoever names a revision of a page (the query cache, the
  refs, a query's answer, a flight, the flight of an unmounted editor) knows all
  that other writers have in that revision. Revisions only grow
  (`ServerAdvances`), so a put that the server accepts names the current one and
  its text contains what others wrote: a stale save is refused and overwrites
  nothing.

Each of these invariants was model-checked with the constants of its module's run,
or one step smaller, before it was proved. `TypeOK` of `BatchMutation` and
`SyncRuntime` is proved and so not listed with their runs; the other proofs have
the types they need in `Types`.

Only model-checked:

* `GitSync`: `NothingIsLost`, `MarkersStayHome`, `OneJournalADay`. The run fixes
  how one journal day has its names; for arbitrary journals the proof needs more
  to be assumed of them than the code says in one place.
* `FeedStore`: `AnswersAreTrue`, `LiveIsDurable`, `BackupIsWhole`. What a database
  reads from a log is the longest valid prefix, a CHOOSE over sequences; what it
  becomes when a log is appended to, cut or torn calls for induction over the log.

Out of the prover's reach are the part of `NeverStuck` with ENABLED and the
liveness properties (`ComesToRest`, `NoStarvation`, `EventuallyInSync`,
`EditsSettle`, `CaptureEnds`).

## 6. Not modelled

The map covers a small part of the repository's lines, and most of the rest is
not a matter for these tools. Bases and their query language, the MCP server,
doctor, the language server, academic metadata, the CLI and most HTTP handlers
are computation on text, SQL or I/O: they have no protocol of their own, no state
that outlives a call, and no interleaving that the modules above do not already
have on the layer below them. A transliteration of a query evaluator into TLA+
could be checked only on inputs that its unit tests already cover.

With a protocol of their own, and not modelled yet: the feed scheduler (a fetch
that is applied after its subscription changed), the offline replica of the web
client (passes requested during a pass), and the lock epoch of encrypted pages in
the editor. Left out within modelled parts: set-up of a git repository and LFS,
the text of merges, link rewriting, templates, the Windows branches of
`atomic_file.rs`, permissions and hash collisions. `PROJECT.json` says for each
component what is in and what is out.
