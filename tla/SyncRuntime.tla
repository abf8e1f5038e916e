----------------------------- MODULE SyncRuntime -----------------------------
(***************************************************************************)
(* When the server runs git: the full-sync window of crates/clep-api's     *)
(* sync_runtime, the autocommit cadence (listener and committer), the      *)
(* vault watcher that is paused meanwhile, and the push at shutdown,       *)
(* together with the mutations they have to keep out.  A change of the     *)
(* vault is modelled by where it has arrived: on disk, in git, in the      *)
(* index.  The engine is reduced to its effect on these.                   *)
(***************************************************************************)
EXTENDS Naturals, FiniteSets

CONSTANTS
  Mutations,   \* changes made through the mutation coordinator
  Edits,       \* changes made by other programs
  Merges,      \* changes that a pull brings into the tree
  Moves,       \* pages that a reconcile sweep moves
  Windows,     \* full syncs: at startup, scheduled or requested
  Startup,     \* the full sync of run_server, before anything listens
  Committer,   \* the debounce loop
  Pusher,      \* the push at shutdown
  Nobody,
  Capacity,    \* of the change channel (64 in the code)
  MaxOthers,   \* bound: changes that are not mutations
  MaxFailures  \* bound: failing engine runs, index updates and rebuilds

Changes == Mutations \cup Edits \cup Merges \cup Moves
Actors  == Windows \cup {Committer, Pusher}

ASSUME ActorAssumption ==
  /\ Startup \in Windows /\ Committer \notin Windows /\ Pusher \notin Windows
  /\ Committer # Pusher /\ Nobody \notin Actors

ASSUME ChangeAssumption ==
  /\ Mutations \cap (Edits \cup Merges \cup Moves) = {}
  /\ Edits \cap (Merges \cup Moves) = {} /\ Merges \cap Moves = {}

ASSUME BoundAssumption == Capacity \in Nat \ {0} /\ MaxOthers \in Nat /\ MaxFailures \in Nat

VARIABLES
  disk, git, index,  \* the changes that have arrived in each place
  events,    \* filesystem events that the debouncer is holding back
  batch,     \* events forwarded to the watch loop
  watch,     \* the watch loop
  mutation,  \* per mutation: how far it is
  excluder,  \* who holds the mutation gate for writing
  holder,    \* who holds sync_lock
  syncing, paused, pending,  \* the flags
  permit,    \* the permit of the Notify "dirty"
  channel,   \* notifications the listener has not received yet
  lagged,    \* the channel overflowed since
  listener, committer, window, pusher,  \* where the tasks are
  job,       \* per actor: the blocking engine call it started
  result,    \* per actor: the outcome of that call
  stopping,  \* the server stopped serving
  timedOut,  \* the shutdown push ran out of its budget
  unindexed, \* some rebuild failed, or was skipped after a panic
  failures

vaultVars  == <<disk, git, index, events>>
watchVars  == <<batch, watch>>
gateVars   == <<excluder, holder, mutation>>
flagVars   == <<syncing, paused, pending>>
noticeVars == <<permit, channel, lagged, listener>>
taskVars   == <<committer, window, pusher>>
engineVars == <<job, result>>
endVars    == <<stopping, timedOut, unindexed, failures>>
vars == <<disk, git, index, events, batch, watch, excluder, holder, mutation,
          syncing, paused, pending, permit, channel, lagged, listener,
          committer, window, pusher, job, result, stopping, timedOut,
          unindexed, failures>>

serving == listener # "off" /\ ~stopping

\* Those who hold the mutation gate for reading.
Inside == {m \in Mutations : mutation[m] = "inside"}
GateFree == excluder = Nobody
GateEmpty == GateFree /\ Inside = {} /\ watch # "inside"

Fail == failures < MaxFailures /\ failures' = failures + 1

\* A change of the working tree; the watcher sees it once it is running.
Arrive(C) ==
  /\ disk' = disk \cup C /\ Cardinality(disk' \ Mutations) <= MaxOthers
  /\ events' = IF listener = "off" /\ ~stopping THEN events ELSE events \cup C

\* change_tx.send: lost without a subscriber, and at capacity the oldest
\* notification makes room for the new one.
Send ==
  IF listener = "off" THEN UNCHANGED <<channel, lagged>>
  ELSE IF channel < Capacity THEN channel' = channel + 1 /\ UNCHANGED lagged
  ELSE lagged' = TRUE /\ UNCHANGED channel

-----------------------------------------------------------------------------
(* A mutation: it enters the gate, writes and indexes its page (the steps  *)
(* of that are in BatchMutation), leaves, and its notification is sent.    *)

MutationEnter(m) ==
  /\ mutation[m] = "idle" /\ serving /\ GateFree
  /\ mutation' = [mutation EXCEPT ![m] = "inside"]
  /\ UNCHANGED <<excluder, holder>>
  /\ UNCHANGED vaultVars /\ UNCHANGED watchVars /\ UNCHANGED flagVars
  /\ UNCHANGED noticeVars /\ UNCHANGED taskVars /\ UNCHANGED engineVars
  /\ UNCHANGED endVars

MutationWrite(m) ==
  /\ mutation[m] = "inside"
  /\ mutation' = [mutation EXCEPT ![m] = "indexed"]
  /\ Arrive({m}) /\ index' = index \cup {m}
  /\ UNCHANGED <<git, excluder, holder>>
  /\ UNCHANGED watchVars /\ UNCHANGED flagVars /\ UNCHANGED noticeVars
  /\ UNCHANGED taskVars /\ UNCHANGED engineVars /\ UNCHANGED endVars

MutationNotify(m) ==
  /\ mutation[m] = "indexed"
  /\ mutation' = [mutation EXCEPT ![m] = "done"]
  /\ Send
  /\ UNCHANGED <<permit, listener, excluder, holder>>
  /\ UNCHANGED vaultVars /\ UNCHANGED watchVars /\ UNCHANGED flagVars
  /\ UNCHANGED taskVars /\ UNCHANGED engineVars /\ UNCHANGED endVars

\* Some handlers notify after the coordinator's task (delete_folder): if the
\* request is cancelled the task goes on to its end and nobody notifies.
MutationCancelled(m) ==
  /\ mutation[m] = "indexed"
  /\ mutation' = [mutation EXCEPT ![m] = "done"]
  /\ UNCHANGED <<excluder, holder>>
  /\ UNCHANGED vaultVars /\ UNCHANGED watchVars /\ UNCHANGED flagVars
  /\ UNCHANGED noticeVars /\ UNCHANGED taskVars /\ UNCHANGED engineVars
  /\ UNCHANGED endVars

\* Another program changes a page while the server runs.
Edit(e) ==
  /\ serving /\ e \notin disk /\ Arrive({e})
  /\ UNCHANGED <<git, index>>
  /\ UNCHANGED watchVars /\ UNCHANGED gateVars /\ UNCHANGED flagVars
  /\ UNCHANGED noticeVars /\ UNCHANGED taskVars /\ UNCHANGED engineVars
  /\ UNCHANGED endVars

-----------------------------------------------------------------------------
(* The watcher.  Its callback runs half a second after the last event, so  *)
(* never within the few statements that close a window.                    *)

Closing == \E w \in Windows : window[w] = "unsync"

WatcherFlush ==
  /\ events # {} /\ ~Closing
  /\ events' = {}
  /\ batch' = IF paused THEN batch ELSE batch \cup events
  /\ UNCHANGED <<disk, git, index, watch>>
  /\ UNCHANGED gateVars /\ UNCHANGED flagVars /\ UNCHANGED noticeVars
  /\ UNCHANGED taskVars /\ UNCHANGED engineVars /\ UNCHANGED endVars

\* process_batch: index what changed and report it, ...
WatchIndex ==
  /\ watch = "idle" /\ batch # {}
  /\ index' = index \cup batch /\ batch' = {} /\ watch' = "waiting"
  /\ Send
  /\ UNCHANGED <<disk, git, events, permit, listener>>
  /\ UNCHANGED gateVars /\ UNCHANGED flagVars /\ UNCHANGED taskVars
  /\ UNCHANGED engineVars /\ UNCHANGED endVars

\* ... or fail to, which is logged and not reported, ...
WatchIndexFails ==
  /\ watch = "idle" /\ batch # {} /\ Fail
  /\ batch' = {} /\ watch' = "waiting"
  /\ UNCHANGED <<stopping, timedOut, unindexed>>
  /\ UNCHANGED vaultVars /\ UNCHANGED gateVars /\ UNCHANGED flagVars
  /\ UNCHANGED noticeVars /\ UNCHANGED taskVars /\ UNCHANGED engineVars

\* ... then move the pages that are in the wrong folder, inside the gate.
WatchEnter ==
  /\ watch = "waiting" /\ GateFree
  /\ watch' = "inside"
  /\ UNCHANGED batch
  /\ UNCHANGED vaultVars /\ UNCHANGED gateVars /\ UNCHANGED flagVars
  /\ UNCHANGED noticeVars /\ UNCHANGED taskVars /\ UNCHANGED engineVars
  /\ UNCHANGED endVars

\* A sweep moves nothing, or one page; the move is indexed with it.
Sweep(C) ==
  /\ C = {} \/ \E v \in Moves \ disk : C = {v}
  /\ Arrive(C) /\ index' = index \cup C /\ UNCHANGED git

WatchReconcile ==
  /\ watch = "inside" /\ watch' = "idle"
  /\ \E C \in SUBSET Moves : Sweep(C)
  /\ UNCHANGED batch
  /\ UNCHANGED gateVars /\ UNCHANGED flagVars /\ UNCHANGED noticeVars
  /\ UNCHANGED taskVars /\ UNCHANGED engineVars /\ UNCHANGED endVars

-----------------------------------------------------------------------------
(* The server starts listening once the startup sync has ended, with a     *)
(* reconcile sweep before the watcher starts, or once its time is up.      *)

StartServing ==
  /\ listener = "off" /\ ~stopping /\ listener' = "recv"
  /\ \E C \in SUBSET Moves : Sweep(C) /\ (window[Startup] # "done" => C = {})
  /\ UNCHANGED <<permit, channel, lagged>>
  /\ UNCHANGED watchVars /\ UNCHANGED gateVars /\ UNCHANGED flagVars
  /\ UNCHANGED taskVars /\ UNCHANGED engineVars /\ UNCHANGED endVars

-----------------------------------------------------------------------------
(* The listener.  A notification that arrives during a sync is ignored.    *)

ListenerReceive ==
  /\ listener = "recv" /\ ~lagged /\ channel > 0
  /\ channel' = channel - 1
  /\ listener' = IF syncing THEN "recv" ELSE "mark"
  /\ UNCHANGED <<permit, lagged>>
  /\ UNCHANGED vaultVars /\ UNCHANGED watchVars /\ UNCHANGED gateVars
  /\ UNCHANGED flagVars /\ UNCHANGED taskVars /\ UNCHANGED engineVars
  /\ UNCHANGED endVars

ListenerMark ==
  /\ listener = "mark" /\ listener' = "recv"
  /\ pending' = TRUE /\ permit' = TRUE
  /\ UNCHANGED <<syncing, paused, channel, lagged>>
  /\ UNCHANGED vaultVars /\ UNCHANGED watchVars /\ UNCHANGED gateVars
  /\ UNCHANGED taskVars /\ UNCHANGED engineVars /\ UNCHANGED endVars

\* Mutated: subscribe anew without marking.
ListenerLagged_Ignored ==
  /\ listener = "recv" /\ lagged /\ channel' = 0 /\ lagged' = FALSE
  /\ UNCHANGED <<permit, listener>>
  /\ UNCHANGED vaultVars /\ UNCHANGED watchVars /\ UNCHANGED gateVars
  /\ UNCHANGED flagVars /\ UNCHANGED taskVars /\ UNCHANGED engineVars
  /\ UNCHANGED endVars

\* The channel overflowed: mark, and subscribe anew, which empties it.
ListenerLagged ==
  /\ listener = "recv" /\ lagged
  /\ pending' = TRUE /\ permit' = TRUE /\ channel' = 0 /\ lagged' = FALSE
  /\ UNCHANGED <<syncing, paused, listener>>
  /\ UNCHANGED vaultVars /\ UNCHANGED watchVars /\ UNCHANGED gateVars
  /\ UNCHANGED taskVars /\ UNCHANGED engineVars /\ UNCHANGED endVars

-----------------------------------------------------------------------------
(* What the committer, the windows and the push have in common: sync_lock, *)
(* the gate, and the blocking call.                                        *)

TakeLock(a) == holder = Nobody /\ holder' = a /\ UNCHANGED <<excluder, mutation>>

\* Wait for the mutations inside, shut the gate, start the engine.
ShutGate(a) ==
  /\ GateEmpty /\ excluder' = a /\ UNCHANGED <<holder, mutation>>
  /\ job' = [job EXCEPT ![a] = "commit"] /\ UNCHANGED result

OpenGate == excluder' = Nobody /\ UNCHANGED <<holder, mutation>>

\* Dropping the guards of a task that is no longer there.
Release(a) ==
  /\ excluder' = IF excluder = a THEN Nobody ELSE excluder
  /\ holder' = IF holder = a THEN Nobody ELSE holder
  /\ UNCHANGED mutation

\* The outcome of the call goes out of scope.
Forget(a) ==
  /\ job' = [job EXCEPT ![a] = "none"] /\ result' = [result EXCEPT ![a] = "none"]

CommitterAt(from, to) ==
  /\ committer = from /\ committer' = to /\ UNCHANGED <<window, pusher>>

WindowAt(w, from, to) ==
  /\ window[w] = from /\ window' = [window EXCEPT ![w] = to]
  /\ UNCHANGED <<committer, pusher>>

PusherAt(from, to) ==
  /\ pusher = from /\ pusher' = to /\ UNCHANGED <<committer, window>>

-----------------------------------------------------------------------------
(* The committer: woken, it waits until it has been quiet for a while,     *)
(* then commits.                                                           *)

CommitterWake ==
  /\ CommitterAt("wait", "quiet") /\ permit /\ permit' = FALSE
  /\ UNCHANGED <<channel, lagged, listener>>
  /\ UNCHANGED vaultVars /\ UNCHANGED watchVars /\ UNCHANGED gateVars
  /\ UNCHANGED flagVars /\ UNCHANGED engineVars /\ UNCHANGED endVars

CommitterExtend ==
  /\ CommitterAt("quiet", "quiet") /\ permit /\ permit' = FALSE
  /\ UNCHANGED <<channel, lagged, listener>>
  /\ UNCHANGED vaultVars /\ UNCHANGED watchVars /\ UNCHANGED gateVars
  /\ UNCHANGED flagVars /\ UNCHANGED engineVars /\ UNCHANGED endVars

CommitterQuiet ==
  /\ CommitterAt("quiet", "lock") /\ ~permit
  /\ UNCHANGED vaultVars /\ UNCHANGED watchVars /\ UNCHANGED gateVars
  /\ UNCHANGED flagVars /\ UNCHANGED noticeVars /\ UNCHANGED engineVars
  /\ UNCHANGED endVars

CommitterLock ==
  /\ CommitterAt("lock", "gate") /\ TakeLock(Committer)
  /\ UNCHANGED vaultVars /\ UNCHANGED watchVars /\ UNCHANGED flagVars
  /\ UNCHANGED noticeVars /\ UNCHANGED engineVars /\ UNCHANGED endVars

CommitterGate ==
  /\ CommitterAt("gate", "engine") /\ ShutGate(Committer)
  /\ UNCHANGED vaultVars /\ UNCHANGED watchVars /\ UNCHANGED flagVars
  /\ UNCHANGED noticeVars /\ UNCHANGED endVars

CommitterUngate ==
  /\ CommitterAt("engine", "flag") /\ job[Committer] = "done" /\ OpenGate
  /\ UNCHANGED vaultVars /\ UNCHANGED watchVars /\ UNCHANGED flagVars
  /\ UNCHANGED noticeVars /\ UNCHANGED engineVars /\ UNCHANGED endVars

CommitterFlag ==
  /\ CommitterAt("flag", "wait")
  /\ pending' = (pending /\ result[Committer] # "ok")
  /\ holder' = Nobody
  /\ Forget(Committer)
  /\ UNCHANGED <<syncing, paused, excluder, mutation>>
  /\ UNCHANGED vaultVars /\ UNCHANGED watchVars /\ UNCHANGED noticeVars
  /\ UNCHANGED endVars

-----------------------------------------------------------------------------
(* A full sync: lock, syncing, gate, paused, engine, rebuild if the tree   *)
(* may have changed, pending, and the guards dropped in this order.        *)

RequestSync(w) ==
  /\ serving /\ WindowAt(w, "idle", "lock")
  /\ UNCHANGED vaultVars /\ UNCHANGED watchVars /\ UNCHANGED gateVars
  /\ UNCHANGED flagVars /\ UNCHANGED noticeVars /\ UNCHANGED engineVars
  /\ UNCHANGED endVars

\* Mutated: the watcher is paused before the mutations have left.
WindowLock_PausesEarly(w) ==
  /\ WindowAt(w, "lock", "gate") /\ TakeLock(w)
  /\ syncing' = TRUE /\ paused' = TRUE /\ UNCHANGED pending
  /\ UNCHANGED vaultVars /\ UNCHANGED watchVars /\ UNCHANGED noticeVars
  /\ UNCHANGED engineVars /\ UNCHANGED endVars

WindowLock(w) ==
  /\ WindowAt(w, "lock", "gate") /\ TakeLock(w)
  /\ syncing' = TRUE /\ UNCHANGED <<paused, pending>>
  /\ UNCHANGED vaultVars /\ UNCHANGED watchVars /\ UNCHANGED noticeVars
  /\ UNCHANGED engineVars /\ UNCHANGED endVars

WindowGate(w) ==
  /\ WindowAt(w, "gate", "engine") /\ ShutGate(w)
  /\ paused' = TRUE /\ UNCHANGED <<syncing, pending>>
  /\ UNCHANGED vaultVars /\ UNCHANGED watchVars /\ UNCHANGED noticeVars
  /\ UNCHANGED endVars

\* Mutated: no rebuild after a failed sync.
WindowSettle_OnlyOnSuccess(w) ==
  /\ job[w] = "done"
  /\ WindowAt(w, "engine", IF result[w] = "changed" THEN "rebuild" ELSE "close")
  /\ unindexed' = (unindexed \/ result[w] = "panic")
  /\ UNCHANGED <<stopping, timedOut, failures>>
  /\ UNCHANGED vaultVars /\ UNCHANGED watchVars /\ UNCHANGED gateVars
  /\ UNCHANGED flagVars /\ UNCHANGED noticeVars /\ UNCHANGED engineVars

\* A failed sync can have moved the tree; a refused one has not.
WindowSettle(w) ==
  /\ job[w] = "done"
  /\ WindowAt(w, "engine",
       IF result[w] \in {"changed", "error"} THEN "rebuild" ELSE "close")
  /\ unindexed' = (unindexed \/ result[w] = "panic")
  /\ UNCHANGED <<stopping, timedOut, failures>>
  /\ UNCHANGED vaultVars /\ UNCHANGED watchVars /\ UNCHANGED gateVars
  /\ UNCHANGED flagVars /\ UNCHANGED noticeVars /\ UNCHANGED engineVars

\* rebuild_after_sync: build the index, report it, then sweep.
WindowRebuild(w) ==
  /\ WindowAt(w, "rebuild", "sweep")
  /\ index' = disk /\ Send
  /\ UNCHANGED <<disk, git, events, permit, listener>>
  /\ UNCHANGED watchVars /\ UNCHANGED gateVars /\ UNCHANGED flagVars
  /\ UNCHANGED engineVars /\ UNCHANGED endVars

WindowRebuildFails(w) ==
  /\ WindowAt(w, "rebuild", "close") /\ Fail /\ unindexed' = TRUE
  /\ UNCHANGED <<stopping, timedOut>>
  /\ UNCHANGED vaultVars /\ UNCHANGED watchVars /\ UNCHANGED gateVars
  /\ UNCHANGED flagVars /\ UNCHANGED noticeVars /\ UNCHANGED engineVars

WindowSweep(w) ==
  /\ WindowAt(w, "sweep", "close")
  /\ \E C \in SUBSET Moves :
       /\ Sweep(C)
       /\ IF C = {} THEN UNCHANGED <<channel, lagged>> ELSE Send
  /\ UNCHANGED <<permit, listener>>
  /\ UNCHANGED watchVars /\ UNCHANGED gateVars /\ UNCHANGED flagVars
  /\ UNCHANGED engineVars /\ UNCHANGED endVars

WindowClose(w) ==
  /\ WindowAt(w, "close", "unpause")
  /\ pending' = IF result[w] \in {"ok", "changed"}
                THEN result[w] = "changed" ELSE pending
  /\ UNCHANGED <<syncing, paused>>
  /\ UNCHANGED vaultVars /\ UNCHANGED watchVars /\ UNCHANGED gateVars
  /\ UNCHANGED noticeVars /\ UNCHANGED engineVars /\ UNCHANGED endVars

WindowUnpause(w) ==
  /\ WindowAt(w, "unpause", "ungate")
  /\ paused' = FALSE /\ UNCHANGED <<syncing, pending>>
  /\ UNCHANGED vaultVars /\ UNCHANGED watchVars /\ UNCHANGED gateVars
  /\ UNCHANGED noticeVars /\ UNCHANGED engineVars /\ UNCHANGED endVars

WindowUngate(w) ==
  /\ WindowAt(w, "ungate", "unsync") /\ OpenGate
  /\ UNCHANGED vaultVars /\ UNCHANGED watchVars /\ UNCHANGED flagVars
  /\ UNCHANGED noticeVars /\ UNCHANGED engineVars /\ UNCHANGED endVars

\* Mutated: the flag is cleared by hand, at the end of a successful sync.
WindowUnsync_OnSuccess(w) ==
  /\ WindowAt(w, "unsync", "done")
  /\ syncing' = (result[w] \notin {"ok", "changed"})
  /\ holder' = Nobody /\ Forget(w)
  /\ UNCHANGED <<paused, pending, excluder, mutation>>
  /\ UNCHANGED vaultVars /\ UNCHANGED watchVars /\ UNCHANGED noticeVars
  /\ UNCHANGED endVars

WindowUnsync(w) ==
  /\ WindowAt(w, "unsync", "done")
  /\ syncing' = FALSE /\ holder' = Nobody /\ Forget(w)
  /\ UNCHANGED <<paused, pending, excluder, mutation>>
  /\ UNCHANGED vaultVars /\ UNCHANGED watchVars /\ UNCHANGED noticeVars
  /\ UNCHANGED endVars

-----------------------------------------------------------------------------
(* The engine, on a blocking thread: nothing that happens to the task that *)
(* started it stops it.                                                    *)

Finish(a, r) ==
  /\ job' = [job EXCEPT ![a] = "done"] /\ result' = [result EXCEPT ![a] = r]

\* commit_local; full_sync goes on to pull.
EngineCommit(a) ==
  /\ job[a] = "commit" /\ git' = disk
  /\ IF a \in Windows THEN job' = [job EXCEPT ![a] = "pull"] /\ UNCHANGED result
                      ELSE Finish(a, "ok")
  /\ UNCHANGED <<disk, index, events>>
  /\ UNCHANGED watchVars /\ UNCHANGED gateVars /\ UNCHANGED flagVars
  /\ UNCHANGED noticeVars /\ UNCHANGED taskVars /\ UNCHANGED endVars

\* It is refused while the user is in a git operation, or fails.
EngineCommitFails(a) ==
  /\ job[a] = "commit" /\ Fail
  /\ \E r \in {"refused", "error", "panic"} : Finish(a, r)
  /\ UNCHANGED <<stopping, timedOut, unindexed>>
  /\ UNCHANGED vaultVars /\ UNCHANGED watchVars /\ UNCHANGED gateVars
  /\ UNCHANGED flagVars /\ UNCHANGED noticeVars /\ UNCHANGED taskVars

\* Pull and push find nothing new, or merge what another device pushed.
EnginePull(w) ==
  /\ job[w] = "pull"
  /\ \/ Finish(w, "ok") /\ UNCHANGED <<disk, git, events>>
     \/ \E g \in Merges \ disk :
          Finish(w, "changed") /\ Arrive({g}) /\ git' = git \cup {g}
  /\ UNCHANGED index
  /\ UNCHANGED watchVars /\ UNCHANGED gateVars /\ UNCHANGED flagVars
  /\ UNCHANGED noticeVars /\ UNCHANGED taskVars /\ UNCHANGED endVars

\* They fail, before or after a merge.
EnginePullFails(w) ==
  /\ job[w] = "pull" /\ Fail
  /\ \E r \in {"error", "panic"} : Finish(w, r)
  /\ \/ UNCHANGED <<disk, git, events>>
     \/ \E g \in Merges \ disk : Arrive({g}) /\ git' = git \cup {g}
  /\ UNCHANGED <<index, stopping, timedOut, unindexed>>
  /\ UNCHANGED watchVars /\ UNCHANGED gateVars /\ UNCHANGED flagVars
  /\ UNCHANGED noticeVars /\ UNCHANGED taskVars

-----------------------------------------------------------------------------
(* Shutdown: stop the listener and the schedule, let the committer finish, *)
(* commit and push within a time budget.  Then main exits: the behaviour   *)
(* may end anywhere after pusher = "done".                                 *)

\* Mutated: the committer is aborted with the others.
Shutdown_AbortsCommitter ==
  /\ serving /\ stopping' = TRUE
  /\ pusher = "off" /\ pusher' = "lock" /\ committer' = "wait"
  /\ Release(Committer) /\ UNCHANGED window
  /\ listener' = "off" /\ channel' = 0 /\ lagged' = FALSE /\ UNCHANGED permit
  /\ UNCHANGED <<timedOut, unindexed, failures>>
  /\ UNCHANGED vaultVars /\ UNCHANGED watchVars /\ UNCHANGED flagVars
  /\ UNCHANGED engineVars

Shutdown ==
  /\ serving /\ stopping' = TRUE
  /\ PusherAt("off", "lock")
  /\ listener' = "off" /\ channel' = 0 /\ lagged' = FALSE /\ UNCHANGED permit
  /\ UNCHANGED <<timedOut, unindexed, failures>>
  /\ UNCHANGED vaultVars /\ UNCHANGED watchVars /\ UNCHANGED gateVars
  /\ UNCHANGED flagVars /\ UNCHANGED engineVars

PushLock ==
  /\ PusherAt("lock", "gate") /\ TakeLock(Pusher)
  /\ UNCHANGED vaultVars /\ UNCHANGED watchVars /\ UNCHANGED flagVars
  /\ UNCHANGED noticeVars /\ UNCHANGED engineVars /\ UNCHANGED endVars

PushGate ==
  /\ PusherAt("gate", "engine") /\ ShutGate(Pusher)
  /\ UNCHANGED vaultVars /\ UNCHANGED watchVars /\ UNCHANGED flagVars
  /\ UNCHANGED noticeVars /\ UNCHANGED endVars

PushDone ==
  /\ job[Pusher] = "done" /\ PusherAt("engine", "done") /\ Release(Pusher)
  /\ Forget(Pusher)
  /\ UNCHANGED vaultVars /\ UNCHANGED watchVars /\ UNCHANGED flagVars
  /\ UNCHANGED noticeVars /\ UNCHANGED endVars

\* The budget runs out: the guards are dropped, the engine is not stopped.
PushTimeout ==
  /\ \E l \in {"lock", "gate", "engine"} : PusherAt(l, "done")
  /\ Release(Pusher) /\ timedOut' = TRUE
  /\ UNCHANGED <<stopping, unindexed, failures>>
  /\ UNCHANGED vaultVars /\ UNCHANGED watchVars /\ UNCHANGED flagVars
  /\ UNCHANGED noticeVars /\ UNCHANGED engineVars

-----------------------------------------------------------------------------
Init ==
  /\ disk = {} /\ git = {} /\ index = {} /\ events = {}
  /\ batch = {} /\ watch = "idle"
  /\ excluder = Nobody /\ holder = Nobody
  /\ mutation = [m \in Mutations |-> "idle"]
  /\ syncing = FALSE /\ paused = FALSE /\ pending = FALSE
  /\ permit = FALSE /\ channel = 0 /\ lagged = FALSE /\ listener = "off"
  /\ committer = "wait" /\ pusher = "off"
  /\ window = [w \in Windows |-> IF w = Startup THEN "lock" ELSE "idle"]
  /\ job = [a \in Actors |-> "none"] /\ result = [a \in Actors |-> "none"]
  /\ stopping = FALSE /\ timedOut = FALSE /\ unindexed = FALSE
  /\ failures = 0

\* What users, other programs and other devices do, and when.
Environment ==
  \/ \E m \in Mutations : MutationEnter(m)
  \/ \E e \in Edits : Edit(e)
  \/ \E w \in Windows : RequestSync(w)
  \/ Shutdown
  \/ PushTimeout

WindowStep(w) ==
  \/ WindowLock(w) \/ WindowGate(w) \/ WindowSettle(w) \/ WindowRebuild(w)
  \/ WindowRebuildFails(w) \/ WindowSweep(w) \/ WindowClose(w)
  \/ WindowUnpause(w) \/ WindowUngate(w) \/ WindowUnsync(w)

CommitterStep ==
  \/ CommitterWake \/ CommitterExtend \/ CommitterQuiet \/ CommitterLock
  \/ CommitterGate \/ CommitterUngate \/ CommitterFlag

EngineStep ==
  \/ \E a \in Actors : EngineCommit(a) \/ EngineCommitFails(a)
  \/ \E w \in Windows : EnginePull(w) \/ EnginePullFails(w)

\* What the server's tasks and timers do by themselves.
ServerStep ==
  \/ \E m \in Mutations : \/ MutationWrite(m) \/ MutationNotify(m)
                          \/ MutationCancelled(m)
  \/ WatcherFlush \/ WatchIndex \/ WatchIndexFails \/ WatchEnter
  \/ WatchReconcile \/ StartServing
  \/ ListenerReceive \/ ListenerMark \/ ListenerLagged
  \/ CommitterStep
  \/ \E w \in Windows : WindowStep(w)
  \/ PushLock \/ PushGate \/ PushDone

Next == Environment \/ ServerStep \/ EngineStep

Spec == Init /\ [][Next]_vars

-----------------------------------------------------------------------------
Flags ==
  /\ syncing \in BOOLEAN /\ paused \in BOOLEAN /\ pending \in BOOLEAN
  /\ permit \in BOOLEAN /\ lagged \in BOOLEAN
  /\ stopping \in BOOLEAN /\ timedOut \in BOOLEAN /\ unindexed \in BOOLEAN

Places ==
  /\ disk \subseteq Changes /\ git \subseteq Changes /\ index \subseteq Changes
  /\ events \subseteq Changes /\ batch \subseteq Changes
  /\ watch \in {"idle", "waiting", "inside"}
  /\ excluder \in Actors \cup {Nobody} /\ holder \in Actors \cup {Nobody}
  /\ mutation \in [Mutations -> {"idle", "inside", "indexed", "done"}]
  /\ channel \in 0..Capacity /\ failures \in 0..MaxFailures
  /\ listener \in {"off", "recv", "mark"}
  /\ committer \in {"wait", "quiet", "lock", "gate", "engine", "flag"}
  /\ pusher \in {"off", "lock", "gate", "engine", "done"}
  /\ window \in [Windows -> {"idle", "lock", "gate", "engine", "rebuild",
                             "sweep", "close", "unpause", "ungate", "unsync",
                             "done"}]
  /\ job \in [Actors -> {"none", "commit", "pull", "done"}]
  /\ result \in [Actors -> {"none", "ok", "changed", "error", "refused",
                            "panic"}]

\* The type of the state; the listener's channel never holds more than its
\* capacity.
TypeOK == Flags /\ Places

Running == {a \in Actors : job[a] \in {"commit", "pull"}}

\* sync_runtime.rs:66: one engine at a time, and no mutation or reconcile move
\* while it runs, through shutdown as well, unless the push ran out of time.
OneEngineAtATime ==
  timedOut \/ ( /\ \A a, b \in Running : a = b
                /\ Running # {} => Inside = {} /\ watch # "inside" )

\* sync_runtime.rs:207: no mutation is inside the gate while the watcher is
\* paused, so that what it writes is not written unwatched.
WatchedMutations == paused => Inside = {} /\ watch # "inside"

\* Watcher events are dropped for the whole window, so whatever a pull brought
\* in is indexed when the gate opens again, after failed syncs too, unless the
\* rebuild itself failed or the engine panicked.
MergedIsIndexed ==
  GateFree /\ ~unindexed => Merges \cap disk \subseteq index

\* The server is up and none of its tasks has anything left to do.
Idle ==
  /\ listener = "recv" /\ channel = 0 /\ ~lagged /\ ~permit
  /\ committer = "wait" /\ watch = "idle" /\ batch = {} /\ events = {}
  /\ \A w \in Windows : window[w] \in {"idle", "done"}
  /\ \A m \in Mutations : mutation[m] \in {"idle", "done"}

\* What a mutation wrote does not wait for another change to be committed: it
\* is in git when the server is idle, whether its notification was lost with
\* the request, overflowed the channel or came during a sync, unless something
\* failed.
CommittedWhenIdle ==
  Idle /\ failures = 0 => Mutations \cap disk \subseteq git

\* However a window ended it left no flag up and nothing locked.
IdleIsClean == Idle => ~syncing /\ ~paused /\ GateFree /\ holder = Nobody

\* Until the server is idle or may exit some task can go on: the lock, the
\* gate, the permit and the channel never leave everyone waiting, nor does a
\* flag or a lock that a window left behind.
NeverStuck ==
  /\ Idle \/ pusher = "done" \/ ENABLED (ServerStep \/ EngineStep)
  /\ IdleIsClean

(***************************************************************************)
(* What docs, comments or tests say and the code does not keep: see        *)
(* "Known divergences" in the README.                                      *)
(***************************************************************************)
\* sync_runtime.rs:201: what a window leaves pending is swept up by the
\* debounced autocommit.
PendingIsSwept == Idle /\ failures = 0 => ~pending

\* docs/superpowers/specs/2026-08-27-clep-sync-design.md:94: after a quiesce
\* window one full index build, so an edit made meanwhile by another program
\* is indexed although the watcher was paused.
EditsAreIndexed == Idle /\ failures = 0 => Edits \cap disk \subseteq index
=============================================================================
