---------------------------- MODULE BatchMutation ----------------------------
(***************************************************************************)
(* The durable multi-file mutation of crates/clep-mutate: a batch of path  *)
(* intents is staged in a transaction workspace under                      *)
(* .clepsydra/transactions, published one filesystem operation at a time,  *)
(* reconciled into the index and finished, or rolled back; a workspace     *)
(* that outlives its task is resolved by recover_pending when the server   *)
(* next starts.  The model lets any filesystem call fail (with or without  *)
(* its effect), lets the process die between any two calls, and lets an    *)
(* external editor write to the vault at any moment.                       *)
(***************************************************************************)
EXTENDS Integers, Sequences, FiniteSets

CONSTANTS
  Paths,       \* vault files a batch may touch
  Items,       \* rubbish items (a directory holding a page and its manifest)
  Dirs,        \* vault directories below the root
  Root,        \* the vault root: always present
  Parent,      \* Parent[l]: the directory that holds the path or directory l
  Contents,    \* file contents (an item's content stands for bytes + manifest)
  Missing,     \* nothing at this location
  Directory,   \* a directory at this location
  Batches,     \* the batches that clients may submit
  Tx,          \* transaction ids; UUIDv7, so their order is creation order
  MaxEdits,    \* bound: writes by programs other than this one
  MaxFaults,   \* bound: filesystem or index calls that report an error
  MaxCrashes   \* bound: process deaths

Loc     == Paths \cup Items \cup Dirs
Indexed == Paths \cup Items
Values  == Contents \cup {Missing, Directory}

Phases == {"none", "debris", "prepared", "committing", "committed"}
Kinds  == {"write", "move", "delete", "archive", "restore", "mkdir", "rmdir"}

(***************************************************************************)
(* An intent.  "path" is the vault path (the source of a move, the         *)
(* destination of a restore), "to" the second location of the two-location *)
(* kinds, "old" the expected bytes and "new" the bytes of a write.  The    *)
(* directories a batch creates come first and those it removes last.       *)
(***************************************************************************)
Intents == [kind : Kinds, path : Loc, to : Loc, old : Values, new : Values]

WellTyped(it) ==
  /\ (it.kind \in {"mkdir", "rmdir"}) <=> (it.path \in Dirs)
  /\ it.kind \notin {"mkdir", "rmdir"} => it.path \in Paths
  /\ it.kind = "move" => it.to \in Paths
  /\ it.kind \in {"archive", "restore"} => it.to \in Items
  /\ it.kind = "write" => it.old # Directory /\ it.new \in Contents
  /\ it.kind \in {"move", "delete", "archive", "restore"} => it.old \in Contents

ASSUME LocAssumption ==
  /\ Paths \cap Items = {} /\ Paths \cap Dirs = {} /\ Items \cap Dirs = {}
  /\ Root \notin Loc
  /\ Parent \in [Paths \cup Dirs -> Dirs \cup {Root}]
  /\ Missing \notin Contents /\ Directory \notin Contents /\ Missing # Directory

ASSUME BatchAssumption ==
  \A b \in Batches : b \in Seq(Intents) /\ \A k \in DOMAIN b : WellTyped(b[k])

ASSUME BoundAssumption ==
  /\ Tx \subseteq Nat /\ Tx # {}
  /\ MaxEdits \in Nat /\ MaxFaults \in Nat /\ MaxCrashes \in Nat

VARIABLES
  fs,        \* the vault: what each location holds
  index,     \* what the SQLite index says of each indexed location
  ws,        \* per transaction: the phase the workspace's manifest shows
  durable,   \* per transaction: the phase a power loss would leave behind
  batch,     \* per transaction: the intents in the manifest
  owned,     \* per transaction: the renames out of the workspace in effect
  payload,   \* per transaction: staged and rollback files all still there
  proc,      \* the server process
  pc,        \* the task running in it, or startup itself
  cur,       \* the transaction that task works on
  i, j,      \* the intent and the operation of it that comes next
  armed,     \* the operation's check passed; the operation itself is next
  verdict,   \* what the caller is told once the workspace is gone
  reply,     \* per transaction: what the caller was told
  recovered, \* committed transactions that startup must still finish
  touched,   \* ghost: transactions with a location changed by someone else
  edited,    \* ghost: locations the index lost sight of since it was built
  edits, faults, crashes

diskVars == <<ws, durable, batch, owned, payload>>
taskVars == <<proc, pc, cur, i, j, armed, verdict, reply, recovered>>
envVars  == <<edited, edits, crashes>>
vars == <<fs, index, ws, durable, batch, owned, payload, proc, pc, cur, i, j,
          armed, verdict, reply, recovered, touched, edited, edits, faults,
          crashes>>

-----------------------------------------------------------------------------
(* What one intent does, location by location.                             *)

Locs(it) == IF it.kind \in {"move", "archive", "restore"}
              THEN {it.path, it.to} ELSE {it.path}

Footprint(b) == UNION {Locs(b[k]) : k \in DOMAIN b}

Before(it, l) ==
  IF it.kind = "mkdir" THEN Missing
  ELSE IF it.kind = "rmdir" THEN Directory
  ELSE IF (it.kind = "restore") = (l = it.path) THEN Missing
  ELSE it.old

After(it, l) ==
  IF it.kind = "mkdir" THEN Directory
  ELSE IF it.kind = "rmdir" THEN Missing
  ELSE IF it.kind = "write" THEN it.new
  ELSE IF (it.kind = "restore") = (l = it.path) THEN it.old
  ELSE Missing

PublishOrder(it) ==
  IF it.kind \in {"move", "archive"} THEN <<it.to, it.path>>
  ELSE IF it.kind = "restore" THEN <<it.path, it.to>>
  ELSE <<it.path>>

RollbackOrder(it) ==
  IF it.kind = "move" THEN <<it.path, it.to>>
  ELSE IF it.kind \in {"archive", "restore"} THEN <<it.to, it.path>>
  ELSE <<it.path>>

IntentFor(b, l) == b[CHOOSE k \in DOMAIN b : l \in Locs(b[k])]

Present(l) == l # Root => fs[l] # Missing

EmptyDir(d) == \A l \in Paths \cup Dirs : Parent[l] = d => fs[l] = Missing

Deferred(b) == \E k \in DOMAIN b : b[k].kind \in {"archive", "restore"}

-----------------------------------------------------------------------------
(* Validation: validate_intents looks at the command alone,                *)
(* validate_observed_state compares it with the vault.                     *)

Final(it) == IF it.kind \in {"write", "restore"} THEN {it.path}
             ELSE IF it.kind = "move" THEN {it.to} ELSE {}

Source(it) == IF it.kind \in {"write", "move", "delete", "archive"}
                THEN {it.path} ELSE {}

ItemOf(it) == IF it.kind \in {"archive", "restore"} THEN {it.to} ELSE {}

validate_intents(b) ==
  /\ b # <<>>
  /\ \A k \in DOMAIN b : b[k].kind = "move" => b[k].path # b[k].to
  /\ \A k, m \in DOMAIN b : k # m =>
       /\ Final(b[k]) \cap Final(b[m]) = {}
       /\ Source(b[k]) \cap Source(b[m]) = {}
       /\ ItemOf(b[k]) \cap ItemOf(b[m]) = {}

\* Directories come from the planner, which lists each of them once.
PlannedDirectories(b) ==
  \A k, m \in DOMAIN b :
    /\ (b[k].kind = b[m].kind /\ b[k].kind \in {"mkdir", "rmdir"} /\ k # m)
         => b[k].path # b[m].path
    /\ (b[k].kind = "mkdir" /\ m < k) => b[m].kind = "mkdir"
    /\ (b[k].kind = "rmdir" /\ m > k) => b[m].kind = "rmdir"

validate_observed_state(b) ==
  \A k \in DOMAIN b : \A l \in Locs(b[k]) : fs[l] = Before(b[k], l)

-----------------------------------------------------------------------------
(* Bookkeeping shared by the actions.                                      *)

Fault == faults < MaxFaults /\ faults' = faults + 1

Current == batch[cur][i]

\* Locations whose change can get in the way of the batch: its own, the
\* directories that hold them, and what others put into its directories.
InTheWay(l, b) ==
  \/ l \in Footprint(b)
  \/ \E x \in Footprint(b) \ Items : Parent[x] = l
  \/ (l \notin Items /\ Parent[l] \in Footprint(b))

\* Someone changes location l: every other workspace it concerns is touched.
Touch(l, who) ==
  touched' = touched \cup
    {t \in Tx \ who : ws[t] # "none" /\ InTheWay(l, batch[t])}

\* The task stops and leaves its workspace behind: an error reply
\* (BatchRollback, BatchRecovery, PreparationCleanup) while serving, a failed
\* startup otherwise.
RetainWorkspace ==
  /\ pc' = "idle" /\ armed' = FALSE
  /\ IF proc = "serving"
       THEN /\ reply' = [reply EXCEPT ![cur] = "retained"]
            /\ UNCHANGED <<proc, recovered>>
       ELSE proc' = "down" /\ recovered' = {} /\ UNCHANGED reply
  /\ UNCHANGED <<cur, i, j, verdict>>

StartRemoval(v) ==
  /\ pc' = "remove" /\ verdict' = v /\ armed' = FALSE
  /\ UNCHANGED <<proc, cur, i, j, reply, recovered>>

StartRollback ==
  /\ pc' = "rollback" /\ verdict' = "failed" /\ armed' = FALSE
  /\ i' = Len(batch[cur]) /\ j' = 1
  /\ UNCHANGED <<proc, cur, reply, recovered>>

GoTo(label) ==
  /\ pc' = label /\ armed' = FALSE
  /\ UNCHANGED <<proc, cur, i, j, verdict, reply, recovered>>

Arm == armed' = TRUE
       /\ UNCHANGED <<proc, pc, cur, i, j, verdict, reply, recovered>>

\* The raw filesystem call that takes l to value v: a create never replaces,
\* a replace overwrites whatever is there, a removal needs something there.
CanApply(l, from, v) ==
  /\ from = Missing => fs[l] = Missing
  /\ v = Missing => fs[l] # Missing /\ (l \in Dirs => EmptyDir(l))
  /\ (v # Missing /\ l \notin Items) => Present(Parent[l])

\* The call may fail because of what it finds; replacing a file that has
\* disappeared fails unless it disappears at the last moment.
CanRefuse(l, from, v) ==
  ~CanApply(l, from, v) \/ (from # Missing /\ v # Missing /\ fs[l] = Missing)

\* Which renames of workspace directories are in effect once l holds v.
OwnedAfterPublish(l) ==
  IF l \in Items \/ Current.kind = "mkdir" THEN owned[cur] \cup {l} ELSE owned[cur]

OwnedAfterRollback(l) == IF l \in Items THEN owned[cur] \ {l} ELSE owned[cur]

-----------------------------------------------------------------------------
(* prepare: validate, create the workspace, stage the files, seal them     *)
(* with a manifest.                                                        *)

Prepare(t, b) ==
  /\ proc = "serving" /\ pc = "idle"
  /\ batch[t] = <<>> /\ \A u \in Tx : u < t => batch[u] # <<>>
  /\ validate_intents(b) /\ PlannedDirectories(b) /\ validate_observed_state(b)
  /\ ws' = [ws EXCEPT ![t] = "debris"]
  /\ durable' = [durable EXCEPT ![t] = "debris"]
  /\ batch' = [batch EXCEPT ![t] = b]
  /\ owned' = [owned EXCEPT ![t] = {}]
  /\ payload' = [payload EXCEPT ![t] = TRUE]
  /\ pc' = "prepare" /\ cur' = t /\ i' = 1 /\ j' = 1
  /\ touched' = touched \cup {u \in Tx : ws[u] # "none" /\
                                \E l \in Footprint(b) : InTheWay(l, batch[u])}
  /\ UNCHANGED <<fs, index, proc, armed, verdict, reply, recovered, edited,
                 edits, faults, crashes>>

WriteManifest ==
  /\ pc = "prepare"
  /\ ws' = [ws EXCEPT ![cur] = "prepared"]
  /\ GoTo("seal")
  /\ UNCHANGED <<fs, index, durable, batch, owned, payload, touched, faults>>
  /\ UNCHANGED envVars

SyncManifest ==
  /\ pc = "seal"
  /\ durable' = [durable EXCEPT ![cur] = ws[cur]]
  /\ GoTo("toCommitting")
  /\ UNCHANGED <<fs, index, ws, batch, owned, payload, touched, faults>>
  /\ UNCHANGED envVars

\* Any call of prepare fails: the workspace is removed again.
PrepareFails ==
  /\ pc \in {"prepare", "seal"} /\ Fault
  /\ \E p \in {ws[cur], "prepared"} : ws' = [ws EXCEPT ![cur] = p]
  /\ StartRemoval("failed")
  /\ UNCHANGED <<fs, index, durable, batch, owned, payload, touched>>
  /\ UNCHANGED envVars

-----------------------------------------------------------------------------
(* change_phase: replace the manifest, then flush it.                      *)

NextPhase == IF pc \in {"toCommitting", "syncCommitting"}
               THEN "committing" ELSE "committed"

WritePhase ==
  /\ pc \in {"toCommitting", "toCommitted"}
  /\ ws' = [ws EXCEPT ![cur] = NextPhase]
  /\ GoTo(IF pc = "toCommitting" THEN "syncCommitting" ELSE "syncCommitted")
  /\ UNCHANGED <<fs, index, durable, batch, owned, payload, touched, faults>>
  /\ UNCHANGED envVars

AfterSync == IF NextPhase = "committing" THEN GoTo("publish")
             ELSE IF Deferred(batch[cur]) THEN StartRemoval("ok")
             ELSE GoTo("index")

\* Mutant: the new manifest is never flushed.
SyncPhase_NoFlush ==
  /\ pc \in {"syncCommitting", "syncCommitted"}
  /\ AfterSync
  /\ UNCHANGED <<fs, index, touched, faults>> /\ UNCHANGED diskVars
  /\ UNCHANGED envVars

SyncPhase ==
  /\ pc \in {"syncCommitting", "syncCommitted"}
  /\ durable' = [durable EXCEPT ![cur] = ws[cur]]
  /\ AfterSync
  /\ UNCHANGED <<fs, index, ws, batch, owned, payload, touched, faults>>
  /\ UNCHANGED envVars

\* The manifest could not be replaced.  A batch that was still Prepared is
\* dropped, a published one is rolled back, and a rubbish batch whose index
\* is already updated keeps its Committing workspace.
WritePhaseFails ==
  /\ pc \in {"toCommitting", "toCommitted"} /\ Fault
  /\ IF pc = "toCommitting" THEN StartRemoval("failed")
     ELSE IF Deferred(batch[cur]) THEN RetainWorkspace
     ELSE StartRollback
  /\ UNCHANGED <<fs, index, touched>> /\ UNCHANGED diskVars /\ UNCHANGED envVars

\* The new manifest is visible but a flush failed: phase_uncertain, every
\* further call is refused and the workspace stays for recovery.
PhaseUncertain ==
  /\ pc \in {"toCommitting", "syncCommitting", "toCommitted", "syncCommitted"}
  /\ Fault
  /\ ws' = [ws EXCEPT ![cur] = NextPhase]
  /\ RetainWorkspace
  /\ UNCHANGED <<fs, index, durable, batch, owned, payload, touched>>
  /\ UNCHANGED envVars

-----------------------------------------------------------------------------
(* publish: every intent in order, each location checked and then changed. *)

PublishLoc == PublishOrder(Current)[j]

\* Nothing left to do at l.
Published(l) ==
  IF Current.kind = "mkdir" THEN l \in owned[cur]
  ELSE fs[l] = After(Current, l) /\ (l \in Items => l \in owned[cur])

\* l is as the batch expects it.
Publishable(l) ==
  /\ fs[l] = Before(Current, l)
  /\ (l \in Items \/ Current.kind = "mkdir") => l \notin owned[cur]
  /\ Current.kind = "rmdir" => EmptyDir(l)

\* Mutant: the loop over the intents stops one short.
NextOperation_OffByOne ==
  /\ armed' = FALSE
  /\ UNCHANGED <<proc, cur, verdict, reply, recovered>>
  /\ IF j < Len(PublishOrder(Current))
       THEN j' = j + 1 /\ UNCHANGED <<i, pc>>
     ELSE IF i + 1 < Len(batch[cur])
       THEN i' = i + 1 /\ j' = 1 /\ UNCHANGED pc
     ELSE /\ UNCHANGED <<i, j>>
          /\ pc' = IF Deferred(batch[cur]) THEN "index" ELSE "toCommitted"

NextOperation ==
  /\ armed' = FALSE
  /\ UNCHANGED <<proc, cur, verdict, reply, recovered>>
  /\ IF j < Len(PublishOrder(Current))
       THEN j' = j + 1 /\ UNCHANGED <<i, pc>>
     ELSE IF i < Len(batch[cur])
       THEN i' = i + 1 /\ j' = 1 /\ UNCHANGED pc
     ELSE /\ UNCHANGED <<i, j>>
          /\ pc' = IF Deferred(batch[cur]) THEN "index" ELSE "toCommitted"

PublishCheck ==
  /\ pc = "publish" /\ ~armed
  /\ IF Published(PublishLoc) THEN NextOperation
     ELSE IF Publishable(PublishLoc) THEN Arm
     ELSE StartRollback
  /\ UNCHANGED <<fs, index, touched, faults>> /\ UNCHANGED diskVars
  /\ UNCHANGED envVars

PublishEffect(l) ==
  /\ fs' = [fs EXCEPT ![l] = After(Current, l)]
  /\ owned' = [owned EXCEPT ![cur] = OwnedAfterPublish(l)]
  /\ Touch(l, {cur})
  /\ UNCHANGED <<index, ws, durable, batch, payload>>

PublishIntent ==
  /\ pc = "publish" /\ armed
  /\ CanApply(PublishLoc, Before(Current, PublishLoc), After(Current, PublishLoc))
  /\ PublishEffect(PublishLoc)
  /\ NextOperation
  /\ UNCHANGED faults /\ UNCHANGED envVars

\* Mutant: a refused call is tried again without looking.
PublishRefused_Retries ==
  /\ pc = "publish" /\ armed
  /\ CanRefuse(PublishLoc, Before(Current, PublishLoc), After(Current, PublishLoc))
  /\ UNCHANGED vars

\* The vault changed between the check and the call.  Removing a directory
\* that is already gone counts as done; everything else is an error.
PublishRefused ==
  /\ pc = "publish" /\ armed
  /\ CanRefuse(PublishLoc, Before(Current, PublishLoc), After(Current, PublishLoc))
  /\ IF Current.kind = "rmdir" /\ fs[PublishLoc] = Missing
       THEN NextOperation ELSE StartRollback
  /\ UNCHANGED <<fs, index, touched, faults>> /\ UNCHANGED diskVars
  /\ UNCHANGED envVars

\* Mutant: the workspace is dropped without rolling back.
PublishFails_NoRollback ==
  /\ pc = "publish" /\ Fault /\ StartRemoval("failed")
  /\ UNCHANGED <<fs, index, touched>> /\ UNCHANGED diskVars
  /\ UNCHANGED envVars

\* The call reports an error, before or after taking effect.
PublishFails ==
  /\ pc = "publish" /\ Fault /\ StartRollback
  /\ \/ UNCHANGED <<fs, index, touched>> /\ UNCHANGED diskVars
     \/ /\ armed
        /\ CanApply(PublishLoc, Before(Current, PublishLoc),
                    After(Current, PublishLoc))
        /\ PublishEffect(PublishLoc)
  /\ UNCHANGED envVars

-----------------------------------------------------------------------------
(* Index reconciliation.  The batch's events are applied as they were      *)
(* planned: a Remove drops the row whatever is on disk, an Upsert reads    *)
(* the page and fails when it is gone, a rubbish catalogue entry is taken  *)
(* from the manifest.  Rubbish batches are indexed before their phase is   *)
(* committed, in one SQLite savepoint; the others after it, event by event.*)

Upserts(b, l) == l \in Paths /\ After(IntentFor(b, l), l) # Missing

EventResult(b, l) == IF Upserts(b, l) THEN fs[l] ELSE After(IntentFor(b, l), l)

CanReconcile(b) ==
  \A l \in Footprint(b) \cap Indexed : Upserts(b, l) => fs[l] # Missing

\* The index once the events of batch b at the locations S are applied.
Reconciled(b, S) ==
  [l \in Indexed |-> IF l \in S THEN EventResult(b, l) ELSE index[l]]

ReconcileIndex ==
  /\ pc = "index" /\ CanReconcile(batch[cur])
  /\ index' = Reconciled(batch[cur], Footprint(batch[cur]))
  /\ IF Deferred(batch[cur]) THEN GoTo("toCommitted") ELSE StartRemoval("ok")
  /\ UNCHANGED <<fs, touched, faults>> /\ UNCHANGED diskVars
  /\ UNCHANGED envVars

\* Mutant: a rubbish batch is indexed event by event, outside a savepoint.
IndexAfterFailure_NoSavepoint ==
  /\ IF Deferred(batch[cur]) THEN StartRollback ELSE RetainWorkspace
  /\ \E S \in SUBSET (Footprint(batch[cur]) \cap Indexed) :
       index' = Reconciled(batch[cur], S)

IndexAfterFailure ==
  IF Deferred(batch[cur])
    THEN StartRollback /\ UNCHANGED index
    ELSE /\ RetainWorkspace
         /\ \E S \in SUBSET (Footprint(batch[cur]) \cap Indexed) :
              index' = Reconciled(batch[cur], S)

\* A page to be indexed has disappeared.
ReconcileIndexRefused ==
  /\ pc = "index" /\ ~CanReconcile(batch[cur])
  /\ IndexAfterFailure
  /\ UNCHANGED <<fs, touched, faults>> /\ UNCHANGED diskVars
  /\ UNCHANGED envVars

ReconcileIndexFails ==
  /\ pc = "index" /\ Fault
  /\ IndexAfterFailure
  /\ UNCHANGED <<fs, touched>> /\ UNCHANGED diskVars /\ UNCHANGED envVars

-----------------------------------------------------------------------------
(* rollback_manifest: every intent in reverse, published or not.           *)

RollbackLoc == RollbackOrder(Current)[j]

\* Mutant: a file that was never published is not recognised as such.
RolledBack_NeverUnpublished(l) ==
  IF Current.kind = "mkdir" THEN l \notin owned[cur] \/ fs[l] = Missing
  ELSE l \in Items /\ fs[l] = Before(Current, l) /\ l \notin owned[cur]

RolledBack(l) ==
  IF Current.kind = "mkdir" THEN l \notin owned[cur] \/ fs[l] = Missing
  ELSE fs[l] = Before(Current, l) /\ (l \in Items => l \notin owned[cur])

Revertible(l) ==
  /\ fs[l] = After(Current, l)
  /\ (l \in Items \/ Current.kind = "mkdir") => l \in owned[cur]
  /\ Current.kind = "mkdir" => EmptyDir(l)

\* The active page locations of a two-location intent are inspected before
\* either of its locations is changed back.
Preflight ==
  (j = 1 /\ Current.kind \in {"move", "archive", "restore"}) =>
    \A l \in Locs(Current) \cap Paths :
      fs[l] \in {Before(Current, l), After(Current, l)}

ReadsPayload ==
  \/ Current.kind \in {"move", "delete", "archive", "restore"}
  \/ (Current.kind = "write" /\ Current.old # Missing)

PreviousOperation ==
  /\ armed' = FALSE
  /\ UNCHANGED <<proc, cur, verdict, reply, recovered>>
  /\ IF j < Len(RollbackOrder(Current))
       THEN j' = j + 1 /\ UNCHANGED <<i, pc>>
     ELSE IF i > 1
       THEN i' = i - 1 /\ j' = 1 /\ UNCHANGED pc
     ELSE UNCHANGED <<i, j>> /\ pc' = "remove"

RollbackCheck ==
  /\ pc = "rollback" /\ ~armed
  /\ IF ~Preflight THEN RetainWorkspace
     ELSE IF RolledBack(RollbackLoc) THEN PreviousOperation
     ELSE IF Revertible(RollbackLoc) THEN Arm
     ELSE RetainWorkspace
  /\ UNCHANGED <<fs, index, touched, faults>> /\ UNCHANGED diskVars
  /\ UNCHANGED envVars

\* A workspace whose removal was interrupted may have lost the file that
\* read_verified wants.
RollbackUnreadable ==
  /\ pc = "rollback" /\ ~armed /\ j = 1
  /\ ~payload[cur] /\ ReadsPayload
  /\ RetainWorkspace
  /\ UNCHANGED <<fs, index, touched, faults>> /\ UNCHANGED diskVars
  /\ UNCHANGED envVars

RollbackEffect(l) ==
  /\ fs' = [fs EXCEPT ![l] = Before(Current, l)]
  /\ owned' = [owned EXCEPT ![cur] = OwnedAfterRollback(l)]
  /\ Touch(l, {cur})
  /\ UNCHANGED <<index, ws, durable, batch, payload>>

RollbackIntent ==
  /\ pc = "rollback" /\ armed
  /\ CanApply(RollbackLoc, After(Current, RollbackLoc), Before(Current, RollbackLoc))
  /\ RollbackEffect(RollbackLoc)
  /\ PreviousOperation
  /\ UNCHANGED faults /\ UNCHANGED envVars

RollbackRefused ==
  /\ pc = "rollback" /\ armed
  /\ CanRefuse(RollbackLoc, After(Current, RollbackLoc), Before(Current, RollbackLoc))
  /\ IF Current.kind = "mkdir" /\ fs[RollbackLoc] = Missing
       THEN PreviousOperation ELSE RetainWorkspace
  /\ UNCHANGED <<fs, index, touched, faults>> /\ UNCHANGED diskVars
  /\ UNCHANGED envVars

RollbackFails ==
  /\ pc = "rollback" /\ Fault /\ RetainWorkspace
  /\ \/ UNCHANGED <<fs, index, touched>> /\ UNCHANGED diskVars
     \/ /\ armed
        /\ CanApply(RollbackLoc, After(Current, RollbackLoc),
                    Before(Current, RollbackLoc))
        /\ RollbackEffect(RollbackLoc)
  /\ UNCHANGED envVars

-----------------------------------------------------------------------------
(* remove_workspace: remove_dir_all takes the entries in directory order,  *)
(* so the manifest may go before or after the staged and rollback files.   *)

MadeDirs(b) == {b[k].path : k \in {m \in DOMAIN b : b[m].kind = "mkdir"}}

\* A prepared directory that is deleted with the workspace looks like one
\* that was renamed into the vault.
RemovePayload ==
  /\ pc = "remove" /\ payload[cur]
  /\ payload' = [payload EXCEPT ![cur] = FALSE]
  /\ \E S \in SUBSET MadeDirs(batch[cur]) :
       owned' = [owned EXCEPT ![cur] = @ \cup S]
  /\ UNCHANGED <<fs, index, ws, durable, batch, touched, faults>>
  /\ UNCHANGED taskVars /\ UNCHANGED envVars

RemoveManifest ==
  /\ pc = "remove" /\ ws[cur] # "debris"
  /\ ws' = [ws EXCEPT ![cur] = "debris"]
  /\ durable' = [durable EXCEPT ![cur] = "debris"]
  /\ UNCHANGED <<fs, index, batch, owned, payload, touched, faults>>
  /\ UNCHANGED taskVars /\ UNCHANGED envVars

RemoveDirectory ==
  /\ pc = "remove" /\ ws[cur] = "debris" /\ ~payload[cur]
  /\ ws' = [ws EXCEPT ![cur] = "none"]
  /\ durable' = [durable EXCEPT ![cur] = "none"]
  /\ IF proc = "serving"
       THEN reply' = [reply EXCEPT ![cur] = verdict] /\ pc' = "idle"
       ELSE pc' = "scan" /\ UNCHANGED reply
  /\ UNCHANGED <<proc, cur, i, j, armed, verdict, recovered>>
  /\ UNCHANGED <<fs, index, batch, owned, payload, touched, faults>>
  /\ UNCHANGED envVars

\* Removal stops part of the way, or only the flush of the parent fails.
RemoveFails ==
  /\ pc = "remove" /\ Fault /\ RetainWorkspace
  /\ \/ UNCHANGED <<ws, durable>>
     \/ /\ ws[cur] = "debris" /\ ~payload[cur]
        /\ ws' = [ws EXCEPT ![cur] = "none"]
        /\ durable' = [durable EXCEPT ![cur] = "none"]
  /\ UNCHANGED <<fs, index, batch, owned, payload, touched>> /\ UNCHANGED envVars

-----------------------------------------------------------------------------
(* Startup: recover_pending resolves the workspaces in creation order,     *)
(* collecting the committed ones; the index is built from the vault; the   *)
(* collected ones are finished; the server serves.                         *)

Restart ==
  /\ proc = "down"
  /\ proc' = "recovering" /\ pc' = "scan" /\ recovered' = {}
  /\ UNCHANGED <<cur, i, j, armed, verdict, reply, fs, index, touched, faults>>
  /\ UNCHANGED diskVars /\ UNCHANGED envVars

Unresolved == {t \in Tx : ws[t] # "none" /\ t \notin recovered}

Oldest(t, S) == t \in S /\ \A u \in S : t <= u

\* Mutant: a Committing workspace is swept like a Prepared one.
RecoverPending_SweepsCommitting ==
  /\ proc = "recovering" /\ pc = "scan"
  /\ \E t \in Tx :
       /\ Oldest(t, Unresolved)
       /\ cur' = t /\ armed' = FALSE /\ verdict' = "failed"
       /\ i' = Len(batch[t]) /\ j' = 1
       /\ IF ws[t] = "committed"
            THEN pc' = "scan" /\ recovered' = recovered \cup {t}
            ELSE pc' = "remove" /\ UNCHANGED recovered
  /\ UNCHANGED <<proc, reply, fs, index, touched, faults>>
  /\ UNCHANGED diskVars /\ UNCHANGED envVars

RecoverPending ==
  /\ proc = "recovering" /\ pc = "scan"
  /\ \E t \in Tx :
       /\ Oldest(t, Unresolved)
       /\ cur' = t /\ armed' = FALSE /\ verdict' = "failed"
       /\ i' = Len(batch[t]) /\ j' = 1
       /\ IF ws[t] = "committed"
            THEN pc' = "scan" /\ recovered' = recovered \cup {t}
            ELSE /\ pc' = IF ws[t] = "committing" THEN "rollback" ELSE "remove"
                 /\ UNCHANGED recovered
  /\ UNCHANGED <<proc, reply, fs, index, touched, faults>>
  /\ UNCHANGED diskVars /\ UNCHANGED envVars

BuildIndex ==
  /\ proc = "recovering" /\ pc = "scan" /\ Unresolved = {}
  /\ proc' = "finishing" /\ pc' = "replay"
  /\ index' = [l \in Indexed |-> fs[l]] /\ edited' = {}
  /\ UNCHANGED <<cur, i, j, armed, verdict, reply, recovered>>
  /\ UNCHANGED <<fs, touched, edits, faults, crashes>> /\ UNCHANGED diskVars

\* The events of the recovered batches are applied once more, in creation
\* order, so that the newest batch that concerns a location decides.
Replaying(l) == {t \in recovered : l \in Footprint(batch[t])}

Newest(t, S) == t \in S /\ \A u \in S : u <= t

\* Nothing is promised of a location whose events somebody else overtook.
Overtaken == {l \in Indexed : Replaying(l) \cap touched # {}}

ReplayRecovered ==
  /\ pc = "replay" /\ \A t \in recovered : CanReconcile(batch[t])
  /\ index' = [l \in Indexed |->
                 IF \E t \in Tx : Newest(t, Replaying(l))
                   THEN EventResult(batch[CHOOSE t \in Tx : Newest(t, Replaying(l))], l)
                   ELSE index[l]]
  /\ edited' = edited \cup Overtaken
  /\ pc' = "scan"
  /\ UNCHANGED <<proc, cur, i, j, armed, verdict, reply, recovered>>
  /\ UNCHANGED <<fs, touched, edits, faults, crashes>> /\ UNCHANGED diskVars

Abort ==
  /\ proc' = "down" /\ pc' = "idle" /\ recovered' = {}
  /\ UNCHANGED <<cur, i, j, armed, verdict, reply, fs, index, touched>>
  /\ UNCHANGED diskVars /\ UNCHANGED envVars

ReplayRefused ==
  /\ pc = "replay" /\ \E t \in recovered : ~CanReconcile(batch[t])
  /\ Abort /\ UNCHANGED faults

StartupFails == pc \in {"scan", "replay"} /\ Fault /\ Abort

FinishRecovered ==
  /\ proc = "finishing" /\ pc = "scan"
  /\ \E t \in Tx : /\ Oldest(t, recovered)
                   /\ cur' = t /\ recovered' = recovered \ {t}
  /\ pc' = "remove" /\ verdict' = "ok" /\ armed' = FALSE
  /\ UNCHANGED <<proc, i, j, reply, fs, index, touched, faults>>
  /\ UNCHANGED diskVars /\ UNCHANGED envVars

\* Mutant: committed transactions are left for the next start.
Serve_LeavesRecovered ==
  /\ proc = "finishing" /\ pc = "scan"
  /\ proc' = "serving" /\ pc' = "idle" /\ recovered' = {}
  /\ UNCHANGED <<cur, i, j, armed, verdict, reply>>
  /\ UNCHANGED <<fs, index, touched, faults>> /\ UNCHANGED diskVars
  /\ UNCHANGED envVars

Serve ==
  /\ proc = "finishing" /\ pc = "scan" /\ recovered = {}
  /\ proc' = "serving" /\ pc' = "idle"
  /\ UNCHANGED <<cur, i, j, armed, verdict, reply, recovered>>
  /\ UNCHANGED <<fs, index, touched, faults>> /\ UNCHANGED diskVars
  /\ UNCHANGED envVars

-----------------------------------------------------------------------------
(* The environment.                                                        *)

\* The process dies.  A manifest that was not flushed may revert.
Crash ==
  /\ proc # "down" /\ crashes < MaxCrashes /\ crashes' = crashes + 1
  /\ proc' = "down" /\ pc' = "idle" /\ armed' = FALSE /\ recovered' = {}
  /\ ws' \in [Tx -> Phases] /\ durable' = ws'
  /\ \A t \in Tx : ws'[t] \in {ws[t], durable[t]}
  /\ UNCHANGED <<cur, i, j, verdict, reply, fs, index, batch, owned, payload,
                 touched, edited, edits, faults>>

\* Another program changes the vault: a page is written or deleted, a
\* directory made or removed, a rubbish item purged.
CanHold(l, v) ==
  /\ l \in Paths => v # Directory
  /\ l \in Dirs  => v \in {Missing, Directory}
  /\ l \in Items => v = Missing

Edit(l, v) ==
  /\ edits < MaxEdits /\ edits' = edits + 1
  /\ fs[l] # v /\ CanHold(l, v)
  /\ v # Missing => Present(Parent[l])
  /\ (l \in Dirs /\ v = Missing) => EmptyDir(l)
  /\ fs' = [fs EXCEPT ![l] = v]
  /\ edited' = edited \cup {l}
  /\ Touch(l, {})
  /\ UNCHANGED <<index, faults, crashes>> /\ UNCHANGED diskVars
  /\ UNCHANGED taskVars

-----------------------------------------------------------------------------
\* A vault a user could have: every file and directory is in a directory.
PossibleVault(f) ==
  /\ f \in [Loc -> Values]
  /\ \A l \in Paths : f[l] # Directory
  /\ \A l \in Items : f[l] # Directory
  /\ \A l \in Dirs  : f[l] \in {Missing, Directory}
  /\ \A l \in Paths \cup Dirs :
       (f[l] # Missing /\ Parent[l] # Root) => f[Parent[l]] = Directory

Init ==
  /\ PossibleVault(fs)
  /\ index = [l \in Indexed |-> fs[l]]
  /\ ws = [t \in Tx |-> "none"] /\ durable = [t \in Tx |-> "none"]
  /\ batch = [t \in Tx |-> <<>>] /\ owned = [t \in Tx |-> {}]
  /\ payload = [t \in Tx |-> FALSE]
  /\ proc = "serving" /\ pc = "idle" /\ cur \in Tx /\ Oldest(cur, Tx) /\ i = 1 /\ j = 1
  /\ armed = FALSE /\ verdict = "failed" /\ reply = [t \in Tx |-> "none"]
  /\ recovered = {} /\ touched = {} /\ edited = {}
  /\ edits = 0 /\ faults = 0 /\ crashes = 0

\* The steps the running process takes by itself.
TaskStep ==
  \/ WriteManifest \/ SyncManifest \/ WritePhase \/ SyncPhase
  \/ PublishCheck \/ PublishIntent \/ PublishRefused
  \/ ReconcileIndex \/ ReconcileIndexRefused
  \/ RollbackCheck \/ RollbackUnreadable \/ RollbackIntent \/ RollbackRefused
  \/ RemovePayload \/ RemoveManifest \/ RemoveDirectory
  \/ RecoverPending \/ BuildIndex \/ ReplayRecovered \/ ReplayRefused
  \/ FinishRecovered \/ Serve

FaultStep ==
  \/ PrepareFails \/ WritePhaseFails \/ PhaseUncertain \/ PublishFails
  \/ ReconcileIndexFails \/ RollbackFails \/ RemoveFails \/ StartupFails

Next ==
  \/ TaskStep \/ FaultStep \/ Restart \/ Crash
  \/ \E t \in Tx, b \in Batches : Prepare(t, b)
  \/ \E l \in Loc, v \in Values : Edit(l, v)

Spec == Init /\ [][Next]_vars

\* A blocking task runs until it ends and an operator restarts the server.
FairSpec == Spec /\ WF_vars(TaskStep) /\ WF_vars(Restart)

-----------------------------------------------------------------------------
(* Properties.                                                             *)

TypeOK ==
  /\ fs \in [Loc -> Values] /\ index \in [Indexed -> Values]
  /\ ws \in [Tx -> Phases] /\ durable \in [Tx -> Phases]
  /\ batch \in [Tx -> Batches \cup {<<>>}]
  /\ owned \in [Tx -> SUBSET Loc] /\ payload \in [Tx -> BOOLEAN]
  /\ proc \in {"serving", "recovering", "finishing", "down"}
  /\ pc \in {"idle", "prepare", "seal", "toCommitting", "syncCommitting",
             "publish", "toCommitted", "syncCommitted", "index", "rollback",
             "remove", "scan", "replay"}
  /\ cur \in Tx /\ i \in Nat /\ j \in Nat /\ armed \in BOOLEAN
  /\ verdict \in {"ok", "failed"}
  /\ reply \in [Tx -> {"none", "ok", "failed", "retained"}]
  /\ recovered \subseteq Tx /\ touched \subseteq Tx /\ edited \subseteq Loc
  /\ edits \in 0..MaxEdits /\ faults \in 0..MaxFaults /\ crashes \in 0..MaxCrashes

IntentsBefore(t, K) ==
  \A k \in K : \A l \in Locs(batch[t][k]) : fs[l] = Before(batch[t][k], l)
IntentsAfter(t, K) ==
  \A k \in K : \A l \in Locs(batch[t][k]) : fs[l] = After(batch[t][k], l)

AllBefore(t) == IntentsBefore(t, DOMAIN batch[t])
AllAfter(t)  == IntentsAfter(t, DOMAIN batch[t])
EachBeforeOrAfter(t) ==
  \A k \in DOMAIN batch[t] : \A l \in Locs(batch[t][k]) :
    fs[l] \in {Before(batch[t][k], l), After(batch[t][k], l)}

\* A manifest in phase p describes the vault correctly.
PhaseTells(t, p) ==
  /\ p = "prepared" => AllBefore(t)
  /\ p = "committing" => EachBeforeOrAfter(t)
  /\ p = "committed" => AllAfter(t)

\* The phase a workspace shows, and the phase a power loss would leave,
\* both describe the vault: recovery acts on a manifest that is true, unless
\* someone else changed the files of the batch (change_phase, publish_inner).
ManifestIsTrue ==
  \A t \in Tx \ touched : PhaseTells(t, ws[t]) /\ PhaseTells(t, durable[t])

\* Once the manifest is gone recovery can do nothing more, so by then the
\* batch is entirely applied or entirely absent (remove_workspace is reached
\* only after a full rollback or a full publication).
AllOrNothing ==
  \A t \in Tx \ touched : ws[t] = "debris" => AllBefore(t) \/ AllAfter(t)

\* A caller told of success finds every file of the batch in the vault, and
\* a caller told of a clean failure finds none of it
\* (execute_batch_with_guard's Ok, and its errors without a workspace).
AnswerMatchesVault ==
  [][\A t \in Tx \ touched :
       /\ (reply[t] = "none" /\ reply'[t] = "ok") => AllAfter(t)
       /\ (reply[t] = "none" /\ reply'[t] = "failed") => AllBefore(t)]_vars

\* While the server is idle the index agrees with the vault except where a
\* workspace was retained or another program wrote: no failure path forgets
\* the index (reconcile_batch_index and its compensation).
IndexCoherent ==
  (proc = "serving" /\ pc = "idle") =>
    \A l \in Indexed \ edited :
      (\A t \in Tx : ws[t] # "none" => l \notin Footprint(batch[t]))
        => index[l] = fs[l]

\* Startup gives up without an I/O error only on a workspace that somebody
\* else's write concerns, or whose removal had already begun
\* (rollback_manifest's conflicts, read_verified, index_page on a lost page).
RecoveryRefusesOnlyForCause ==
  [][(/\ proc # "down" /\ proc' = "down" /\ proc # "serving"
      /\ faults' = faults /\ crashes' = crashes)
     => IF pc = "replay" THEN recovered \cap touched # {}
        ELSE cur \in touched \/ ~payload[cur]]_vars

\* When the server starts serving no workspace is left and the index is that
\* of the vault on disk, save where a later write overtook a recovered batch
\* (build_app_state_with_settings).
StartupResolvesAll ==
  [][(proc # "serving" /\ proc' = "serving")
     => /\ \A t \in Tx : ws[t] = "none"
        /\ \A l \in Indexed \ edited : index[l] = fs[l]]_vars

(* The abstract vault: a batch counts from the moment its commit is        *)
(* durable, so until then its files are seen as they were before.          *)

Affects(t, l) == durable[t] = "committing" /\ l \in Footprint(batch[t])

LogicalVault ==
  [l \in Loc |->
     IF \E t \in Tx \ touched : Affects(t, l)
       THEN LET t == CHOOSE u \in Tx \ touched : Affects(u, l)
            IN  Before(IntentFor(batch[t], l), l)
       ELSE fs[l]]

ChangeOf(b) ==
  [before |-> [l \in Footprint(b) |-> Before(IntentFor(b, l), l)],
   after  |-> [l \in Footprint(b) |-> After(IntentFor(b, l), l)]]

BatchChanges == {ChangeOf(b) : b \in Batches}

Abstract == INSTANCE AtomicVault
  WITH vault <- LogicalVault, interfered <- (touched # {}),
       Changes <- BatchChanges

\* The transaction protocol implements the atomic vault: through crashes,
\* failing calls and recovery, readers of the resolved vault see whole
\* batches or nothing (publish_batch, recover_pending).
AtomicCommit == Abstract!Spec

\* A workspace that startup cannot resolve by itself.
Blocked ==
  \E t \in Tx : \/ ws[t] = "committing" /\ (t \in touched \/ ~payload[t])
                \/ ws[t] = "committed" /\ t \in touched

\* Every submitted batch is answered or its process dies: publication, index
\* update, rollback and removal all come to an end, whatever the vault does
\* meanwhile (execute_batch_with_guard).
TaskEnds == (proc = "serving" /\ pc # "idle") ~> (pc = "idle")

\* A dead server serves again, unless a workspace that somebody else's write
\* concerns, or one half removed, blocks its startup (recover_pending).
ServerComesBack == (proc = "down") ~> (proc = "serving" \/ Blocked)

\* Both: no task hangs and no crash is the last word.
ComesToRest == TaskEnds /\ ServerComesBack

(***************************************************************************)
(* What docs, comments or tests say and the code does not keep: see        *)
(* "Known divergences" in the README.                                      *)
(***************************************************************************)
\* What the recovery tests say of an interrupted rollback: the next start
\* resumes it and succeeds.
RecoveryResumes ==
  [][(proc = "recovering" /\ proc' = "down") => crashes' # crashes]_vars

\* "recover before continuing": what a batch was acknowledged for is not
\* undone when an older batch, retained by then, is rolled back later.
AcknowledgedSurvives ==
  [][(proc = "recovering" /\ edits' = edits) =>
       \A t \in Tx : (t > cur /\ reply[t] = "ok") =>
         \A l \in Footprint(batch[t]) : fs'[l] = fs[l]]_vars

\* The authored file is authoritative and the index is rebuilt from it: with
\* no other program at work, the index a server starts with is the vault's.
StartupIndexIsVault ==
  [][(proc # "serving" /\ proc' = "serving" /\ edits = 0)
     => \A l \in Indexed : index[l] = fs[l]]_vars

\* A batch whose index update or clean-up failed is retained in a state that
\* the next start can recover.
RetainedIsRecoverable ==
  [][(proc = "finishing" /\ proc' = "down")
     => faults' # faults \/ crashes' # crashes \/ edits > 0]_vars

=============================================================================
