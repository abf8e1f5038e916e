------------------------- MODULE BatchMutationProofs -------------------------
(***************************************************************************)
(* Proofs about BatchMutation, for every vault, every set of batches and   *)
(* every bound.                                                            *)
(*                                                                         *)
(*   1. Control: where the task is and which phases its workspace has.     *)
(*   2. Truth: what the vault holds while a transaction is unresolved, of  *)
(*      transactions with whose files nobody else interfered.              *)
(*   3. Refinement: the protocol implements AtomicVault.                   *)
(*   4. Index: it follows the vault, and startup resolves everything.      *)
(*   5. Recovery: a batch with which nobody interfered can be undone.      *)
(*                                                                         *)
(* Each part rests on the ones before it.                                  *)
(***************************************************************************)
EXTENDS BatchMutation, TLAPS

-----------------------------------------------------------------------------
(* The control part of the inductive invariant: where the task is, and     *)
(* which phases its workspace can be in there.                             *)

Busy == {"prepare", "seal", "toCommitting", "syncCommitting", "publish",
         "toCommitted", "syncCommitted", "index", "rollback", "remove"}

\* Positions in the batch.
Position ==
  /\ pc \in {"prepare", "seal", "toCommitting", "syncCommitting"} => i = 1 /\ j = 1
  /\ pc \in {"publish", "rollback"} => i \in 1..Len(batch[cur])
  /\ pc = "publish" => j \in 1..Len(PublishOrder(batch[cur][i]))
  /\ pc = "rollback" => j \in 1..Len(RollbackOrder(batch[cur][i]))

\* Workspaces and the lists that name them.
Workspaces ==
  /\ \A t \in Tx : (ws[t] = "none") <=> (durable[t] = "none")
  /\ \A t \in Tx : ws[t] # "none" => batch[t] # <<>>
  /\ \A t \in recovered : ws[t] = "committed"
  /\ pc \in Busy => ws[cur] # "none" /\ cur \notin recovered

\* Which process runs what.
Processes ==
  /\ proc = "serving" => recovered = {} /\ pc \notin {"scan", "replay"}
  /\ proc # "serving" => durable = ws
  /\ pc \in Busy \ {"rollback", "remove"} => proc = "serving"
  /\ proc = "down" => pc = "idle" /\ recovered = {}

\* The phase on disk at each place of the task.
PhaseAt(p, shown, flushed) ==
  pc = p => ws[cur] = shown /\ durable[cur] = flushed

PlacePhase ==
  /\ PhaseAt("prepare", "debris", "debris")
  /\ PhaseAt("seal", "prepared", "debris")
  /\ PhaseAt("toCommitting", "prepared", "prepared")
  /\ PhaseAt("syncCommitting", "committing", "prepared")
  /\ PhaseAt("publish", "committing", "committing")
  /\ PhaseAt("rollback", "committing", "committing")
  /\ PhaseAt("toCommitted", "committing", "committing")
  /\ PhaseAt("syncCommitted", "committed", "committing")
  /\ Deferred(batch[cur]) => PhaseAt("index", "committing", "committing")
  /\ ~Deferred(batch[cur]) => PhaseAt("index", "committed", "committed")

Control == TypeOK /\ Position /\ Workspaces /\ Processes /\ PlacePhase

-----------------------------------------------------------------------------
(* Operators.                                                              *)

\* A batch in a manifest is a sequence of well-formed intents.
LEMMA BatchType ==
  ASSUME TypeOK, NEW t \in Tx
  PROVE  /\ batch[t] \in Seq(Intents)
         /\ Len(batch[t]) \in Nat
         /\ DOMAIN batch[t] = 1..Len(batch[t])
         /\ \A k \in DOMAIN batch[t] : batch[t][k] \in Intents /\ WellTyped(batch[t][k])
         /\ batch[t] # <<>> => Len(batch[t]) >= 1
<1>1. CASE batch[t] = <<>>
  BY <1>1
<1>2. CASE batch[t] \in Batches
  BY <1>2, BatchAssumption
<1> QED BY <1>1, <1>2 DEF TypeOK

\* What an intent says of a location is a value a location can hold.
LEMMA ValueType ==
  ASSUME NEW it \in Intents, NEW l
  PROVE  Before(it, l) \in Values /\ After(it, l) \in Values
<1>1. it.kind \in Kinds /\ it.old \in Values /\ it.new \in Values
  BY DEF Intents
<1>2. Missing \in Values /\ Directory \in Values
  BY DEF Values
<1> QED BY <1>1, <1>2, SMT DEF Before, After, Kinds

\* Both orders list the locations of the intent, each once.
LEMMA OrderType ==
  ASSUME NEW it \in Intents
  PROVE  /\ Len(PublishOrder(it)) \in {1, 2}
         /\ \A m \in 1..Len(PublishOrder(it)) :
              PublishOrder(it)[m] \in Locs(it) /\ PublishOrder(it)[m] \in Loc
         /\ \A l \in Locs(it) : \E m \in 1..Len(PublishOrder(it)) : PublishOrder(it)[m] = l
         /\ Len(RollbackOrder(it)) \in {1, 2}
         /\ \A m \in 1..Len(RollbackOrder(it)) :
              RollbackOrder(it)[m] \in Locs(it) /\ RollbackOrder(it)[m] \in Loc
         /\ \A l \in Locs(it) : \E m \in 1..Len(RollbackOrder(it)) : RollbackOrder(it)[m] = l
<1>0. it.kind \in Kinds /\ it.path \in Loc /\ it.to \in Loc
  BY DEF Intents
<1>1. CASE it.kind = "move"
  <2>1. PublishOrder(it) = <<it.to, it.path>> /\ RollbackOrder(it) = <<it.path, it.to>>
        /\ Locs(it) = {it.path, it.to}
    BY <1>1 DEF PublishOrder, RollbackOrder, Locs
  <2> QED BY <1>0, <2>1
<1>2. CASE it.kind = "archive"
  <2>1. PublishOrder(it) = <<it.to, it.path>> /\ RollbackOrder(it) = <<it.to, it.path>>
        /\ Locs(it) = {it.path, it.to}
    BY <1>2 DEF PublishOrder, RollbackOrder, Locs
  <2> QED BY <1>0, <2>1
<1>3. CASE it.kind = "restore"
  <2>1. PublishOrder(it) = <<it.path, it.to>> /\ RollbackOrder(it) = <<it.to, it.path>>
        /\ Locs(it) = {it.path, it.to}
    BY <1>3 DEF PublishOrder, RollbackOrder, Locs
  <2> QED BY <1>0, <2>1
<1>4. CASE it.kind \notin {"move", "archive", "restore"}
  <2>1. PublishOrder(it) = <<it.path>> /\ RollbackOrder(it) = <<it.path>>
        /\ Locs(it) = {it.path}
    BY <1>4 DEF PublishOrder, RollbackOrder, Locs
  <2> QED BY <1>0, <2>1
<1> QED BY <1>1, <1>2, <1>3, <1>4

\* Applying an index event leaves a value in the row.
LEMMA EventType ==
  ASSUME TypeOK, NEW t \in Tx, NEW l \in Indexed, l \in Footprint(batch[t])
  PROVE  EventResult(batch[t], l) \in Values
<1>1. \E k \in DOMAIN batch[t] : l \in Locs(batch[t][k])
  BY DEF Footprint
<1>2. IntentFor(batch[t], l) \in Intents
  BY <1>1, BatchType DEF IntentFor
<1>3. fs[l] \in Values
  BY DEF TypeOK, Indexed, Loc
<1> QED BY <1>2, <1>3, ValueType DEF EventResult

-----------------------------------------------------------------------------
(* Moves of the task's position.                                           *)

Placed == Position /\ i \in Nat /\ j \in Nat

\* The bounds of the two loops of a transaction.
LEMMA Bounds ==
  ASSUME TypeOK, NEW t \in Tx
  PROVE  /\ Len(batch[t]) \in Nat
         /\ batch[t] # <<>> => Len(batch[t]) >= 1
         /\ \A k \in 1..Len(batch[t]) : /\ Len(PublishOrder(batch[t][k])) \in Nat
                                        /\ Len(PublishOrder(batch[t][k])) >= 1
                                        /\ Len(RollbackOrder(batch[t][k])) \in Nat
                                        /\ Len(RollbackOrder(batch[t][k])) >= 1
<1>1. \A k \in 1..Len(batch[t]) : batch[t][k] \in Intents
  BY BatchType
<1>2. \A it \in Intents : /\ Len(PublishOrder(it)) \in {1, 2}
                          /\ Len(RollbackOrder(it)) \in {1, 2}
  BY OrderType
<1>3. \A n : n \in {1, 2} => n \in Nat /\ n >= 1
  OBVIOUS
<1> QED BY <1>1, <1>2, <1>3, BatchType

\* A rollback begins at the first operation of the last intent.
LEMMA StartRollbackPlaced ==
  ASSUME TypeOK, batch[cur] # <<>>, StartRollback, UNCHANGED batch
  PROVE  Placed'
<1>1. /\ pc' = "rollback" /\ i' = Len(batch[cur]) /\ j' = 1 /\ cur' = cur
      /\ batch' = batch /\ cur \in Tx
  BY DEF StartRollback, TypeOK
<1>2. i' \in 1..Len(batch[cur])
  BY <1>1, Bounds
<1>3. 1 \in 1..Len(RollbackOrder(batch[cur][i']))
  BY <1>1, <1>2, Bounds
<1> QED BY <1>1, <1>2, <1>3 DEF Placed, Position

\* The publication loop stays inside the batch or leaves it with the phase
\* that the next part of the task expects.
LEMMA NextOperationPlaced ==
  ASSUME TypeOK, Position, pc = "publish", NextOperation, UNCHANGED batch
  PROVE  Placed'
<1>1. /\ cur' = cur /\ batch' = batch /\ cur \in Tx /\ i \in Nat /\ j \in Nat
      /\ i \in 1..Len(batch[cur]) /\ j \in 1..Len(PublishOrder(batch[cur][i]))
  BY DEF NextOperation, TypeOK, Position
<1>2. CASE j < Len(PublishOrder(Current))
  <2>1. pc' = "publish" /\ i' = i /\ j' = j + 1
    BY <1>2 DEF NextOperation
  <2>2. j + 1 \in 1..Len(PublishOrder(batch[cur][i]))
    BY <1>1, <1>2, Bounds DEF Current
  <2> QED BY <1>1, <2>1, <2>2 DEF Placed, Position
<1>3. CASE ~(j < Len(PublishOrder(Current))) /\ i < Len(batch[cur])
  <2>1. pc' = "publish" /\ i' = i + 1 /\ j' = 1
    BY <1>3 DEF NextOperation
  <2>2. i + 1 \in 1..Len(batch[cur])
    BY <1>1, <1>3, Bounds
  <2>3. 1 \in 1..Len(PublishOrder(batch[cur][i + 1]))
    BY <1>1, <2>2, Bounds
  <2> QED BY <1>1, <2>1, <2>2, <2>3 DEF Placed, Position
<1>4. CASE ~(j < Len(PublishOrder(Current))) /\ ~(i < Len(batch[cur]))
  <2>1. pc' \in {"index", "toCommitted"} /\ i' = i /\ j' = j
    BY <1>4 DEF NextOperation
  <2> QED BY <1>1, <2>1 DEF Placed, Position
<1> QED BY <1>2, <1>3, <1>4

\* The rollback loop stays inside the batch or goes on to the removal.
LEMMA PreviousOperationPlaced ==
  ASSUME TypeOK, Position, pc = "rollback", PreviousOperation, UNCHANGED batch
  PROVE  Placed'
<1>1. /\ cur' = cur /\ batch' = batch /\ cur \in Tx /\ i \in Nat /\ j \in Nat
      /\ i \in 1..Len(batch[cur]) /\ j \in 1..Len(RollbackOrder(batch[cur][i]))
  BY DEF PreviousOperation, TypeOK, Position
<1>2. CASE j < Len(RollbackOrder(Current))
  <2>1. pc' = "rollback" /\ i' = i /\ j' = j + 1
    BY <1>2 DEF PreviousOperation
  <2>2. j + 1 \in 1..Len(RollbackOrder(batch[cur][i]))
    BY <1>1, <1>2, Bounds DEF Current
  <2> QED BY <1>1, <2>1, <2>2 DEF Placed, Position
<1>3. CASE ~(j < Len(RollbackOrder(Current))) /\ i > 1
  <2>1. pc' = "rollback" /\ i' = i - 1 /\ j' = 1
    BY <1>3 DEF PreviousOperation
  <2>2. i - 1 \in 1..Len(batch[cur])
    BY <1>1, <1>3, Bounds
  <2>3. 1 \in 1..Len(RollbackOrder(batch[cur][i - 1]))
    <3>1. /\ Len(RollbackOrder(batch[cur][i - 1])) \in Nat
          /\ Len(RollbackOrder(batch[cur][i - 1])) >= 1
      BY <1>1, <2>2, Bounds
    <3> QED BY <3>1
  <2> QED BY <1>1, <2>1, <2>2, <2>3 DEF Placed, Position
<1>4. CASE ~(j < Len(RollbackOrder(Current))) /\ ~(i > 1)
  <2>1. pc' = "remove" /\ i' = i /\ j' = j
    BY <1>4 DEF PreviousOperation
  <2> QED BY <1>1, <2>1 DEF Placed, Position
<1> QED BY <1>2, <1>3, <1>4

-----------------------------------------------------------------------------
(* Control is inductive.                                                   *)

\* Every step of the protocol, of its environment, and every stuttering step
\* preserves the control invariant.
LEMMA ControlStep ==
  ASSUME Control, [Next]_vars
  PROVE  Control'
<1>a. /\ TypeOK /\ Position /\ cur \in Tx /\ i \in Nat /\ j \in Nat
      /\ pc \in Busy => batch[cur] # <<>>
      /\ pc \in {"publish", "toCommitted", "index"} => batch[cur] # <<>>
  BY DEF Control, TypeOK, Workspaces, Busy
<1>b. Fault => faults' \in 0..MaxFaults
  BY BoundAssumption DEF Fault, Control, TypeOK
<1>c. ASSUME pc \in {"publish", "rollback"}, NEW l
      PROVE  After(Current, l) \in Values /\ Before(Current, l) \in Values
  BY <1>a, <1>c, BatchType, ValueType DEF Position, Current
<1>d. /\ pc = "publish" => PublishLoc \in Loc
      /\ pc = "rollback" => RollbackLoc \in Loc
  <2>1. pc \in {"publish", "rollback"} => Current \in Intents
    BY <1>a, BatchType DEF Position, Current
  <2> QED BY <1>a, <2>1, OrderType DEF Position, Current, PublishLoc, RollbackLoc
<1>1. CASE WriteManifest
  BY <1>1 DEF WriteManifest, GoTo, Control, TypeOK, Workspaces, Processes, PlacePhase, PhaseAt, Busy, Phases, Position, envVars, diskVars, taskVars
<1>2. CASE SyncManifest
  BY <1>2 DEF SyncManifest, GoTo, Control, TypeOK, Workspaces, Processes, PlacePhase, PhaseAt, Busy, Phases, Position, envVars, diskVars, taskVars
<1>3. CASE PrepareFails
  <2> USE DEF PrepareFails, StartRemoval, envVars, diskVars, taskVars
  <2>1. Placed'
    BY <1>3, <1>b DEF Placed, Position, Control, TypeOK
  <2>2. TypeOK'
    BY <1>3, <2>1, <1>b DEF Placed, Control, TypeOK, Phases
  <2>3. Workspaces' /\ Processes' /\ PlacePhase'
    BY <1>3, <1>b DEF Control, TypeOK, Workspaces, Processes, PlacePhase, PhaseAt, Busy, Phases
  <2> QED BY <2>1, <2>2, <2>3 DEF Placed, Control
<1>4. CASE WritePhase
  BY <1>4 DEF WritePhase, GoTo, NextPhase, Control, TypeOK, Workspaces, Processes, PlacePhase, PhaseAt, Busy, Phases, Position, envVars, diskVars, taskVars
<1>5. CASE SyncPhase
  <2> USE DEF SyncPhase, AfterSync, NextPhase, GoTo, StartRemoval, envVars, diskVars, taskVars
  <2>0. pc = "syncCommitting" => /\ 1 \in 1..Len(batch[cur])
                                 /\ 1 \in 1..Len(PublishOrder(batch[cur][1]))
    <3> SUFFICES ASSUME pc = "syncCommitting" PROVE batch[cur] # <<>> /\ cur \in Tx
      BY <1>a, Bounds
    <3> QED BY <1>a DEF Control, Workspaces, TypeOK, Busy
  <2>1. Placed'
    BY <1>5, <2>0 DEF Placed, Position, Control, TypeOK
  <2>2. TypeOK'
    BY <1>5, <2>1 DEF Placed, Control, TypeOK, Phases
  <2>3. Workspaces' /\ Processes' /\ PlacePhase'
    BY <1>5 DEF Control, TypeOK, Workspaces, Processes, PlacePhase, PhaseAt, Busy, Phases
  <2> QED BY <2>1, <2>2, <2>3 DEF Placed, Control
<1>6. CASE WritePhaseFails
  <2> USE DEF WritePhaseFails, StartRemoval, RetainWorkspace, envVars, diskVars, taskVars
  <2>1. Placed'
    <3>1. CASE StartRollback
      BY <1>6, <3>1, <1>a, StartRollbackPlaced DEF Busy
    <3>2. CASE ~StartRollback
      BY <1>6, <3>2, <1>a DEF Placed, Position
    <3> QED BY <3>1, <3>2
  <2>2. TypeOK'
    BY <1>6, <2>1, <1>b DEF StartRollback, Placed, Control, TypeOK, Phases
  <2>3. Workspaces' /\ Processes' /\ PlacePhase'
    BY <1>6, <1>b DEF StartRollback, Control, TypeOK, Workspaces, Processes, PlacePhase, PhaseAt, Busy, Phases
  <2> QED BY <2>1, <2>2, <2>3 DEF Placed, Control
<1>7. CASE PhaseUncertain
  BY <1>7, <1>b DEF PhaseUncertain, RetainWorkspace, NextPhase, Control, TypeOK, Workspaces, Processes, PlacePhase, PhaseAt, Busy, Phases, Position, envVars, diskVars, taskVars
<1>8. CASE PublishCheck
  <2> USE DEF PublishCheck, envVars, diskVars, taskVars
  <2>1. Placed'
    <3>1. CASE NextOperation
      BY <1>8, <3>1, <1>a, NextOperationPlaced
    <3>2. CASE StartRollback
      BY <1>8, <3>2, <1>a, StartRollbackPlaced
    <3>3. CASE ~NextOperation /\ ~StartRollback
      BY <1>8, <3>3, <1>a DEF Placed, Position, Arm
    <3> QED BY <3>1, <3>2, <3>3
  <2>3. TypeOK'
    BY <1>8, <2>1, <1>b DEF Placed, NextOperation, StartRollback, Arm, Control, TypeOK
  <2>4. Workspaces' /\ Processes' /\ PlacePhase'
    BY <1>8 DEF NextOperation, StartRollback, Arm, Control, TypeOK, Workspaces, Processes, PlacePhase, PhaseAt, Busy, Phases
  <2> QED BY <2>1, <2>3, <2>4 DEF Placed, Control
<1>9. CASE PublishIntent
  <2> USE DEF PublishIntent, envVars, diskVars, taskVars, PublishEffect
  <2>1. Placed'
    <3>1. CASE NextOperation
      BY <1>9, <3>1, <1>a, NextOperationPlaced
    <3>2. CASE StartRollback
      BY <1>9, <3>2, <1>a, StartRollbackPlaced
    <3>3. CASE ~NextOperation /\ ~StartRollback
      BY <1>9, <3>3, <1>a DEF Placed, Position, Arm
    <3> QED BY <3>1, <3>2, <3>3
  <2>2. fs' \in [Loc -> Values] /\ owned' \in [Tx -> SUBSET Loc] /\ touched' \subseteq Tx
    BY <1>9, <1>a, <1>c, <1>d DEF TypeOK, Touch, OwnedAfterPublish, OwnedAfterRollback
  <2>3. TypeOK'
    BY <1>9, <2>1, <2>2, <1>b DEF Placed, NextOperation, StartRollback, Arm, Control, TypeOK
  <2>4. Workspaces' /\ Processes' /\ PlacePhase'
    BY <1>9 DEF NextOperation, StartRollback, Arm, Control, TypeOK, Workspaces, Processes, PlacePhase, PhaseAt, Busy, Phases
  <2> QED BY <2>1, <2>3, <2>4 DEF Placed, Control
<1>10. CASE PublishRefused
  <2> USE DEF PublishRefused, envVars, diskVars, taskVars
  <2>1. Placed'
    <3>1. CASE NextOperation
      BY <1>10, <3>1, <1>a, NextOperationPlaced
    <3>2. CASE StartRollback
      BY <1>10, <3>2, <1>a, StartRollbackPlaced
    <3>3. CASE ~NextOperation /\ ~StartRollback
      BY <1>10, <3>3, <1>a DEF Placed, Position, Arm
    <3> QED BY <3>1, <3>2, <3>3
  <2>3. TypeOK'
    BY <1>10, <2>1, <1>b DEF Placed, NextOperation, StartRollback, Arm, Control, TypeOK
  <2>4. Workspaces' /\ Processes' /\ PlacePhase'
    BY <1>10 DEF NextOperation, StartRollback, Arm, Control, TypeOK, Workspaces, Processes, PlacePhase, PhaseAt, Busy, Phases
  <2> QED BY <2>1, <2>3, <2>4 DEF Placed, Control
<1>11. CASE PublishFails
  <2> USE DEF PublishFails, envVars, diskVars, taskVars, PublishEffect
  <2>1. Placed'
    <3>1. CASE NextOperation
      BY <1>11, <3>1, <1>a, NextOperationPlaced
    <3>2. CASE StartRollback
      BY <1>11, <3>2, <1>a, StartRollbackPlaced
    <3>3. CASE ~NextOperation /\ ~StartRollback
      BY <1>11, <3>3, <1>a DEF Placed, Position, Arm
    <3> QED BY <3>1, <3>2, <3>3
  <2>2. fs' \in [Loc -> Values] /\ owned' \in [Tx -> SUBSET Loc] /\ touched' \subseteq Tx
    BY <1>11, <1>a, <1>c, <1>d DEF TypeOK, Touch, OwnedAfterPublish, OwnedAfterRollback
  <2>3. TypeOK'
    BY <1>11, <2>1, <2>2, <1>b DEF Placed, NextOperation, StartRollback, Arm, Control, TypeOK
  <2>4. Workspaces' /\ Processes' /\ PlacePhase'
    BY <1>11 DEF NextOperation, StartRollback, Arm, Control, TypeOK, Workspaces, Processes, PlacePhase, PhaseAt, Busy, Phases
  <2> QED BY <2>1, <2>3, <2>4 DEF Placed, Control
<1>12. CASE RollbackCheck
  <2> USE DEF RollbackCheck, envVars, diskVars, taskVars
  <2>1. Placed'
    <3>1. CASE PreviousOperation
      BY <1>12, <3>1, <1>a, PreviousOperationPlaced
    <3>2. CASE ~PreviousOperation
      BY <1>12, <3>2, <1>a DEF Placed, Position, Arm, RetainWorkspace
    <3> QED BY <3>1, <3>2
  <2>3. TypeOK'
    BY <1>12, <2>1, <1>b DEF Placed, PreviousOperation, RetainWorkspace, Arm, Control, TypeOK
  <2>4. Workspaces' /\ Processes' /\ PlacePhase'
    BY <1>12 DEF PreviousOperation, RetainWorkspace, Arm, Control, TypeOK, Workspaces, Processes, PlacePhase, PhaseAt, Busy, Phases
  <2> QED BY <2>1, <2>3, <2>4 DEF Placed, Control
<1>13. CASE RollbackUnreadable
  BY <1>13 DEF RollbackUnreadable, RetainWorkspace, Control, TypeOK, Workspaces, Processes, PlacePhase, PhaseAt, Busy, Phases, Position, envVars, diskVars, taskVars
<1>14. CASE RollbackIntent
  <2> USE DEF RollbackIntent, envVars, diskVars, taskVars, RollbackEffect
  <2>1. Placed'
    <3>1. CASE PreviousOperation
      BY <1>14, <3>1, <1>a, PreviousOperationPlaced
    <3>2. CASE ~PreviousOperation
      BY <1>14, <3>2, <1>a DEF Placed, Position, Arm, RetainWorkspace
    <3> QED BY <3>1, <3>2
  <2>2. fs' \in [Loc -> Values] /\ owned' \in [Tx -> SUBSET Loc] /\ touched' \subseteq Tx
    BY <1>14, <1>a, <1>c, <1>d DEF TypeOK, Touch, OwnedAfterPublish, OwnedAfterRollback
  <2>3. TypeOK'
    BY <1>14, <2>1, <2>2, <1>b DEF Placed, PreviousOperation, RetainWorkspace, Arm, Control, TypeOK
  <2>4. Workspaces' /\ Processes' /\ PlacePhase'
    BY <1>14 DEF PreviousOperation, RetainWorkspace, Arm, Control, TypeOK, Workspaces, Processes, PlacePhase, PhaseAt, Busy, Phases
  <2> QED BY <2>1, <2>3, <2>4 DEF Placed, Control
<1>15. CASE RollbackRefused
  <2> USE DEF RollbackRefused, envVars, diskVars, taskVars
  <2>1. Placed'
    <3>1. CASE PreviousOperation
      BY <1>15, <3>1, <1>a, PreviousOperationPlaced
    <3>2. CASE ~PreviousOperation
      BY <1>15, <3>2, <1>a DEF Placed, Position, Arm, RetainWorkspace
    <3> QED BY <3>1, <3>2
  <2>3. TypeOK'
    BY <1>15, <2>1, <1>b DEF Placed, PreviousOperation, RetainWorkspace, Arm, Control, TypeOK
  <2>4. Workspaces' /\ Processes' /\ PlacePhase'
    BY <1>15 DEF PreviousOperation, RetainWorkspace, Arm, Control, TypeOK, Workspaces, Processes, PlacePhase, PhaseAt, Busy, Phases
  <2> QED BY <2>1, <2>3, <2>4 DEF Placed, Control
<1>16. CASE RollbackFails
  <2> USE DEF RollbackFails, envVars, diskVars, taskVars, RollbackEffect
  <2>1. Placed'
    <3>1. CASE PreviousOperation
      BY <1>16, <3>1, <1>a, PreviousOperationPlaced
    <3>2. CASE ~PreviousOperation
      BY <1>16, <3>2, <1>a DEF Placed, Position, Arm, RetainWorkspace
    <3> QED BY <3>1, <3>2
  <2>2. fs' \in [Loc -> Values] /\ owned' \in [Tx -> SUBSET Loc] /\ touched' \subseteq Tx
    BY <1>16, <1>a, <1>c, <1>d DEF TypeOK, Touch, OwnedAfterPublish, OwnedAfterRollback
  <2>3. TypeOK'
    BY <1>16, <2>1, <2>2, <1>b DEF Placed, PreviousOperation, RetainWorkspace, Arm, Control, TypeOK
  <2>4. Workspaces' /\ Processes' /\ PlacePhase'
    BY <1>16 DEF PreviousOperation, RetainWorkspace, Arm, Control, TypeOK, Workspaces, Processes, PlacePhase, PhaseAt, Busy, Phases
  <2> QED BY <2>1, <2>3, <2>4 DEF Placed, Control
<1>17. CASE ReconcileIndex
  <2> USE DEF ReconcileIndex, envVars, diskVars, taskVars
  <2>0. index' \in [Indexed -> Values]
    BY <1>17, <1>a, EventType DEF Reconciled, TypeOK
  <2>1. Placed'
    <3>1. CASE StartRollback
      BY <1>17, <3>1, <1>a, StartRollbackPlaced
    <3>2. CASE ~StartRollback
      BY <1>17, <3>2, <1>a DEF Placed, Position, GoTo, StartRemoval, RetainWorkspace
    <3> QED BY <3>1, <3>2
  <2>2. TypeOK'
    BY <1>17, <2>0, <2>1, <1>b DEF Placed, GoTo, StartRemoval, StartRollback, RetainWorkspace, Control, TypeOK
  <2>3. Workspaces' /\ Processes' /\ PlacePhase'
    BY <1>17 DEF GoTo, StartRemoval, StartRollback, RetainWorkspace, Control, TypeOK, Workspaces, Processes, PlacePhase, PhaseAt, Busy, Phases
  <2> QED BY <2>1, <2>2, <2>3 DEF Placed, Control
<1>18. CASE ReconcileIndexRefused
  <2> USE DEF ReconcileIndexRefused, IndexAfterFailure, envVars, diskVars, taskVars
  <2>0. index' \in [Indexed -> Values]
    BY <1>18, <1>a, EventType DEF Reconciled, TypeOK
  <2>1. Placed'
    <3>1. CASE StartRollback
      BY <1>18, <3>1, <1>a, StartRollbackPlaced
    <3>2. CASE ~StartRollback
      BY <1>18, <3>2, <1>a DEF Placed, Position, GoTo, StartRemoval, RetainWorkspace
    <3> QED BY <3>1, <3>2
  <2>2. TypeOK'
    BY <1>18, <2>0, <2>1, <1>b DEF Placed, GoTo, StartRemoval, StartRollback, RetainWorkspace, Control, TypeOK
  <2>3. Workspaces' /\ Processes' /\ PlacePhase'
    BY <1>18 DEF GoTo, StartRemoval, StartRollback, RetainWorkspace, Control, TypeOK, Workspaces, Processes, PlacePhase, PhaseAt, Busy, Phases
  <2> QED BY <2>1, <2>2, <2>3 DEF Placed, Control
<1>19. CASE ReconcileIndexFails
  <2> USE DEF ReconcileIndexFails, IndexAfterFailure, envVars, diskVars, taskVars
  <2>0. index' \in [Indexed -> Values]
    BY <1>19, <1>a, EventType DEF Reconciled, TypeOK
  <2>1. Placed'
    <3>1. CASE StartRollback
      BY <1>19, <3>1, <1>a, StartRollbackPlaced
    <3>2. CASE ~StartRollback
      BY <1>19, <3>2, <1>a DEF Placed, Position, GoTo, StartRemoval, RetainWorkspace
    <3> QED BY <3>1, <3>2
  <2>2. TypeOK'
    BY <1>19, <2>0, <2>1, <1>b DEF Placed, GoTo, StartRemoval, StartRollback, RetainWorkspace, Control, TypeOK
  <2>3. Workspaces' /\ Processes' /\ PlacePhase'
    BY <1>19 DEF GoTo, StartRemoval, StartRollback, RetainWorkspace, Control, TypeOK, Workspaces, Processes, PlacePhase, PhaseAt, Busy, Phases
  <2> QED BY <2>1, <2>2, <2>3 DEF Placed, Control
<1>20. CASE RemovePayload
  <2> USE DEF RemovePayload, envVars, diskVars, taskVars
  <2>0. MadeDirs(batch[cur]) \subseteq Loc
    BY <1>a, BatchType DEF MadeDirs, Intents
  <2>1. Placed'
    BY <1>20, <2>0 DEF Placed, Position, Control, TypeOK
  <2>2. TypeOK'
    BY <1>20, <2>1, <2>0 DEF Placed, Control, TypeOK, Phases
  <2>3. Workspaces' /\ Processes' /\ PlacePhase'
    BY <1>20 DEF Control, Workspaces, Processes, PlacePhase, PhaseAt, Busy
  <2> QED BY <2>1, <2>2, <2>3 DEF Placed, Control
<1>21. CASE RemoveManifest
  <2> USE DEF RemoveManifest, envVars, taskVars
  <2>1. Placed'
    BY <1>21 DEF Placed, Position, Control, TypeOK
  <2>2. TypeOK'
    BY <1>21 DEF Control, TypeOK, Phases
  <2>3. Workspaces'
    BY <1>21 DEF Control, TypeOK, Workspaces, Busy
  <2>4. Processes'
    BY <1>21 DEF Control, TypeOK, Processes, Busy
  <2>5. PlacePhase'
    BY <1>21 DEF Control, PlacePhase, PhaseAt
  <2> QED BY <2>1, <2>2, <2>3, <2>4, <2>5 DEF Placed, Control
<1>22. CASE RemoveDirectory
  <2> USE DEF RemoveDirectory, envVars
  <2>1. Placed'
    BY <1>22 DEF Placed, Position, Control, TypeOK
  <2>2. TypeOK'
    BY <1>22 DEF Control, TypeOK, Phases
  <2>3. Workspaces'
    BY <1>22 DEF Control, TypeOK, Workspaces, Busy
  <2>4. Processes'
    BY <1>22 DEF Control, TypeOK, Processes, Busy
  <2>5. PlacePhase'
    BY <1>22 DEF Control, PlacePhase, PhaseAt
  <2> QED BY <2>1, <2>2, <2>3, <2>4, <2>5 DEF Placed, Control
<1>23. CASE RemoveFails
  <2> USE DEF RemoveFails, RetainWorkspace, envVars, diskVars, taskVars
  <2>1. Placed'
    BY <1>23, <1>b DEF Placed, Position, Control, TypeOK
  <2>2. TypeOK'
    BY <1>23, <2>1, <1>b DEF Placed, Control, TypeOK, Phases
  <2>3. Workspaces' /\ Processes' /\ PlacePhase'
    BY <1>23, <1>b DEF Control, TypeOK, Workspaces, Processes, PlacePhase, PhaseAt, Busy, Phases
  <2> QED BY <2>1, <2>2, <2>3 DEF Placed, Control
<1>24. CASE Restart
  BY <1>24 DEF Restart, Control, TypeOK, Workspaces, Processes, PlacePhase, PhaseAt, Busy, Phases, Position, envVars, diskVars, taskVars
<1>25. CASE BuildIndex
  BY <1>25 DEF BuildIndex, Indexed, Loc, Control, TypeOK, Workspaces, Processes, PlacePhase, PhaseAt, Busy, Phases, Position, envVars, diskVars, taskVars
<1>26. CASE ReplayRecovered
  <2> USE DEF ReplayRecovered, envVars, diskVars, taskVars
  <2>0. index' \in [Indexed -> Values] /\ edited' \subseteq Loc
    <3>1. ASSUME NEW l \in Indexed, NEW t \in Tx, Newest(t, Replaying(l))
          PROVE  EventResult(batch[t], l) \in Values
      BY <3>1, <1>a, EventType DEF Newest, Replaying
    <3>2. index \in [Indexed -> Values] /\ edited \subseteq Loc
      BY <1>a DEF TypeOK
    <3> QED BY <1>26, <3>1, <3>2 DEF Overtaken, Indexed, Loc
  <2>1. Placed'
    BY <1>26 DEF Placed, Position, Control, TypeOK
  <2>2. TypeOK'
    BY <1>26, <2>1, <2>0 DEF Placed, Control, TypeOK, Phases
  <2>3. Workspaces' /\ Processes' /\ PlacePhase'
    BY <1>26 DEF Control, TypeOK, Workspaces, Processes, PlacePhase, PhaseAt, Busy, Phases
  <2> QED BY <2>1, <2>2, <2>3 DEF Placed, Control
<1>27. CASE ReplayRefused
  BY <1>27 DEF ReplayRefused, Abort, Control, TypeOK, Workspaces, Processes, PlacePhase, PhaseAt, Busy, Phases, Position, envVars, diskVars, taskVars
<1>28. CASE StartupFails
  BY <1>28, <1>b DEF StartupFails, Abort, Control, TypeOK, Workspaces, Processes, PlacePhase, PhaseAt, Busy, Phases, Position, envVars, diskVars, taskVars
<1>29. CASE Serve
  BY <1>29 DEF Serve, Control, TypeOK, Workspaces, Processes, PlacePhase, PhaseAt, Busy, Phases, Position, envVars, diskVars, taskVars
<1>30. CASE RecoverPending
  <2> USE DEF RecoverPending, Oldest, Unresolved, envVars, diskVars, taskVars
  <2>0. /\ cur' \in Tx /\ recovered' \subseteq Tx /\ armed' = FALSE
        /\ pc' \in {"scan", "rollback", "remove"} /\ verdict' = "failed"
    BY <1>30, <1>a DEF TypeOK
  <2>1. Placed'
    <3>1. PICK t \in Tx : /\ t \in Unresolved /\ cur' = t /\ i' = Len(batch[t]) /\ j' = 1
                          /\ pc' \in {"scan", "rollback", "remove"}
      BY <1>30
    <3>2. batch[t] # <<>> /\ batch' = batch
      BY <1>30, <3>1 DEF Control, Workspaces
    <3>3. i' \in 1..Len(batch'[cur'])
      BY <3>1, <3>2, <1>a, Bounds
    <3>4. 1 \in 1..Len(RollbackOrder(batch'[cur'][i']))
      BY <3>1, <3>2, <3>3, <1>a, Bounds
    <3> QED BY <3>1, <3>3, <3>4 DEF Placed, Position
  <2>2. TypeOK'
    BY <1>30, <2>1, <2>0 DEF Placed, Control, TypeOK, Phases
  <2>3. Workspaces' /\ Processes' /\ PlacePhase'
    BY <1>30 DEF Control, TypeOK, Workspaces, Processes, PlacePhase, PhaseAt, Busy, Phases
  <2> QED BY <2>1, <2>2, <2>3 DEF Placed, Control
<1>31. CASE FinishRecovered
  <2> USE DEF FinishRecovered, Oldest, envVars, diskVars, taskVars
  <2>1. Placed'
    BY <1>31 DEF Placed, Position, Control, TypeOK
  <2>2. TypeOK'
    BY <1>31, <2>1 DEF Placed, Control, TypeOK, Phases
  <2>3. Workspaces' /\ Processes' /\ PlacePhase'
    BY <1>31 DEF Control, TypeOK, Workspaces, Processes, PlacePhase, PhaseAt, Busy, Phases
  <2> QED BY <2>1, <2>2, <2>3 DEF Placed, Control
<1>32. ASSUME NEW t \in Tx, NEW b \in Batches, Prepare(t, b)
      PROVE  Control'
  <2> USE DEF Prepare, envVars, diskVars, taskVars
  <2>0. b # <<>> /\ ws[t] = "none" /\ durable[t] = "none" /\ t \notin recovered
    BY <1>32 DEF validate_intents, Control, Workspaces
  <2>1. Placed'
    BY <1>32, <2>0 DEF Placed, Position, Control, TypeOK
  <2>2. TypeOK'
    BY <1>32, <2>1, <2>0 DEF Placed, Control, TypeOK, Phases
  <2>3. Workspaces' /\ Processes' /\ PlacePhase'
    BY <1>32, <2>0 DEF Control, TypeOK, Workspaces, Processes, PlacePhase, PhaseAt, Busy, Phases
  <2> QED BY <2>1, <2>2, <2>3 DEF Placed, Control
<1>33. ASSUME NEW l \in Loc, NEW v \in Values, Edit(l, v)
      PROVE  Control'
  <2> USE DEF Edit, Touch, envVars, diskVars, taskVars
  <2>0. fs' \in [Loc -> Values] /\ edits' \in 0..MaxEdits
    BY <1>33, <1>a, BoundAssumption DEF TypeOK
  <2>1. Placed'
    BY <1>33 DEF Placed, Position, Control, TypeOK
  <2>2. TypeOK'
    BY <1>33, <2>1, <2>0 DEF Placed, Control, TypeOK, Phases
  <2>3. Workspaces' /\ Processes' /\ PlacePhase'
    BY <1>33 DEF Control, TypeOK, Workspaces, Processes, PlacePhase, PhaseAt, Busy, Phases
  <2> QED BY <2>1, <2>2, <2>3 DEF Placed, Control
<1>34. CASE Crash
  <2> USE DEF Crash, envVars, diskVars, taskVars
  <2>0. crashes' \in 0..MaxCrashes
    BY <1>34, <1>a, BoundAssumption DEF TypeOK
  <2>1. Placed'
    BY <1>34 DEF Placed, Position, Control, TypeOK
  <2>2. TypeOK'
    BY <1>34, <2>1, <2>0 DEF Placed, Control, TypeOK, Phases
  <2>3. Workspaces' /\ Processes' /\ PlacePhase'
    BY <1>34 DEF Control, TypeOK, Workspaces, Processes, PlacePhase, PhaseAt, Busy, Phases
  <2> QED BY <2>1, <2>2, <2>3 DEF Placed, Control
<1>35. CASE UNCHANGED vars
  BY <1>35 DEF vars, Position, Control, TypeOK, Workspaces, Processes, PlacePhase, PhaseAt, Busy, Phases
<1> QED
  BY <1>1, <1>2, <1>3, <1>4, <1>5, <1>6, <1>7, <1>8, <1>9, <1>10,
     <1>11, <1>12, <1>13, <1>14, <1>15, <1>16, <1>17, <1>18, <1>19, <1>20,
     <1>21, <1>22, <1>23, <1>24, <1>25, <1>26, <1>27, <1>28, <1>29, <1>30,
     <1>31, <1>32, <1>33, <1>34, <1>35
     DEF Next, TaskStep, FaultStep

\* A freshly started server satisfies the control invariant.
LEMMA ControlInit == Init => Control
<1> SUFFICES ASSUME Init PROVE Control
  OBVIOUS
<1>1. TypeOK
  <2>1. fs \in [Loc -> Values] /\ index \in [Indexed -> Values]
    BY DEF Init, PossibleVault, Indexed, Loc
  <2>2. /\ ws \in [Tx -> Phases] /\ durable \in [Tx -> Phases]
        /\ batch \in [Tx -> Batches \cup {<<>>}]
        /\ owned \in [Tx -> SUBSET Loc]
        /\ reply \in [Tx -> {"none", "ok", "failed", "retained"}]
    BY DEF Init, Phases
  <2>3. payload \in [Tx -> BOOLEAN] /\ armed \in BOOLEAN
    BY DEF Init
  <2>4. edits \in 0..MaxEdits /\ faults \in 0..MaxFaults /\ crashes \in 0..MaxCrashes
    BY BoundAssumption DEF Init
  <2>5. /\ proc = "serving" /\ pc = "idle" /\ cur \in Tx /\ i \in Nat /\ j \in Nat
        /\ verdict = "failed" /\ recovered = {} /\ touched = {} /\ edited = {}
    BY DEF Init
  <2> QED BY <2>1, <2>2, <2>3, <2>4, <2>5 DEF TypeOK
<1> QED BY <1>1 DEF Init, Control, Position, Workspaces, Processes, PlacePhase, PhaseAt, Busy

\* The program counter always agrees with the loop position and with the
\* phases on disk.
LEMMA ControlInvariant == Spec => []Control
<1>1. Control /\ [Next]_vars => Control'
  BY ControlStep
<1> QED BY <1>1, ControlInit, PTL DEF Spec

\* Every variable keeps its type, for every vault, every set of batches and
\* every number of edits, faults and crashes.
THEOREM TypeCorrect == Spec => []TypeOK
<1>1. Control => TypeOK
  BY DEF Control
<1> QED BY <1>1, ControlInvariant, PTL

-----------------------------------------------------------------------------
(* What the vault holds while a transaction is unresolved.                 *)

\* The intents of a batch share no location.
Separate(b) ==
  /\ \A k, m \in DOMAIN b : k # m => Locs(b[k]) \cap Locs(b[m]) = {}
  /\ \A k \in DOMAIN b :
       b[k].kind \in {"move", "archive", "restore"} => b[k].path # b[k].to

Separated == \A t \in Tx : batch[t] # <<>> => Separate(batch[t])

\* A directory the batch has yet to make is not there.
UnmadeMissing(t) ==
  \A k \in DOMAIN batch[t] :
    (batch[t][k].kind = "mkdir" /\ batch[t][k].path \notin owned[t])
      => fs[batch[t][k].path] = Missing

\* While its task publishes, a directory the batch has made is there.
MadePresent(t) ==
  \A k \in DOMAIN batch[t] :
    (batch[t][k].kind = "mkdir" /\ batch[t][k].path \in owned[t])
      => fs[batch[t][k].path] = Directory

Settled(t) == AllBefore(t) \/ AllAfter(t)

\* What the workspace of t lets recovery rely on.
TruthOf(t) ==
  /\ PhaseTells(t, ws[t]) /\ PhaseTells(t, durable[t])
  /\ (ws[t] = "debris" \/ durable[t] = "debris") => Settled(t)
  /\ UnmadeMissing(t)

Truth == \A t \in Tx \ touched : ws[t] # "none" => TruthOf(t)

\* How far the running task has come.
PublishedSoFar ==
  /\ IntentsAfter(cur, 1..(i - 1))
  /\ \A m \in 1..(j - 1) :
       fs[PublishOrder(Current)[m]] = After(Current, PublishOrder(Current)[m])
  /\ MadePresent(cur)

RolledBackSoFar ==
  /\ IntentsBefore(cur, (i + 1)..Len(batch[cur]))
  /\ \A m \in 1..(j - 1) :
       fs[RollbackOrder(Current)[m]] = Before(Current, RollbackOrder(Current)[m])

Removable ==
  /\ Settled(cur)
  /\ (proc = "serving" /\ verdict = "ok") => AllAfter(cur)
  /\ (proc = "serving" /\ verdict = "failed") => AllBefore(cur)

Progress ==
  /\ pc \in {"prepare", "seal", "toCommitting", "syncCommitting"} => owned[cur] = {}
  /\ pc = "rollback" => verdict = "failed"
  /\ cur \notin touched =>
       /\ pc = "prepare" => AllBefore(cur)
       /\ pc = "publish" => PublishedSoFar
       /\ pc = "rollback" => RolledBackSoFar
       /\ pc \in {"toCommitted", "index"} => AllAfter(cur)
       /\ pc = "remove" => Removable

Inv == Control /\ Separated /\ Truth /\ Progress

-----------------------------------------------------------------------------
(* Validation separates the intents.                                       *)

\* validate_intents does not compare the source of one intent with the
\* destination of another; validate_observed_state does it in effect, since
\* one must hold bytes and the other must be absent.
LEMMA ValidatedIsSeparate ==
  ASSUME NEW b \in Batches, validate_intents(b), PlannedDirectories(b),
         validate_observed_state(b)
  PROVE  Separate(b)
<1>1. \A k \in DOMAIN b : b[k] \in Intents /\ WellTyped(b[k])
  BY BatchAssumption
<1>2. ASSUME NEW k \in DOMAIN b, NEW m \in DOMAIN b, k # m,
             NEW l, l \in Locs(b[k]), l \in Locs(b[m])
      PROVE  FALSE
  <2>1. fs[l] = Before(b[k], l) /\ fs[l] = Before(b[m], l)
    BY <1>2 DEF validate_observed_state
  <2>2. CASE l \in Dirs
    <3>1. b[k].kind \in {"mkdir", "rmdir"} /\ b[m].kind \in {"mkdir", "rmdir"}
          /\ b[k].path = l /\ b[m].path = l
      BY <1>1, <1>2, <2>2, LocAssumption DEF WellTyped, Locs
    <3>2. b[k].kind = b[m].kind
      BY <2>1, <3>1, LocAssumption DEF Before
    <3> QED BY <1>2, <3>1, <3>2 DEF PlannedDirectories
  <2>3. CASE l \in Items
    <3>1. l \in ItemOf(b[k]) /\ l \in ItemOf(b[m])
      BY <1>1, <1>2, <2>3, LocAssumption DEF WellTyped, Locs, ItemOf, Intents, Kinds
    <3> QED BY <1>2, <3>1 DEF validate_intents
  <2>4. CASE l \in Paths
    <3>1. ASSUME NEW n \in DOMAIN b, l \in Locs(b[n])
          PROVE  /\ l \in Final(b[n]) \/ l \in Source(b[n])
                 /\ l \in Final(b[n]) /\ l \notin Source(b[n]) => Before(b[n], l) = Missing
                 /\ l \notin Final(b[n]) => Before(b[n], l) \in Contents
      BY <1>1, <2>4, <3>1, LocAssumption DEF WellTyped, Locs, Final, Source, Before, Intents, Kinds
    <3>2. ~(l \in Final(b[k]) /\ l \in Final(b[m])) /\ ~(l \in Source(b[k]) /\ l \in Source(b[m]))
      BY <1>2 DEF validate_intents
    <3> QED BY <1>2, <2>1, <3>1, <3>2, LocAssumption
  <2> QED BY <1>1, <1>2, <2>2, <2>3, <2>4 DEF Intents, Locs, Loc
<1>3. ASSUME NEW k \in DOMAIN b, b[k].kind \in {"move", "archive", "restore"}
      PROVE  b[k].path # b[k].to
  BY <1>1, <1>3, LocAssumption DEF validate_intents, WellTyped
<1> QED BY <1>2, <1>3 DEF Separate

-----------------------------------------------------------------------------
(* Frames: what a step leaves alone.                                       *)

\* What is said of a transaction's files depends on those files only.
LEMMA FilesFrame ==
  ASSUME NEW t \in Tx, batch'[t] = batch[t],
         \A l \in Footprint(batch[t]) : fs'[l] = fs[l]
  PROVE  /\ AllBefore(t)' <=> AllBefore(t)
         /\ AllAfter(t)' <=> AllAfter(t)
         /\ Settled(t)' <=> Settled(t)
         /\ EachBeforeOrAfter(t)' <=> EachBeforeOrAfter(t)
         /\ owned[t] \subseteq owned'[t] /\ UnmadeMissing(t) => UnmadeMissing(t)'
         /\ owned[t] = owned'[t] /\ MadePresent(t) => MadePresent(t)'
<1>1. \A k \in DOMAIN batch[t] : \A l \in Locs(batch[t][k]) : fs'[l] = fs[l]
  BY DEF Footprint
<1>2. \A k \in DOMAIN batch[t] : batch[t][k].path \in Locs(batch[t][k])
  BY DEF Locs
<1>3. AllBefore(t)' <=> AllBefore(t)
  BY <1>1 DEF AllBefore, IntentsBefore
<1>4. AllAfter(t)' <=> AllAfter(t)
  BY <1>1 DEF AllAfter, IntentsAfter
<1>5. EachBeforeOrAfter(t)' <=> EachBeforeOrAfter(t)
  BY <1>1 DEF EachBeforeOrAfter
<1>6. owned[t] \subseteq owned'[t] /\ UnmadeMissing(t) => UnmadeMissing(t)'
  BY <1>1, <1>2 DEF UnmadeMissing
<1>7. owned[t] = owned'[t] /\ MadePresent(t) => MadePresent(t)'
  BY <1>1, <1>2 DEF MadePresent
<1> QED BY <1>3, <1>4, <1>5, <1>6, <1>7 DEF Settled

\* A workspace none of whose files change keeps its truth.
LEMMA TruthFrame ==
  ASSUME NEW t \in Tx, TruthOf(t), batch'[t] = batch[t],
         \A l \in Footprint(batch[t]) : fs'[l] = fs[l],
         owned[t] \subseteq owned'[t], ws'[t] = ws[t], durable'[t] = durable[t]
  PROVE  TruthOf(t)'
BY FilesFrame DEF TruthOf, PhaseTells

\* A file of the batch that is changed by somebody else marks the batch.
LEMMA TouchFrame ==
  ASSUME NEW l, NEW v, NEW who, NEW t \in Tx, TypeOK, Touch(l, who), t \notin who,
         ws[t] # "none", t \notin touched', fs' = [fs EXCEPT ![l] = v]
  PROVE  t \notin touched /\ \A x \in Footprint(batch[t]) : fs'[x] = fs[x]
<1>1. t \notin touched /\ l \notin Footprint(batch[t])
  BY DEF Touch, InTheWay
<1> QED BY <1>1 DEF TypeOK

\* A step that moves the task but not the disk.
LEMMA QuietTruth ==
  ASSUME Truth, UNCHANGED <<fs, touched>>, UNCHANGED diskVars
  PROVE  Truth'
<1> SUFFICES ASSUME NEW t \in Tx, t \notin touched', ws'[t] # "none"
             PROVE  TruthOf(t)'
  BY DEF Truth
<1>1. TruthOf(t)
  BY DEF Truth, diskVars
<1> QED BY <1>1, TruthFrame DEF diskVars

\* A step that changes the manifest of one workspace only.
LEMMA ManifestTruth ==
  ASSUME NEW c \in Tx, Truth, UNCHANGED <<fs, batch, touched>>,
         \A t \in Tx \ {c} : ws'[t] = ws[t] /\ durable'[t] = durable[t],
         \A t \in Tx : owned[t] \subseteq owned'[t],
         (c \notin touched /\ ws'[c] # "none") => TruthOf(c)'
  PROVE  Truth'
<1> SUFFICES ASSUME NEW t \in Tx, t \notin touched', ws'[t] # "none"
             PROVE  TruthOf(t)'
  BY DEF Truth
<1>1. CASE t = c
  BY <1>1
<1>2. CASE t # c
  <2>1. TruthOf(t)
    BY <1>2 DEF Truth
  <2> QED BY <1>2, <2>1, TruthFrame
<1> QED BY <1>1, <1>2

-----------------------------------------------------------------------------
(* One operation at a location of the current batch.                       *)

\* Publishing a location takes the loop one operation further, and at its
\* end the whole batch is in the vault.
LEMMA AdvancePublish ==
  ASSUME TypeOK, Position, pc = "publish", NextOperation, PublishedSoFar,
         batch' = batch, MadePresent(cur)',
         fs'[PublishLoc] = After(Current, PublishLoc),
         \A k \in DOMAIN batch[cur] : \A x \in Locs(batch[cur][k]) :
           (k # i \/ x # PublishLoc) => fs'[x] = fs[x]
  PROVE  /\ pc' = "publish" => PublishedSoFar'
         /\ pc' # "publish" => AllAfter(cur)'
<1> DEFINE n == Len(batch[cur])
           it == batch[cur][i]
           ord == PublishOrder(it)
           Done(K) == \A k \in K : \A l \in Locs(batch[cur][k]) :
                        fs'[l] = After(batch[cur][k], l)
<1>1. /\ cur \in Tx /\ n \in Nat /\ i \in 1..n /\ j \in 1..Len(ord)
      /\ DOMAIN batch[cur] = 1..n /\ it \in Intents /\ cur' = cur
      /\ Len(ord) \in Nat
  <2>1. cur \in Tx /\ i \in 1..n /\ j \in 1..Len(ord) /\ cur' = cur
    BY DEF TypeOK, Position, NextOperation
  <2>2. n \in Nat /\ DOMAIN batch[cur] = 1..n /\ it \in Intents
    BY <2>1, BatchType, Bounds
  <2>3. Len(ord) \in Nat
    BY <2>1, Bounds
  <2> QED BY <2>1, <2>2, <2>3
<1>2. \A m \in 1..Len(ord) : ord[m] \in Locs(it)
  BY <1>1, OrderType
<1>3. Done(1..(i - 1))
  BY <1>1 DEF PublishedSoFar, IntentsAfter
<1>4. \A m \in 1..j : fs'[ord[m]] = After(it, ord[m])
  <2> SUFFICES ASSUME NEW m \in 1..j PROVE fs'[ord[m]] = After(it, ord[m])
    OBVIOUS
  <2>1. CASE ord[m] = PublishLoc
    BY <2>1 DEF Current
  <2>2. CASE ord[m] # PublishLoc
    <3>1. m # j
      BY <2>2 DEF PublishLoc, Current
    <3>2. m \in 1..(j - 1) /\ m \in 1..Len(ord)
      BY <1>1, <3>1
    <3>3. fs[ord[m]] = After(it, ord[m])
      BY <3>2 DEF PublishedSoFar, Current
    <3> QED BY <1>1, <1>2, <2>2, <3>2, <3>3
  <2> QED BY <2>1, <2>2
<1>5. CASE j < Len(ord)
  <2>1. pc' = "publish" /\ i' = i /\ j' = j + 1
    BY <1>5 DEF NextOperation, Current
  <2>2. (j + 1) - 1 = j
    BY <1>1
  <2>3. \A m \in 1..(j' - 1) : fs'[PublishOrder(Current')[m]] = After(Current', PublishOrder(Current')[m])
    BY <1>1, <1>4, <2>1, <2>2 DEF Current
  <2> QED BY <1>1, <1>3, <2>1, <2>3 DEF PublishedSoFar, IntentsAfter, MadePresent
<1>6. CASE ~(j < Len(ord))
  <2>1. j = Len(ord)
    BY <1>1, <1>6
  <2>2. \A l \in Locs(it) : fs'[l] = After(it, l)
    <3>1. \A l \in Locs(it) : \E m \in 1..Len(ord) : ord[m] = l
      BY <1>1, OrderType
    <3> QED BY <1>4, <2>1, <3>1
  <2>3. Done(1..i)
    <3> SUFFICES ASSUME NEW k \in 1..i, NEW l \in Locs(batch[cur][k])
                 PROVE  fs'[l] = After(batch[cur][k], l)
      OBVIOUS
    <3>1. CASE k = i
      BY <3>1, <2>2
    <3>2. CASE k # i
      <4>1. k \in 1..(i - 1)
        BY <1>1, <3>2
      <4> QED BY <1>3, <4>1
    <3> QED BY <3>1, <3>2
  <2>4. CASE i < n
    <3>1. pc' = "publish" /\ i' = i + 1 /\ j' = 1
      BY <1>6, <2>4 DEF NextOperation, Current
    <3>2. (i + 1) - 1 = i /\ 1..(1 - 1) = {}
      BY <1>1
    <3> QED BY <1>1, <2>3, <3>1, <3>2 DEF PublishedSoFar, IntentsAfter, MadePresent
  <2>5. CASE ~(i < n)
    <3>1. i = n /\ pc' # "publish"
      BY <1>1, <1>6, <2>5 DEF NextOperation, Current
    <3> QED BY <1>1, <2>3, <3>1 DEF AllAfter, IntentsAfter
  <2> QED BY <2>4, <2>5
<1> QED BY <1>5, <1>6

\* Reverting a location takes the rollback one operation further, and at its
\* end nothing of the batch is left in the vault.
LEMMA AdvanceRollback ==
  ASSUME TypeOK, Position, pc = "rollback", PreviousOperation, RolledBackSoFar,
         batch' = batch,
         fs'[RollbackLoc] = Before(Current, RollbackLoc),
         \A k \in DOMAIN batch[cur] : \A x \in Locs(batch[cur][k]) :
           (k # i \/ x # RollbackLoc) => fs'[x] = fs[x]
  PROVE  /\ pc' = "rollback" => RolledBackSoFar'
         /\ pc' # "rollback" => AllBefore(cur)'
<1> DEFINE n == Len(batch[cur])
           it == batch[cur][i]
           ord == RollbackOrder(it)
           Undone(K) == \A k \in K : \A l \in Locs(batch[cur][k]) :
                          fs'[l] = Before(batch[cur][k], l)
<1>1. /\ cur \in Tx /\ n \in Nat /\ i \in 1..n /\ j \in 1..Len(ord)
      /\ DOMAIN batch[cur] = 1..n /\ it \in Intents /\ cur' = cur
      /\ Len(ord) \in Nat
  <2>1. cur \in Tx /\ i \in 1..n /\ j \in 1..Len(ord) /\ cur' = cur
    BY DEF TypeOK, Position, PreviousOperation
  <2>2. n \in Nat /\ DOMAIN batch[cur] = 1..n /\ it \in Intents
    BY <2>1, BatchType, Bounds
  <2>3. Len(ord) \in Nat
    BY <2>1, Bounds
  <2> QED BY <2>1, <2>2, <2>3
<1>2. \A m \in 1..Len(ord) : ord[m] \in Locs(it)
  BY <1>1, OrderType
<1>3. Undone((i + 1)..n)
  BY <1>1 DEF RolledBackSoFar, IntentsBefore
<1>4. \A m \in 1..j : fs'[ord[m]] = Before(it, ord[m])
  <2> SUFFICES ASSUME NEW m \in 1..j PROVE fs'[ord[m]] = Before(it, ord[m])
    OBVIOUS
  <2>1. CASE ord[m] = RollbackLoc
    BY <2>1 DEF Current
  <2>2. CASE ord[m] # RollbackLoc
    <3>1. m # j
      BY <2>2 DEF RollbackLoc, Current
    <3>2. m \in 1..(j - 1) /\ m \in 1..Len(ord)
      BY <1>1, <3>1
    <3>3. fs[ord[m]] = Before(it, ord[m])
      BY <3>2 DEF RolledBackSoFar, Current
    <3> QED BY <1>1, <1>2, <2>2, <3>2, <3>3
  <2> QED BY <2>1, <2>2
<1>5. CASE j < Len(ord)
  <2>1. pc' = "rollback" /\ i' = i /\ j' = j + 1
    BY <1>5 DEF PreviousOperation, Current
  <2>2. (j + 1) - 1 = j
    BY <1>1
  <2>3. \A m \in 1..(j' - 1) : fs'[RollbackOrder(Current')[m]] = Before(Current', RollbackOrder(Current')[m])
    BY <1>1, <1>4, <2>1, <2>2 DEF Current
  <2> QED BY <1>1, <1>3, <2>1, <2>3 DEF RolledBackSoFar, IntentsBefore
<1>6. CASE ~(j < Len(ord))
  <2>1. j = Len(ord)
    BY <1>1, <1>6
  <2>2. \A l \in Locs(it) : fs'[l] = Before(it, l)
    <3>1. \A l \in Locs(it) : \E m \in 1..Len(ord) : ord[m] = l
      BY <1>1, OrderType
    <3> QED BY <1>4, <2>1, <3>1
  <2>3. Undone(i..n)
    <3> SUFFICES ASSUME NEW k \in i..n, NEW l \in Locs(batch[cur][k])
                 PROVE  fs'[l] = Before(batch[cur][k], l)
      OBVIOUS
    <3>1. CASE k = i
      BY <3>1, <2>2
    <3>2. CASE k # i
      <4>1. k \in (i + 1)..n
        BY <1>1, <3>2
      <4> QED BY <1>3, <4>1
    <3> QED BY <3>1, <3>2
  <2>4. CASE i > 1
    <3>1. pc' = "rollback" /\ i' = i - 1 /\ j' = 1
      BY <1>6, <2>4 DEF PreviousOperation, Current
    <3>2. (i - 1) + 1 = i /\ 1..(1 - 1) = {}
      BY <1>1
    <3> QED BY <1>1, <2>3, <3>1, <3>2 DEF RolledBackSoFar, IntentsBefore
  <2>5. CASE ~(i > 1)
    <3>1. i = 1 /\ pc' # "rollback"
      BY <1>1, <1>6, <2>5 DEF PreviousOperation, Current
    <3> QED BY <1>1, <2>3, <3>1 DEF AllBefore, IntentsBefore
  <2> QED BY <2>4, <2>5
<1> QED BY <1>5, <1>6

\* The transaction c changes one of its own locations: its Committing
\* manifest stays true, and so do the manifests of everyone else.
LEMMA EffectTruth ==
  ASSUME TypeOK, Separated, Truth, NEW c \in Tx, batch[c] # <<>>,
         ws[c] = "committing", durable[c] = "committing",
         NEW k \in DOMAIN batch[c], NEW l \in Locs(batch[c][k]), l \in Loc,
         NEW v \in {Before(batch[c][k], l), After(batch[c][k], l)},
         fs' = [fs EXCEPT ![l] = v], Touch(l, {c}),
         UNCHANGED <<ws, durable, batch>>,
         \A t \in Tx \ {c} : owned'[t] = owned[t],
         UnmadeMissing(c) => UnmadeMissing(c)'
  PROVE  Truth'
<1> SUFFICES ASSUME NEW t \in Tx, t \notin touched', ws'[t] # "none"
             PROVE  TruthOf(t)'
  BY DEF Truth
<1>0. t \notin touched /\ TruthOf(t)
  BY DEF Truth, Touch
<1>1. CASE t = c
  <2>1. EachBeforeOrAfter(c)'
    <3>1. EachBeforeOrAfter(c)
      BY <1>0, <1>1 DEF TruthOf, PhaseTells
    <3>2. Separate(batch[c])
      BY DEF Separated
    <3>3. fs'[l] = v /\ \A m \in DOMAIN batch[c] : \A x \in Locs(batch[c][m]) :
                          (m # k \/ x # l) => fs'[x] = fs[x]
      <4>1. \A m \in DOMAIN batch[c] : m # k => l \notin Locs(batch[c][m])
        BY <3>2 DEF Separate
      <4>2. fs'[l] = v /\ \A x : x # l => fs'[x] = fs[x]
        BY DEF TypeOK
      <4> QED BY <4>1, <4>2
    <3> QED BY <3>1, <3>3 DEF EachBeforeOrAfter
  <2> QED BY <1>0, <1>1, <2>1 DEF TruthOf, PhaseTells
<1>2. CASE t # c
  <2>1. \A x \in Footprint(batch[t]) : fs'[x] = fs[x]
    <3>1. l \notin Footprint(batch[t])
      BY <1>2 DEF Touch, InTheWay
    <3>2. \A x : x # l => fs'[x] = fs[x]
      BY DEF TypeOK
    <3> QED BY <3>1, <3>2
  <2> QED BY <1>0, <1>2, <2>1, TruthFrame
<1> QED BY <1>1, <1>2

\* What a publishing operation does to the directories of the batch.
LEMMA PublishDirectories ==
  ASSUME TypeOK, Separated, NEW c \in Tx, batch[c] # <<>>, UNCHANGED batch,
         NEW k \in DOMAIN batch[c], NEW l \in Locs(batch[c][k]), l \in Loc,
         fs' = [fs EXCEPT ![l] = After(batch[c][k], l)],
         owned'[c] = IF l \in Items \/ batch[c][k].kind = "mkdir"
                       THEN owned[c] \cup {l} ELSE owned[c]
  PROVE  /\ UnmadeMissing(c) => UnmadeMissing(c)'
         /\ MadePresent(c) => MadePresent(c)'
<1>1. \A m \in DOMAIN batch[c] :
        batch[c][m].kind = "mkdir" => batch[c][m].path \in Dirs /\ Locs(batch[c][m]) = {batch[c][m].path}
  BY BatchType DEF WellTyped, Locs
<1>2. Separate(batch[c])
  BY DEF Separated
<1>3. fs'[l] = After(batch[c][k], l) /\ \A m \in DOMAIN batch[c] : \A x \in Locs(batch[c][m]) :
                          (m # k \/ x # l) => fs'[x] = fs[x]
  BY <1>2 DEF Separate, TypeOK
<1>4. ASSUME NEW m \in DOMAIN batch[c], batch[c][m].kind = "mkdir"
      PROVE  /\ m = k => batch[c][m].path = l /\ fs'[l] = Directory /\ l \in owned'[c]
             /\ m # k => /\ fs'[batch[c][m].path] = fs[batch[c][m].path]
                         /\ batch[c][m].path \in owned'[c] <=> batch[c][m].path \in owned[c]
  <2>1. CASE m = k
    BY <1>1, <1>3, <1>4, <2>1 DEF After
  <2>2. CASE m # k
    <3>1. batch[c][m].path # l
      BY <1>1, <1>2, <1>4, <2>2 DEF Separate
    <3> QED BY <1>1, <1>3, <1>4, <2>2, <3>1
  <2> QED BY <2>1, <2>2
<1>5. UnmadeMissing(c) => UnmadeMissing(c)'
  BY <1>4 DEF UnmadeMissing
<1>6. MadePresent(c) => MadePresent(c)'
  BY <1>4 DEF MadePresent
<1> QED BY <1>5, <1>6

\* What a reverting operation does to the directories of the batch.
LEMMA RollbackDirectories ==
  ASSUME TypeOK, Separated, NEW c \in Tx, batch[c] # <<>>, UNCHANGED batch,
         NEW k \in DOMAIN batch[c], NEW l \in Locs(batch[c][k]), l \in Loc,
         fs' = [fs EXCEPT ![l] = Before(batch[c][k], l)],
         owned'[c] = IF l \in Items THEN owned[c] \ {l} ELSE owned[c],
         UnmadeMissing(c)
  PROVE  UnmadeMissing(c)'
<1>1. \A m \in DOMAIN batch[c] :
        batch[c][m].kind = "mkdir" => batch[c][m].path \in Dirs /\ Locs(batch[c][m]) = {batch[c][m].path}
  BY BatchType DEF WellTyped, Locs
<1>2. Separate(batch[c])
  BY DEF Separated
<1>3. fs'[l] = Before(batch[c][k], l) /\ \A m \in DOMAIN batch[c] : \A x \in Locs(batch[c][m]) :
                          (m # k \/ x # l) => fs'[x] = fs[x]
  BY <1>2 DEF Separate, TypeOK
<1>4. ASSUME NEW m \in DOMAIN batch[c], batch[c][m].kind = "mkdir"
      PROVE  /\ m = k => batch[c][m].path = l /\ fs'[l] = Missing
             /\ m # k => /\ fs'[batch[c][m].path] = fs[batch[c][m].path]
                         /\ batch[c][m].path \in owned'[c] <=> batch[c][m].path \in owned[c]
  BY <1>1, <1>2, <1>3, <1>4, LocAssumption DEF Separate, Before
<1> QED BY <1>4 DEF UnmadeMissing

-----------------------------------------------------------------------------
(* Progress of the task.                                                   *)

\* Before its first operation a rollback claims nothing of the vault.
LEMMA RollbackStarts ==
  ASSUME TypeOK, StartRollback, UNCHANGED batch
  PROVE  Progress'
<1>1. /\ pc' = "rollback" /\ verdict' = "failed" /\ cur' = cur /\ cur \in Tx
      /\ i' = Len(batch[cur]) /\ j' = 1 /\ Len(batch[cur]) \in Nat
  BY Bounds DEF StartRollback, TypeOK
<1>2. (Len(batch[cur]) + 1)..Len(batch[cur]) = {} /\ 1..(1 - 1) = {}
  BY <1>1
<1>3. RolledBackSoFar'
  BY <1>1, <1>2 DEF RolledBackSoFar, IntentsBefore
<1> QED BY <1>1, <1>3 DEF Progress

\* The location of the next operation belongs to the intent in hand.
LEMMA OperationPlace ==
  ASSUME TypeOK, Position, cur \in Tx
  PROVE  /\ pc = "publish" => /\ i \in DOMAIN batch[cur] /\ PublishLoc \in Loc
                              /\ PublishLoc \in Locs(batch[cur][i])
         /\ pc = "rollback" => /\ i \in DOMAIN batch[cur] /\ RollbackLoc \in Loc
                               /\ RollbackLoc \in Locs(batch[cur][i])
<1>1. pc \in {"publish", "rollback"} => i \in DOMAIN batch[cur] /\ Current \in Intents
  BY BatchType DEF Position, Current
<1> QED BY <1>1, OrderType DEF Position, Current, PublishLoc, RollbackLoc

-----------------------------------------------------------------------------
(* Inv is inductive.                                                       *)

\* A freshly started server has no workspace to tell the truth about.
LEMMA InvInit == Init => Inv
<1> SUFFICES ASSUME Init PROVE Inv
  OBVIOUS
<1>1. Control
  BY ControlInit
<1> QED BY <1>1 DEF Init, Inv, Separated, Truth, Progress

\* Every step preserves the inductive invariant, action by action.
LEMMA InvStep ==
  ASSUME Inv, [Next]_vars
  PROVE  Inv'
<1>a. /\ Control' /\ TypeOK /\ Position /\ Workspaces /\ PlacePhase /\ Processes
      /\ Separated /\ Truth /\ Progress
  BY ControlStep DEF Inv, Control
<1>b. UNCHANGED batch => Separated'
  BY <1>a DEF Separated
<1>c. PICK c \in Tx : c = cur
  BY <1>a DEF TypeOK
<1>d. pc \in Busy => ws[c] # "none" /\ batch[c] # <<>> /\ (c \notin touched => TruthOf(c))
  BY <1>a, <1>c DEF Workspaces, Truth
<1>e. pc' \in {"idle", "scan", "replay"} => Progress'
  BY DEF Progress
<1>f. ASSUME UNCHANGED <<fs, batch>>, NEW t \in Tx
      PROVE  /\ AllBefore(t)' <=> AllBefore(t)
             /\ AllAfter(t)' <=> AllAfter(t)
             /\ Settled(t)' <=> Settled(t)
             /\ EachBeforeOrAfter(t)' <=> EachBeforeOrAfter(t)
             /\ owned[t] \subseteq owned'[t] /\ UnmadeMissing(t) => UnmadeMissing(t)'
             /\ owned[t] = owned'[t] /\ MadePresent(t) => MadePresent(t)'
  BY <1>f, FilesFrame
<1>g. UNCHANGED <<fs, touched>> /\ UNCHANGED diskVars => Truth'
  BY <1>a, QuietTruth
<1>h. StartRollback /\ UNCHANGED batch => Progress'
  BY <1>a, RollbackStarts
<1>i. StartRemoval("ok") /\ UNCHANGED <<fs, batch, touched>> /\ (c \notin touched => AllAfter(c)) => Progress'
  BY <1>c, <1>f DEF StartRemoval, Progress, Removable, Settled
<1>j. StartRemoval("failed") /\ UNCHANGED <<fs, batch, touched>> /\ (c \notin touched => AllBefore(c)) => Progress'
  BY <1>c, <1>f DEF StartRemoval, Progress, Removable, Settled

<1>1. CASE WriteManifest
  <2> USE DEF WriteManifest, diskVars, envVars, taskVars
  <2>1. Truth'
    <3>1. (c \notin touched /\ ws'[c] # "none") => TruthOf(c)'
      BY <1>1, <1>a, <1>c, <1>d, <1>f DEF TruthOf, PhaseTells, Settled, TypeOK, PlacePhase, PhaseAt, Progress, Busy
    <3>2. \A t \in Tx \ {c} : ws'[t] = ws[t] /\ durable'[t] = durable[t]
      BY <1>1, <1>a, <1>c DEF TypeOK
    <3>3. \A t \in Tx : owned[t] \subseteq owned'[t]
      BY <1>1, <1>a DEF TypeOK
    <3> QED BY <1>1, <1>a, <3>1, <3>2, <3>3, ManifestTruth
  <2>2. Progress'
    BY <1>1, <1>a, <1>c DEF GoTo, Progress
  <2> QED BY <1>1, <1>a, <1>b, <2>1, <2>2 DEF Inv
<1>2. CASE SyncManifest
  <2> USE DEF SyncManifest, diskVars, envVars, taskVars
  <2>1. Truth'
    <3>1. (c \notin touched /\ ws'[c] # "none") => TruthOf(c)'
      BY <1>2, <1>a, <1>c, <1>d, <1>f DEF TruthOf, PhaseTells, Settled, TypeOK, PlacePhase, PhaseAt, Progress, Busy
    <3>2. \A t \in Tx \ {c} : ws'[t] = ws[t] /\ durable'[t] = durable[t]
      BY <1>2, <1>a, <1>c DEF TypeOK
    <3>3. \A t \in Tx : owned[t] \subseteq owned'[t]
      BY <1>2, <1>a DEF TypeOK
    <3> QED BY <1>2, <1>a, <3>1, <3>2, <3>3, ManifestTruth
  <2>2. Progress'
    BY <1>2, <1>a, <1>c DEF GoTo, Progress
  <2> QED BY <1>2, <1>a, <1>b, <2>1, <2>2 DEF Inv
<1>3. CASE PrepareFails
  <2> USE DEF PrepareFails, diskVars, envVars, taskVars
  <2>1. Truth'
    <3>1. (c \notin touched /\ ws'[c] # "none") => TruthOf(c)'
      BY <1>3, <1>a, <1>c, <1>d, <1>f DEF TruthOf, PhaseTells, Settled, TypeOK, PlacePhase, PhaseAt, Progress, Busy
    <3>2. \A t \in Tx \ {c} : ws'[t] = ws[t] /\ durable'[t] = durable[t]
      BY <1>3, <1>a, <1>c DEF TypeOK
    <3>3. \A t \in Tx : owned[t] \subseteq owned'[t]
      BY <1>3, <1>a DEF TypeOK
    <3> QED BY <1>3, <1>a, <3>1, <3>2, <3>3, ManifestTruth
  <2>2. Progress'
    BY <1>3, <1>a, <1>c, <1>d, <1>j DEF Progress, PlacePhase, PhaseAt, TruthOf, PhaseTells, Busy
  <2> QED BY <1>3, <1>a, <1>b, <2>1, <2>2 DEF Inv
<1>4. CASE WritePhase
  <2> USE DEF WritePhase, diskVars, envVars, taskVars
  <2>1. Truth'
    <3>1. (c \notin touched /\ ws'[c] # "none") => TruthOf(c)'
      BY <1>4, <1>a, <1>c, <1>d, <1>f DEF NextPhase, EachBeforeOrAfter, AllBefore, IntentsBefore, AllAfter, IntentsAfter, TruthOf, PhaseTells, Settled, TypeOK, PlacePhase, PhaseAt, Progress, Busy
    <3>2. \A t \in Tx \ {c} : ws'[t] = ws[t] /\ durable'[t] = durable[t]
      BY <1>4, <1>a, <1>c DEF TypeOK
    <3>3. \A t \in Tx : owned[t] \subseteq owned'[t]
      BY <1>4, <1>a DEF TypeOK
    <3> QED BY <1>4, <1>a, <3>1, <3>2, <3>3, ManifestTruth
  <2>2. Progress'
    BY <1>4, <1>a, <1>c DEF GoTo, Progress
  <2> QED BY <1>4, <1>a, <1>b, <2>1, <2>2 DEF Inv
<1>5. CASE SyncPhase
  <2> USE DEF SyncPhase, diskVars, envVars, taskVars
  <2>1. Truth'
    <3>1. (c \notin touched /\ ws'[c] # "none") => TruthOf(c)'
      BY <1>5, <1>a, <1>c, <1>d, <1>f DEF TruthOf, PhaseTells, Settled, TypeOK, PlacePhase, PhaseAt, Progress, Busy
    <3>2. \A t \in Tx \ {c} : ws'[t] = ws[t] /\ durable'[t] = durable[t]
      BY <1>5, <1>a, <1>c DEF TypeOK
    <3>3. \A t \in Tx : owned[t] \subseteq owned'[t]
      BY <1>5, <1>a DEF TypeOK
    <3> QED BY <1>5, <1>a, <3>1, <3>2, <3>3, ManifestTruth
  <2>2. Progress'
    <3>1. CASE pc = "syncCommitting"
      <4>1. /\ pc' = "publish" /\ UNCHANGED <<cur, i, j, fs, batch, owned>> /\ i = 1 /\ j = 1
            /\ owned[cur] = {}
        BY <1>5, <3>1, <1>a DEF AfterSync, NextPhase, GoTo, Position, Progress
      <4>2. PublishedSoFar'
        BY <4>1 DEF PublishedSoFar, IntentsAfter, MadePresent
      <4> QED BY <4>1, <4>2 DEF Progress
    <3>2. CASE pc = "syncCommitted"
      <4>1. c \notin touched => AllAfter(c)
        BY <3>2, <1>a, <1>c, <1>d DEF PlacePhase, PhaseAt, TruthOf, PhaseTells, Busy
      <4>2. CASE Deferred(batch[cur])
        BY <1>5, <3>2, <4>1, <4>2, <1>i DEF AfterSync, NextPhase
      <4>3. CASE ~Deferred(batch[cur])
        BY <1>5, <3>2, <4>1, <4>3, <1>c, <1>f DEF AfterSync, NextPhase, GoTo, Progress
      <4> QED BY <4>2, <4>3
    <3> QED BY <1>5, <3>1, <3>2
  <2> QED BY <1>5, <1>a, <1>b, <2>1, <2>2 DEF Inv
<1>6. CASE PhaseUncertain
  <2> USE DEF PhaseUncertain, diskVars, envVars, taskVars
  <2>1. Truth'
    <3>1. (c \notin touched /\ ws'[c] # "none") => TruthOf(c)'
      BY <1>6, <1>a, <1>c, <1>d, <1>f DEF NextPhase, EachBeforeOrAfter, AllBefore, IntentsBefore, AllAfter, IntentsAfter, TruthOf, PhaseTells, Settled, TypeOK, PlacePhase, PhaseAt, Progress, Busy
    <3>2. \A t \in Tx \ {c} : ws'[t] = ws[t] /\ durable'[t] = durable[t]
      BY <1>6, <1>a, <1>c DEF TypeOK
    <3>3. \A t \in Tx : owned[t] \subseteq owned'[t]
      BY <1>6, <1>a DEF TypeOK
    <3> QED BY <1>6, <1>a, <3>1, <3>2, <3>3, ManifestTruth
  <2>2. Progress'
    BY <1>6, <1>e DEF RetainWorkspace
  <2> QED BY <1>6, <1>a, <1>b, <2>1, <2>2 DEF Inv
<1>7. CASE WritePhaseFails
  <2> USE DEF WritePhaseFails, diskVars, envVars, taskVars
  <2>1. Truth'
    BY <1>7, <1>g
  <2>2. Progress'
    <3>1. CASE pc = "toCommitting"
      BY <1>7, <3>1, <1>a, <1>c, <1>d, <1>j DEF PlacePhase, PhaseAt, TruthOf, PhaseTells, Busy
    <3>2. CASE pc # "toCommitting"
      BY <1>7, <3>2, <1>e, <1>h DEF RetainWorkspace
    <3> QED BY <3>1, <3>2
  <2> QED BY <1>7, <1>a, <1>b, <2>1, <2>2 DEF Inv
<1>8. CASE PublishCheck
  <2> USE DEF PublishCheck, diskVars, envVars, taskVars
  <2>1. Truth'
    BY <1>8, <1>g
  <2>2. Progress'
    <3>1. CASE StartRollback
      BY <1>8, <3>1, <1>h
    <3>2. CASE Arm
      BY <1>8, <3>2, <1>a, <1>c, <1>f DEF Arm, Progress, PublishedSoFar, IntentsAfter, Current, MadePresent, GoTo
    <3>3. CASE NextOperation /\ Published(PublishLoc)
      <4> SUFFICES ASSUME c \notin touched
                   PROVE  /\ pc' = "publish" => PublishedSoFar'
                          /\ pc' \in {"toCommitted", "index"} => AllAfter(cur)'
        BY <1>8, <3>3, <1>c DEF NextOperation, Progress
      <4>1. fs[PublishLoc] = After(Current, PublishLoc)
        <5>1. ASSUME Current.kind = "mkdir"
              PROVE  After(Current, PublishLoc) = Directory /\ PublishLoc = Current.path
          <6>1. PublishOrder(Current) = <<Current.path>>
            BY <5>1 DEF PublishOrder
          <6>2. j = 1
            BY <1>8, <1>a, <6>1 DEF Position, Current
          <6> QED BY <5>1, <6>1, <6>2 DEF After, PublishLoc
        <5>2. CASE Current.kind = "mkdir"
          BY <1>8, <3>3, <5>1, <5>2, <1>a, <1>c, OperationPlace DEF Published, Progress, PublishedSoFar, MadePresent, Current
        <5>3. CASE Current.kind # "mkdir"
          BY <3>3, <5>3 DEF Published
        <5> QED BY <5>2, <5>3
      <4>2. MadePresent(cur)' /\ PublishedSoFar
        BY <1>8, <3>3, <1>a, <1>c, <1>f DEF Progress, PublishedSoFar, NextOperation
      <4> QED BY <1>8, <3>3, <4>1, <4>2, <1>a, AdvancePublish DEF NextOperation
    <3> QED BY <1>8, <3>1, <3>2, <3>3
  <2> QED BY <1>8, <1>a, <1>b, <2>1, <2>2 DEF Inv
<1>9. CASE PublishIntent
  <2> USE DEF PublishIntent, PublishEffect, envVars
  <2>1. Truth' /\ (MadePresent(c) => MadePresent(c)')
    <3>1. /\ i \in DOMAIN batch[c] /\ PublishLoc \in Loc /\ PublishLoc \in Locs(batch[c][i])
          /\ Current = batch[c][i] /\ batch[c] # <<>>
          /\ ws[c] = "committing" /\ durable[c] = "committing"
      BY <1>9, <1>a, <1>c, <1>d, OperationPlace DEF Current, PlacePhase, PhaseAt, Busy, TypeOK
    <3>2. /\ owned'[c] = IF PublishLoc \in Items \/ batch[c][i].kind = "mkdir"
                           THEN owned[c] \cup {PublishLoc} ELSE owned[c]
          /\ \A t \in Tx \ {c} : owned'[t] = owned[t]
      BY <1>9, <1>a, <1>c DEF OwnedAfterPublish, Current, TypeOK
    <3>3. (UnmadeMissing(c) => UnmadeMissing(c)') /\ (MadePresent(c) => MadePresent(c)')
      BY <1>9, <1>a, <3>1, <3>2, PublishDirectories
    <3>4. Touch(PublishLoc, {c})
      BY <1>9, <1>c
    <3> QED BY <1>9, <1>a, <3>1, <3>2, <3>3, <3>4, EffectTruth
  <2>2. Progress'
    <3> SUFFICES ASSUME c \notin touched'
                 PROVE  /\ pc' = "publish" => PublishedSoFar'
                        /\ pc' \in {"toCommitted", "index"} => AllAfter(cur)'
      BY <1>9, <1>c DEF NextOperation, Progress
    <3>1. PublishedSoFar /\ c \notin touched
      BY <1>9, <1>a, <1>c DEF Progress, Touch
    <3>2. MadePresent(cur)'
      BY <1>9, <3>1, <2>1, <1>c DEF PublishedSoFar, NextOperation
    <3>3. /\ fs'[PublishLoc] = After(Current, PublishLoc)
          /\ \A k \in DOMAIN batch[cur] : \A x \in Locs(batch[cur][k]) :
               (k # i \/ x # PublishLoc) => fs'[x] = fs[x]
      BY <1>9, <1>a, <1>c, <1>d, OperationPlace DEF Separated, Separate, TypeOK, Busy
    <3> QED BY <1>9, <1>a, <3>1, <3>2, <3>3, AdvancePublish DEF NextOperation
  <2> QED BY <1>9, <1>a, <1>b, <2>1, <2>2 DEF Inv
<1>10. CASE PublishRefused
  <2> USE DEF PublishRefused, diskVars, envVars, taskVars
  <2>1. Truth'
    BY <1>10, <1>g
  <2>2. Progress'
    <3>1. CASE StartRollback
      BY <1>10, <3>1, <1>h
    <3>2. CASE FALSE
      BY <1>10, <3>2, <1>a, <1>c, <1>f DEF Arm, Progress, PublishedSoFar, IntentsAfter, Current, MadePresent, GoTo
    <3>3. CASE NextOperation /\ Current.kind = "rmdir" /\ fs[PublishLoc] = Missing
      <4> SUFFICES ASSUME c \notin touched
                   PROVE  /\ pc' = "publish" => PublishedSoFar'
                          /\ pc' \in {"toCommitted", "index"} => AllAfter(cur)'
        BY <1>10, <3>3, <1>c DEF NextOperation, Progress
      <4>1. fs[PublishLoc] = After(Current, PublishLoc)
        BY <3>3 DEF After
      <4>2. MadePresent(cur)' /\ PublishedSoFar
        BY <1>10, <3>3, <1>a, <1>c, <1>f DEF Progress, PublishedSoFar, NextOperation
      <4> QED BY <1>10, <3>3, <4>1, <4>2, <1>a, AdvancePublish DEF NextOperation
    <3> QED BY <1>10, <3>1, <3>2, <3>3
  <2> QED BY <1>10, <1>a, <1>b, <2>1, <2>2 DEF Inv
<1>11. CASE PublishFails
  <2> USE DEF PublishFails, envVars
  <2>1. Truth'
    <3>1. CASE UNCHANGED <<fs, touched>> /\ UNCHANGED diskVars
      BY <3>1, <1>g
    <3>2. CASE PublishEffect(PublishLoc)
      <4> USE DEF PublishEffect
      <4>1. /\ i \in DOMAIN batch[c] /\ PublishLoc \in Loc /\ PublishLoc \in Locs(batch[c][i])
            /\ Current = batch[c][i] /\ batch[c] # <<>>
            /\ ws[c] = "committing" /\ durable[c] = "committing"
        BY <1>11, <1>a, <1>c, <1>d, OperationPlace DEF Current, PlacePhase, PhaseAt, Busy, TypeOK
      <4>2. /\ owned'[c] = IF PublishLoc \in Items \/ batch[c][i].kind = "mkdir"
                             THEN owned[c] \cup {PublishLoc} ELSE owned[c]
            /\ \A t \in Tx \ {c} : owned'[t] = owned[t]
        BY <3>2, <1>a, <1>c DEF OwnedAfterPublish, Current, TypeOK
      <4>3. UnmadeMissing(c) => UnmadeMissing(c)'
        BY <3>2, <1>a, <4>1, <4>2, PublishDirectories
      <4>4. Touch(PublishLoc, {c})
        BY <3>2, <1>c
      <4> QED BY <3>2, <1>a, <4>1, <4>2, <4>3, <4>4, EffectTruth
    <3> QED BY <1>11, <3>1, <3>2
  <2>2. UNCHANGED batch
    BY <1>11 DEF PublishEffect, diskVars
  <2>3. Progress'
    BY <1>11, <2>2, <1>h
  <2> QED BY <1>a, <1>b, <2>1, <2>2, <2>3 DEF Inv
<1>12. CASE RollbackCheck
  <2> USE DEF RollbackCheck, diskVars, envVars, taskVars
  <2>1. Truth'
    BY <1>12, <1>g
  <2>2. Progress'
    <3>1. CASE RetainWorkspace
      BY <1>12, <3>1, <1>e DEF RetainWorkspace
    <3>2. CASE Arm
      BY <1>12, <3>2, <1>a, <1>c, <1>f DEF Arm, Progress, RolledBackSoFar, IntentsBefore, Current
    <3>3. CASE PreviousOperation /\ RolledBack(RollbackLoc)
      <4> SUFFICES ASSUME c \notin touched
                   PROVE  /\ pc' = "rollback" => RolledBackSoFar'
                          /\ pc' = "remove" => AllBefore(cur)'
        BY <1>12, <3>3, <1>a, <1>c DEF PreviousOperation, Progress, Removable, Settled
      <4>1. fs[RollbackLoc] = Before(Current, RollbackLoc)
        <5>1. ASSUME Current.kind = "mkdir"
              PROVE  Before(Current, RollbackLoc) = Missing /\ RollbackLoc = Current.path
          <6>1. RollbackOrder(Current) = <<Current.path>>
            BY <5>1 DEF RollbackOrder
          <6>2. j = 1
            BY <1>12, <1>a, <6>1 DEF Position, Current
          <6> QED BY <5>1, <6>1, <6>2 DEF Before, RollbackLoc
        <5>2. CASE Current.kind = "mkdir"
          BY <1>12, <3>3, <5>1, <5>2, <1>a, <1>c, <1>d, OperationPlace DEF RolledBack, TruthOf, UnmadeMissing, Current, Busy
        <5>3. CASE Current.kind # "mkdir"
          BY <3>3, <5>3 DEF RolledBack
        <5> QED BY <5>2, <5>3
      <4>2. RolledBackSoFar
        BY <1>12, <1>a, <1>c DEF Progress
      <4> QED BY <1>12, <3>3, <4>1, <4>2, <1>a, AdvanceRollback
    <3> QED BY <1>12, <3>1, <3>2, <3>3
  <2> QED BY <1>12, <1>a, <1>b, <2>1, <2>2 DEF Inv
<1>13. CASE RollbackUnreadable
  <2> USE DEF RollbackUnreadable, diskVars, envVars, taskVars
  <2>1. Truth'
    BY <1>13, <1>g
  <2>2. Progress'
    BY <1>13, <1>e DEF RetainWorkspace
  <2> QED BY <1>13, <1>a, <1>b, <2>1, <2>2 DEF Inv
<1>14. CASE RollbackIntent
  <2> USE DEF RollbackIntent, RollbackEffect, envVars
  <2>1. Truth'
    <3>1. /\ i \in DOMAIN batch[c] /\ RollbackLoc \in Loc /\ RollbackLoc \in Locs(batch[c][i])
          /\ Current = batch[c][i] /\ batch[c] # <<>>
          /\ ws[c] = "committing" /\ durable[c] = "committing"
      BY <1>14, <1>a, <1>c, <1>d, OperationPlace DEF Current, PlacePhase, PhaseAt, Busy, TypeOK
    <3>2. /\ owned'[c] = IF RollbackLoc \in Items THEN owned[c] \ {RollbackLoc} ELSE owned[c]
          /\ \A t \in Tx \ {c} : owned'[t] = owned[t]
      BY <1>14, <1>a, <1>c DEF OwnedAfterRollback, TypeOK
    <3>3. UnmadeMissing(c) => UnmadeMissing(c)'
      BY <1>14, <1>a, <3>1, <3>2, RollbackDirectories
    <3>4. Touch(RollbackLoc, {c})
      BY <1>14, <1>c
    <3> QED BY <1>14, <1>a, <3>1, <3>2, <3>3, <3>4, EffectTruth
  <2>2. Progress'
    <3> SUFFICES ASSUME c \notin touched'
                 PROVE  /\ pc' = "rollback" => RolledBackSoFar'
                        /\ pc' = "remove" => AllBefore(cur)'
      BY <1>14, <1>a, <1>c DEF PreviousOperation, Progress, Removable, Settled
    <3>1. RolledBackSoFar /\ c \notin touched
      BY <1>14, <1>a, <1>c DEF Progress, Touch
    <3>3. /\ fs'[RollbackLoc] = Before(Current, RollbackLoc)
          /\ \A k \in DOMAIN batch[cur] : \A x \in Locs(batch[cur][k]) :
               (k # i \/ x # RollbackLoc) => fs'[x] = fs[x]
      BY <1>14, <1>a, <1>c, <1>d, OperationPlace DEF Separated, Separate, TypeOK, Busy
    <3> QED BY <1>14, <1>a, <3>1, <3>3, AdvanceRollback
  <2> QED BY <1>14, <1>a, <1>b, <2>1, <2>2 DEF Inv
<1>15. CASE RollbackRefused
  <2> USE DEF RollbackRefused, diskVars, envVars, taskVars
  <2>1. Truth'
    BY <1>15, <1>g
  <2>2. Progress'
    <3>1. CASE RetainWorkspace
      BY <1>15, <3>1, <1>e DEF RetainWorkspace
    <3>2. CASE FALSE
      BY <1>15, <3>2, <1>a, <1>c, <1>f DEF Arm, Progress, RolledBackSoFar, IntentsBefore, Current
    <3>3. CASE PreviousOperation /\ Current.kind = "mkdir" /\ fs[RollbackLoc] = Missing
      <4> SUFFICES ASSUME c \notin touched
                   PROVE  /\ pc' = "rollback" => RolledBackSoFar'
                          /\ pc' = "remove" => AllBefore(cur)'
        BY <1>15, <3>3, <1>a, <1>c DEF PreviousOperation, Progress, Removable, Settled
      <4>1. fs[RollbackLoc] = Before(Current, RollbackLoc)
        BY <3>3 DEF Before
      <4>2. RolledBackSoFar
        BY <1>15, <1>a, <1>c DEF Progress
      <4> QED BY <1>15, <3>3, <4>1, <4>2, <1>a, AdvanceRollback
    <3> QED BY <1>15, <3>1, <3>2, <3>3
  <2> QED BY <1>15, <1>a, <1>b, <2>1, <2>2 DEF Inv
<1>16. CASE RollbackFails
  <2> USE DEF RollbackFails, envVars
  <2>1. Truth'
    <3>1. CASE UNCHANGED <<fs, touched>> /\ UNCHANGED diskVars
      BY <3>1, <1>g
    <3>2. CASE RollbackEffect(RollbackLoc)
      <4> USE DEF RollbackEffect
      <4>1. /\ i \in DOMAIN batch[c] /\ RollbackLoc \in Loc /\ RollbackLoc \in Locs(batch[c][i])
            /\ Current = batch[c][i] /\ batch[c] # <<>>
            /\ ws[c] = "committing" /\ durable[c] = "committing"
        BY <1>16, <1>a, <1>c, <1>d, OperationPlace DEF Current, PlacePhase, PhaseAt, Busy, TypeOK
      <4>2. /\ owned'[c] = IF RollbackLoc \in Items THEN owned[c] \ {RollbackLoc} ELSE owned[c]
            /\ \A t \in Tx \ {c} : owned'[t] = owned[t]
        BY <3>2, <1>a, <1>c DEF OwnedAfterRollback, TypeOK
      <4>3. UnmadeMissing(c) => UnmadeMissing(c)'
        BY <3>2, <1>a, <4>1, <4>2, RollbackDirectories
      <4>4. Touch(RollbackLoc, {c})
        BY <3>2, <1>c
      <4> QED BY <3>2, <1>a, <4>1, <4>2, <4>3, <4>4, EffectTruth
    <3> QED BY <1>16, <3>1, <3>2
  <2>2. UNCHANGED batch
    BY <1>16 DEF RollbackEffect, diskVars
  <2>3. Progress'
    BY <1>16, <1>e DEF RetainWorkspace
  <2> QED BY <1>a, <1>b, <2>1, <2>2, <2>3 DEF Inv
<1>17. CASE ReconcileIndex
  <2> USE DEF ReconcileIndex, diskVars, envVars, taskVars
  <2>1. Truth'
    BY <1>17, <1>g
  <2>2. Progress'
    <3>1. c \notin touched => AllAfter(c)
      BY <1>17, <1>a, <1>c DEF Progress
    <3>2. CASE Deferred(batch[cur])
      BY <1>17, <3>1, <3>2, <1>c, <1>f DEF GoTo, Progress
    <3>3. CASE ~Deferred(batch[cur])
      BY <1>17, <3>1, <3>3, <1>i
    <3> QED BY <3>2, <3>3
  <2> QED BY <1>17, <1>a, <1>b, <2>1, <2>2 DEF Inv
<1>18. CASE ReconcileIndexRefused
  <2> USE DEF ReconcileIndexRefused, diskVars, envVars, taskVars
  <2>1. Truth'
    BY <1>18, <1>g
  <2>2. Progress'
    BY <1>18, <1>e, <1>h DEF IndexAfterFailure, RetainWorkspace
  <2> QED BY <1>18, <1>a, <1>b, <2>1, <2>2 DEF Inv
<1>19. CASE ReconcileIndexFails
  <2> USE DEF ReconcileIndexFails, diskVars, envVars, taskVars
  <2>1. Truth'
    BY <1>19, <1>g
  <2>2. Progress'
    BY <1>19, <1>e, <1>h DEF IndexAfterFailure, RetainWorkspace
  <2> QED BY <1>19, <1>a, <1>b, <2>1, <2>2 DEF Inv
<1>20. CASE RemovePayload
  <2> USE DEF RemovePayload, diskVars, envVars, taskVars
  <2>1. Truth'
    <3>1. (c \notin touched /\ ws'[c] # "none") => TruthOf(c)'
      BY <1>20, <1>a, <1>c, <1>d, <1>f DEF TruthOf, PhaseTells, Settled, TypeOK, PlacePhase, PhaseAt, Progress, Busy
    <3>2. \A t \in Tx \ {c} : ws'[t] = ws[t] /\ durable'[t] = durable[t]
      BY <1>20, <1>a, <1>c DEF TypeOK
    <3>3. \A t \in Tx : owned[t] \subseteq owned'[t]
      BY <1>20, <1>a DEF TypeOK
    <3> QED BY <1>20, <1>a, <3>1, <3>2, <3>3, ManifestTruth
  <2>2. Progress'
    BY <1>20, <1>a, <1>c, <1>f DEF Progress, Removable, Settled
  <2> QED BY <1>20, <1>a, <1>b, <2>1, <2>2 DEF Inv
<1>21. CASE RemoveManifest
  <2> USE DEF RemoveManifest, diskVars, envVars, taskVars
  <2>1. Truth'
    <3>1. (c \notin touched /\ ws'[c] # "none") => TruthOf(c)'
      BY <1>21, <1>a, <1>c, <1>d, <1>f DEF Removable, TruthOf, PhaseTells, Settled, TypeOK, PlacePhase, PhaseAt, Progress, Busy
    <3>2. \A t \in Tx \ {c} : ws'[t] = ws[t] /\ durable'[t] = durable[t]
      BY <1>21, <1>a, <1>c DEF TypeOK
    <3>3. \A t \in Tx : owned[t] \subseteq owned'[t]
      BY <1>21, <1>a DEF TypeOK
    <3> QED BY <1>21, <1>a, <3>1, <3>2, <3>3, ManifestTruth
  <2>2. Progress'
    BY <1>21, <1>a, <1>c, <1>f DEF Progress, Removable, Settled
  <2> QED BY <1>21, <1>a, <1>b, <2>1, <2>2 DEF Inv
<1>22. CASE RemoveDirectory
  <2> USE DEF RemoveDirectory, diskVars, envVars, taskVars
  <2>1. Truth'
    <3>1. (c \notin touched /\ ws'[c] # "none") => TruthOf(c)'
      BY <1>22, <1>a, <1>c, <1>d, <1>f DEF TruthOf, PhaseTells, Settled, TypeOK, PlacePhase, PhaseAt, Progress, Busy
    <3>2. \A t \in Tx \ {c} : ws'[t] = ws[t] /\ durable'[t] = durable[t]
      BY <1>22, <1>a, <1>c DEF TypeOK
    <3>3. \A t \in Tx : owned[t] \subseteq owned'[t]
      BY <1>22, <1>a DEF TypeOK
    <3> QED BY <1>22, <1>a, <3>1, <3>2, <3>3, ManifestTruth
  <2>2. Progress'
    BY <1>22, <1>e
  <2> QED BY <1>22, <1>a, <1>b, <2>1, <2>2 DEF Inv
<1>23. CASE RemoveFails
  <2> USE DEF RemoveFails, diskVars, envVars, taskVars
  <2>1. Truth'
    <3>1. (c \notin touched /\ ws'[c] # "none") => TruthOf(c)'
      BY <1>23, <1>a, <1>c, <1>d, <1>f DEF TruthOf, PhaseTells, Settled, TypeOK, PlacePhase, PhaseAt, Progress, Busy
    <3>2. \A t \in Tx \ {c} : ws'[t] = ws[t] /\ durable'[t] = durable[t]
      BY <1>23, <1>a, <1>c DEF TypeOK
    <3>3. \A t \in Tx : owned[t] \subseteq owned'[t]
      BY <1>23, <1>a DEF TypeOK
    <3> QED BY <1>23, <1>a, <3>1, <3>2, <3>3, ManifestTruth
  <2>2. Progress'
    BY <1>23, <1>e DEF RetainWorkspace
  <2> QED BY <1>23, <1>a, <1>b, <2>1, <2>2 DEF Inv
<1>24. CASE Restart
  <2> USE DEF Restart, diskVars, envVars, taskVars
  <2>1. Truth'
    BY <1>24, <1>g
  <2>2. Progress'
    BY <1>24, <1>e
  <2> QED BY <1>24, <1>a, <1>b, <2>1, <2>2 DEF Inv
<1>25. CASE BuildIndex
  <2> USE DEF BuildIndex, diskVars, envVars, taskVars
  <2>1. Truth'
    BY <1>25, <1>g
  <2>2. Progress'
    BY <1>25, <1>e
  <2> QED BY <1>25, <1>a, <1>b, <2>1, <2>2 DEF Inv
<1>26. CASE ReplayRecovered
  <2> USE DEF ReplayRecovered, diskVars, envVars, taskVars
  <2>1. Truth'
    BY <1>26, <1>g
  <2>2. Progress'
    BY <1>26, <1>e
  <2> QED BY <1>26, <1>a, <1>b, <2>1, <2>2 DEF Inv
<1>27. CASE ReplayRefused
  <2> USE DEF ReplayRefused, diskVars, envVars, taskVars
  <2>1. Truth'
    BY <1>27, <1>g DEF Abort
  <2>2. Progress'
    BY <1>27, <1>e DEF Abort
  <2> QED BY <1>27, <1>a, <1>b, <2>1, <2>2 DEF Inv, Abort
<1>28. CASE StartupFails
  <2> USE DEF StartupFails, diskVars, envVars, taskVars
  <2>1. Truth'
    BY <1>28, <1>g DEF Abort
  <2>2. Progress'
    BY <1>28, <1>e DEF Abort
  <2> QED BY <1>28, <1>a, <1>b, <2>1, <2>2 DEF Inv, Abort
<1>29. CASE Serve
  <2> USE DEF Serve, diskVars, envVars, taskVars
  <2>1. Truth'
    BY <1>29, <1>g
  <2>2. Progress'
    BY <1>29, <1>e
  <2> QED BY <1>29, <1>a, <1>b, <2>1, <2>2 DEF Inv
<1>30. CASE RecoverPending
  <2> USE DEF RecoverPending, diskVars, envVars, taskVars
  <2>1. Truth'
    BY <1>30, <1>g
  <2>2. Progress'
    <3>1. PICK t \in Tx : /\ t \in Unresolved /\ cur' = t /\ i' = Len(batch[t]) /\ j' = 1
                          /\ verdict' = "failed" /\ proc' = "recovering"
                          /\ pc' = IF ws[t] = "committed" THEN "scan"
                                   ELSE IF ws[t] = "committing" THEN "rollback" ELSE "remove"
      BY <1>30 DEF Oldest
    <3>2. CASE pc' = "scan"
      BY <3>2, <1>e
    <3>3. CASE pc' = "rollback"
      <4>1. Len(batch[t]) \in Nat
        BY <1>a, Bounds
      <4>2. (Len(batch[t]) + 1)..Len(batch[t]) = {} /\ 1..(1 - 1) = {}
        BY <4>1
      <4>3. RolledBackSoFar'
        BY <1>30, <3>1, <4>2 DEF RolledBackSoFar, IntentsBefore
      <4> QED BY <3>1, <3>3, <4>3 DEF Progress
    <3>4. CASE pc' = "remove"
      <4>1. t \notin touched => TruthOf(t)
        BY <3>1, <1>a DEF Unresolved, Truth
      <4>2. ws[t] \in {"debris", "prepared"}
        BY <3>1, <3>4, <1>a DEF Unresolved, TypeOK, Phases
      <4>3. t \notin touched => Settled(t)
        BY <4>1, <4>2 DEF TruthOf, PhaseTells, Settled
      <4> QED BY <1>30, <3>1, <3>4, <4>3, <1>f DEF Progress, Removable
    <3> QED BY <3>1, <3>2, <3>3, <3>4
  <2> QED BY <1>30, <1>a, <1>b, <2>1, <2>2 DEF Inv
<1>31. CASE FinishRecovered
  <2> USE DEF FinishRecovered, diskVars, envVars, taskVars
  <2>1. Truth'
    BY <1>31, <1>g
  <2>2. Progress'
    <3>1. PICK t \in Tx : t \in recovered /\ cur' = t
      BY <1>31 DEF Oldest
    <3>2. t \notin touched => Settled(t)
      BY <3>1, <1>a DEF Workspaces, Truth, TruthOf, PhaseTells, Settled
    <3> QED BY <1>31, <3>1, <3>2, <1>f DEF Progress, Removable
  <2> QED BY <1>31, <1>a, <1>b, <2>1, <2>2 DEF Inv
<1>32. ASSUME NEW t \in Tx, NEW b \in Batches, Prepare(t, b)
      PROVE  Inv'
  <2> USE DEF Prepare
  <2>0. ws[t] = "none" /\ touched \subseteq touched'
    BY <1>32, <1>a DEF Workspaces
  <2>1. Separated'
    <3>1. Separate(b)
      BY <1>32, ValidatedIsSeparate
    <3>2. batch'[t] = b /\ \A u \in Tx : u # t => batch'[u] = batch[u]
      BY <1>32, <1>a DEF TypeOK
    <3> QED BY <3>1, <3>2, <1>a DEF Separated
  <2>2. AllBefore(t)' /\ UnmadeMissing(t)'
    <3>1. batch'[t] = b /\ fs' = fs
      BY <1>32, <1>a DEF TypeOK
    <3>2. AllBefore(t)'
      BY <1>32, <3>1 DEF AllBefore, IntentsBefore, validate_observed_state
    <3>3. UnmadeMissing(t)'
      BY <1>32, <3>1 DEF UnmadeMissing, validate_observed_state, Locs, Before
    <3> QED BY <3>2, <3>3
  <2>3. Truth'
    <3> SUFFICES ASSUME NEW u \in Tx, u \notin touched', ws'[u] # "none" PROVE TruthOf(u)'
      BY DEF Truth
    <3>1. CASE u = t
      BY <1>32, <3>1, <2>2, <1>a DEF TruthOf, PhaseTells, Settled, TypeOK
    <3>2. CASE u # t
      <4>1. TruthOf(u)
        BY <1>32, <3>2, <2>0, <1>a DEF Truth, TypeOK
      <4>2. batch'[u] = batch[u] /\ owned'[u] = owned[u] /\ ws'[u] = ws[u] /\ durable'[u] = durable[u]
        BY <1>32, <3>2, <1>a DEF TypeOK
      <4> QED BY <1>32, <4>1, <4>2, TruthFrame
    <3> QED BY <3>1, <3>2
  <2>4. Progress'
    BY <1>32, <2>2, <1>a DEF Progress, TypeOK
  <2> QED BY <1>a, <2>1, <2>3, <2>4 DEF Inv
<1>33. ASSUME NEW l \in Loc, NEW v \in Values, Edit(l, v)
      PROVE  Inv'
  <2> USE DEF Edit, diskVars, taskVars
  <2>0. \A t \in Tx : (ws[t] # "none" /\ t \notin touched') =>
          t \notin touched /\ \A x \in Footprint(batch[t]) : fs'[x] = fs[x]
    <3> SUFFICES ASSUME NEW t \in Tx, ws[t] # "none", t \notin touched'
                 PROVE  t \notin touched /\ \A x \in Footprint(batch[t]) : fs'[x] = fs[x]
      OBVIOUS
    <3>1. t \notin touched /\ l \notin Footprint(batch[t])
      BY <1>33 DEF Touch, InTheWay
    <3> QED BY <1>33, <3>1, <1>a DEF TypeOK
  <2>1. Truth'
    <3> SUFFICES ASSUME NEW t \in Tx, t \notin touched', ws'[t] # "none" PROVE TruthOf(t)'
      BY DEF Truth
    <3>1. TruthOf(t) /\ \A x \in Footprint(batch[t]) : fs'[x] = fs[x]
      BY <1>33, <2>0, <1>a DEF Truth
    <3> QED BY <1>33, <3>1, TruthFrame
  <2>2. Progress'
    <3>1. CASE pc \notin Busy
      BY <1>33, <3>1, <1>a, <1>e DEF TypeOK, Busy
    <3>2. CASE pc \in Busy /\ c \in touched'
      BY <1>33, <3>2, <1>a, <1>c DEF Progress
    <3>3. CASE pc \in Busy /\ c \notin touched'
      <4>1. c \notin touched /\ \A x \in Footprint(batch[c]) : fs'[x] = fs[x]
        BY <3>3, <2>0, <1>d
      <4>2. /\ AllBefore(c)' <=> AllBefore(c)
            /\ AllAfter(c)' <=> AllAfter(c)
            /\ Settled(c)' <=> Settled(c)
            /\ MadePresent(c) => MadePresent(c)'
        BY <1>33, <4>1, FilesFrame
      <4>3. \A k \in DOMAIN batch[c] : \A x \in Locs(batch[c][k]) : fs'[x] = fs[x]
        BY <4>1 DEF Footprint
      <4>4. pc = "publish" => PublishedSoFar'
        <5>1. ASSUME pc = "publish" PROVE PublishedSoFar'
          <6>1. /\ i \in 1..Len(batch[c]) /\ DOMAIN batch[c] = 1..Len(batch[c]) /\ Len(batch[c]) \in Nat
                /\ Current = batch[c][i] /\ j \in 1..Len(PublishOrder(Current))
                /\ \A m \in 1..Len(PublishOrder(Current)) : PublishOrder(Current)[m] \in Locs(Current)
                /\ Len(PublishOrder(Current)) \in Nat
            BY <5>1, <1>a, <1>c, BatchType, OrderType, Bounds DEF Position, Current
          <6>2. PublishedSoFar
            BY <5>1, <4>1, <1>a, <1>c DEF Progress
          <6>3. \A k \in 1..(i - 1) : k \in DOMAIN batch[c]
            BY <6>1
          <6>4. \A m \in 1..(j - 1) : fs'[PublishOrder(Current)[m]] = fs[PublishOrder(Current)[m]]
            BY <6>1, <4>3
          <6> QED BY <1>33, <1>c, <4>2, <4>3, <6>2, <6>3, <6>4 DEF PublishedSoFar, IntentsAfter, Current
        <5> QED BY <5>1
      <4>5. pc = "rollback" => RolledBackSoFar'
        <5>1. ASSUME pc = "rollback" PROVE RolledBackSoFar'
          <6>1. /\ i \in 1..Len(batch[c]) /\ DOMAIN batch[c] = 1..Len(batch[c]) /\ Len(batch[c]) \in Nat
                /\ Current = batch[c][i] /\ j \in 1..Len(RollbackOrder(Current))
                /\ \A m \in 1..Len(RollbackOrder(Current)) : RollbackOrder(Current)[m] \in Locs(Current)
                /\ Len(RollbackOrder(Current)) \in Nat
            BY <5>1, <1>a, <1>c, BatchType, OrderType, Bounds DEF Position, Current
          <6>2. RolledBackSoFar
            BY <5>1, <4>1, <1>a, <1>c DEF Progress
          <6>3. \A k \in (i + 1)..Len(batch[c]) : k \in DOMAIN batch[c]
            BY <6>1
          <6>4. \A m \in 1..(j - 1) : fs'[RollbackOrder(Current)[m]] = fs[RollbackOrder(Current)[m]]
            BY <6>1, <4>3
          <6> QED BY <1>33, <1>c, <4>3, <6>2, <6>3, <6>4 DEF RolledBackSoFar, IntentsBefore, Current
        <5> QED BY <5>1
      <4> QED BY <1>33, <1>a, <1>c, <4>1, <4>2, <4>4, <4>5 DEF Progress, Removable
    <3> QED BY <3>1, <3>2, <3>3
  <2> QED BY <1>33, <1>a, <1>b, <2>1, <2>2 DEF Inv
<1>34. CASE Crash
  <2> USE DEF Crash
  <2>1. Truth'
    <3> SUFFICES ASSUME NEW t \in Tx, t \notin touched', ws'[t] # "none" PROVE TruthOf(t)'
      BY DEF Truth
    <3>1. ws[t] # "none" /\ TruthOf(t)
      BY <1>34, <1>a DEF Workspaces, Truth
    <3> QED BY <1>34, <3>1, <1>f DEF TruthOf, PhaseTells
  <2>2. Progress'
    BY <1>34, <1>e
  <2> QED BY <1>34, <1>a, <1>b, <2>1, <2>2 DEF Inv
<1>35. CASE UNCHANGED vars
  BY <1>35, <1>a, <1>g DEF vars, diskVars, Inv, Separated, Progress, Removable, Settled, PublishedSoFar, RolledBackSoFar, MadePresent, IntentsAfter, IntentsBefore, AllAfter, AllBefore, Current
<1> QED
  BY <1>1, <1>2, <1>3, <1>4, <1>5, <1>6, <1>7, <1>8, <1>9, <1>10,
     <1>11, <1>12, <1>13, <1>14, <1>15, <1>16, <1>17, <1>18, <1>19, <1>20,
     <1>21, <1>22, <1>23, <1>24, <1>25, <1>26, <1>27, <1>28, <1>29, <1>30,
     <1>31, <1>32, <1>33, <1>34, <1>35
     DEF Next, TaskStep, FaultStep

\* The inductive invariant holds in every reachable state.
LEMMA Invariant == Spec => []Inv
<1>1. Inv /\ [Next]_vars => Inv'
  BY InvStep
<1> QED BY <1>1, InvInit, PTL DEF Spec

-----------------------------------------------------------------------------
(* What the invariant gives.                                               *)

\* In every reachable state the phase on disk, and the phase a power loss
\* would leave, describe the vault of every batch nobody interfered with
\* (change_phase, publish_inner, rollback_manifest).
THEOREM ManifestTrue == Spec => []ManifestIsTrue
<1>1. Inv => ManifestIsTrue
  <2> SUFFICES ASSUME Inv, NEW t \in Tx, t \notin touched
               PROVE  PhaseTells(t, ws[t]) /\ PhaseTells(t, durable[t])
    BY DEF ManifestIsTrue
  <2>1. CASE ws[t] = "none"
    BY <2>1 DEF Inv, Control, Workspaces, PhaseTells
  <2>2. CASE ws[t] # "none"
    BY <2>2 DEF Inv, Truth, TruthOf
  <2> QED BY <2>1, <2>2
<1> QED BY <1>1, Invariant, PTL

\* A workspace without a manifest never hides half a batch
\* (remove_workspace).
THEOREM WholeBatches == Spec => []AllOrNothing
<1>1. Inv => AllOrNothing
  BY DEF Inv, Truth, TruthOf, Settled, AllOrNothing
<1> QED BY <1>1, Invariant, PTL

\* Only the removal of a workspace answers ok or failed.
Answers ==
  \A t \in Tx : (reply'[t] # reply[t] /\ reply'[t] \in {"ok", "failed"}) =>
    /\ t = cur /\ pc = "remove" /\ proc = "serving" /\ reply'[t] = verdict
    /\ UNCHANGED fs /\ UNCHANGED batch

\* Only the last step of a removal answers a caller cleanly, and by then the
\* batch is whole or absent according to the verdict.
LEMMA AnswerStep ==
  ASSUME TypeOK, [Next]_vars
  PROVE  Answers
<1> USE DEF Answers
<1>1. CASE reply' = reply
  BY <1>1
<1>2. CASE RetainWorkspace
  BY <1>2 DEF RetainWorkspace, TypeOK
<1>3. CASE RemoveDirectory
  BY <1>3 DEF RemoveDirectory, TypeOK
<1>4. CASE WriteManifest \/ SyncManifest \/ WritePhase \/ SyncPhase \/ PrepareFails
  BY <1>1, <1>4 DEF WriteManifest, SyncManifest, WritePhase, SyncPhase, PrepareFails,
                    AfterSync, GoTo, StartRemoval
<1>5. CASE PublishCheck \/ PublishIntent \/ PublishRefused \/ PublishFails
  BY <1>1, <1>5 DEF PublishCheck, PublishIntent, PublishRefused, PublishFails,
                    NextOperation, Arm, StartRollback
<1>6. CASE RollbackCheck \/ RollbackUnreadable \/ RollbackIntent \/ RollbackRefused \/ RollbackFails
  BY <1>1, <1>2, <1>6 DEF RollbackCheck, RollbackUnreadable, RollbackIntent,
                          RollbackRefused, RollbackFails, PreviousOperation, Arm
<1>7. CASE ReconcileIndex \/ ReconcileIndexRefused \/ ReconcileIndexFails
  BY <1>1, <1>2, <1>7 DEF ReconcileIndex, ReconcileIndexRefused, ReconcileIndexFails,
                          IndexAfterFailure, GoTo, StartRemoval, StartRollback
<1>8. CASE RemovePayload \/ RemoveManifest \/ RemoveFails
  BY <1>1, <1>2, <1>8 DEF RemovePayload, RemoveManifest, RemoveFails, taskVars
<1>9. CASE WritePhaseFails \/ PhaseUncertain
  BY <1>1, <1>2, <1>9 DEF WritePhaseFails, PhaseUncertain, StartRemoval, StartRollback
<1>10. CASE Restart \/ RecoverPending \/ BuildIndex \/ ReplayRecovered \/ ReplayRefused
            \/ StartupFails \/ FinishRecovered \/ Serve \/ Crash
  BY <1>1, <1>10 DEF Restart, RecoverPending, BuildIndex, ReplayRecovered, ReplayRefused,
                     StartupFails, FinishRecovered, Serve, Crash, Abort
<1>11. CASE \/ \E t \in Tx, b \in Batches : Prepare(t, b)
            \/ \E l \in Loc, v \in Values : Edit(l, v)
            \/ UNCHANGED vars
  BY <1>1, <1>11 DEF Prepare, Edit, taskVars, vars
<1> QED BY <1>3, <1>4, <1>5, <1>6, <1>7, <1>8, <1>9, <1>10, <1>11 DEF Next, TaskStep, FaultStep

\* The caller is told the truth: ok only when the whole batch is in the
\* vault, a clean failure only when none of it is
\* (execute_batch_with_guard).
THEOREM AnswersAreTrue == Spec => AnswerMatchesVault
<1>1. ASSUME Inv, [Next]_vars
      PROVE  \A t \in Tx \ touched :
               /\ (reply[t] = "none" /\ reply'[t] = "ok") => AllAfter(t)
               /\ (reply[t] = "none" /\ reply'[t] = "failed") => AllBefore(t)
  <2> SUFFICES ASSUME NEW t \in Tx, t \notin touched, reply[t] = "none",
                      reply'[t] \in {"ok", "failed"}
               PROVE  /\ reply'[t] = "ok" => AllAfter(t)
                      /\ reply'[t] = "failed" => AllBefore(t)
    OBVIOUS
  <2>1. t = cur /\ pc = "remove" /\ proc = "serving" /\ reply'[t] = verdict
    BY <1>1, AnswerStep DEF Inv, Control, Answers
  <2> QED BY <1>1, <2>1 DEF Inv, Progress, Removable
<1> QED BY <1>1, Invariant, PTL DEF Spec, AnswerMatchesVault

-----------------------------------------------------------------------------
(* The transaction protocol implements AtomicVault.                        *)

\* Unresolved batches that nobody interfered with share no file.
Apart ==
  \A t, u \in Tx \ touched :
    (t # u /\ ws[t] # "none" /\ ws[u] # "none")
      => Footprint(batch[t]) \cap Footprint(batch[u]) = {}

\* A workspace reaches Committing only from a durable Prepared.
Ladder == \A t \in Tx : ws[t] = "committing" => durable[t] \in {"prepared", "committing"}

RInv == Inv /\ Apart /\ Ladder

\* A step that changes manifests at most: a workspace whose commit record
\* appears has its files as before, and one whose record goes is settled.
ManifestStep ==
  /\ UNCHANGED <<fs, batch, edits, touched>>
  /\ \A t \in Tx : ws'[t] # "none" => ws[t] # "none"
  /\ \A t \in Tx \ touched :
       /\ (durable[t] = "committing" /\ durable'[t] # "committing") => Settled(t)
       /\ (durable[t] # "committing" /\ durable'[t] = "committing") => AllBefore(t)

\* A step that changes one file of a batch whose commit record is durable.
OperationStep ==
  /\ UNCHANGED <<batch, edits, ws, durable>>
  /\ touched \subseteq touched' /\ durable[cur] = "committing"
  /\ \E l \in Footprint(batch[cur]), v \in Values : fs' = [fs EXCEPT ![l] = v]

PrepareStep == \E t \in Tx, b \in Batches : Prepare(t, b)
EditStep == \E l \in Loc, v \in Values : Edit(l, v)

\* An operation of the running task writes a value to a location of its batch.
LEMMA OperationIsOfBatch ==
  ASSUME TypeOK, Position
  PROVE  /\ pc = "publish" => /\ PublishLoc \in Footprint(batch[cur])
                              /\ After(Current, PublishLoc) \in Values
         /\ pc = "rollback" => /\ RollbackLoc \in Footprint(batch[cur])
                               /\ Before(Current, RollbackLoc) \in Values
BY OperationPlace, BatchType, ValueType DEF Footprint, Current, TypeOK

\* Every step is of one of four kinds.
LEMMA StepKinds ==
  ASSUME RInv, [Next]_vars
  PROVE  ManifestStep \/ OperationStep \/ PrepareStep \/ EditStep
<1>a. TypeOK /\ Position /\ Workspaces /\ PlacePhase /\ Truth /\ Progress /\ Ladder /\ cur \in Tx
  BY DEF RInv, Inv, Control, TypeOK
<1>b. UNCHANGED <<fs, batch, edits, touched, ws, durable>> => ManifestStep
  BY DEF ManifestStep
<1>c. ASSUME UNCHANGED <<fs, batch, edits, touched>>,
             \A t \in Tx \ {cur} : ws'[t] = ws[t] /\ durable'[t] = durable[t],
             ws'[cur] # "none" => ws[cur] # "none",
             cur \notin touched => 
               /\ (durable[cur] = "committing" /\ durable'[cur] # "committing") => Settled(cur)
               /\ (durable[cur] # "committing" /\ durable'[cur] = "committing") => AllBefore(cur)
      PROVE  ManifestStep
  BY <1>a, <1>c DEF ManifestStep
<1>d. ASSUME NEW l \in Footprint(batch[cur]), NEW v \in Values, UNCHANGED <<batch, edits, ws, durable>>,
             Touch(l, {cur}), fs' = [fs EXCEPT ![l] = v], pc \in {"publish", "rollback"}
      PROVE  OperationStep
  BY <1>a, <1>d DEF OperationStep, Touch, PlacePhase, PhaseAt
<1>e. pc \in Busy /\ cur \notin touched => TruthOf(cur)
  BY <1>a DEF Truth, Workspaces
<1>1. CASE WriteManifest \/ PrepareFails
  <2>1. \A t \in Tx \ {cur} : ws'[t] = ws[t] /\ durable'[t] = durable[t]
    BY <1>1, <1>a DEF WriteManifest, PrepareFails, TypeOK
  <2>2. UNCHANGED <<fs, batch, edits, touched, durable>> /\ ws[cur] # "none"
    BY <1>1, <1>a DEF WriteManifest, PrepareFails, Workspaces, Busy, envVars
  <2> QED BY <2>1, <2>2, <1>c
<1>2. CASE SyncManifest
  <2>1. \A t \in Tx \ {cur} : ws'[t] = ws[t] /\ durable'[t] = durable[t]
    BY <1>2, <1>a DEF SyncManifest, TypeOK
  <2>2. UNCHANGED <<fs, batch, edits, touched, ws>>
    BY <1>2, <1>a DEF SyncManifest, envVars
  <2>3. durable[cur] = "debris" /\ durable'[cur] = "prepared"
    BY <1>2, <1>a DEF SyncManifest, PlacePhase, PhaseAt, TypeOK
  <2> QED BY <2>1, <2>2, <2>3, <1>c
<1>3. CASE WritePhase \/ PhaseUncertain
  <2>1. \A t \in Tx \ {cur} : ws'[t] = ws[t] /\ durable'[t] = durable[t]
    BY <1>3, <1>a DEF WritePhase, PhaseUncertain, TypeOK
  <2>2. UNCHANGED <<fs, batch, edits, touched, durable>> /\ ws[cur] # "none"
    BY <1>3, <1>a DEF WritePhase, PhaseUncertain, Workspaces, Busy, envVars
  <2> QED BY <2>1, <2>2, <1>c
<1>4. CASE SyncPhase
  <2>1. \A t \in Tx \ {cur} : ws'[t] = ws[t] /\ durable'[t] = durable[t]
    BY <1>4, <1>a DEF SyncPhase, TypeOK
  <2>2. UNCHANGED <<fs, batch, edits, touched, ws>>
    BY <1>4, <1>a DEF SyncPhase, envVars
  <2>3. \/ durable[cur] = "prepared" /\ durable'[cur] = "committing"
        \/ durable[cur] = "committing" /\ durable'[cur] = "committed" /\ ws[cur] = "committed"
    BY <1>4, <1>a DEF SyncPhase, PlacePhase, PhaseAt, TypeOK
  <2>4. cur \notin touched => TruthOf(cur)
    BY <1>4, <1>e DEF SyncPhase, Busy
  <2> QED BY <2>1, <2>2, <2>3, <2>4, <1>c DEF TruthOf, PhaseTells, Settled
<1>5. CASE PublishCheck \/ PublishRefused \/ RollbackCheck \/ RollbackUnreadable
           \/ RollbackRefused \/ ReconcileIndex \/ ReconcileIndexRefused
           \/ ReconcileIndexFails \/ WritePhaseFails
  BY <1>5, <1>b DEF PublishCheck, PublishRefused, RollbackCheck, RollbackUnreadable,
       RollbackRefused, ReconcileIndex, ReconcileIndexRefused, ReconcileIndexFails,
       WritePhaseFails, diskVars, envVars
<1>6. CASE Restart \/ RecoverPending \/ BuildIndex \/ ReplayRecovered \/ ReplayRefused
           \/ StartupFails \/ FinishRecovered \/ Serve \/ UNCHANGED vars
  BY <1>6, <1>b DEF Restart, RecoverPending, BuildIndex, ReplayRecovered, ReplayRefused,
       StartupFails, FinishRecovered, Serve, Abort, diskVars, envVars, vars
<1>7. CASE PublishIntent \/ PublishFails
  <2>1. pc = "publish" /\ edits' = edits
    BY <1>7 DEF PublishIntent, PublishFails, envVars
  <2>2. CASE PublishEffect(PublishLoc)
    BY <2>1, <2>2, <1>a, <1>d, OperationIsOfBatch DEF PublishEffect
  <2>3. CASE ~PublishEffect(PublishLoc)
    BY <1>7, <2>1, <2>3, <1>b DEF PublishIntent, PublishFails, diskVars
  <2> QED BY <2>2, <2>3
<1>8. CASE RollbackIntent \/ RollbackFails
  <2>1. pc = "rollback" /\ edits' = edits
    BY <1>8 DEF RollbackIntent, RollbackFails, envVars
  <2>2. CASE RollbackEffect(RollbackLoc)
    BY <2>1, <2>2, <1>a, <1>d, OperationIsOfBatch DEF RollbackEffect
  <2>3. CASE ~RollbackEffect(RollbackLoc)
    BY <1>8, <2>1, <2>3, <1>b DEF RollbackIntent, RollbackFails, diskVars
  <2> QED BY <2>2, <2>3
<1>9. CASE RemovePayload
  BY <1>9, <1>b DEF RemovePayload, envVars
<1>10. CASE RemoveManifest \/ RemoveDirectory \/ RemoveFails
  <2>1. \A t \in Tx \ {cur} : ws'[t] = ws[t] /\ durable'[t] = durable[t]
    BY <1>10, <1>a DEF RemoveManifest, RemoveDirectory, RemoveFails, TypeOK
  <2>2. UNCHANGED <<fs, batch, edits, touched>> /\ pc = "remove" /\ ws[cur] # "none"
    BY <1>10, <1>a DEF RemoveManifest, RemoveDirectory, RemoveFails, envVars, Workspaces, Busy
  <2>3. durable'[cur] \in {durable[cur], "debris", "none"}
    BY <1>10, <1>a DEF RemoveManifest, RemoveDirectory, RemoveFails, TypeOK
  <2>4. cur \notin touched => Settled(cur)
    BY <2>2, <1>a DEF Progress, Removable
  <2> QED BY <2>1, <2>2, <2>3, <2>4, <1>c
<1>11. CASE Crash
  <2>1. UNCHANGED <<fs, batch, edits, touched>>
    BY <1>11 DEF Crash
  <2> SUFFICES ASSUME NEW t \in Tx
               PROVE  /\ ws'[t] # "none" => ws[t] # "none"
                      /\ t \notin touched =>
                         /\ (durable[t] = "committing" /\ durable'[t] # "committing") => Settled(t)
                         /\ (durable[t] # "committing" /\ durable'[t] = "committing") => AllBefore(t)
    BY <2>1 DEF ManifestStep
  <2>2. ws'[t] \in {ws[t], durable[t]} /\ durable'[t] = ws'[t]
    BY <1>11, <1>a DEF Crash
  <2>3. ws[t] \in Phases /\ (ws[t] = "none" <=> durable[t] = "none")
    BY <1>a DEF TypeOK, Workspaces
  <2>4. t \notin touched /\ ws[t] # "none" => TruthOf(t)
    BY <1>a DEF Truth
  <2> QED BY <2>2, <2>3, <2>4, <1>a DEF Phases, TruthOf, PhaseTells, Settled, Ladder
<1>12. CASE \E t \in Tx, b \in Batches : Prepare(t, b)
  BY <1>12 DEF PrepareStep
<1>13. CASE \E l \in Loc, v \in Values : Edit(l, v)
  BY <1>13 DEF EditStep
<1> QED BY <1>1, <1>2, <1>3, <1>4, <1>5, <1>6, <1>7, <1>8, <1>9, <1>10, <1>11, <1>12, <1>13
     DEF Next, TaskStep, FaultStep
\* RInv is inductive: only Prepare adds a workspace, and it marks the ones
\* whose files it shares.
LEMMA RefinementStep ==
  ASSUME RInv, [Next]_vars
  PROVE  RInv'
<1>a. TypeOK /\ Position /\ Workspaces /\ PlacePhase /\ Ladder /\ Apart /\ cur \in Tx
  BY DEF RInv, Inv, Control, TypeOK
<1>1. Inv'
  BY InvStep DEF RInv
<1>2. Apart'
  <2>1. CASE ManifestStep
    BY <1>a, <2>1 DEF ManifestStep, Apart
  <2>2. CASE OperationStep
    BY <1>a, <2>2 DEF OperationStep, Apart
  <2>3. CASE PrepareStep
    <3>1. PICK t \in Tx, b \in Batches : Prepare(t, b)
      BY <2>3 DEF PrepareStep
    <3>2. /\ batch'[t] = b /\ \A u \in Tx \ {t} : batch'[u] = batch[u] /\ ws'[u] = ws[u]
          /\ touched \subseteq touched'
          /\ \A u \in Tx : (ws[u] # "none" /\ \E l \in Footprint(b) : InTheWay(l, batch[u]))
                              => u \in touched'
      BY <3>1, <1>a DEF Prepare, TypeOK
    <3>3. ASSUME NEW u \in Tx, u # t, u \notin touched', ws'[u] # "none"
          PROVE  Footprint(batch'[u]) \cap Footprint(b) = {}
      BY <3>2, <3>3 DEF InTheWay
    <3> QED BY <1>a, <3>2, <3>3 DEF Apart
  <2>4. CASE EditStep
    BY <1>a, <2>4 DEF EditStep, Edit, Touch, diskVars, Apart
  <2> QED BY <2>1, <2>2, <2>3, <2>4, StepKinds
<1>3. Ladder'
  <2>1. CASE UNCHANGED <<ws, durable>>
    BY <1>a, <2>1 DEF Ladder
  <2>2. CASE WriteManifest \/ PrepareFails \/ WritePhase \/ PhaseUncertain
    BY <1>a, <2>2 DEF WriteManifest, PrepareFails, WritePhase, PhaseUncertain, NextPhase,
         PlacePhase, PhaseAt, Ladder, TypeOK
  <2>3. CASE SyncManifest \/ SyncPhase
    BY <1>a, <2>3 DEF SyncManifest, SyncPhase, PlacePhase, PhaseAt, Ladder, TypeOK
  <2>4. CASE RemoveManifest \/ RemoveDirectory \/ RemoveFails
    BY <1>a, <2>4 DEF RemoveManifest, RemoveDirectory, RemoveFails, Ladder, TypeOK
  <2>5. CASE Crash
    BY <1>a, <2>5 DEF Crash, Ladder
  <2>6. CASE PrepareStep
    BY <1>a, <2>6 DEF PrepareStep, Prepare, Ladder, TypeOK
  <2>7. CASE EditStep
    BY <2>1, <2>7 DEF EditStep, Edit, diskVars
  <2>8. CASE PublishCheck \/ PublishIntent \/ PublishRefused \/ PublishFails \/ RollbackCheck
             \/ RollbackUnreadable \/ RollbackIntent \/ RollbackRefused \/ RollbackFails
             \/ ReconcileIndex \/ ReconcileIndexRefused \/ ReconcileIndexFails \/ WritePhaseFails
             \/ RemovePayload
    BY <2>1, <2>8 DEF PublishCheck, PublishIntent, PublishRefused, PublishFails, RollbackCheck,
         RollbackUnreadable, RollbackIntent, RollbackRefused, RollbackFails, ReconcileIndex,
         ReconcileIndexRefused, ReconcileIndexFails, WritePhaseFails, RemovePayload,
         PublishEffect, RollbackEffect, diskVars
  <2>9. CASE Restart \/ RecoverPending \/ BuildIndex \/ ReplayRecovered \/ ReplayRefused
             \/ StartupFails \/ FinishRecovered \/ Serve \/ UNCHANGED vars
    BY <2>1, <2>9 DEF Restart, RecoverPending, BuildIndex, ReplayRecovered, ReplayRefused,
         StartupFails, FinishRecovered, Serve, Abort, diskVars, vars
  <2> QED BY <2>2, <2>3, <2>4, <2>5, <2>6, <2>7, <2>8, <2>9
       DEF Next, TaskStep, FaultStep, PrepareStep, EditStep
<1> QED BY <1>1, <1>2, <1>3 DEF RInv

\* RInv holds in every reachable state.
LEMMA RefinementInvariant == Spec => []RInv
<1>1. Init => RInv
  BY InvInit DEF Init, RInv, Apart, Ladder
<1>2. RInv /\ [Next]_vars => RInv'
  BY RefinementStep
<1> QED BY <1>1, <1>2, PTL DEF Spec

\* The intent that concerns a location of a batch is the only one.
LEMMA IntentIsUnique ==
  ASSUME NEW b, Separate(b), NEW k \in DOMAIN b, NEW l \in Locs(b[k])
  PROVE  IntentFor(b, l) = b[k]
<1>1. \A m \in DOMAIN b : l \in Locs(b[m]) => m = k
  BY DEF Separate
<1> QED BY <1>1 DEF IntentFor

\* What a reader of the resolved vault sees: the files of an unresolved batch
\* as they were before it, every other file as it is.
Seen ==
  /\ LogicalVault \in [Loc -> Values]
  /\ \A t \in Tx \ touched : durable[t] = "committing" =>
       \A k \in DOMAIN batch[t] : \A l \in Locs(batch[t][k]) :
         LogicalVault[l] = Before(batch[t][k], l)
  /\ \A l \in Loc :
       (\A t \in Tx \ touched : durable[t] = "committing" => l \notin Footprint(batch[t]))
         => LogicalVault[l] = fs[l]

\* The refinement mapping gives what Seen says.
LEMMA MappingIsSeen == RInv => Seen
<1> SUFFICES ASSUME RInv PROVE Seen
  OBVIOUS
<1>a. TypeOK /\ Workspaces /\ Separated /\ Apart
  BY DEF RInv, Inv, Control
<1> DEFINE Masked(l) == \E t \in Tx \ touched : Affects(t, l)
           Who(l) == CHOOSE u \in Tx \ touched : Affects(u, l)
<1>1. \A l \in Loc : LogicalVault[l] = IF Masked(l) THEN Before(IntentFor(batch[Who(l)], l), l) ELSE fs[l]
  BY DEF LogicalVault
<1>2. ASSUME NEW t \in Tx \ touched, NEW u \in Tx \ touched, NEW l, Affects(t, l), Affects(u, l)
      PROVE  t = u
  BY <1>2, <1>a DEF Affects, Apart, Workspaces
<1>3. ASSUME NEW t \in Tx \ touched, NEW l, Affects(t, l)
      PROVE  Masked(l) /\ Who(l) = t
  BY <1>2, <1>3
<1> HIDE DEF Masked, Who
<1>4. ASSUME NEW t \in Tx \ touched, durable[t] = "committing", NEW k \in DOMAIN batch[t],
             NEW l \in Locs(batch[t][k])
      PROVE  l \in Loc /\ LogicalVault[l] = Before(batch[t][k], l)
  <2>1. l \in Loc /\ Affects(t, l)
    BY <1>4, <1>a, BatchType DEF Affects, Footprint, Locs, Intents
  <2>2. Separate(batch[t])
    BY <1>4, <1>a DEF Separated, Workspaces
  <2> QED BY <2>1, <2>2, <1>1, <1>3, <1>4, IntentIsUnique
<1>5. ASSUME NEW l \in Loc,
             \A t \in Tx \ touched : durable[t] = "committing" => l \notin Footprint(batch[t])
      PROVE  LogicalVault[l] = fs[l]
  BY <1>1, <1>5 DEF Masked, Affects
<1>6. ASSUME NEW l \in Loc
      PROVE  LogicalVault[l] \in Values
  <2>1. CASE \E t \in Tx \ touched : durable[t] = "committing" /\ l \in Footprint(batch[t])
    <3>1. PICK t \in Tx \ touched : durable[t] = "committing" /\ l \in Footprint(batch[t])
      BY <2>1
    <3>2. PICK k \in DOMAIN batch[t] : l \in Locs(batch[t][k])
      BY <3>1 DEF Footprint
    <3> QED BY <3>1, <3>2, <1>4, <1>a, BatchType, ValueType
  <2>2. CASE ~\E t \in Tx \ touched : durable[t] = "committing" /\ l \in Footprint(batch[t])
    BY <2>2, <1>5, <1>a DEF TypeOK
  <2> QED BY <2>1, <2>2
<1>7. LogicalVault \in [Loc -> Values]
  BY <1>6 DEF LogicalVault
<1> QED BY <1>4, <1>5, <1>7 DEF Seen

\* What the change of a batch is, location by location.
LEMMA ChangeIs ==
  ASSUME NEW b, Separate(b)
  PROVE  /\ DOMAIN ChangeOf(b).before = Footprint(b)
         /\ \A k \in DOMAIN b : \A l \in Locs(b[k]) :
              ChangeOf(b).before[l] = Before(b[k], l) /\ ChangeOf(b).after[l] = After(b[k], l)
<1>1. DOMAIN ChangeOf(b).before = Footprint(b)
  BY DEF ChangeOf
<1>2. ASSUME NEW k \in DOMAIN b, NEW l \in Locs(b[k])
      PROVE  ChangeOf(b).before[l] = Before(b[k], l) /\ ChangeOf(b).after[l] = After(b[k], l)
  <2>1. l \in Footprint(b)
    BY <1>2 DEF Footprint
  <2>2. IntentFor(b, l) = b[k]
    BY <1>2, IntentIsUnique
  <2> QED BY <2>1, <2>2 DEF ChangeOf
<1> QED BY <1>1, <1>2

\* While nobody interferes, a change of manifests is a commit of the batches
\* whose commit record goes with their files in place: none of them, one, or
\* after a power loss several.
LEMMA ManifestStepCommits ==
  ASSUME RInv, RInv', Seen, Seen', ManifestStep, touched' = {}
  PROVE  \E C \in SUBSET BatchChanges : Abstract!Commit(C)
<1>a. /\ TypeOK /\ Workspaces /\ Separated /\ Apart /\ Workspaces'
      /\ touched = {} /\ UNCHANGED <<fs, batch, edits, touched>>
  BY DEF RInv, Inv, Control, ManifestStep
<1> DEFINE Gone == {t \in Tx : /\ durable[t] = "committing" /\ durable'[t] # "committing"
                               /\ ~AllBefore(t)}
           C == {ChangeOf(batch[t]) : t \in Gone}
<1>b. ASSUME NEW t \in Tx, durable[t] = "committing" \/ durable'[t] = "committing"
      PROVE  /\ ws[t] # "none" /\ batch[t] \in Batches /\ Separate(batch[t])
             /\ \A k \in DOMAIN batch[t] : \A l \in Locs(batch[t][k]) :
                  l \in Loc /\ l \in Footprint(batch[t])
  <2>1. ws[t] # "none" /\ batch[t] # <<>>
    BY <1>a, <1>b DEF Workspaces, ManifestStep
  <2>2. batch[t] \in Batches /\ Separate(batch[t])
    BY <1>a, <2>1 DEF TypeOK, Separated
  <2> QED BY <1>a, <2>1, <2>2, BatchType DEF Footprint, Locs, Intents
<1>c. ASSUME NEW t \in Tx, NEW u \in Tx, t # u,
             durable[t] = "committing" \/ durable'[t] = "committing",
             durable[u] = "committing" \/ durable'[u] = "committing"
      PROVE  Footprint(batch[t]) \cap Footprint(batch[u]) = {}
  BY <1>a, <1>b, <1>c DEF Apart
\* What a reader sees of a batch with a commit record, before and after.
<1>d. ASSUME NEW t \in Tx, durable[t] = "committing", NEW k \in DOMAIN batch[t],
             NEW l \in Locs(batch[t][k])
      PROVE  /\ LogicalVault[l] = Before(batch[t][k], l)
             /\ LogicalVault'[l] = IF durable'[t] = "committing" THEN Before(batch[t][k], l)
                                   ELSE fs[l]
  <2>1. LogicalVault[l] = Before(batch[t][k], l)
    BY <1>a, <1>d DEF Seen
  <2>2. l \in Loc /\ l \in Footprint(batch[t])
    BY <1>b, <1>d
  <2>3. CASE durable'[t] = "committing"
    BY <1>a, <1>d, <2>1, <2>3 DEF Seen
  <2>4. CASE durable'[t] # "committing"
    <3>1. \A u \in Tx : durable'[u] = "committing" => l \notin Footprint(batch[u])
      BY <1>c, <1>d, <2>2, <2>4
    <3> QED BY <1>a, <2>1, <2>2, <2>4, <3>1 DEF Seen
  <2> QED BY <2>1, <2>3, <2>4
<1>1. C \in SUBSET BatchChanges
  BY <1>b DEF BatchChanges
<1>2. \A c, d \in C : c # d => DOMAIN c.before \cap DOMAIN d.before = {}
  <2> SUFFICES ASSUME NEW t \in Gone, NEW u \in Gone, ChangeOf(batch[t]) # ChangeOf(batch[u])
               PROVE  DOMAIN ChangeOf(batch[t]).before \cap DOMAIN ChangeOf(batch[u]).before = {}
    OBVIOUS
  <2> QED BY <1>b, <1>c, ChangeIs
<1>3. ASSUME NEW t \in Gone
      PROVE  Abstract!Applied(ChangeOf(batch[t]))
  <2>1. Separate(batch[t]) /\ AllAfter(t)
    BY <1>a, <1>b, <1>3 DEF ManifestStep, Settled
  <2> SUFFICES ASSUME NEW k \in DOMAIN batch[t], NEW l \in Locs(batch[t][k])
               PROVE  LogicalVault[l] = Before(batch[t][k], l) /\ LogicalVault'[l] = After(batch[t][k], l)
    BY <2>1, ChangeIs DEF Abstract!Applied, Footprint
  <2> QED BY <1>d, <2>1 DEF AllAfter, IntentsAfter
<1>4. ASSUME NEW l \in Loc, \A t \in Gone : l \notin Footprint(batch[t])
      PROVE  LogicalVault'[l] = LogicalVault[l]
  <2>1. CASE \E t \in Tx : durable[t] = "committing" /\ l \in Footprint(batch[t])
    <3>1. PICK t \in Tx : durable[t] = "committing" /\ l \in Footprint(batch[t])
      BY <2>1
    <3>2. PICK k \in DOMAIN batch[t] : l \in Locs(batch[t][k])
      BY <3>1 DEF Footprint
    <3>3. durable'[t] # "committing" => AllBefore(t)
      BY <1>4, <3>1
    <3> QED BY <1>d, <3>1, <3>2, <3>3 DEF AllBefore, IntentsBefore
  <2>2. CASE ~\E t \in Tx : durable[t] = "committing" /\ l \in Footprint(batch[t])
    <3>1. LogicalVault[l] = fs[l]
      BY <1>a, <2>2 DEF Seen
    <3>2. CASE \E t \in Tx : durable'[t] = "committing" /\ l \in Footprint(batch[t])
      <4>1. PICK t \in Tx : durable'[t] = "committing" /\ l \in Footprint(batch[t])
        BY <3>2
      <4>2. PICK k \in DOMAIN batch[t] : l \in Locs(batch[t][k])
        BY <4>1 DEF Footprint
      <4>3. AllBefore(t)
        BY <1>a, <2>2, <4>1 DEF ManifestStep
      <4>4. LogicalVault'[l] = Before(batch[t][k], l)
        BY <1>a, <4>1, <4>2 DEF Seen
      <4> QED BY <3>1, <4>2, <4>3, <4>4 DEF AllBefore, IntentsBefore
    <3>3. CASE ~\E t \in Tx : durable'[t] = "committing" /\ l \in Footprint(batch[t])
      BY <1>a, <3>1, <3>3 DEF Seen
    <3> QED BY <3>2, <3>3
  <2> QED BY <2>1, <2>2
<1>5. ASSUME NEW l \in Loc, \A c \in C : l \notin DOMAIN c.before
      PROVE  LogicalVault'[l] = LogicalVault[l]
  <2>1. \A t \in Gone : l \notin Footprint(batch[t])
    BY <1>b, <1>5, ChangeIs
  <2> QED BY <1>4, <2>1
<1>6. LogicalVault' \in [Loc -> Values] /\ (touched # {})' = (touched # {}) /\ edits' = edits
  BY <1>a DEF Seen
<1>7. Abstract!Commit(C)
  <2> HIDE DEF Gone
  <2>1. \A c \in C : Abstract!Applied(c)
    BY <1>3
  <2> QED BY <1>2, <1>5, <1>6, <2>1 DEF Abstract!Commit
<1> QED BY <1>1, <1>7

\* The step of the abstract vault that each step of the protocol is.
LEMMA AbstractStep ==
  ASSUME RInv, RInv', Seen, Seen', [Next]_vars
  PROVE  [Abstract!Next]_<<LogicalVault, touched # {}, edits>>
<1>a. TypeOK /\ Workspaces /\ Separated /\ Apart /\ TypeOK' /\ cur \in Tx
  BY DEF RInv, Inv, Control, TypeOK
<1>b. touched \subseteq touched' /\ edits' \in {edits, edits + 1} /\ (touched' = {} => touched = {})
  BY StepKinds DEF ManifestStep, OperationStep, PrepareStep, EditStep, Prepare, Edit, Touch
<1>1. CASE touched' # {}
  <2>1. LogicalVault' \in [Loc -> Values]
    BY DEF Seen
  <2>2. Abstract!Interfere
    BY <1>1, <1>b, <2>1 DEF Abstract!Interfere
  <2> QED BY <2>2 DEF Abstract!Next
<1>2. CASE touched' = {} /\ ManifestStep
  <2>1. PICK C \in SUBSET BatchChanges : Abstract!Commit(C)
    BY <1>2, ManifestStepCommits
  <2> QED BY <2>1 DEF Abstract!Next
<1>3. CASE touched' = {} /\ OperationStep
  <2>1. PICK x \in Footprint(batch[cur]), v \in Values : fs' = [fs EXCEPT ![x] = v]
    BY <1>3 DEF OperationStep
  <2>2. touched = {} /\ UNCHANGED <<batch, durable, edits>> /\ durable[cur] = "committing"
    BY <1>3, <1>b DEF OperationStep
  <2>3. ASSUME NEW l \in Loc
        PROVE  LogicalVault'[l] = LogicalVault[l]
    <3>1. CASE \E t \in Tx : durable[t] = "committing" /\ l \in Footprint(batch[t])
      <4>1. PICK t \in Tx : durable[t] = "committing" /\ l \in Footprint(batch[t])
        BY <3>1
      <4>2. PICK k \in DOMAIN batch[t] : l \in Locs(batch[t][k])
        BY <4>1 DEF Footprint
      <4> QED BY <1>3, <2>2, <4>1, <4>2 DEF Seen
    <3>2. CASE ~\E t \in Tx : durable[t] = "committing" /\ l \in Footprint(batch[t])
      <4>1. l # x /\ fs'[l] = fs[l]
        BY <1>a, <2>1, <2>2, <3>2 DEF TypeOK
      <4> QED BY <1>3, <2>2, <3>2, <4>1 DEF Seen
    <3> QED BY <3>1, <3>2
  <2>4. LogicalVault' = LogicalVault
    <3>1. LogicalVault \in [Loc -> Values] /\ LogicalVault' \in [Loc -> Values]
      BY DEF Seen
    <3> QED BY <2>3, <3>1
  <2>5. (touched # {})' = (touched # {}) /\ edits' = edits
    BY <1>3, <2>2
  <2> QED BY <2>4, <2>5
<1>4. CASE touched' = {} /\ PrepareStep
  <2>1. PICK t \in Tx, b \in Batches : Prepare(t, b)
    BY <1>4 DEF PrepareStep
  <2>2. touched = {} /\ UNCHANGED <<fs, edits>>
    BY <1>4, <1>b, <2>1 DEF Prepare
  <2>3. /\ durable[t] = "none" /\ durable'[t] = "debris"
        /\ \A u \in Tx \ {t} : durable'[u] = durable[u] /\ batch'[u] = batch[u]
    BY <1>a, <2>1 DEF Prepare, TypeOK, Workspaces
  <2>4. ASSUME NEW l \in Loc
        PROVE  LogicalVault'[l] = LogicalVault[l]
    <3>1. CASE \E u \in Tx : durable[u] = "committing" /\ l \in Footprint(batch[u])
      <4>1. PICK u \in Tx : durable[u] = "committing" /\ l \in Footprint(batch[u])
        BY <3>1
      <4>2. PICK k \in DOMAIN batch[u] : l \in Locs(batch[u][k])
        BY <4>1 DEF Footprint
      <4>3. u # t
        BY <2>3, <4>1
      <4> QED BY <1>4, <2>2, <2>3, <4>1, <4>2, <4>3 DEF Seen
    <3>2. CASE ~\E u \in Tx : durable[u] = "committing" /\ l \in Footprint(batch[u])
      <4>1. \A u \in Tx : durable'[u] = "committing" => l \notin Footprint(batch'[u])
        BY <2>3, <3>2
      <4>2. LogicalVault'[l] = fs'[l]
        BY <1>4, <4>1 DEF Seen
      <4>3. LogicalVault[l] = fs[l]
        BY <2>2, <3>2 DEF Seen
      <4> QED BY <2>2, <4>2, <4>3
    <3> QED BY <3>1, <3>2
  <2>5. LogicalVault' = LogicalVault
    <3>1. LogicalVault \in [Loc -> Values] /\ LogicalVault' \in [Loc -> Values]
      BY DEF Seen
    <3> QED BY <2>4, <3>1
  <2>6. (touched # {})' = (touched # {}) /\ edits' = edits
    BY <1>4, <2>2
  <2> QED BY <2>5, <2>6
<1>5. CASE touched' = {} /\ EditStep
  <2>1. PICK x \in Loc, v \in Values : Edit(x, v)
    BY <1>5 DEF EditStep
  <2>2. touched = {} /\ fs' = [fs EXCEPT ![x] = v] /\ UNCHANGED <<batch, durable, ws>> /\ edits' = edits + 1
    BY <1>5, <1>b, <2>1 DEF Edit, diskVars
  <2>3. \A t \in Tx : durable[t] = "committing" => x \notin Footprint(batch[t])
    BY <1>5, <1>a, <2>1 DEF Edit, Touch, InTheWay, Workspaces
  <2>4. LogicalVault'[x] = v
    BY <1>5, <1>a, <2>2, <2>3 DEF Seen, TypeOK
  <2>5. ASSUME NEW l \in Loc, l # x
        PROVE  LogicalVault'[l] = LogicalVault[l]
    <3>1. CASE \E t \in Tx : durable[t] = "committing" /\ l \in Footprint(batch[t])
      <4>1. PICK t \in Tx : durable[t] = "committing" /\ l \in Footprint(batch[t])
        BY <3>1
      <4>2. PICK k \in DOMAIN batch[t] : l \in Locs(batch[t][k])
        BY <4>1 DEF Footprint
      <4> QED BY <1>5, <2>2, <4>1, <4>2 DEF Seen
    <3>2. CASE ~\E t \in Tx : durable[t] = "committing" /\ l \in Footprint(batch[t])
      <4>1. fs'[l] = fs[l]
        BY <1>a, <2>2, <2>5 DEF TypeOK
      <4> QED BY <1>5, <2>2, <3>2, <4>1 DEF Seen
    <3> QED BY <3>1, <3>2
  <2>6. LogicalVault' = [LogicalVault EXCEPT ![x] = v]
    <3>1. LogicalVault \in [Loc -> Values] /\ LogicalVault' \in [Loc -> Values]
      BY DEF Seen
    <3> QED BY <2>4, <2>5, <3>1
  <2>7. (touched # {})' = (touched # {})
    BY <1>5, <2>2
  <2>8. Abstract!Edit
    BY <2>2, <2>6, <2>7 DEF Abstract!Edit
  <2> QED BY <2>8 DEF Abstract!Next
<1> QED BY <1>1, <1>2, <1>3, <1>4, <1>5, StepKinds

\* The transaction protocol implements the atomic vault, for every vault,
\* every set of batches and every number of edits, faults and crashes: what a
\* reader of the resolved vault sees changes by whole batches, by single
\* writes of other programs, or after an interference
\* (publish_batch, change_phase, recover_pending).
THEOREM ImplementsAtomicVault == Spec => AtomicCommit
<1>1. Init => Abstract!Init
  <2> SUFFICES ASSUME Init PROVE Abstract!Init
    OBVIOUS
  <2>1. RInv
    BY InvInit DEF Init, RInv, Apart, Ladder
  <2>2. LogicalVault \in [Loc -> Values]
    BY <2>1, MappingIsSeen DEF Seen
  <2> QED BY <2>2 DEF Init, Abstract!Init
<1>2. RInv' => Seen'
  BY MappingIsSeen, PTL
<1>3. RInv /\ RInv' /\ [Next]_vars => [Abstract!Next]_<<LogicalVault, touched # {}, edits>>
  BY <1>2, MappingIsSeen, AbstractStep
<1> QED BY <1>1, <1>3, RefinementInvariant, PTL DEF Spec, AtomicCommit, Abstract!Spec

-----------------------------------------------------------------------------
(* The index follows the vault.                                            *)

\* Some workspace other than the running task's concerns location l.
Elsewhere(l) == \E t \in Tx \ {cur} : ws[t] # "none" /\ l \in Footprint(batch[t])

\* The loop of publish, or of rollback_manifest, has passed location l of
\* intent k.
PublishPassed(k, l) ==
  k < i \/ (k = i /\ \E m \in 1..(j - 1) : PublishOrder(Current)[m] = l)
RollbackPassed(k, l) ==
  k > i \/ (k = i /\ \E m \in 1..(j - 1) : RollbackOrder(Current)[m] = l)

\* What the vault and the index hold at location l of intent k of the running
\* batch, place by place.
IndexAt(k, l) ==
  LET before == Before(batch[cur][k], l)
      after == After(batch[cur][k], l)
      rubbish == Deferred(batch[cur])
  IN  /\ pc \in {"prepare", "seal", "toCommitting", "syncCommitting"}
           => fs[l] = before /\ index[l] = before
      /\ pc = "publish" => index[l] = before /\ (PublishPassed(k, l) => fs[l] = after)
      /\ pc = "rollback" => index[l] = before /\ (RollbackPassed(k, l) => fs[l] = before)
      /\ pc \in {"index", "toCommitted", "syncCommitted"} => fs[l] = after
      /\ pc = "index" /\ rubbish => index[l] = before
      /\ pc = "toCommitted" /\ ~rubbish => index[l] = before
      /\ pc \in {"toCommitted", "syncCommitted"} /\ rubbish => index[l] = after
      /\ pc = "remove" => index[l] = fs[l]

\* While the server serves, outside startup.
ServingIndex ==
  /\ IndexCoherent
  /\ (proc = "serving" /\ pc \in Busy) =>
       \A l \in Indexed \ edited : ~Elsewhere(l) =>
         /\ l \notin Footprint(batch[cur]) => index[l] = fs[l]
         /\ \A k \in DOMAIN batch[cur] : l \in Locs(batch[cur][k]) => IndexAt(k, l)

\* Once startup has built the index.
StartupIndex ==
  proc = "finishing" =>
    /\ pc \in {"replay", "scan", "remove"}
    /\ \A l \in Indexed \ edited : index[l] = fs[l]
    /\ \A t \in Tx : ws[t] # "none" => t \in recovered \/ (pc = "remove" /\ t = cur)

IndexInv == Inv /\ ServingIndex /\ StartupIndex

\* The loop of publish passes the location in hand and no other, and at its
\* end it has passed every location.
LEMMA PublishPasses ==
  ASSUME TypeOK, Position, pc = "publish", NextOperation, batch' = batch,
         NEW k \in DOMAIN batch[cur], NEW l \in Locs(batch[cur][k]),
         k # i \/ l # PublishLoc
  PROVE  /\ pc' = "publish" => (PublishPassed(k, l)' => PublishPassed(k, l))
         /\ pc' # "publish" => PublishPassed(k, l)
<1> DEFINE n == Len(batch[cur])
           it == batch[cur][i]
           ord == PublishOrder(it)
<1>1. /\ cur \in Tx /\ n \in Nat /\ i \in 1..n /\ j \in 1..Len(ord) /\ k \in 1..n
      /\ DOMAIN batch[cur] = 1..n /\ it \in Intents /\ cur' = cur
      /\ Len(ord) \in Nat
  <2>1. cur \in Tx /\ i \in 1..n /\ j \in 1..Len(ord) /\ cur' = cur
    BY DEF TypeOK, Position, NextOperation
  <2>2. n \in Nat /\ DOMAIN batch[cur] = 1..n /\ it \in Intents
    BY <2>1, BatchType, Bounds
  <2>3. Len(ord) \in Nat
    BY <2>1, Bounds
  <2> QED BY <2>1, <2>2, <2>3
<1>2. Current = it /\ PublishLoc = ord[j]
  BY DEF Current, PublishLoc
<1>3. k = i => \E m \in 1..Len(ord) : ord[m] = l
  BY <1>1, OrderType
<1>4. k = i => l # ord[j]
  BY <1>2
<1>5. CASE j < Len(ord)
  <2>1. pc' = "publish" /\ i' = i /\ j' = j + 1 /\ Current' = it
    BY <1>1, <1>2, <1>5 DEF NextOperation, Current
  <2>2. ASSUME k = i, NEW m \in 1..(j' - 1), ord[m] = l
        PROVE  m \in 1..(j - 1)
    BY <1>1, <1>4, <2>1, <2>2
  <2>3. PublishOrder(Current) = ord /\ PublishOrder(Current)' = ord
    BY <1>2, <2>1
  <2> HIDE DEF ord, it, n
  <2> QED BY <2>1, <2>2, <2>3 DEF PublishPassed
<1>6. CASE ~(j < Len(ord))
  <2>1. j = Len(ord)
    BY <1>1, <1>6
  <2>2. ASSUME k = i
        PROVE  PublishPassed(k, l)
    <3>1. PICK m \in 1..Len(ord) : ord[m] = l
      BY <1>3, <2>2
    <3>2. m \in 1..(j - 1)
      BY <1>1, <1>4, <2>1, <2>2, <3>1
    <3> QED BY <1>2, <2>2, <3>1, <3>2 DEF PublishPassed
  <2>3. CASE i < n
    <3>1. pc' = "publish" /\ i' = i + 1 /\ j' = 1
      BY <1>1, <1>2, <1>6, <2>3 DEF NextOperation
    <3>2. PublishPassed(k, l)' => k <= i
      <4>1. 1..(j' - 1) = {}
        BY <3>1
      <4> QED BY <1>1, <3>1, <4>1 DEF PublishPassed
    <3>3. k <= i => k = i \/ k < i
      BY <1>1
    <3> QED BY <2>2, <3>1, <3>2, <3>3 DEF PublishPassed
  <2>4. CASE ~(i < n)
    <3>1. i = n /\ pc' # "publish"
      BY <1>1, <1>2, <1>6, <2>4 DEF NextOperation
    <3>2. k = i \/ k < i
      BY <1>1, <3>1
    <3> QED BY <2>2, <3>1, <3>2 DEF PublishPassed
  <2> QED BY <2>3, <2>4
<1> QED BY <1>5, <1>6

\* So does the loop of rollback_manifest, from the last intent to the first.
LEMMA RollbackPasses ==
  ASSUME TypeOK, Position, pc = "rollback", PreviousOperation, batch' = batch,
         NEW k \in DOMAIN batch[cur], NEW l \in Locs(batch[cur][k]),
         k # i \/ l # RollbackLoc
  PROVE  /\ pc' = "rollback" => (RollbackPassed(k, l)' => RollbackPassed(k, l))
         /\ pc' # "rollback" => RollbackPassed(k, l)
<1> DEFINE n == Len(batch[cur])
           it == batch[cur][i]
           ord == RollbackOrder(it)
<1>1. /\ cur \in Tx /\ n \in Nat /\ i \in 1..n /\ j \in 1..Len(ord) /\ k \in 1..n
      /\ DOMAIN batch[cur] = 1..n /\ it \in Intents /\ cur' = cur
      /\ Len(ord) \in Nat
  <2>1. cur \in Tx /\ i \in 1..n /\ j \in 1..Len(ord) /\ cur' = cur
    BY DEF TypeOK, Position, PreviousOperation
  <2>2. n \in Nat /\ DOMAIN batch[cur] = 1..n /\ it \in Intents
    BY <2>1, BatchType, Bounds
  <2>3. Len(ord) \in Nat
    BY <2>1, Bounds
  <2> QED BY <2>1, <2>2, <2>3
<1>2. Current = it /\ RollbackLoc = ord[j]
  BY DEF Current, RollbackLoc
<1>3. k = i => \E m \in 1..Len(ord) : ord[m] = l
  BY <1>1, OrderType
<1>4. k = i => l # ord[j]
  BY <1>2
<1>5. CASE j < Len(ord)
  <2>1. pc' = "rollback" /\ i' = i /\ j' = j + 1 /\ Current' = it
    BY <1>1, <1>2, <1>5 DEF PreviousOperation, Current
  <2>2. ASSUME k = i, NEW m \in 1..(j' - 1), ord[m] = l
        PROVE  m \in 1..(j - 1)
    BY <1>1, <1>4, <2>1, <2>2
  <2>3. RollbackOrder(Current) = ord /\ RollbackOrder(Current)' = ord
    BY <1>2, <2>1
  <2> HIDE DEF ord, it, n
  <2> QED BY <2>1, <2>2, <2>3 DEF RollbackPassed
<1>6. CASE ~(j < Len(ord))
  <2>1. j = Len(ord)
    BY <1>1, <1>6
  <2>2. ASSUME k = i
        PROVE  RollbackPassed(k, l)
    <3>1. PICK m \in 1..Len(ord) : ord[m] = l
      BY <1>3, <2>2
    <3>2. m \in 1..(j - 1)
      BY <1>1, <1>4, <2>1, <2>2, <3>1
    <3> QED BY <1>2, <2>2, <3>1, <3>2 DEF RollbackPassed
  <2>3. CASE i > 1
    <3>1. pc' = "rollback" /\ i' = i - 1 /\ j' = 1
      BY <1>1, <1>2, <1>6, <2>3 DEF PreviousOperation
    <3>2. RollbackPassed(k, l)' => k >= i
      <4>1. 1..(j' - 1) = {}
        BY <3>1
      <4> QED BY <1>1, <3>1, <4>1 DEF RollbackPassed
    <3>3. k >= i => k = i \/ k > i
      BY <1>1
    <3> QED BY <2>2, <3>1, <3>2, <3>3 DEF RollbackPassed
  <2>4. CASE ~(i > 1)
    <3>1. i = 1 /\ pc' # "rollback"
      BY <1>1, <1>2, <1>6, <2>4 DEF PreviousOperation
    <3>2. k = i \/ k > i
      BY <1>1, <3>1
    <3> QED BY <2>2, <3>1, <3>2 DEF RollbackPassed
  <2> QED BY <2>3, <2>4
<1> QED BY <1>5, <1>6

\* At their start the loops have passed nothing.
LEMMA NothingPassed ==
  ASSUME TypeOK, NEW k \in DOMAIN batch[cur], NEW l
  PROVE  /\ (i = 1 /\ j = 1) => ~PublishPassed(k, l)
         /\ (StartRollback /\ batch' = batch) => ~RollbackPassed(k, l)'
<1>1. k \in 1..Len(batch[cur]) /\ Len(batch[cur]) \in Nat
  BY BatchType DEF TypeOK
<1>2. (i = 1 /\ j = 1) => ~PublishPassed(k, l)
  BY <1>1 DEF PublishPassed
<1>3. ASSUME StartRollback, batch' = batch
      PROVE  ~RollbackPassed(k, l)'
  <2>1. i' = Len(batch[cur]) /\ j' = 1
    BY <1>3 DEF StartRollback
  <2>2. ~(k > i') /\ 1..(j' - 1) = {}
    BY <1>1, <2>1
  <2> QED BY <2>2 DEF RollbackPassed
<1> QED BY <1>2, <1>3

\* A step of a serving task that goes on.
LEMMA BusyFrame ==
  ASSUME ServingIndex, proc = "serving", proc' = "serving", pc \in Busy, pc' \in Busy,
         cur' = cur, batch' = batch, edited' = edited,
         \A t \in Tx \ {cur} : ws'[t] = ws[t],
         \A l \in Indexed : l \notin Footprint(batch[cur]) => fs'[l] = fs[l] /\ index'[l] = index[l],
         \A k \in DOMAIN batch[cur] : \A l \in Locs(batch[cur][k]) :
           (l \in Indexed \ edited /\ IndexAt(k, l)) => IndexAt(k, l)'
  PROVE  ServingIndex' /\ StartupIndex'
<1>1. IndexCoherent' /\ StartupIndex'
  BY DEF IndexCoherent, StartupIndex, Busy
<1> SUFFICES ASSUME NEW l \in Indexed \ edited, ~Elsewhere(l)'
             PROVE  /\ l \notin Footprint(batch[cur]) => index'[l] = fs'[l]
                    /\ \A k \in DOMAIN batch[cur] : l \in Locs(batch[cur][k]) => IndexAt(k, l)'
  BY <1>1 DEF ServingIndex
<1>2. ~Elsewhere(l)
  BY DEF Elsewhere
<1> QED BY <1>2 DEF ServingIndex

\* A step of a serving task that stops and leaves its workspace behind.
LEMMA RetainFrame ==
  ASSUME ServingIndex, Workspaces, proc = "serving", proc' = "serving", pc \in Busy, pc' = "idle",
         cur \in Tx, batch' = batch, edited' = edited, ws'[cur] # "none",
         \A t \in Tx \ {cur} : ws'[t] = ws[t],
         \A l \in Indexed : l \notin Footprint(batch[cur]) => fs'[l] = fs[l] /\ index'[l] = index[l]
  PROVE  ServingIndex' /\ StartupIndex'
<1>1. StartupIndex' /\ (pc' \in Busy => FALSE)
  BY DEF StartupIndex, Busy
<1> SUFFICES ASSUME NEW l \in Indexed \ edited,
                    \A t \in Tx : ws'[t] # "none" => l \notin Footprint(batch[t])
             PROVE  index'[l] = fs'[l]
  BY <1>1 DEF ServingIndex, IndexCoherent
<1>2. ~Elsewhere(l) /\ l \notin Footprint(batch[cur])
  BY DEF Elsewhere
<1> QED BY <1>2 DEF ServingIndex

\* A step of a serving task that ends with its workspace gone.
LEMMA EndFrame ==
  ASSUME ServingIndex, proc = "serving", proc' = "serving", pc = "remove", pc' = "idle",
         cur \in Tx, UNCHANGED <<fs, index, batch, edited>>,
         \A t \in Tx \ {cur} : ws'[t] = ws[t]
  PROVE  ServingIndex' /\ StartupIndex'
<1>1. StartupIndex' /\ (pc' \in Busy => FALSE) /\ pc \in Busy
  BY DEF StartupIndex, Busy
<1> SUFFICES ASSUME NEW l \in Indexed \ edited,
                    \A t \in Tx : ws'[t] # "none" => l \notin Footprint(batch[t])
             PROVE  index[l] = fs[l]
  BY <1>1 DEF ServingIndex, IndexCoherent
<1>2. ~Elsewhere(l)
  BY DEF Elsewhere
<1>3. CASE l \in Footprint(batch[cur])
  <2>1. PICK k \in DOMAIN batch[cur] : l \in Locs(batch[cur][k])
    BY <1>3 DEF Footprint
  <2>2. IndexAt(k, l)
    BY <1>1, <1>2, <2>1 DEF ServingIndex
  <2> QED BY <2>2 DEF IndexAt
<1>4. CASE l \notin Footprint(batch[cur])
  BY <1>1, <1>2, <1>4 DEF ServingIndex
<1> QED BY <1>3, <1>4

\* A step of startup once the index is built.
LEMMA FinishingFrame ==
  ASSUME StartupIndex, proc = "finishing", proc' = "finishing",
         pc' \in {"replay", "scan", "remove"},
         \A l \in Indexed \ edited' : l \notin edited /\ fs'[l] = fs[l] /\ index'[l] = index[l],
         \A t \in Tx : ws'[t] # "none" => ws[t] # "none",
         \A t \in Tx : (ws'[t] # "none" /\ (t \in recovered \/ (pc = "remove" /\ t = cur)))
                         => t \in recovered' \/ (pc' = "remove" /\ t = cur')
  PROVE  ServingIndex' /\ StartupIndex'
BY DEF StartupIndex, ServingIndex, IndexCoherent

\* What an index event writes once the batch is published.
LEMMA EventIsAfter ==
  ASSUME NEW b, Separate(b), NEW k \in DOMAIN b, NEW l \in Locs(b[k]), fs[l] = After(b[k], l)
  PROVE  EventResult(b, l) = fs[l]
<1>1. IntentFor(b, l) = b[k]
  BY IntentIsUnique
<1> QED BY <1>1 DEF EventResult

\* Every step keeps the index in step with the vault.
LEMMA IndexStep ==
  ASSUME IndexInv, [Next]_vars
  PROVE  IndexInv'
<1> DEFINE Goal == ServingIndex' /\ StartupIndex'
<1> SUFFICES Goal
  BY InvStep DEF IndexInv
<1>a. /\ TypeOK /\ Position /\ Workspaces /\ PlacePhase /\ Processes /\ Separated /\ Truth
      /\ ServingIndex /\ StartupIndex /\ cur \in Tx
  BY DEF IndexInv, Inv, Control, TypeOK
<1>b. proc' \in {"recovering", "down"} => Goal
  BY DEF ServingIndex, StartupIndex, IndexCoherent
<1>c. pc \in Busy => /\ batch[cur] # <<>> /\ ws[cur] # "none" /\ Separate(batch[cur])
                     /\ proc \in {"serving", "recovering", "finishing"}
  BY <1>a DEF Workspaces, Separated, Processes, TypeOK, Busy
<1>d. pc \in Busy \ {"rollback", "remove"} => proc = "serving"
  BY <1>a DEF Processes
<1>e. pc = "rollback" => proc \in {"serving", "recovering"}
  BY <1>a, <1>c DEF StartupIndex, Busy
<1>f. proc # "serving" /\ pc = "rollback" /\ proc' \in {proc, "down"} => Goal
  BY <1>b, <1>e
\* The kinds of step a task takes.
<1>g. ASSUME proc = "serving", pc \in Busy, pc' \in Busy, proc' = proc, cur' = cur,
             batch' = batch, edited' = edited, \A t \in Tx \ {cur} : ws'[t] = ws[t],
             fs' = fs, index' = index,
             \A k \in DOMAIN batch[cur] : \A l \in Locs(batch[cur][k]) :
               (l \in Indexed \ edited /\ IndexAt(k, l)) => IndexAt(k, l)'
      PROVE  Goal
  BY <1>a, <1>g, BusyFrame
<1>h. ASSUME RetainWorkspace, pc \in Busy, batch' = batch, edited' = edited, ws'[cur] # "none",
             \A t \in Tx \ {cur} : ws'[t] = ws[t],
             \A l \in Indexed : l \notin Footprint(batch[cur]) => fs'[l] = fs[l] /\ index'[l] = index[l]
      PROVE  Goal
  <2>1. CASE proc = "serving"
    <3>1. proc' = "serving" /\ pc' = "idle"
      BY <1>h, <2>1 DEF RetainWorkspace
    <3> QED BY <1>a, <1>h, <2>1, <3>1, RetainFrame
  <2>2. CASE proc # "serving"
    BY <1>b, <1>h, <2>2 DEF RetainWorkspace
  <2> QED BY <2>1, <2>2
<1>i. ASSUME StartRollback, proc = "serving", pc \in {"publish", "index", "toCommitted"},
             batch' = batch, edited' = edited, index' = index, ws' = ws,
             \A l \in Indexed : l \notin Footprint(batch[cur]) => fs'[l] = fs[l],
             \A k \in DOMAIN batch[cur] : \A l \in Locs(batch[cur][k]) :
               (l \in Indexed \ edited /\ IndexAt(k, l)) => index[l] = Before(batch[cur][k], l)
      PROVE  Goal
  <2>1. pc' = "rollback" /\ cur' = cur /\ proc' = proc
    BY <1>i DEF StartRollback
  <2>2. ASSUME NEW k \in DOMAIN batch[cur], NEW l \in Locs(batch[cur][k]),
               l \in Indexed \ edited, IndexAt(k, l)
        PROVE  IndexAt(k, l)'
    <3>1. ~RollbackPassed(k, l)'
      BY <1>a, <1>i, NothingPassed
    <3> QED BY <1>i, <2>1, <2>2, <3>1 DEF IndexAt
  <2>3. pc \in Busy /\ pc' \in Busy
    BY <1>i, <2>1 DEF Busy
  <2> QED BY <1>a, <1>i, <2>1, <2>2, <2>3, BusyFrame
<1>1. CASE WriteManifest \/ SyncManifest
  <2>1. /\ pc \in {"prepare", "seal"} /\ pc' \in {"seal", "toCommitting"}
        /\ UNCHANGED <<proc, cur, batch, edited, fs, index>>
    BY <1>1 DEF WriteManifest, SyncManifest, GoTo, envVars
  <2>2. \A t \in Tx \ {cur} : ws'[t] = ws[t]
    BY <1>1, <1>a DEF WriteManifest, SyncManifest, TypeOK
  <2>3. \A k \in DOMAIN batch[cur] : \A l \in Locs(batch[cur][k]) : IndexAt(k, l) => IndexAt(k, l)'
    BY <2>1 DEF IndexAt
  <2>4. proc = "serving" /\ pc \in Busy /\ pc' \in Busy
    BY <1>d, <2>1 DEF Busy
  <2> QED BY <1>g, <2>1, <2>2, <2>3, <2>4
<1>2. CASE PrepareFails
  <2>1. /\ pc \in {"prepare", "seal"} /\ pc' = "remove"
        /\ UNCHANGED <<proc, cur, batch, edited, fs, index>>
    BY <1>2 DEF PrepareFails, StartRemoval, envVars
  <2>2. \A t \in Tx \ {cur} : ws'[t] = ws[t]
    BY <1>2, <1>a DEF PrepareFails, TypeOK
  <2>3. \A k \in DOMAIN batch[cur] : \A l \in Locs(batch[cur][k]) : IndexAt(k, l) => IndexAt(k, l)'
    BY <2>1 DEF IndexAt
  <2>4. proc = "serving" /\ pc \in Busy /\ pc' \in Busy
    BY <1>d, <2>1 DEF Busy
  <2> QED BY <1>g, <2>1, <2>2, <2>3, <2>4
<1>3. CASE WritePhase
  <2>1. /\ \/ pc = "toCommitting" /\ pc' = "syncCommitting"
           \/ pc = "toCommitted" /\ pc' = "syncCommitted"
        /\ UNCHANGED <<proc, cur, batch, edited, fs, index>>
    BY <1>3 DEF WritePhase, GoTo, envVars
  <2>2. \A t \in Tx \ {cur} : ws'[t] = ws[t]
    BY <1>3, <1>a DEF WritePhase, TypeOK
  <2>3. \A k \in DOMAIN batch[cur] : \A l \in Locs(batch[cur][k]) : IndexAt(k, l) => IndexAt(k, l)'
    BY <2>1 DEF IndexAt
  <2>4. proc = "serving" /\ pc \in Busy /\ pc' \in Busy
    BY <1>d, <2>1 DEF Busy
  <2> QED BY <1>g, <2>1, <2>2, <2>3, <2>4
<1>4. CASE SyncPhase
  <2>1. /\ \/ pc = "syncCommitting" /\ pc' = "publish" /\ i' = 1 /\ j' = 1
           \/ pc = "syncCommitted" /\ pc' = "remove" /\ Deferred(batch[cur])
           \/ pc = "syncCommitted" /\ pc' = "index" /\ ~Deferred(batch[cur])
        /\ UNCHANGED <<proc, cur, batch, edited, fs, index, ws>>
    BY <1>4, <1>a DEF SyncPhase, AfterSync, NextPhase, GoTo, StartRemoval, envVars, Position
  <2>2. ASSUME NEW k \in DOMAIN batch[cur], NEW l \in Locs(batch[cur][k]), IndexAt(k, l)
        PROVE  IndexAt(k, l)'
    <3>1. CASE pc' = "publish"
      <4>1. k \in 1..Len(batch[cur]) /\ Len(batch[cur]) \in Nat
        BY <1>a, BatchType
      <4>2. ~PublishPassed(k, l)'
        <5>1. ~(k < i') /\ 1..(j' - 1) = {}
          BY <2>1, <3>1, <4>1
        <5> QED BY <5>1 DEF PublishPassed
      <4> QED BY <2>1, <2>2, <3>1, <4>2 DEF IndexAt
    <3>2. CASE pc' # "publish"
      BY <2>1, <2>2, <3>2 DEF IndexAt
    <3> QED BY <3>1, <3>2
  <2>3. proc = "serving" /\ pc \in Busy /\ pc' \in Busy
    BY <1>d, <2>1 DEF Busy
  <2> QED BY <1>g, <2>1, <2>2, <2>3
<1>5. CASE WritePhaseFails
  <2>1. /\ pc \in {"toCommitting", "toCommitted"} /\ proc = "serving" /\ pc \in Busy
        /\ UNCHANGED <<batch, edited, fs, index, ws>>
    BY <1>5, <1>d DEF WritePhaseFails, envVars, diskVars, Busy
  <2>2. CASE pc = "toCommitting"
    <3>1. StartRemoval("failed")
      BY <1>5, <2>2 DEF WritePhaseFails
    <3>2. pc' = "remove" /\ UNCHANGED <<proc, cur>> /\ pc' \in Busy
      BY <3>1 DEF StartRemoval, Busy
    <3>3. \A k \in DOMAIN batch[cur] : \A l \in Locs(batch[cur][k]) : IndexAt(k, l) => IndexAt(k, l)'
      BY <2>1, <2>2, <3>2 DEF IndexAt
    <3> QED BY <1>g, <2>1, <3>2, <3>3
  <2>3. CASE pc = "toCommitted" /\ Deferred(batch[cur])
    <3>1. RetainWorkspace
      BY <1>5, <2>3 DEF WritePhaseFails
    <3> QED BY <1>c, <1>h, <2>1, <3>1
  <2>4. CASE pc = "toCommitted" /\ ~Deferred(batch[cur])
    <3>1. StartRollback
      BY <1>5, <2>4 DEF WritePhaseFails
    <3>2. \A k \in DOMAIN batch[cur] : \A l \in Locs(batch[cur][k]) :
            IndexAt(k, l) => index[l] = Before(batch[cur][k], l)
      BY <2>4 DEF IndexAt
    <3> QED BY <1>i, <2>1, <2>4, <3>1, <3>2
  <2> QED BY <2>1, <2>2, <2>3, <2>4
<1>6. CASE PhaseUncertain
  <2>1. RetainWorkspace /\ pc \in Busy /\ UNCHANGED <<batch, edited, fs, index>>
    BY <1>6 DEF PhaseUncertain, envVars, Busy
  <2>2. ws'[cur] # "none" /\ \A t \in Tx \ {cur} : ws'[t] = ws[t]
    BY <1>6, <1>a DEF PhaseUncertain, NextPhase, TypeOK
  <2> QED BY <1>h, <2>1, <2>2
\* The place of an operation.
<1>j. pc = "publish" => /\ i \in DOMAIN batch[cur] /\ PublishLoc \in Locs(batch[cur][i])
                        /\ PublishLoc \in Footprint(batch[cur])
  BY <1>a, OperationPlace, OperationIsOfBatch
<1>k. pc = "rollback" => /\ i \in DOMAIN batch[cur] /\ RollbackLoc \in Locs(batch[cur][i])
                         /\ RollbackLoc \in Footprint(batch[cur])
  BY <1>a, OperationPlace, OperationIsOfBatch
<1>l. \A k \in DOMAIN batch[cur] :
        batch[cur][k].kind \in {"mkdir", "rmdir"} =>
          \A l \in Locs(batch[cur][k]) : l \notin Indexed
  BY <1>a, BatchType, LocAssumption DEF WellTyped, Locs, Indexed, Loc, Intents
<1>m. \A k \in DOMAIN batch[cur] : \A x \in Locs(batch[cur][k]) :
        pc \in Busy /\ i \in DOMAIN batch[cur] /\ x \in Locs(batch[cur][i]) => k = i
  BY <1>c DEF Separate
\* The loop moves on past a location that is published.
<1>n. ASSUME pc = "publish", NextOperation, batch' = batch, edited' = edited, index' = index,
             ws' = ws,
             \A l \in Indexed : l # PublishLoc => fs'[l] = fs[l],
             PublishLoc \in Indexed => fs'[PublishLoc] = After(Current, PublishLoc)
      PROVE  Goal
  <2>0. proc = "serving" /\ pc \in Busy
    BY <1>d, <1>n DEF Busy
  <2>1. /\ proc = "serving" /\ UNCHANGED <<proc, cur>> /\ pc \in Busy
        /\ \/ pc' = "publish"
           \/ pc' = "index" /\ Deferred(batch[cur])
           \/ pc' = "toCommitted" /\ ~Deferred(batch[cur])
    BY <1>n, <2>0 DEF NextOperation
  <2>2. ASSUME NEW k \in DOMAIN batch[cur], NEW l \in Locs(batch[cur][k]),
               l \in Indexed \ edited, IndexAt(k, l)
        PROVE  IndexAt(k, l)'
    <3>1. index[l] = Before(batch[cur][k], l) /\ (PublishPassed(k, l) => fs[l] = After(batch[cur][k], l))
      BY <1>n, <2>2 DEF IndexAt
    <3>2. CASE l = PublishLoc
      <4>1. fs'[l] = After(batch[cur][k], l)
        BY <1>j, <1>m, <1>n, <2>1, <2>2, <3>2 DEF Current
      <4> QED BY <1>n, <2>1, <3>1, <4>1 DEF IndexAt
    <3>3. CASE l # PublishLoc
      <4>1. fs'[l] = fs[l]
        BY <1>n, <2>2, <3>3
      <4>2. /\ pc' = "publish" => (PublishPassed(k, l)' => PublishPassed(k, l))
            /\ pc' # "publish" => PublishPassed(k, l)
        BY <1>a, <1>n, <2>2, <3>3, PublishPasses
      <4> QED BY <1>n, <2>1, <3>1, <4>1, <4>2 DEF IndexAt
    <3> QED BY <3>2, <3>3
  <2>3. pc' \in Busy
    BY <2>1 DEF Busy
  <2>4. \A l \in Indexed : l \notin Footprint(batch[cur]) => fs'[l] = fs[l]
    BY <1>j, <1>n
  <2> QED BY <1>a, <1>n, <2>1, <2>2, <2>3, <2>4, BusyFrame
<1>7. CASE PublishCheck
  <2>1. pc = "publish" /\ UNCHANGED <<batch, edited, fs, index, ws>> /\ proc = "serving" /\ pc \in Busy
    BY <1>7, <1>d DEF PublishCheck, envVars, diskVars, Busy
  <2>2. CASE Published(PublishLoc)
    <3>1. NextOperation
      BY <1>7, <2>2 DEF PublishCheck
    <3>2. PublishLoc \in Indexed => fs[PublishLoc] = After(Current, PublishLoc)
      BY <1>j, <1>l, <2>1, <2>2 DEF Published, Current
    <3> QED BY <1>n, <2>1, <3>1, <3>2
  <2>3. CASE Arm
    <3>1. pc' = pc /\ UNCHANGED <<proc, cur, i, j>>
      BY <2>3 DEF Arm
    <3>2. \A k \in DOMAIN batch[cur] : \A l \in Locs(batch[cur][k]) : IndexAt(k, l) => IndexAt(k, l)'
      BY <2>1, <3>1 DEF IndexAt, PublishPassed, Current
    <3> QED BY <1>g, <2>1, <3>1, <3>2
  <2>4. CASE StartRollback
    <3>1. \A k \in DOMAIN batch[cur] : \A l \in Locs(batch[cur][k]) :
            IndexAt(k, l) => index[l] = Before(batch[cur][k], l)
      BY <2>1 DEF IndexAt
    <3> QED BY <1>i, <2>1, <2>4, <3>1
  <2> QED BY <1>7, <2>2, <2>3, <2>4 DEF PublishCheck
<1>8. CASE PublishIntent
  <2>1. /\ pc = "publish" /\ NextOperation /\ UNCHANGED <<batch, edited, index, ws>>
        /\ fs' = [fs EXCEPT ![PublishLoc] = After(Current, PublishLoc)]
    BY <1>8 DEF PublishIntent, PublishEffect, envVars
  <2>2. /\ \A l \in Indexed : l # PublishLoc => fs'[l] = fs[l]
        /\ PublishLoc \in Indexed => fs'[PublishLoc] = After(Current, PublishLoc)
    BY <1>a, <2>1 DEF TypeOK, Indexed, Loc
  <2> QED BY <1>n, <2>1, <2>2
<1>9. CASE PublishRefused
  <2>1. pc = "publish" /\ UNCHANGED <<batch, edited, fs, index, ws>> /\ proc = "serving" /\ pc \in Busy
    BY <1>9, <1>d DEF PublishRefused, envVars, diskVars, Busy
  <2>2. CASE Current.kind = "rmdir" /\ NextOperation
    <3>1. PublishLoc \notin Indexed
      BY <1>j, <1>l, <2>1, <2>2 DEF Current
    <3> QED BY <1>n, <2>1, <2>2, <3>1
  <2>3. CASE StartRollback
    <3>1. \A k \in DOMAIN batch[cur] : \A l \in Locs(batch[cur][k]) :
            IndexAt(k, l) => index[l] = Before(batch[cur][k], l)
      BY <2>1 DEF IndexAt
    <3> QED BY <1>i, <2>1, <2>3, <3>1
  <2> QED BY <1>9, <2>2, <2>3 DEF PublishRefused
<1>10. CASE PublishFails
  <2>1. pc = "publish" /\ UNCHANGED <<batch, edited, index, ws>> /\ proc = "serving" /\ StartRollback
    BY <1>10, <1>d DEF PublishFails, PublishEffect, envVars, diskVars, Busy
  <2>2. fs' = fs \/ fs' = [fs EXCEPT ![PublishLoc] = After(Current, PublishLoc)]
    BY <1>10 DEF PublishFails, PublishEffect
  <2>3. \A l \in Indexed : l \notin Footprint(batch[cur]) => fs'[l] = fs[l]
    BY <1>a, <1>j, <2>1, <2>2 DEF TypeOK, Indexed, Loc
  <2>4. \A k \in DOMAIN batch[cur] : \A l \in Locs(batch[cur][k]) :
          IndexAt(k, l) => index[l] = Before(batch[cur][k], l)
    BY <2>1 DEF IndexAt
  <2> QED BY <1>i, <2>1, <2>3, <2>4
<1>11. CASE ReconcileIndex
  <2>1. pc = "index" /\ UNCHANGED <<batch, edited, fs, ws, proc, cur>> /\ proc = "serving" /\ pc \in Busy
    BY <1>11, <1>d DEF ReconcileIndex, GoTo, StartRemoval, envVars, diskVars, Busy
  <2>2. \/ Deferred(batch[cur]) /\ pc' = "toCommitted"
        \/ ~Deferred(batch[cur]) /\ pc' = "remove"
    BY <1>11 DEF ReconcileIndex, GoTo, StartRemoval
  <2>3. \A l \in Indexed : index'[l] = IF l \in Footprint(batch[cur]) THEN EventResult(batch[cur], l)
                                       ELSE index[l]
    BY <1>11 DEF ReconcileIndex, Reconciled
  <2>4. ASSUME NEW k \in DOMAIN batch[cur], NEW l \in Locs(batch[cur][k]),
               l \in Indexed \ edited, IndexAt(k, l)
        PROVE  IndexAt(k, l)'
    <3>1. fs[l] = After(batch[cur][k], l) /\ l \in Footprint(batch[cur])
      BY <2>1, <2>4 DEF IndexAt, Footprint
    <3>2. index'[l] = fs[l]
      BY <1>c, <2>1, <2>3, <2>4, <3>1, EventIsAfter
    <3> QED BY <2>1, <2>2, <3>1, <3>2 DEF IndexAt
  <2>5. pc' \in Busy
    BY <2>2 DEF Busy
  <2> QED BY <1>a, <2>1, <2>3, <2>4, <2>5, BusyFrame
<1>12. CASE ReconcileIndexRefused \/ ReconcileIndexFails
  <2>1. pc = "index" /\ UNCHANGED <<batch, edited, fs, ws>> /\ proc = "serving" /\ pc \in Busy
        /\ IndexAfterFailure
    BY <1>12, <1>d DEF ReconcileIndexRefused, ReconcileIndexFails, envVars, diskVars, Busy
  <2>2. CASE Deferred(batch[cur])
    <3>1. StartRollback /\ index' = index
      BY <2>1, <2>2 DEF IndexAfterFailure
    <3>2. \A k \in DOMAIN batch[cur] : \A l \in Locs(batch[cur][k]) :
            IndexAt(k, l) => index[l] = Before(batch[cur][k], l)
      BY <2>1, <2>2 DEF IndexAt
    <3> QED BY <1>i, <2>1, <3>1, <3>2
  <2>3. CASE ~Deferred(batch[cur])
    <3>1. RetainWorkspace
      BY <2>1, <2>3 DEF IndexAfterFailure
    <3>2. \A l \in Indexed : l \notin Footprint(batch[cur]) => index'[l] = index[l]
      BY <2>1, <2>3 DEF IndexAfterFailure, Reconciled
    <3> QED BY <1>c, <1>h, <2>1, <3>1, <3>2
  <2> QED BY <2>2, <2>3
\* The rollback moves on past a location that is as it was.
<1>o. ASSUME pc = "rollback", PreviousOperation, batch' = batch, edited' = edited, index' = index,
             ws' = ws,
             \A l \in Indexed : l # RollbackLoc => fs'[l] = fs[l],
             RollbackLoc \in Indexed => fs'[RollbackLoc] = Before(Current, RollbackLoc)
      PROVE  Goal
  <2>0. CASE proc # "serving"
    BY <1>f, <1>o, <2>0 DEF PreviousOperation
  <2>1. CASE proc = "serving"
    <3>1. UNCHANGED <<proc, cur>> /\ pc' \in {"rollback", "remove"} /\ pc \in Busy /\ pc' \in Busy
      BY <1>o DEF PreviousOperation, Busy
    <3>2. ASSUME NEW k \in DOMAIN batch[cur], NEW l \in Locs(batch[cur][k]),
                 l \in Indexed \ edited, IndexAt(k, l)
          PROVE  IndexAt(k, l)'
      <4>1. index[l] = Before(batch[cur][k], l) /\ (RollbackPassed(k, l) => fs[l] = Before(batch[cur][k], l))
        BY <1>o, <3>2 DEF IndexAt
      <4>2. CASE l = RollbackLoc
        <5>1. fs'[l] = Before(batch[cur][k], l)
          BY <1>k, <1>m, <1>o, <3>1, <3>2, <4>2 DEF Current
        <5> QED BY <1>o, <3>1, <4>1, <5>1 DEF IndexAt
      <4>3. CASE l # RollbackLoc
        <5>1. fs'[l] = fs[l]
          BY <1>o, <3>2, <4>3
        <5>2. /\ pc' = "rollback" => (RollbackPassed(k, l)' => RollbackPassed(k, l))
              /\ pc' # "rollback" => RollbackPassed(k, l)
          BY <1>a, <1>o, <3>2, <4>3, RollbackPasses
        <5> QED BY <1>o, <3>1, <4>1, <5>1, <5>2 DEF IndexAt
      <4> QED BY <4>2, <4>3
    <3>3. \A l \in Indexed : l \notin Footprint(batch[cur]) => fs'[l] = fs[l]
      BY <1>k, <1>o
    <3> QED BY <1>a, <1>o, <2>1, <3>1, <3>2, <3>3, BusyFrame
  <2> QED BY <2>0, <2>1
<1>13. CASE RollbackCheck
  <2>1. pc = "rollback" /\ UNCHANGED <<batch, edited, fs, index, ws>> /\ pc \in Busy
    BY <1>13 DEF RollbackCheck, envVars, diskVars, Busy
  <2>2. CASE RolledBack(RollbackLoc) /\ PreviousOperation
    <3>1. RollbackLoc \in Indexed => fs[RollbackLoc] = Before(Current, RollbackLoc)
      BY <1>k, <1>l, <2>1, <2>2 DEF RolledBack, Current
    <3> QED BY <1>o, <2>1, <2>2, <3>1
  <2>3. CASE Arm
    <3>1. pc' = pc /\ UNCHANGED <<proc, cur, i, j>>
      BY <2>3 DEF Arm
    <3>2. \A k \in DOMAIN batch[cur] : \A l \in Locs(batch[cur][k]) : IndexAt(k, l) => IndexAt(k, l)'
      BY <2>1, <3>1 DEF IndexAt, RollbackPassed, Current
    <3>3. proc # "serving" => Goal
      BY <1>f, <2>1, <3>1
    <3> QED BY <1>g, <2>1, <3>1, <3>2, <3>3
  <2>4. CASE RetainWorkspace
    BY <1>c, <1>h, <2>1, <2>4
  <2> QED BY <1>13, <2>2, <2>3, <2>4 DEF RollbackCheck
<1>14. CASE RollbackUnreadable
  <2>1. pc \in Busy /\ UNCHANGED <<batch, edited, fs, index, ws>> /\ RetainWorkspace
    BY <1>14 DEF RollbackUnreadable, envVars, diskVars, Busy
  <2> QED BY <1>c, <1>h, <2>1
<1>15. CASE RollbackIntent
  <2>1. /\ pc = "rollback" /\ PreviousOperation /\ UNCHANGED <<batch, edited, index, ws>>
        /\ fs' = [fs EXCEPT ![RollbackLoc] = Before(Current, RollbackLoc)]
    BY <1>15 DEF RollbackIntent, RollbackEffect, envVars
  <2>2. /\ \A l \in Indexed : l # RollbackLoc => fs'[l] = fs[l]
        /\ RollbackLoc \in Indexed => fs'[RollbackLoc] = Before(Current, RollbackLoc)
    BY <1>a, <2>1 DEF TypeOK, Indexed, Loc
  <2> QED BY <1>o, <2>1, <2>2
<1>16. CASE RollbackRefused
  <2>1. pc = "rollback" /\ UNCHANGED <<batch, edited, fs, index, ws>> /\ pc \in Busy
    BY <1>16 DEF RollbackRefused, envVars, diskVars, Busy
  <2>2. CASE Current.kind = "mkdir" /\ PreviousOperation
    <3>1. RollbackLoc \notin Indexed
      BY <1>k, <1>l, <2>1, <2>2 DEF Current
    <3> QED BY <1>o, <2>1, <2>2, <3>1
  <2>3. CASE RetainWorkspace
    BY <1>c, <1>h, <2>1, <2>3
  <2> QED BY <1>16, <2>2, <2>3 DEF RollbackRefused
<1>17. CASE RollbackFails
  <2>1. pc = "rollback" /\ UNCHANGED <<batch, edited, index, ws>> /\ RetainWorkspace /\ pc \in Busy
    BY <1>17 DEF RollbackFails, RollbackEffect, envVars, diskVars, Busy
  <2>2. fs' = fs \/ fs' = [fs EXCEPT ![RollbackLoc] = Before(Current, RollbackLoc)]
    BY <1>17 DEF RollbackFails, RollbackEffect
  <2>3. \A l \in Indexed : l \notin Footprint(batch[cur]) => fs'[l] = fs[l]
    BY <1>a, <1>k, <2>1, <2>2 DEF TypeOK, Indexed, Loc
  <2> QED BY <1>c, <1>h, <2>1, <2>3
<1>18. CASE RemovePayload \/ RemoveManifest
  <2>1. /\ pc = "remove" /\ UNCHANGED <<batch, edited, fs, index, proc, pc, cur, recovered>>
        /\ pc \in Busy
    BY <1>18 DEF RemovePayload, RemoveManifest, taskVars, envVars, Busy
  <2>2. \A t \in Tx \ {cur} : ws'[t] = ws[t]
    BY <1>18, <1>a DEF RemovePayload, RemoveManifest, TypeOK
  <2>3. \A k \in DOMAIN batch[cur] : \A l \in Locs(batch[cur][k]) : IndexAt(k, l) => IndexAt(k, l)'
    BY <2>1 DEF IndexAt
  <2>4. CASE proc = "serving"
    BY <1>g, <2>1, <2>2, <2>3, <2>4
  <2>5. CASE proc = "finishing"
    <3>1. \A t \in Tx : ws'[t] # "none" => ws[t] # "none"
      BY <1>c, <2>1, <2>2
    <3> QED BY <1>a, <2>1, <2>5, <3>1, FinishingFrame
  <2>6. CASE proc = "recovering"
    BY <1>b, <2>1, <2>6
  <2> QED BY <1>c, <2>1, <2>4, <2>5, <2>6
<1>19. CASE RemoveDirectory
  <2>1. pc = "remove" /\ UNCHANGED <<batch, edited, fs, index, proc, cur, recovered>> /\ pc \in Busy
    BY <1>19 DEF RemoveDirectory, envVars, Busy
  <2>2. ws'[cur] = "none" /\ \A t \in Tx \ {cur} : ws'[t] = ws[t]
    BY <1>19, <1>a DEF RemoveDirectory, TypeOK
  <2>3. CASE proc = "serving"
    <3>1. pc' = "idle"
      BY <1>19, <2>3 DEF RemoveDirectory
    <3> QED BY <1>a, <2>1, <2>2, <2>3, <3>1, EndFrame
  <2>4. CASE proc = "finishing"
    <3>1. pc' = "scan"
      BY <1>19, <2>4 DEF RemoveDirectory
    <3>2. \A t \in Tx : ws'[t] # "none" => ws[t] # "none" /\ t # cur
      BY <2>2
    <3> QED BY <1>a, <2>1, <2>4, <3>1, <3>2, FinishingFrame
  <2>5. CASE proc = "recovering"
    BY <1>b, <2>1, <2>5
  <2> QED BY <1>c, <2>1, <2>3, <2>4, <2>5
<1>20. CASE RemoveFails
  <2>1. pc = "remove" /\ UNCHANGED <<batch, edited, fs, index>> /\ pc \in Busy /\ RetainWorkspace
    BY <1>20 DEF RemoveFails, envVars, Busy
  <2>2. \A t \in Tx \ {cur} : ws'[t] = ws[t]
    BY <1>20, <1>a DEF RemoveFails, TypeOK
  <2>3. CASE proc = "serving"
    <3>1. pc' = "idle" /\ proc' = "serving"
      BY <2>1, <2>3 DEF RetainWorkspace
    <3> QED BY <1>a, <2>1, <2>2, <2>3, <3>1, EndFrame
  <2>4. CASE proc # "serving"
    BY <1>b, <2>1, <2>4 DEF RetainWorkspace
  <2> QED BY <2>3, <2>4
<1>21. CASE Restart \/ RecoverPending \/ ReplayRefused \/ StartupFails \/ Crash
  BY <1>21, <1>b DEF Restart, RecoverPending, ReplayRefused, StartupFails, Crash, Abort
<1>22. CASE BuildIndex
  <2>1. /\ proc' = "finishing" /\ pc' = "replay" /\ index' = [l \in Indexed |-> fs[l]] /\ fs' = fs
        /\ ws' = ws /\ recovered' = recovered /\ Unresolved = {}
    BY <1>22 DEF BuildIndex, diskVars
  <2>2. StartupIndex'
    BY <2>1 DEF StartupIndex, Unresolved
  <2> QED BY <2>1, <2>2 DEF ServingIndex, IndexCoherent
<1>23. CASE ReplayRecovered
  <2>1. /\ pc = "replay" /\ pc' = "scan" /\ UNCHANGED <<proc, fs, batch, ws, recovered, touched>>
        /\ edited' = edited \cup Overtaken
        /\ \A l \in Indexed :
             index'[l] = IF \E t \in Tx : Newest(t, Replaying(l))
                           THEN EventResult(batch[CHOOSE t \in Tx : Newest(t, Replaying(l))], l)
                           ELSE index[l]
    BY <1>23 DEF ReplayRecovered, diskVars
  <2>2. CASE proc # "finishing"
    <3>1. proc \in {"recovering", "down"}
      BY <1>a, <2>1, <2>2 DEF Processes, TypeOK
    <3> QED BY <1>b, <2>1, <3>1
  <2>3. CASE proc = "finishing"
    <3>1. ASSUME NEW l \in Indexed \ edited'
          PROVE  index'[l] = fs[l]
      <4>1. CASE \E t \in Tx : Newest(t, Replaying(l))
        <5>1. PICK u \in Tx : u = CHOOSE t \in Tx : Newest(t, Replaying(l))
          BY <4>1
        <5>2. Newest(u, Replaying(l))
          BY <4>1, <5>1
        <5>3. u \in recovered /\ l \in Footprint(batch[u]) /\ u \notin touched
          BY <2>1, <3>1, <5>2 DEF Newest, Replaying, Overtaken
        <5>4. ws[u] = "committed" /\ Separate(batch[u]) /\ AllAfter(u)
          BY <1>a, <5>3 DEF Workspaces, Separated, Truth, TruthOf, PhaseTells
        <5>5. PICK k \in DOMAIN batch[u] : l \in Locs(batch[u][k])
          BY <5>3 DEF Footprint
        <5>6. EventResult(batch[u], l) = fs[l]
          BY <5>4, <5>5, EventIsAfter DEF AllAfter, IntentsAfter
        <5> QED BY <2>1, <3>1, <4>1, <5>1, <5>6
      <4>2. CASE ~\E t \in Tx : Newest(t, Replaying(l))
        BY <1>a, <2>1, <2>3, <3>1, <4>2 DEF StartupIndex
      <4> QED BY <4>1, <4>2
    <3>2. StartupIndex'
      BY <1>a, <2>1, <2>3, <3>1 DEF StartupIndex
    <3> QED BY <2>1, <2>3, <3>2 DEF ServingIndex, IndexCoherent
  <2> QED BY <2>2, <2>3
<1>24. CASE FinishRecovered
  <2>1. /\ proc = "finishing" /\ pc = "scan" /\ pc' = "remove"
        /\ UNCHANGED <<proc, fs, index, ws, edited>>
        /\ recovered' = recovered \ {cur'}
    BY <1>24 DEF FinishRecovered, diskVars, envVars
  <2> QED BY <1>a, <2>1, FinishingFrame
<1>25. CASE Serve
  <2>1. /\ proc = "finishing" /\ pc = "scan" /\ recovered = {}
        /\ proc' = "serving" /\ pc' = "idle" /\ UNCHANGED <<fs, index, ws, batch, edited>>
    BY <1>25 DEF Serve, diskVars, envVars
  <2>2. pc' \notin Busy
    BY <2>1 DEF Busy
  <2> QED BY <1>a, <2>1, <2>2 DEF StartupIndex, ServingIndex, IndexCoherent
<1>26. CASE \E t \in Tx, b \in Batches : Prepare(t, b)
  <2>1. PICK t \in Tx, b \in Batches : Prepare(t, b)
    BY <1>26
  <2>2. /\ proc = "serving" /\ pc = "idle" /\ pc' = "prepare" /\ cur' = t
        /\ UNCHANGED <<proc, fs, index, edited>> /\ validate_observed_state(b) /\ batch[t] = <<>>
    BY <2>1 DEF Prepare
  <2>3. /\ batch'[t] = b /\ \A u \in Tx \ {t} : batch'[u] = batch[u] /\ ws'[u] = ws[u]
    BY <1>a, <2>1 DEF Prepare, TypeOK
  <2>4. ws[t] = "none"
    BY <1>a, <2>2 DEF Workspaces
  <2>5. ASSUME NEW l \in Indexed \ edited, ~Elsewhere(l)'
        PROVE  index[l] = fs[l]
    <3>1. \A u \in Tx : ws[u] # "none" => l \notin Footprint(batch[u])
      BY <2>2, <2>3, <2>4, <2>5 DEF Elsewhere
    <3> QED BY <1>a, <2>2, <3>1 DEF ServingIndex, IndexCoherent
  <2>6. ASSUME NEW l \in Indexed \ edited, index[l] = fs[l], NEW k \in DOMAIN b, l \in Locs(b[k])
        PROVE  IndexAt(k, l)'
    <3>1. fs[l] = Before(b[k], l)
      BY <2>2, <2>6 DEF validate_observed_state
    <3> QED BY <2>2, <2>3, <2>6, <3>1 DEF IndexAt
  <2> QED BY <2>2, <2>3, <2>5, <2>6 DEF ServingIndex, IndexCoherent, StartupIndex
<1>27. CASE \E l \in Loc, v \in Values : Edit(l, v)
  <2>1. PICK x \in Loc, v \in Values : Edit(x, v)
    BY <1>27
  <2>2. /\ fs' = [fs EXCEPT ![x] = v] /\ edited' = edited \cup {x}
        /\ UNCHANGED <<index, ws, batch, proc, pc, cur, i, j, recovered>>
    BY <2>1 DEF Edit, diskVars, taskVars
  <2>3. \A l \in Indexed \ edited' : l \in Indexed \ edited /\ fs'[l] = fs[l]
    BY <1>a, <2>2 DEF TypeOK, Indexed, Loc
  <2>4. IndexCoherent'
    BY <1>a, <2>2, <2>3 DEF ServingIndex, IndexCoherent
  <2>5. ASSUME NEW l \in Indexed \ edited'
        PROVE  /\ Elsewhere(l)' <=> Elsewhere(l)
               /\ \A k \in DOMAIN batch[cur] : IndexAt(k, l) => IndexAt(k, l)'
    BY <2>2, <2>3 DEF Elsewhere, IndexAt, PublishPassed, RollbackPassed, Current
  <2>6. StartupIndex'
    BY <1>a, <2>2, <2>3 DEF StartupIndex
  <2> QED BY <1>a, <2>2, <2>3, <2>4, <2>5, <2>6 DEF ServingIndex
<1>28. CASE UNCHANGED vars
  BY <1>a, <1>28 DEF vars, ServingIndex, StartupIndex, IndexCoherent, IndexAt, Elsewhere,
       PublishPassed, RollbackPassed, Current
<1> QED
  BY <1>1, <1>2, <1>3, <1>4, <1>5, <1>6, <1>7, <1>8, <1>9, <1>10, <1>11, <1>12, <1>13, <1>14,
     <1>15, <1>16, <1>17, <1>18, <1>19, <1>20, <1>21, <1>22, <1>23, <1>24, <1>25, <1>26, <1>27,
     <1>28 DEF Next, TaskStep, FaultStep
\* IndexInv holds in every reachable state.
LEMMA IndexInvariant == Spec => []IndexInv
<1>1. Init => IndexInv
  <2> SUFFICES ASSUME Init PROVE ServingIndex /\ StartupIndex
    BY InvInit DEF IndexInv
  <2> QED BY DEF Init, ServingIndex, StartupIndex, IndexCoherent, Busy
<1>2. IndexInv /\ [Next]_vars => IndexInv'
  BY IndexStep
<1> QED BY <1>1, <1>2, PTL DEF Spec

\* Whenever the server is idle its index agrees with the vault, except where
\* a workspace was retained or another program wrote, for every vault, every
\* set of batches and every number of edits, faults and crashes
\* (reconcile_batch_index, and the failure paths that roll back or retain).
THEOREM IndexIsCoherent == Spec => []IndexCoherent
<1>1. IndexInv => IndexCoherent
  BY DEF IndexInv, ServingIndex
<1> QED BY <1>1, IndexInvariant, PTL

\* The server starts to serve only with every workspace resolved and with the
\* index of the vault on disk, save where a later write overtook a recovered
\* batch (build_app_state_with_settings, recover_pending).
THEOREM StartupResolves == Spec => StartupResolvesAll
<1>1. ASSUME IndexInv, [Next]_vars, proc # "serving", proc' = "serving"
      PROVE  /\ \A t \in Tx : ws[t] = "none"
             /\ \A l \in Indexed \ edited : index[l] = fs[l]
  <2>1. Serve
    BY <1>1 DEF Next, TaskStep, FaultStep, vars, WriteManifest, SyncManifest, WritePhase, SyncPhase,
         AfterSync, PublishCheck, PublishIntent, PublishRefused, PublishFails, PrepareFails,
         ReconcileIndex, ReconcileIndexRefused, ReconcileIndexFails, IndexAfterFailure,
         RollbackCheck, RollbackUnreadable, RollbackIntent, RollbackRefused, RollbackFails,
         RemovePayload, RemoveManifest, RemoveDirectory, RemoveFails, RecoverPending, BuildIndex,
         ReplayRecovered, ReplayRefused, StartupFails, FinishRecovered, WritePhaseFails,
         PhaseUncertain, Restart, Crash, Prepare, Edit, Abort, taskVars, GoTo, Arm, StartRollback,
         StartRemoval, RetainWorkspace, NextOperation, PreviousOperation
  <2> QED BY <1>1, <2>1 DEF Serve, IndexInv, StartupIndex
<1> QED BY <1>1, IndexInvariant, PTL DEF Spec, StartupResolvesAll

-----------------------------------------------------------------------------
(* A batch with which nobody interfered can be rolled back.                *)

\* Every file and directory is in a directory that is there.
Housed == \A l \in Paths \cup Dirs : fs[l] # Missing => Present(Parent[l])

\* What a batch was planned against was such a vault too.
Planned(b) ==
  /\ PlannedDirectories(b)
  /\ \A k, m \in DOMAIN b : \A l \in Locs(b[m]) \ Items :
       (Parent[l] \in Locs(b[k]) /\ Before(b[m], l) # Missing)
         => Before(b[k], Parent[l]) # Missing

AllPlanned == \A t \in Tx : batch[t] # <<>> => Planned(batch[t])

Makes(t, k) == batch[t][k].kind = "mkdir"
Unmakes(t, k) == batch[t][k].kind = "rmdir"

\* The rubbish items in place are those that were renamed out of the workspace.
ItemsOwned(t) ==
  \A k \in DOMAIN batch[t] : \A l \in Locs(batch[t][k]) \cap Items :
    l \in owned[t] <=> fs[l] = After(batch[t][k], l)

\* Nobody else put anything into a directory that the batch makes.
Uninhabited(t) ==
  \A k \in DOMAIN batch[t] : \A l \in (Paths \cup Dirs) \ Footprint(batch[t]) :
    (Makes(t, k) /\ Parent[l] = batch[t][k].path) => fs[l] = Missing

\* The directories of the files to put back are there.
ParentsKept(t) ==
  \A k \in DOMAIN batch[t] : \A l \in Locs(batch[t][k]) \ Items :
    (Before(batch[t][k], l) # Missing /\ Parent[l] \notin Footprint(batch[t]))
      => Present(Parent[l])

\* A directory is not made before the one that holds it, nor removed before
\* those it holds.
MadeInOrder(t) ==
  payload[t] =>
    \A k, m \in DOMAIN batch[t] :
      (m <= k /\ Makes(t, m) /\ Makes(t, k) /\ Parent[batch[t][m].path] = batch[t][k].path)
        => batch[t][m].path \notin owned[t]
UnmadeInOrder(t) ==
  \A k, m \in DOMAIN batch[t] :
    (m <= k /\ Unmakes(t, m) /\ Unmakes(t, k) /\ Parent[batch[t][k].path] = batch[t][m].path)
      => fs[batch[t][m].path] = Directory

Undoable(t) ==
  ItemsOwned(t) /\ Uninhabited(t) /\ ParentsKept(t) /\ MadeInOrder(t) /\ UnmadeInOrder(t)

\* What is still to be published is as it was, and what is about to be
\* reverted is as it was published.
Ahead ==
  cur \notin touched =>
    /\ pc = "publish" =>
         /\ \A k \in DOMAIN batch[cur] : k >= i /\ Makes(cur, k) => batch[cur][k].path \notin owned[cur]
         /\ \A k \in DOMAIN batch[cur] : k > i =>
              \A l \in Locs(batch[cur][k]) : fs[l] = Before(batch[cur][k], l)
    /\ (pc = "rollback" /\ armed) => fs[RollbackLoc] = After(Current, RollbackLoc)

UInv ==
  /\ Inv /\ Housed /\ AllPlanned /\ Ahead
  /\ \A t \in Tx \ touched : ws[t] # "none" => Undoable(t)

\* What the values of an intent tell apart.
LEMMA IntentValues ==
  ASSUME NEW it \in Intents, WellTyped(it), NEW l \in Locs(it)
  PROVE  /\ l \in Items => Before(it, l) # After(it, l)
         /\ Before(it, l) = Missing => After(it, l) # Missing
         /\ l \in Dirs => it.kind \in {"mkdir", "rmdir"} /\ l = it.path
         /\ it.kind \in {"mkdir", "rmdir"} => l \in Dirs /\ l = it.path
         /\ it.kind = "mkdir" => Before(it, l) = Missing /\ After(it, l) = Directory
         /\ it.kind = "rmdir" => Before(it, l) = Directory /\ After(it, l) = Missing
<1>1. it.kind \in Kinds /\ it.old \in Values /\ it.new \in Values
  BY DEF Intents
<1>2. CASE it.kind \in {"mkdir", "rmdir"}
  <2>1. it.path \in Dirs /\ l = it.path
    BY <1>2 DEF WellTyped, Locs
  <2>2. l \notin Items
    BY <2>1, LocAssumption
  <2> QED BY <1>2, <2>1, <2>2, LocAssumption DEF Before, After
<1>3. CASE it.kind \notin {"mkdir", "rmdir"}
  <2>1. it.path \in Paths /\ (it.kind = "move" => it.to \in Paths)
        /\ (it.kind \in {"archive", "restore"} => it.to \in Items)
    BY <1>3 DEF WellTyped
  <2>2. l \notin Dirs /\ (l \in Items => it.kind \in {"archive", "restore"} /\ l = it.to /\ l # it.path)
    BY <1>3, <2>1, LocAssumption DEF Locs
  <2>3. /\ it.kind = "write" => it.new \in Contents
        /\ it.kind \in {"move", "delete", "archive", "restore"} => it.old \in Contents
    BY DEF WellTyped
  <2>4. l \in Items => Before(it, l) # After(it, l)
    BY <1>3, <2>2, <2>3, LocAssumption DEF Before, After
  <2>5. Before(it, l) = Missing => After(it, l) # Missing
    BY <1>1, <1>3, <2>3, LocAssumption DEF Before, After, Kinds, Locs
  <2> QED BY <1>3, <2>2, <2>4, <2>5
<1> QED BY <1>2, <1>3

\* A call that needs the directory of what it puts down, and an empty one to
\* remove, leaves every file in a directory.
LEMMA HousedEffect ==
  ASSUME TypeOK, Housed, NEW x \in Loc, NEW v, fs' = [fs EXCEPT ![x] = v],
         (v # Missing /\ x \notin Items) => Present(Parent[x]),
         (v = Missing /\ x \in Dirs) => EmptyDir(x)
  PROVE  Housed'
<1> SUFFICES ASSUME NEW l \in Paths \cup Dirs, fs'[l] # Missing, Parent[l] # Root
             PROVE  fs'[Parent[l]] # Missing
  BY DEF Housed, Present
<1>1. l \in Loc /\ Parent[l] \in Dirs /\ Parent[l] \in Loc /\ l \notin Items
  BY LocAssumption DEF Loc
<1>2. fs[Parent[l]] # Missing
  <2>1. CASE l = x
    BY <1>1, <2>1 DEF TypeOK, Present
  <2>2. CASE l # x
    BY <1>1, <2>2 DEF TypeOK, Housed, Present
  <2> QED BY <2>1, <2>2
<1>3. CASE Parent[l] = x /\ v = Missing
  <2>1. fs[l] = Missing
    BY <1>1, <1>3 DEF EmptyDir
  <2>2. l = x
    BY <1>1, <2>1 DEF TypeOK
  <2> QED BY <1>1, <1>3, <2>2 DEF TypeOK
<1>4. CASE ~(Parent[l] = x /\ v = Missing)
  BY <1>1, <1>2, <1>4 DEF TypeOK
<1> QED BY <1>3, <1>4

\* A batch whose files and workspace a step leaves alone stays as it was.
LEMMA UndoQuiet ==
  ASSUME NEW t \in Tx, Undoable(t), fs' = fs, batch'[t] = batch[t], owned'[t] = owned[t],
         payload'[t] = payload[t]
  PROVE  Undoable(t)'
BY DEF Undoable, ItemsOwned, Uninhabited, ParentsKept, MadeInOrder, UnmadeInOrder, Makes, Unmakes,
       Present

\* So does one that a change at location x does not get in the way of.
LEMMA UndoFrame ==
  ASSUME TypeOK, NEW t \in Tx, Undoable(t), NEW x, NEW v, ~InTheWay(x, batch[t]),
         fs' = [fs EXCEPT ![x] = v], batch'[t] = batch[t], owned'[t] = owned[t],
         payload'[t] = payload[t]
  PROVE  Undoable(t)'
<1>1. \A l \in Loc : l # x => fs'[l] = fs[l]
  BY DEF TypeOK
<1>2. \A k \in DOMAIN batch[t] : \A l \in Locs(batch[t][k]) :
        /\ l \in Loc /\ l # x /\ l \in Footprint(batch[t])
        /\ l \notin Items => Parent[l] # x
  BY BatchType DEF Footprint, Locs, Intents, InTheWay
<1>3. \A k \in DOMAIN batch[t] : batch[t][k].path \in Locs(batch[t][k])
  BY DEF Locs
<1>4. ItemsOwned(t)' /\ UnmadeInOrder(t)' /\ MadeInOrder(t)'
  BY <1>1, <1>2, <1>3 DEF Undoable, ItemsOwned, UnmadeInOrder, MadeInOrder, Makes, Unmakes
<1>5. Uninhabited(t)'
  <2> SUFFICES ASSUME NEW k \in DOMAIN batch[t], NEW l \in (Paths \cup Dirs) \ Footprint(batch[t]),
                      Makes(t, k), Parent[l] = batch[t][k].path
               PROVE  fs'[l] = Missing
    BY DEF Uninhabited, Makes
  <2>1. l # x /\ l \in Loc
    BY <1>2, <1>3, LocAssumption DEF InTheWay, Loc
  <2> QED BY <1>1, <2>1 DEF Undoable, Uninhabited
<1>6. ParentsKept(t)'
  <2> SUFFICES ASSUME NEW k \in DOMAIN batch[t], NEW l \in Locs(batch[t][k]) \ Items,
                      Before(batch[t][k], l) # Missing, Parent[l] \notin Footprint(batch[t]),
                      Parent[l] # Root
               PROVE  fs'[Parent[l]] # Missing
    BY DEF ParentsKept, Present
  <2>1. Parent[l] # x /\ Parent[l] \in Loc
    BY <1>2, LocAssumption DEF Loc
  <2> QED BY <1>1, <2>1 DEF Undoable, ParentsKept, Present
<1> QED BY <1>4, <1>5, <1>6 DEF Undoable

\* The locations of a batch: each belongs to one intent.
LEMMA LocsOfBatch ==
  ASSUME TypeOK, NEW c \in Tx, Separate(batch[c]), NEW n \in DOMAIN batch[c],
         NEW x \in Locs(batch[c][n])
  PROVE  \A k \in DOMAIN batch[c] :
           /\ batch[c][k] \in Intents /\ WellTyped(batch[c][k])
           /\ batch[c][k].path \in Locs(batch[c][k])
           /\ \A l \in Locs(batch[c][k]) : l \in Loc /\ l \in Footprint(batch[c]) /\ (k # n => l # x)
<1> SUFFICES ASSUME NEW k \in DOMAIN batch[c]
             PROVE  /\ batch[c][k] \in Intents /\ WellTyped(batch[c][k])
                    /\ batch[c][k].path \in Locs(batch[c][k])
                    /\ \A l \in Locs(batch[c][k]) :
                         l \in Loc /\ l \in Footprint(batch[c]) /\ (k # n => l # x)
  OBVIOUS
<1>1. batch[c][k] \in Intents /\ WellTyped(batch[c][k])
  BY BatchType
<1>2. batch[c][k].path \in Locs(batch[c][k]) /\ \A l \in Locs(batch[c][k]) : l \in Loc
  BY <1>1 DEF Locs, Intents
<1>3. \A l \in Locs(batch[c][k]) : l \in Footprint(batch[c])
  BY DEF Footprint
<1>4. \A l \in Locs(batch[c][k]) : k # n => l # x
  BY DEF Separate
<1> QED BY <1>1, <1>2, <1>3, <1>4

\* Publishing a location of a batch, after what comes before it and before
\* what comes after it, leaves the batch one that can be undone.
LEMMA PublishUndo ==
  ASSUME UInv, NEW c \in Tx, c \notin touched, ws[c] # "none",
         NEW n \in DOMAIN batch[c], NEW x \in Locs(batch[c][n]),
         \A k \in DOMAIN batch[c] : k >= n /\ Makes(c, k) => batch[c][k].path \notin owned[c],
         \A k \in DOMAIN batch[c] : k > n =>
           \A l \in Locs(batch[c][k]) : fs[l] = Before(batch[c][k], l),
         CanApply(x, Before(batch[c][n], x), After(batch[c][n], x)),
         fs' = [fs EXCEPT ![x] = After(batch[c][n], x)],
         owned'[c] = IF x \in Items \/ Makes(c, n) THEN owned[c] \cup {x} ELSE owned[c],
         batch'[c] = batch[c], payload'[c] = payload[c]
  PROVE  Undoable(c)'
<1>1. TypeOK /\ Separate(batch[c]) /\ UnmadeMissing(c) /\ Undoable(c)
  BY DEF UInv, Inv, Control, Separated, Truth, TruthOf, Workspaces
<1>2. \A k \in DOMAIN batch[c] :
        /\ batch[c][k] \in Intents /\ WellTyped(batch[c][k]) /\ batch[c][k].path \in Locs(batch[c][k])
        /\ \A l \in Locs(batch[c][k]) : l \in Loc /\ l \in Footprint(batch[c]) /\ (k # n => l # x)
  BY <1>1, LocsOfBatch
<1>3. x \in Loc /\ fs'[x] = After(batch[c][n], x) /\ \A l \in Loc : l # x => fs'[l] = fs[l]
  BY <1>1, <1>2 DEF TypeOK
<1>4. ItemsOwned(c)'
  <2> SUFFICES ASSUME NEW k \in DOMAIN batch[c], NEW l \in Locs(batch[c][k]) \cap Items
               PROVE  l \in owned'[c] <=> fs'[l] = After(batch[c][k], l)
    BY DEF ItemsOwned
  <2>1. CASE l = x
    BY <1>2, <1>3, <2>1
  <2>2. CASE l # x
    BY <1>1, <1>2, <1>3, <2>2 DEF Undoable, ItemsOwned
  <2> QED BY <2>1, <2>2
<1>5. Uninhabited(c)'
  <2> SUFFICES ASSUME NEW k \in DOMAIN batch[c], NEW l \in (Paths \cup Dirs) \ Footprint(batch[c]),
                      Makes(c, k), Parent[l] = batch[c][k].path
               PROVE  fs'[l] = Missing
    BY DEF Uninhabited, Makes
  <2>1. l # x /\ l \in Loc
    BY <1>2 DEF Loc
  <2> QED BY <1>1, <1>3, <2>1 DEF Undoable, Uninhabited
<1>6. ParentsKept(c)'
  <2> SUFFICES ASSUME NEW k \in DOMAIN batch[c], NEW l \in Locs(batch[c][k]) \ Items,
                      Before(batch[c][k], l) # Missing, Parent[l] \notin Footprint(batch[c]),
                      Parent[l] # Root
               PROVE  fs'[Parent[l]] # Missing
    BY DEF ParentsKept, Present
  <2>1. Parent[l] # x /\ Parent[l] \in Loc
    BY <1>2, LocAssumption DEF Loc
  <2> QED BY <1>1, <1>3, <2>1 DEF Undoable, ParentsKept, Present
<1>7. MadeInOrder(c)'
  <2> SUFFICES ASSUME payload[c], NEW k \in DOMAIN batch[c], NEW m \in DOMAIN batch[c], m <= k,
                      Makes(c, m), Makes(c, k), Parent[batch[c][m].path] = batch[c][k].path,
                      batch[c][m].path \in owned'[c]
               PROVE  FALSE
    BY DEF MadeInOrder, Makes
  <2>1. batch[c][m].path = x
    BY <1>1 DEF Undoable, MadeInOrder
  <2>2. m = n /\ Makes(c, n) /\ k >= n
    BY <1>1, <1>2, <2>1, BatchType
  <2>3. batch[c][k].path \notin owned[c] /\ fs[batch[c][k].path] = Missing
    BY <1>1, <2>2 DEF UnmadeMissing, Makes
  <2>4. After(batch[c][n], x) # Missing /\ x \in Dirs
    BY <1>2, <2>2, IntentValues, LocAssumption DEF Makes
  <2>5. x \notin Items /\ batch[c][k].path \in Loc /\ Root \notin Loc
    BY <1>2, <2>4, LocAssumption
  <2>6. Present(Parent[x]) /\ Parent[x] # Root
    BY <2>1, <2>4, <2>5 DEF CanApply
  <2> QED BY <2>1, <2>3, <2>6 DEF Present
<1>8. UnmadeInOrder(c)'
  <2> SUFFICES ASSUME NEW k \in DOMAIN batch[c], NEW m \in DOMAIN batch[c], m <= k,
                      Unmakes(c, m), Unmakes(c, k), Parent[batch[c][k].path] = batch[c][m].path
               PROVE  fs'[batch[c][m].path] = Directory
    BY DEF UnmadeInOrder, Unmakes
  <2>1. CASE batch[c][m].path # x
    BY <1>1, <1>2, <1>3, <2>1 DEF Undoable, UnmadeInOrder
  <2>2. CASE batch[c][m].path = x
    <3>1. m = n /\ Unmakes(c, n)
      BY <1>2, <2>2
    <3>0. k > n \/ k = n
      BY <1>1, <3>1, BatchType
    <3>2. After(batch[c][n], x) = Missing /\ x \in Dirs
      BY <1>2, <3>1, IntentValues DEF Unmakes
    <3>3. fs[x] # Missing /\ EmptyDir(x)
      BY <3>2 DEF CanApply
    <3>4. batch[c][k].path \in Dirs /\ Before(batch[c][k], batch[c][k].path) = Directory
      BY <1>2, IntentValues DEF Unmakes
    <3>5. fs[batch[c][k].path] = Missing
      BY <2>2, <3>3, <3>4 DEF EmptyDir
    <3>6. k > n => fs[batch[c][k].path] = Directory
      BY <1>2, <3>4
    <3> QED BY <2>2, <3>0, <3>1, <3>3, <3>5, <3>6, LocAssumption
  <2> QED BY <2>1, <2>2
<1> QED BY <1>4, <1>5, <1>6, <1>7, <1>8 DEF Undoable

\* Reverting a location leaves it one too.
LEMMA RollbackUndo ==
  ASSUME UInv, NEW c \in Tx, c \notin touched, ws[c] # "none",
         NEW n \in DOMAIN batch[c], NEW x \in Locs(batch[c][n]),
         fs' = [fs EXCEPT ![x] = Before(batch[c][n], x)],
         owned'[c] = IF x \in Items THEN owned[c] \ {x} ELSE owned[c],
         batch'[c] = batch[c], payload'[c] = payload[c]
  PROVE  Undoable(c)'
<1>1. TypeOK /\ Separate(batch[c]) /\ Undoable(c)
  BY DEF UInv, Inv, Control, Separated, Workspaces
<1>2. \A k \in DOMAIN batch[c] :
        /\ batch[c][k] \in Intents /\ WellTyped(batch[c][k]) /\ batch[c][k].path \in Locs(batch[c][k])
        /\ \A l \in Locs(batch[c][k]) : l \in Loc /\ l \in Footprint(batch[c]) /\ (k # n => l # x)
  <2>1. TypeOK
    BY <1>1
  <2>2. Separate(batch[c])
    BY <1>1
  <2> HIDE DEF UInv
  <2> QED BY <2>1, <2>2, LocsOfBatch, SMTT(30)
<1>3. x \in Loc /\ fs'[x] = Before(batch[c][n], x) /\ \A l \in Loc : l # x => fs'[l] = fs[l]
  BY <1>1, <1>2 DEF TypeOK
<1>4. ItemsOwned(c)'
  <2> SUFFICES ASSUME NEW k \in DOMAIN batch[c], NEW l \in Locs(batch[c][k]) \cap Items
               PROVE  l \in owned'[c] <=> fs'[l] = After(batch[c][k], l)
    BY DEF ItemsOwned
  <2>1. CASE l = x
    <3>1. k = n /\ Before(batch[c][n], x) # After(batch[c][n], x)
      BY <1>2, <2>1, IntentValues
    <3> QED BY <1>3, <2>1, <3>1
  <2>2. CASE l # x
    BY <1>1, <1>2, <1>3, <2>2 DEF Undoable, ItemsOwned
  <2> QED BY <2>1, <2>2
<1>5. Uninhabited(c)'
  <2> SUFFICES ASSUME NEW k \in DOMAIN batch[c], NEW l \in (Paths \cup Dirs) \ Footprint(batch[c]),
                      Makes(c, k), Parent[l] = batch[c][k].path
               PROVE  fs'[l] = Missing
    BY DEF Uninhabited, Makes
  <2>1. l # x /\ l \in Loc
    BY <1>2 DEF Loc
  <2> QED BY <1>1, <1>3, <2>1 DEF Undoable, Uninhabited
<1>6. ParentsKept(c)'
  <2> SUFFICES ASSUME NEW k \in DOMAIN batch[c], NEW l \in Locs(batch[c][k]) \ Items,
                      Before(batch[c][k], l) # Missing, Parent[l] \notin Footprint(batch[c]),
                      Parent[l] # Root
               PROVE  fs'[Parent[l]] # Missing
    BY DEF ParentsKept, Present
  <2>1. Parent[l] # x /\ Parent[l] \in Loc
    BY <1>2, LocAssumption DEF Loc
  <2> QED BY <1>1, <1>3, <2>1 DEF Undoable, ParentsKept, Present
<1>7. MadeInOrder(c)'
  BY <1>1 DEF Undoable, MadeInOrder, Makes
<1>8. UnmadeInOrder(c)'
  <2> SUFFICES ASSUME NEW k \in DOMAIN batch[c], NEW m \in DOMAIN batch[c], m <= k,
                      Unmakes(c, m), Unmakes(c, k), Parent[batch[c][k].path] = batch[c][m].path
               PROVE  fs'[batch[c][m].path] = Directory
    BY DEF UnmadeInOrder, Unmakes
  <2>1. CASE batch[c][m].path # x
    BY <1>1, <1>2, <1>3, <2>1 DEF Undoable, UnmadeInOrder
  <2>2. CASE batch[c][m].path = x
    BY <1>2, <1>3, <2>2, IntentValues DEF Unmakes
  <2> QED BY <2>1, <2>2
<1> QED BY <1>4, <1>5, <1>6, <1>7, <1>8 DEF Undoable

\* What the proof of a step has to show of the files.
Undo ==
  /\ Housed /\ AllPlanned
  /\ \A t \in Tx \ touched : ws[t] # "none" => Undoable(t)

\* A step that changes neither files nor workspaces, save to end one.
LEMMA QuietUndo ==
  ASSUME UInv, UNCHANGED <<fs, batch, owned, payload, touched>>,
         \A t \in Tx : ws'[t] # "none" => ws[t] # "none"
  PROVE  Undo'
<1>1. Housed' /\ AllPlanned'
  BY DEF UInv, Housed, Present, AllPlanned
<1>2. \A t \in Tx \ touched : ws[t] # "none" => Undoable(t)
  BY DEF UInv
<1>3. \A t \in Tx \ touched' : ws'[t] # "none" => Undoable(t)'
  BY <1>2, UndoQuiet
<1> QED BY <1>1, <1>3 DEF Undo

\* A change at one location by the batch of transaction c.
LEMMA EffectUndo ==
  ASSUME UInv, NEW c \in Tx, NEW x \in Loc, NEW v, fs' = [fs EXCEPT ![x] = v], Touch(x, {c}),
         UNCHANGED <<ws, batch, payload>>, \A t \in Tx : t # c => owned'[t] = owned[t],
         (v # Missing /\ x \notin Items) => Present(Parent[x]),
         (v = Missing /\ x \in Dirs) => EmptyDir(x),
         (c \notin touched /\ ws[c] # "none") => Undoable(c)'
  PROVE  Undo'
<1>1. TypeOK /\ Housed /\ AllPlanned /\ \A t \in Tx \ touched : ws[t] # "none" => Undoable(t)
  BY DEF UInv, Inv, Control
<1>2. Housed'
  BY <1>1, HousedEffect
<1>3. AllPlanned'
  BY <1>1 DEF AllPlanned
<1>4. ASSUME NEW t \in Tx \ touched', ws'[t] # "none"
      PROVE  Undoable(t)'
  <2>1. t \notin touched /\ ws[t] # "none"
    BY <1>4 DEF Touch
  <2>2. CASE t = c
    BY <2>1, <2>2
  <2>3. CASE t # c
    <3>1. ~InTheWay(x, batch[t])
      BY <1>4, <2>1, <2>3 DEF Touch
    <3> QED BY <1>1, <2>1, <2>3, <3>1, UndoFrame
  <2> QED BY <2>2, <2>3
<1> QED BY <1>2, <1>3, <1>4 DEF Undo

\* An operation of publish.
LEMMA PublishEffectUndo ==
  ASSUME UInv, pc = "publish", PublishEffect(PublishLoc),
         CanApply(PublishLoc, Before(Current, PublishLoc), After(Current, PublishLoc))
  PROVE  Undo'
<1>1. TypeOK /\ Position /\ cur \in Tx /\ ws[cur] # "none"
  BY DEF UInv, Inv, Control, TypeOK, Workspaces, Busy
<1>2. PICK c \in Tx : c = cur
  BY <1>1
<1>3. PICK n \in DOMAIN batch[c] : n = i
  BY <1>1, <1>2, BatchType DEF Position
<1>4. PICK x \in Locs(batch[c][n]) : x = PublishLoc /\ x \in Loc
  BY <1>1, <1>2, <1>3, OperationPlace DEF Current
<1>5. Current = batch[c][n]
  BY <1>2, <1>3 DEF Current
<1>6. /\ fs' = [fs EXCEPT ![x] = After(batch[c][n], x)] /\ Touch(x, {c})
      /\ UNCHANGED <<ws, batch, payload>>
      /\ CanApply(x, Before(batch[c][n], x), After(batch[c][n], x))
  BY <1>2, <1>4, <1>5 DEF PublishEffect
<1>7. \A t \in Tx : owned'[t] = IF t = c /\ (x \in Items \/ Makes(c, n)) THEN owned[c] \cup {x} ELSE owned[t]
  BY <1>1, <1>2, <1>4, <1>5 DEF PublishEffect, OwnedAfterPublish, Makes, TypeOK
<1>8. c \notin touched => Undoable(c)'
  <2> SUFFICES ASSUME c \notin touched PROVE Undoable(c)'
    OBVIOUS
  <2>1. /\ \A k \in DOMAIN batch[c] : k >= n /\ Makes(c, k) => batch[c][k].path \notin owned[c]
        /\ \A k \in DOMAIN batch[c] : k > n =>
             \A l \in Locs(batch[c][k]) : fs[l] = Before(batch[c][k], l)
    BY <1>2, <1>3 DEF UInv, Ahead
  <2>2. owned'[c] = IF x \in Items \/ Makes(c, n) THEN owned[c] \cup {x} ELSE owned[c]
    BY <1>7
  <2>3. ws[c] # "none"
    BY <1>1, <1>2
  <2> QED BY <1>6, <2>1, <2>2, <2>3, PublishUndo
<1>9. \A t \in Tx : t # c => owned'[t] = owned[t]
  BY <1>7
<1>10. /\ (After(batch[c][n], x) # Missing /\ x \notin Items) => Present(Parent[x])
       /\ (After(batch[c][n], x) = Missing /\ x \in Dirs) => EmptyDir(x)
  BY <1>6 DEF CanApply
<1>11. x \in Loc
  BY <1>4
<1> QED BY <1>6, <1>8, <1>9, <1>10, <1>11, EffectUndo

\* An operation of rollback_manifest.
LEMMA RollbackEffectUndo ==
  ASSUME UInv, pc = "rollback", RollbackEffect(RollbackLoc),
         CanApply(RollbackLoc, After(Current, RollbackLoc), Before(Current, RollbackLoc))
  PROVE  Undo'
<1>1. TypeOK /\ Position /\ cur \in Tx /\ ws[cur] # "none"
  BY DEF UInv, Inv, Control, TypeOK, Workspaces, Busy
<1>2. PICK c \in Tx : c = cur
  BY <1>1
<1>3. PICK n \in DOMAIN batch[c] : n = i
  BY <1>1, <1>2, BatchType DEF Position
<1>4. PICK x \in Locs(batch[c][n]) : x = RollbackLoc /\ x \in Loc
  BY <1>1, <1>2, <1>3, OperationPlace DEF Current
<1>5. Current = batch[c][n]
  BY <1>2, <1>3 DEF Current
<1>6. /\ fs' = [fs EXCEPT ![x] = Before(batch[c][n], x)] /\ Touch(x, {c})
      /\ UNCHANGED <<ws, batch, payload>>
      /\ CanApply(x, After(batch[c][n], x), Before(batch[c][n], x))
  BY <1>2, <1>4, <1>5 DEF RollbackEffect
<1>7. \A t \in Tx : owned'[t] = IF t = c /\ x \in Items THEN owned[c] \ {x} ELSE owned[t]
  BY <1>1, <1>2, <1>4, <1>5 DEF RollbackEffect, OwnedAfterRollback, TypeOK
<1>8. c \notin touched => Undoable(c)'
  <2> SUFFICES ASSUME c \notin touched PROVE Undoable(c)'
    OBVIOUS
  <2>2. owned'[c] = IF x \in Items THEN owned[c] \ {x} ELSE owned[c]
    BY <1>7
  <2>3. ws[c] # "none"
    BY <1>1, <1>2
  <2> QED BY <1>6, <2>2, <2>3, RollbackUndo
<1>9. \A t \in Tx : t # c => owned'[t] = owned[t]
  BY <1>7
<1>10. /\ (Before(batch[c][n], x) # Missing /\ x \notin Items) => Present(Parent[x])
       /\ (Before(batch[c][n], x) = Missing /\ x \in Dirs) => EmptyDir(x)
  BY <1>6 DEF CanApply
<1>11. x \in Loc
  BY <1>4
<1> QED BY <1>6, <1>8, <1>9, <1>10, <1>11, EffectUndo

\* Another program's change.
LEMMA EditUndo ==
  ASSUME UInv, NEW x \in Loc, NEW v \in Values, Edit(x, v)
  PROVE  Undo'
<1>1. TypeOK /\ Housed /\ AllPlanned /\ \A t \in Tx \ touched : ws[t] # "none" => Undoable(t)
  BY DEF UInv, Inv, Control
<1>2. /\ fs' = [fs EXCEPT ![x] = v] /\ Touch(x, {}) /\ UNCHANGED <<ws, batch, payload, owned>>
      /\ v # Missing => Present(Parent[x])
      /\ (x \in Dirs /\ v = Missing) => EmptyDir(x)
  BY DEF Edit, diskVars
<1>3. Housed'
  BY <1>1, <1>2, HousedEffect
<1>4. AllPlanned'
  BY <1>1, <1>2 DEF AllPlanned
<1>5. ASSUME NEW t \in Tx \ touched', ws'[t] # "none"
      PROVE  Undoable(t)'
  <2>1. t \notin touched /\ ws[t] # "none" /\ ~InTheWay(x, batch[t])
    BY <1>2, <1>5 DEF Touch
  <2> QED BY <1>1, <1>2, <2>1, UndoFrame
<1> QED BY <1>3, <1>4, <1>5 DEF Undo

\* Deleting staged directories with the workspace.
LEMMA PayloadUndo ==
  ASSUME UInv, RemovePayload
  PROVE  Undo'
<1>1. TypeOK /\ Housed /\ AllPlanned /\ cur \in Tx
      /\ \A t \in Tx \ touched : ws[t] # "none" => Undoable(t)
  BY DEF UInv, Inv, Control, TypeOK
<1>2. UNCHANGED <<fs, batch, touched, ws>>
  BY DEF RemovePayload
<1>3. Housed' /\ AllPlanned'
  BY <1>1, <1>2 DEF Housed, Present, AllPlanned
<1>4. ASSUME NEW t \in Tx \ touched', ws'[t] # "none"
      PROVE  Undoable(t)'
  <2>1. Undoable(t)
    BY <1>1, <1>2, <1>4
  <2>2. CASE t # cur
    <3>1. owned'[t] = owned[t] /\ payload'[t] = payload[t]
      BY <1>1, <2>2 DEF RemovePayload, TypeOK
    <3> QED BY <1>2, <2>1, <3>1, UndoQuiet
  <2>3. CASE t = cur
    <3>1. ~payload'[t]
      BY <1>1, <2>3 DEF RemovePayload, TypeOK
    <3>2. \A l \in Items : l \in owned'[t] <=> l \in owned[t]
      <4>1. PICK S \in SUBSET MadeDirs(batch[cur]) : owned' = [owned EXCEPT ![cur] = @ \cup S]
        BY DEF RemovePayload
      <4>2. \A l \in MadeDirs(batch[cur]) : l \in Dirs
        BY <1>1, BatchType DEF MadeDirs, WellTyped
      <4>3. owned'[t] = owned[t] \cup S
        BY <1>1, <2>3, <4>1 DEF TypeOK
      <4> QED BY <4>2, <4>3, LocAssumption
    <3>3. ItemsOwned(t)'
      BY <1>2, <2>1, <3>2 DEF Undoable, ItemsOwned
    <3>4. MadeInOrder(t)'
      BY <3>1 DEF MadeInOrder
    <3>5. Uninhabited(t)' /\ ParentsKept(t)' /\ UnmadeInOrder(t)'
      BY <1>2, <2>1 DEF Undoable, Uninhabited, ParentsKept, UnmadeInOrder, Makes, Unmakes, Present
    <3> QED BY <3>3, <3>4, <3>5 DEF Undoable
  <2> QED BY <2>2, <2>3
<1> QED BY <1>3, <1>4 DEF Undo

\* A new batch was validated against the vault, in which every file is in a
\* directory.
LEMMA PrepareUndo ==
  ASSUME UInv, NEW t \in Tx, NEW b \in Batches, Prepare(t, b)
  PROVE  Undo'
<1>1. TypeOK /\ Housed /\ AllPlanned /\ \A u \in Tx \ touched : ws[u] # "none" => Undoable(u)
  BY DEF UInv, Inv, Control
<1>2. /\ fs' = fs /\ PlannedDirectories(b) /\ validate_observed_state(b) /\ touched \subseteq touched'
      /\ batch'[t] = b /\ owned'[t] = {}
  BY <1>1 DEF Prepare, TypeOK
<1>3. \A u \in Tx : u # t => /\ ws'[u] = ws[u] /\ batch'[u] = batch[u] /\ owned'[u] = owned[u]
                             /\ payload'[u] = payload[u]
  BY <1>1 DEF Prepare, TypeOK
<1>4. \A k \in DOMAIN b : /\ b[k] \in Intents /\ WellTyped(b[k]) /\ b[k].path \in Locs(b[k])
                          /\ \A l \in Locs(b[k]) : l \in Loc
  <2>1. \A k \in DOMAIN b : b[k] \in Intents /\ WellTyped(b[k])
    BY BatchAssumption
  <2>2. \A it \in Intents : it.path \in Locs(it) /\ \A l \in Locs(it) : l \in Loc
    BY DEF Locs, Intents
  <2> QED BY <2>1, <2>2
<1>5. \A k \in DOMAIN b : \A l \in Locs(b[k]) : fs[l] = Before(b[k], l)
  BY <1>2 DEF validate_observed_state
<1>6. Housed'
  BY <1>1, <1>2 DEF Housed, Present
<1>7. Planned(b)
  <2> SUFFICES ASSUME NEW k \in DOMAIN b, NEW m \in DOMAIN b, NEW l \in Locs(b[m]) \ Items,
                      Parent[l] \in Locs(b[k]), Before(b[m], l) # Missing
               PROVE  Before(b[k], Parent[l]) # Missing
    BY <1>2 DEF Planned
  <2>1. fs[l] # Missing /\ l \in Paths \cup Dirs
    BY <1>4, <1>5 DEF Loc
  <2>2. Parent[l] # Root /\ Present(Parent[l])
    BY <1>1, <1>4, <2>1, LocAssumption DEF Housed
  <2> QED BY <1>5, <2>2 DEF Present
<1>8. AllPlanned'
  BY <1>1, <1>2, <1>3, <1>7 DEF AllPlanned
<1>9. Undoable(t)'
  <2>1. ItemsOwned(t)'
    BY <1>2, <1>4, <1>5, IntentValues DEF ItemsOwned
  <2>2. Uninhabited(t)'
    <3> SUFFICES ASSUME NEW k \in DOMAIN b, NEW l \in Paths \cup Dirs, b[k].kind = "mkdir",
                        Parent[l] = b[k].path
                 PROVE  fs[l] = Missing
      BY <1>2 DEF Uninhabited, Makes
    <3>1. fs[b[k].path] = Missing /\ b[k].path # Root
      BY <1>4, <1>5, IntentValues, LocAssumption
    <3> QED BY <1>1, <3>1 DEF Housed, Present
  <2>3. ParentsKept(t)'
    <3> SUFFICES ASSUME NEW k \in DOMAIN b, NEW l \in Locs(b[k]) \ Items, Before(b[k], l) # Missing
                 PROVE  Present(Parent[l])
      BY <1>2 DEF ParentsKept, Present
    <3>1. fs[l] # Missing /\ l \in Paths \cup Dirs
      BY <1>4, <1>5 DEF Loc
    <3> QED BY <1>1, <3>1 DEF Housed
  <2>4. MadeInOrder(t)'
    BY <1>2 DEF MadeInOrder
  <2>5. UnmadeInOrder(t)'
    <3> SUFFICES ASSUME NEW m \in DOMAIN b, b[m].kind = "rmdir"
                 PROVE  fs[b[m].path] = Directory
      BY <1>2 DEF UnmadeInOrder, Unmakes
    <3> QED BY <1>4, <1>5, IntentValues
  <2> QED BY <2>1, <2>2, <2>3, <2>4, <2>5 DEF Undoable
<1>10. ASSUME NEW u \in Tx \ touched', ws'[u] # "none"
       PROVE  Undoable(u)'
  BY <1>1, <1>2, <1>3, <1>9, <1>10, UndoQuiet
<1> QED BY <1>6, <1>8, <1>10 DEF Undo

\* Every step leaves what nobody interfered with undoable.
LEMMA UndoStep ==
  ASSUME UInv, [Next]_vars
  PROVE  Undo'
<1>0. TypeOK /\ Workspaces /\ cur \in Tx
  BY DEF UInv, Inv, Control, TypeOK
<1>1. ASSUME UNCHANGED <<fs, touched>>, UNCHANGED diskVars
      PROVE  Undo'
  BY <1>1, QuietUndo DEF diskVars
<1>2. ASSUME UNCHANGED <<fs, batch, owned, payload, touched>>, NEW p, ws' = [ws EXCEPT ![cur] = p],
             ws[cur] # "none"
      PROVE  Undo'
  <2>1. \A t \in Tx : ws'[t] # "none" => ws[t] # "none"
    BY <1>0, <1>2 DEF TypeOK
  <2> QED BY <1>2, <2>1, QuietUndo
<1>3. CASE WriteManifest \/ WritePhase \/ PrepareFails \/ PhaseUncertain
           \/ RemoveManifest \/ RemoveDirectory
  <2>1. ws[cur] # "none" /\ UNCHANGED <<fs, batch, owned, payload, touched>>
    BY <1>0, <1>3 DEF WriteManifest, WritePhase, PrepareFails, PhaseUncertain, RemoveManifest,
         RemoveDirectory, Workspaces, Busy
  <2>2. \E p : ws' = [ws EXCEPT ![cur] = p]
    BY <1>3 DEF WriteManifest, WritePhase, PrepareFails, PhaseUncertain, RemoveManifest,
         RemoveDirectory
  <2> QED BY <2>1, <2>2, <1>2
<1>4. CASE SyncManifest \/ SyncPhase
  BY <1>4, QuietUndo DEF SyncManifest, SyncPhase
<1>5. CASE RemoveFails
  <2>1. ws[cur] # "none" /\ UNCHANGED <<fs, batch, owned, payload, touched>>
    BY <1>0, <1>5 DEF RemoveFails, Workspaces, Busy
  <2>2. ws' = ws \/ ws' = [ws EXCEPT ![cur] = "none"]
    BY <1>5 DEF RemoveFails
  <2> QED BY <2>1, <2>2, <1>2, QuietUndo
<1>6. CASE Crash
  <2>1. UNCHANGED <<fs, batch, owned, payload, touched>>
    BY <1>6 DEF Crash
  <2>2. \A t \in Tx : ws'[t] # "none" => ws[t] # "none"
    BY <1>0, <1>6 DEF Crash, Workspaces
  <2> QED BY <2>1, <2>2, QuietUndo
<1>7. CASE PublishCheck \/ PublishRefused \/ RollbackCheck \/ RollbackUnreadable
           \/ RollbackRefused \/ ReconcileIndex \/ ReconcileIndexRefused
           \/ ReconcileIndexFails \/ WritePhaseFails
  BY <1>7, <1>1 DEF PublishCheck, PublishRefused, RollbackCheck, RollbackUnreadable,
       RollbackRefused, ReconcileIndex, ReconcileIndexRefused, ReconcileIndexFails,
       WritePhaseFails
<1>8. CASE Restart \/ RecoverPending \/ BuildIndex \/ ReplayRecovered \/ ReplayRefused
           \/ StartupFails \/ FinishRecovered \/ Serve \/ UNCHANGED vars
  BY <1>8, <1>1 DEF Restart, RecoverPending, BuildIndex, ReplayRecovered, ReplayRefused,
       StartupFails, FinishRecovered, Serve, Abort, diskVars, vars
<1>9. CASE PublishIntent \/ PublishFails
  <2>1. CASE PublishEffect(PublishLoc)
             /\ CanApply(PublishLoc, Before(Current, PublishLoc), After(Current, PublishLoc))
    BY <1>9, <2>1, PublishEffectUndo DEF PublishIntent, PublishFails
  <2>2. CASE UNCHANGED <<fs, index, touched>> /\ UNCHANGED diskVars
    BY <2>2, <1>1
  <2> QED BY <1>9, <2>1, <2>2 DEF PublishIntent, PublishFails
<1>10. CASE RollbackIntent \/ RollbackFails
  <2>1. CASE RollbackEffect(RollbackLoc)
             /\ CanApply(RollbackLoc, After(Current, RollbackLoc), Before(Current, RollbackLoc))
    BY <1>10, <2>1, RollbackEffectUndo DEF RollbackIntent, RollbackFails
  <2>2. CASE UNCHANGED <<fs, index, touched>> /\ UNCHANGED diskVars
    BY <2>2, <1>1
  <2> QED BY <1>10, <2>1, <2>2 DEF RollbackIntent, RollbackFails
<1>11. CASE RemovePayload
  BY <1>11, PayloadUndo
<1>12. CASE PrepareStep \/ EditStep
  BY <1>12, PrepareUndo, EditUndo DEF PrepareStep, EditStep
<1> QED BY <1>3, <1>4, <1>5, <1>6, <1>7, <1>8, <1>9, <1>10, <1>11, <1>12
      DEF Next, TaskStep, FaultStep, PrepareStep, EditStep
\* Away from the two loops, and between the operations of the second, nothing
\* is said of what lies ahead.
LEMMA AheadRests ==
  ASSUME pc' # "publish", ~(pc' = "rollback" /\ armed')
  PROVE  Ahead'
BY DEF Ahead

\* The loop of publish moves on, over an operation that changed its own
\* location at most.
LEMMA AheadAdvance ==
  ASSUME UInv, pc = "publish", NextOperation, batch' = batch, touched \subseteq touched',
         owned'[cur] \subseteq owned[cur] \cup {PublishLoc},
         \A l \in Loc : l # PublishLoc => fs'[l] = fs[l]
  PROVE  Ahead'
<1>1. TypeOK /\ Position /\ cur \in Tx /\ ws[cur] # "none" /\ Separated /\ cur' = cur
      /\ batch[cur] # <<>>
  BY DEF UInv, Inv, Control, TypeOK, Workspaces, Busy, NextOperation
<1>2. PICK c \in Tx : c = cur
  BY <1>1
<1>3. PICK n \in DOMAIN batch[c] : n = i
  BY <1>1, <1>2, BatchType DEF Position
<1>4. PICK x \in Locs(batch[c][n]) : x = PublishLoc /\ x \in Loc
  BY <1>1, <1>2, <1>3, OperationPlace DEF Current
<1>5. n \in Nat /\ DOMAIN batch[c] \subseteq Nat
  BY <1>1, BatchType
<1>6. pc' = "publish" => /\ i' \in {n, n + 1}
                         /\ i' = n => j < Len(PublishOrder(batch[c][n]))
  BY <1>2, <1>3, <1>5 DEF NextOperation, Current
<1>7. Makes(c, n) => ~(j < Len(PublishOrder(batch[c][n])))
  <2> SUFFICES ASSUME Makes(c, n) PROVE ~(j < Len(PublishOrder(batch[c][n])))
    OBVIOUS
  <2>1. Len(PublishOrder(batch[c][n])) = 1
    BY DEF Makes, PublishOrder
  <2>2. j \in 1..Len(PublishOrder(batch[c][n]))
    BY <1>2, <1>3 DEF UInv, Inv, Control, Position
  <2> QED BY <2>1, <2>2
<1>8. Separate(batch[c])
  BY <1>1, <1>2 DEF Separated
<1>9. \A k \in DOMAIN batch[c] :
        /\ batch[c][k].path \in Locs(batch[c][k])
        /\ \A l \in Locs(batch[c][k]) : l \in Loc /\ (k # n => l # x)
  <2>1. TypeOK
    BY <1>1
  <2> QED BY <2>1, <1>8, LocsOfBatch, SMTT(30)
<1>a. pc' # "rollback"
  BY DEF NextOperation
<1> SUFFICES ASSUME c \notin touched', pc' = "publish"
             PROVE  /\ \A k \in DOMAIN batch[c] : k >= i' /\ Makes(c, k) => batch[c][k].path \notin owned'[c]
                    /\ \A k \in DOMAIN batch[c] : k > i' =>
                         \A l \in Locs(batch[c][k]) : fs'[l] = Before(batch[c][k], l)
  BY <1>1, <1>2, <1>a DEF Ahead, Makes
<1>10. /\ \A k \in DOMAIN batch[c] : k >= n /\ Makes(c, k) => batch[c][k].path \notin owned[c]
       /\ \A k \in DOMAIN batch[c] : k > n =>
            \A l \in Locs(batch[c][k]) : fs[l] = Before(batch[c][k], l)
  BY <1>2, <1>3 DEF UInv, Ahead
<1>11. ASSUME NEW k \in DOMAIN batch[c], k >= i', Makes(c, k)
       PROVE  batch[c][k].path \notin owned'[c]
  <2>1. k >= n /\ k \in Nat
    BY <1>5, <1>6, <1>11
  <2>2. k # n
    BY <1>5, <1>6, <1>7, <1>11
  <2>3. batch[c][k].path # x
    BY <1>9, <2>2
  <2> QED BY <1>2, <1>4, <1>10, <1>11, <2>1, <2>3
<1>12. ASSUME NEW k \in DOMAIN batch[c], k > i', NEW l \in Locs(batch[c][k])
       PROVE  fs'[l] = Before(batch[c][k], l)
  <2>1. k > n
    BY <1>5, <1>6, <1>12
  <2> QED BY <1>4, <1>5, <1>9, <1>10, <2>1
<1> QED BY <1>11, <1>12

\* No step spoils what lies ahead.
LEMMA AheadStep ==
  ASSUME UInv, [Next]_vars
  PROVE  Ahead'
<1>0. TypeOK /\ Position /\ Workspaces /\ PlacePhase /\ Processes /\ Truth /\ Progress /\ cur \in Tx /\ Ahead
  BY DEF UInv, Inv, Control, TypeOK
<1>1. CASE WriteManifest \/ SyncManifest \/ PrepareFails \/ WritePhase \/ WritePhaseFails
           \/ PhaseUncertain \/ RemoveDirectory \/ RemoveFails
           \/ ReconcileIndex \/ ReconcileIndexRefused \/ ReconcileIndexFails
  BY <1>1, AheadRests DEF WriteManifest, SyncManifest, PrepareFails, WritePhase, WritePhaseFails,
       PhaseUncertain, RemoveDirectory, RemoveFails, ReconcileIndex,
       ReconcileIndexRefused, ReconcileIndexFails, IndexAfterFailure, GoTo, StartRemoval,
       StartRollback, RetainWorkspace
<1>2. CASE RollbackIntent \/ RollbackRefused \/ RollbackUnreadable \/ RollbackFails \/ PublishFails
  BY <1>2, AheadRests DEF RollbackIntent, RollbackRefused, RollbackUnreadable, RollbackFails,
       PublishFails, StartRollback, PreviousOperation, RetainWorkspace
<1>3. CASE Restart \/ RecoverPending \/ BuildIndex \/ ReplayRecovered \/ ReplayRefused
           \/ StartupFails \/ FinishRecovered \/ Serve \/ Crash \/ PrepareStep
  BY <1>3, AheadRests DEF Restart, RecoverPending, BuildIndex, ReplayRecovered, ReplayRefused,
       StartupFails, FinishRecovered, Serve, Crash, Abort, PrepareStep, Prepare
<1>4. CASE RemovePayload \/ RemoveManifest
  BY <1>4, AheadRests DEF RemovePayload, RemoveManifest, taskVars
<1>5. CASE UNCHANGED vars
  BY <1>0, <1>5 DEF vars, Ahead, Makes, RollbackLoc, Current
<1>6. CASE SyncPhase
  <2>1. pc' = "publish" => pc = "syncCommitting"
    BY <1>6 DEF SyncPhase, AfterSync, GoTo, StartRemoval, NextPhase
  <2>2. pc' # "rollback" /\ UNCHANGED <<cur, batch, fs, owned, touched>>
    BY <1>6 DEF SyncPhase, AfterSync, GoTo, StartRemoval, NextPhase
  <2>3. pc = "syncCommitting" => ws[cur] # "none" /\ durable[cur] = "prepared" /\ owned[cur] = {}
    BY <1>0 DEF Workspaces, PlacePhase, PhaseAt, Progress, Busy
  <2>4. pc = "syncCommitting" /\ cur \notin touched => AllBefore(cur)
    BY <1>0, <2>3 DEF Truth, TruthOf, PhaseTells
  <2> QED BY <2>1, <2>2, <2>3, <2>4 DEF Ahead, AllBefore, IntentsBefore
<1>7. CASE PublishCheck
  <2>1. UNCHANGED <<fs, batch, owned, touched>> /\ pc = "publish"
    BY <1>7 DEF PublishCheck, diskVars
  <2>2. CASE NextOperation
    BY <2>1, <2>2, AheadAdvance
  <2>3. CASE Arm
    BY <1>0, <2>1, <2>3 DEF Arm, Ahead, Makes
  <2>4. CASE StartRollback
    BY <2>4, AheadRests DEF StartRollback
  <2> QED BY <1>7, <2>2, <2>3, <2>4 DEF PublishCheck
<1>8. CASE PublishIntent
  <2>1. /\ batch' = batch /\ touched \subseteq touched' /\ pc = "publish" /\ NextOperation
        /\ fs' = [fs EXCEPT ![PublishLoc] = After(Current, PublishLoc)]
        /\ owned' = [owned EXCEPT ![cur] = OwnedAfterPublish(PublishLoc)]
    BY <1>8 DEF PublishIntent, PublishEffect, Touch
  <2>2. owned'[cur] \subseteq owned[cur] \cup {PublishLoc}
    BY <1>0, <2>1 DEF OwnedAfterPublish, TypeOK
  <2>3. \A l \in Loc : l # PublishLoc => fs'[l] = fs[l]
    BY <1>0, <2>1 DEF TypeOK
  <2> QED BY <2>1, <2>2, <2>3, AheadAdvance
<1>9. CASE PublishRefused
  <2>1. UNCHANGED <<fs, batch, owned, touched>> /\ pc = "publish"
    BY <1>9 DEF PublishRefused, diskVars
  <2>2. CASE NextOperation
    BY <2>1, <2>2, AheadAdvance
  <2>4. CASE StartRollback
    BY <2>4, AheadRests DEF StartRollback
  <2> QED BY <1>9, <2>2, <2>4 DEF PublishRefused
<1>10. CASE RollbackCheck
  <2>1. UNCHANGED <<fs, batch, owned, touched>> /\ pc = "rollback"
    BY <1>10 DEF RollbackCheck, diskVars
  <2>2. CASE PreviousOperation \/ RetainWorkspace
    <3>1. pc' # "publish" /\ armed' = FALSE
      BY <2>1, <2>2 DEF PreviousOperation, RetainWorkspace
    <3> QED BY <3>1, AheadRests
  <2>3. CASE Arm /\ Revertible(RollbackLoc)
    <3>1. fs[RollbackLoc] = After(Current, RollbackLoc)
      BY <2>3 DEF Revertible
    <3>2. UNCHANGED <<cur, i, j, pc>>
      BY <2>3 DEF Arm
    <3>3. Current' = Current /\ RollbackLoc' = RollbackLoc
      BY <2>1, <3>2 DEF Current, RollbackLoc
    <3> QED BY <2>1, <3>1, <3>2, <3>3 DEF Ahead
  <2> QED BY <1>10, <2>2, <2>3 DEF RollbackCheck
<1>11. CASE EditStep
  <2>1. PICK x \in Loc, v \in Values : Edit(x, v)
    BY <1>11 DEF EditStep
  <2>2. /\ fs' = [fs EXCEPT ![x] = v] /\ Touch(x, {})
        /\ UNCHANGED <<batch, owned, cur, i, j, pc, armed>>
    BY <2>1 DEF Edit, diskVars, taskVars
  <2>3. PICK c \in Tx : c = cur
    BY <1>0
  <2> SUFFICES ASSUME c \notin touched', pc \in {"publish", "rollback"}
               PROVE  Ahead'
    BY <2>2, <2>3 DEF Ahead
  <2>4. ws[c] # "none"
    BY <1>0, <2>3 DEF Workspaces, Busy
  <2>5. x \notin Footprint(batch[c]) /\ c \notin touched
    BY <2>2, <2>4 DEF Touch, InTheWay
  <2>6. \A k \in DOMAIN batch[c] : \A l \in Locs(batch[c][k]) : fs'[l] = fs[l]
    BY <1>0, <2>2, <2>5, BatchType DEF Footprint, Locs, Intents, TypeOK
  <2>7. Current' = Current /\ RollbackLoc' = RollbackLoc
    BY <2>2 DEF Current, RollbackLoc
  <2>8. pc = "rollback" => i \in DOMAIN batch[c] /\ RollbackLoc \in Locs(batch[c][i])
    BY <1>0, <2>3, OperationPlace
  <2>9. pc = "rollback" => fs'[RollbackLoc] = fs[RollbackLoc]
    BY <2>6, <2>8
  <2> QED BY <1>0, <2>2, <2>3, <2>5, <2>6, <2>7, <2>9 DEF Ahead, Makes
<1> QED BY <1>1, <1>2, <1>3, <1>4, <1>5, <1>6, <1>7, <1>8, <1>9, <1>10, <1>11
      DEF Next, TaskStep, FaultStep, PrepareStep, EditStep

\* UInv holds in every state.
LEMMA UndoInvariant == Spec => []UInv
<1>1. Init => UInv
  <2> SUFFICES ASSUME Init PROVE UInv
    OBVIOUS
  <2>1. Inv
    BY InvInit
  <2>2. PossibleVault(fs) /\ pc = "idle" /\ \A t \in Tx : ws[t] = "none" /\ batch[t] = <<>>
    BY DEF Init
  <2>3. Housed
    <3> SUFFICES ASSUME NEW l \in Paths \cup Dirs, fs[l] # Missing, Parent[l] # Root
                 PROVE  fs[Parent[l]] # Missing
      BY DEF Housed, Present
    <3> QED BY <2>2, LocAssumption DEF PossibleVault
  <2> QED BY <2>1, <2>2, <2>3 DEF UInv, AllPlanned, Ahead
<1>2. ASSUME UInv, [Next]_vars
      PROVE  UInv'
  <2>1. Inv'
    BY <1>2, InvStep DEF UInv
  <2>2. Undo' /\ Ahead'
    BY <1>2, UndoStep, AheadStep
  <2> QED BY <2>1, <2>2 DEF UInv, Undo
<1> QED BY <1>1, <1>2, PTL DEF Spec

-----------------------------------------------------------------------------
(* Recovery of a batch that nobody interfered with is never refused.       *)

\* What rollback_manifest may rely on at intent n of transaction c.
RollingBack(c, n) ==
  /\ c \notin touched /\ ws[c] = "committing" /\ payload[c]
  /\ \A k \in DOMAIN batch[c] : k > n =>
       \A l \in Locs(batch[c][k]) : fs[l] = Before(batch[c][k], l)

\* A directory to be taken back is empty.
LEMMA MadeIsEmpty ==
  ASSUME UInv, NEW c \in Tx, NEW n \in DOMAIN batch[c], RollingBack(c, n), Makes(c, n),
         NEW d, d = batch[c][n].path, d \in owned[c]
  PROVE  EmptyDir(d)
<1>1. TypeOK /\ Separate(batch[c]) /\ UnmadeMissing(c) /\ Undoable(c) /\ Planned(batch[c])
  BY DEF UInv, Inv, Control, Separated, Truth, TruthOf, Workspaces, RollingBack, AllPlanned
<1>2. \A k \in DOMAIN batch[c] :
        /\ batch[c][k] \in Intents /\ WellTyped(batch[c][k]) /\ batch[c][k].path \in Locs(batch[c][k])
        /\ k \in Nat
  BY <1>1, BatchType DEF Locs
<1>3. Before(batch[c][n], d) = Missing /\ d \in Locs(batch[c][n]) /\ n \in Nat
  BY <1>2 DEF Makes, Before
<1> SUFFICES ASSUME NEW l \in Paths \cup Dirs, Parent[l] = d
             PROVE  fs[l] = Missing
  BY DEF EmptyDir
<1>4. CASE l \notin Footprint(batch[c])
  BY <1>1, <1>4 DEF Undoable, Uninhabited
<1>5. CASE l \in Footprint(batch[c])
  <2>1. PICK m \in DOMAIN batch[c] : l \in Locs(batch[c][m])
    BY <1>5 DEF Footprint
  <2>2. l \notin Items
    BY LocAssumption
  <2>3. Before(batch[c][m], l) = Missing
    BY <1>1, <1>3, <2>1, <2>2 DEF Planned
  <2>4. CASE m > n
    BY <2>1, <2>3, <2>4 DEF RollingBack
  <2>5. CASE m <= n
    <3>1. m = n \/ m < n
      BY <1>2, <1>3, <2>5
    <3>2. Makes(c, m)
      BY <1>1, <3>1 DEF Planned, PlannedDirectories, Makes
    <3>3. l = batch[c][m].path
      BY <1>2, <2>1, <3>2, IntentValues DEF Makes
    <3>4. l \notin owned[c]
      BY <1>1, <2>5, <3>2, <3>3 DEF Undoable, MadeInOrder, RollingBack
    <3> QED BY <1>1, <3>2, <3>3, <3>4 DEF UnmadeMissing, Makes
  <2> QED BY <1>2, <1>3, <2>4, <2>5
<1> QED BY <1>4, <1>5

\* The directory of a file to be put back is there.
LEMMA HouseIsThere ==
  ASSUME UInv, NEW c \in Tx, NEW n \in DOMAIN batch[c], RollingBack(c, n),
         NEW x \in Locs(batch[c][n]), x \notin Items, Before(batch[c][n], x) # Missing
  PROVE  Present(Parent[x])
<1>1. TypeOK /\ Separate(batch[c]) /\ Undoable(c) /\ Planned(batch[c])
  BY DEF UInv, Inv, Control, Separated, Workspaces, RollingBack, AllPlanned
<1>2. \A k \in DOMAIN batch[c] :
        /\ batch[c][k] \in Intents /\ WellTyped(batch[c][k]) /\ batch[c][k].path \in Locs(batch[c][k])
        /\ k \in Nat
  BY <1>1, BatchType DEF Locs
<1>3. CASE Parent[x] \notin Footprint(batch[c])
  BY <1>1, <1>3 DEF Undoable, ParentsKept
<1>4. CASE Parent[x] \in Footprint(batch[c])
  <2>1. PICK k \in DOMAIN batch[c] : Parent[x] \in Locs(batch[c][k])
    BY <1>4 DEF Footprint
  <2>2. \A m \in DOMAIN batch[c] : \A l \in Locs(batch[c][m]) : l \in Loc
    BY <1>1, BatchType DEF Locs, Intents
  <2>3. x \in Paths \cup Dirs /\ Parent[x] \in Loc
    BY <2>1, <2>2 DEF Loc
  <2>4. Parent[x] \in Dirs
    BY <2>3, LocAssumption
  <2>5. Before(batch[c][k], Parent[x]) # Missing
    BY <1>1, <2>1 DEF Planned
  <2>6. Unmakes(c, k) /\ Parent[x] = batch[c][k].path
    BY <1>2, <2>1, <2>4, <2>5, IntentValues DEF Unmakes
  <2>7. Before(batch[c][k], Parent[x]) = Directory
    BY <1>2, <2>1, <2>6, IntentValues DEF Unmakes
  <2>8. CASE k > n
    BY <2>1, <2>5, <2>8 DEF RollingBack, Present
  <2>9. CASE k <= n
    <3>1. k = n \/ k < n
      BY <1>2, <2>9
    <3>2. Unmakes(c, n)
      BY <1>1, <2>6, <3>1 DEF Planned, PlannedDirectories, Unmakes
    <3>3. x = batch[c][n].path
      BY <1>2, <3>2, IntentValues DEF Unmakes
    <3>4. fs[batch[c][k].path] = Directory
      BY <1>1, <2>6, <2>9, <3>2, <3>3 DEF Undoable, UnmadeInOrder
    <3> QED BY <2>6, <3>4, LocAssumption DEF Present
  <2> QED BY <1>2, <2>8, <2>9
<1> QED BY <1>3, <1>4

\* At every location rollback_manifest finds nothing to do or something it can
\* revert, and the call that reverts it is not refused.
LEMMA RollbackWorks ==
  ASSUME UInv, pc = "rollback", cur \notin touched, payload[cur]
  PROVE  /\ Preflight
         /\ RolledBack(RollbackLoc) \/ Revertible(RollbackLoc)
         /\ armed => ~CanRefuse(RollbackLoc, After(Current, RollbackLoc), Before(Current, RollbackLoc))
<1>1. TypeOK /\ Position /\ cur \in Tx /\ ws[cur] = "committing"
  BY DEF UInv, Inv, Control, TypeOK, PlacePhase, PhaseAt
<1>2. PICK c \in Tx : c = cur
  BY <1>1
<1>3. PICK n \in DOMAIN batch[c] : n = i
  BY <1>1, <1>2, BatchType DEF Position
<1>4. PICK x \in Locs(batch[c][n]) : x = RollbackLoc /\ x \in Loc
  BY <1>1, <1>2, <1>3, OperationPlace DEF Current
<1>5. Current = batch[c][n]
  BY <1>2, <1>3 DEF Current
<1>6. EachBeforeOrAfter(c) /\ UnmadeMissing(c) /\ Undoable(c)
  BY <1>1, <1>2 DEF UInv, Inv, Truth, TruthOf, PhaseTells
<1>7. RollingBack(c, n)
  <2>1. IntentsBefore(c, (n + 1)..Len(batch[c]))
    BY <1>2, <1>3 DEF UInv, Inv, Progress, RolledBackSoFar
  <2>2. \A k \in DOMAIN batch[c] : k > n => k \in (n + 1)..Len(batch[c])
    BY <1>1, BatchType
  <2> QED BY <1>1, <1>2, <2>1, <2>2 DEF IntentsBefore, RollingBack
<1> DEFINE it == batch[c][n]
<1>8. it \in Intents /\ WellTyped(it)
  BY <1>1, BatchType
<1>9. /\ x \in Items => Before(it, x) # After(it, x)
      /\ Before(it, x) = Missing => After(it, x) # Missing
      /\ x \in Dirs => it.kind \in {"mkdir", "rmdir"} /\ x = it.path
      /\ it.kind \in {"mkdir", "rmdir"} => x \in Dirs /\ x = it.path
      /\ it.kind = "mkdir" => Before(it, x) = Missing /\ After(it, x) = Directory
      /\ it.kind = "rmdir" => Before(it, x) = Directory /\ After(it, x) = Missing
  BY <1>8, IntentValues
<1>10. Preflight
  BY <1>5, <1>6 DEF Preflight, EachBeforeOrAfter
<1>11. fs[x] \in {Before(it, x), After(it, x)} /\ (x \in Items => (x \in owned[c] <=> fs[x] = After(it, x)))
  BY <1>6 DEF EachBeforeOrAfter, Undoable, ItemsOwned
<1>12. (it.kind = "mkdir" /\ x \in owned[c]) => EmptyDir(x)
  BY <1>7, <1>9, MadeIsEmpty DEF Makes
<1>13. RolledBack(x) \/ Revertible(x)
  <2>1. CASE it.kind = "mkdir"
    BY <1>2, <1>5, <1>9, <1>11, <1>12, <2>1 DEF RolledBack, Revertible
  <2>2. CASE it.kind # "mkdir"
    BY <1>2, <1>5, <1>9, <1>11, <2>2 DEF RolledBack, Revertible
  <2> QED BY <2>1, <2>2
<1>14. ASSUME armed
       PROVE  ~CanRefuse(x, After(it, x), Before(it, x))
  <2>1. fs[x] = After(it, x)
    BY <1>2, <1>4, <1>5, <1>14 DEF UInv, Ahead
  <2>2. Before(it, x) = Missing => fs[x] # Missing /\ (x \in Dirs => EmptyDir(x))
    <3> SUFFICES ASSUME Before(it, x) = Missing PROVE fs[x] # Missing /\ (x \in Dirs => EmptyDir(x))
      OBVIOUS
    <3>1. fs[x] # Missing
      BY <1>9, <2>1
    <3>2. x \in Dirs => it.kind = "mkdir"
      BY <1>9, LocAssumption
    <3>3. it.kind = "mkdir" => x \in owned[c]
      BY <1>6, <1>9, <3>1 DEF UnmadeMissing
    <3> QED BY <1>12, <3>1, <3>2, <3>3
  <2>3. (Before(it, x) # Missing /\ x \notin Items) => Present(Parent[x])
    BY <1>7, HouseIsThere
  <2>4. CanApply(x, After(it, x), Before(it, x))
    BY <2>1, <2>2, <2>3 DEF CanApply
  <2> QED BY <2>1, <2>4 DEF CanRefuse
<1> QED BY <1>4, <1>5, <1>10, <1>13, <1>14

\* The pages of a committed batch that nobody interfered with are there to be
\* indexed.
LEMMA CommittedReplays ==
  ASSUME UInv, NEW t \in recovered, t \notin touched
  PROVE  CanReconcile(batch[t])
<1>1. TypeOK /\ t \in Tx /\ ws[t] = "committed" /\ batch[t] # <<>>
  BY DEF UInv, Inv, Control, TypeOK, Workspaces
<1>2. AllAfter(t) /\ Separate(batch[t])
  BY <1>1 DEF UInv, Inv, Truth, TruthOf, PhaseTells, Separated
<1> SUFFICES ASSUME NEW l \in Footprint(batch[t]), Upserts(batch[t], l)
             PROVE  fs[l] # Missing
  BY DEF CanReconcile
<1>3. PICK k \in DOMAIN batch[t] : l \in Locs(batch[t][k])
  BY DEF Footprint
<1>4. IntentFor(batch[t], l) = batch[t][k]
  BY <1>2, <1>3, IntentIsUnique
<1> QED BY <1>2, <1>3, <1>4 DEF AllAfter, IntentsAfter, Upserts

\* Startup gives up without an I/O error only on a workspace that somebody
\* else's write concerns, or whose removal had already begun
\* (rollback_manifest's conflicts, read_verified, index_page on a lost page).
THEOREM RecoveryNeedsCause == Spec => RecoveryRefusesOnlyForCause
<1> DEFINE Refuses == /\ proc # "down" /\ proc' = "down" /\ proc # "serving"
                      /\ faults' = faults /\ crashes' = crashes
           Cause == IF pc = "replay" THEN recovered \cap touched # {}
                    ELSE cur \in touched \/ ~payload[cur]
<1>1. ASSUME UInv, [Next]_vars
      PROVE  Refuses => Cause
  <2> SUFFICES ASSUME Refuses PROVE Cause
    OBVIOUS
  <2>0. TypeOK /\ Processes
    BY <1>1 DEF UInv, Inv, Control
  <2>1. ~Fault
    BY <2>0 DEF Fault, TypeOK
  <2>2. CASE RollbackCheck
    <3>1. pc = "rollback" /\ (~Preflight \/ ~(RolledBack(RollbackLoc) \/ Revertible(RollbackLoc)))
      BY <2>2 DEF RollbackCheck, PreviousOperation, Arm
    <3> QED BY <1>1, <3>1, RollbackWorks
  <2>3. CASE RollbackUnreadable
    BY <2>3 DEF RollbackUnreadable
  <2>4. CASE RollbackRefused
    <3>1. /\ pc = "rollback" /\ armed
          /\ CanRefuse(RollbackLoc, After(Current, RollbackLoc), Before(Current, RollbackLoc))
      BY <2>4 DEF RollbackRefused
    <3> QED BY <1>1, <3>1, RollbackWorks
  <2>5. CASE ReplayRefused
    <3>1. pc = "replay" /\ \E t \in recovered : ~CanReconcile(batch[t])
      BY <2>5 DEF ReplayRefused
    <3> QED BY <1>1, <3>1, CommittedReplays
  <2>6. CASE WriteManifest \/ SyncManifest \/ WritePhase \/ SyncPhase
    BY <2>6 DEF WriteManifest, SyncManifest, WritePhase, SyncPhase, AfterSync, GoTo, StartRemoval
  <2>7. CASE PublishCheck \/ PublishIntent \/ PublishRefused
    BY <2>7 DEF PublishCheck, PublishIntent, PublishRefused, NextOperation, Arm, StartRollback
  <2>8. CASE ReconcileIndex \/ ReconcileIndexRefused
    BY <2>0, <2>8 DEF ReconcileIndex, ReconcileIndexRefused, Processes, Busy
  <2>9. CASE RollbackIntent
    BY <2>9 DEF RollbackIntent, PreviousOperation
  <2>10. CASE RemovePayload \/ RemoveManifest \/ RemoveDirectory
    BY <2>10 DEF RemovePayload, RemoveManifest, RemoveDirectory, taskVars
  <2>11. CASE RecoverPending \/ BuildIndex \/ ReplayRecovered \/ FinishRecovered \/ Serve \/ Restart
    BY <2>11 DEF RecoverPending, BuildIndex, ReplayRecovered, FinishRecovered, Serve, Restart
  <2>12. CASE FaultStep
    BY <2>1, <2>12 DEF FaultStep, PrepareFails, WritePhaseFails, PhaseUncertain, PublishFails,
         ReconcileIndexFails, RollbackFails, RemoveFails, StartupFails
  <2>13. CASE Crash
    BY <2>0, <2>13 DEF Crash, TypeOK
  <2>14. CASE PrepareStep \/ EditStep
    BY <2>14 DEF PrepareStep, EditStep, Prepare, Edit, taskVars
  <2>15. CASE UNCHANGED vars
    BY <2>15 DEF vars
  <2> QED BY <1>1, <2>2, <2>3, <2>4, <2>5, <2>6, <2>7, <2>8, <2>9, <2>10, <2>11, <2>12, <2>13, <2>14,
              <2>15 DEF Next, TaskStep, PrepareStep, EditStep
<1> QED BY <1>1, UndoInvariant, PTL DEF Spec, RecoveryRefusesOnlyForCause
=============================================================================
