------------------------- MODULE SyncRuntimeProofs -------------------------
(***************************************************************************)
(* Proofs about SyncRuntime, for any sets of changes and of windows and    *)
(* any bounds.  Who may run the engine follows from where the tasks are:   *)
(* Ownership ties sync_lock, the gate, the pause flag and the running      *)
(* engine calls to the program points.                                     *)
(***************************************************************************)
EXTENDS SyncRuntime, TLAPS

USE DEF vaultVars, watchVars, gateVars, flagVars, noticeVars, taskVars,
        engineVars, endVars

-----------------------------------------------------------------------------
(* Types.                                                                  *)

\* The initial state has its type: everything empty, nobody holds anything.
LEMMA TypeInit == Init => TypeOK
<1>1. Init => Flags
  BY DEF Init, Flags
<1>2. Init => Places
  BY BoundAssumption, ActorAssumption DEF Init, Places, Actors, Changes
<1>3. QED
  BY <1>1, <1>2 DEF TypeOK

\* Every step of every task keeps the types; Send never overfills the channel.
LEMMA TypeStep ==
  ASSUME Flags, Places, [Next]_vars PROVE Flags' /\ Places'
<1> USE BoundAssumption DEF Actors, Changes
<1>1. ASSUME NEW m \in Mutations, MutationEnter(m) PROVE Flags' /\ Places'
  BY <1>1 DEF MutationEnter, serving, GateFree, Flags, Places
<1>2. ASSUME NEW e \in Edits, Edit(e) PROVE Flags' /\ Places'
  BY <1>2 DEF Edit, serving, Arrive, Flags, Places
<1>3. ASSUME NEW w \in Windows, RequestSync(w) PROVE Flags' /\ Places'
  BY <1>3 DEF RequestSync, serving, WindowAt, Flags, Places
<1>4. ASSUME Shutdown PROVE Flags' /\ Places'
  <2>1. Flags'
    BY <1>4 DEF Shutdown, serving, PusherAt, Flags
  <2>2. Places'
    BY <1>4 DEF Shutdown, serving, PusherAt, Places
  <2>3. QED
    BY <2>1, <2>2
<1>5. ASSUME PushTimeout PROVE Flags' /\ Places'
  BY <1>5 DEF PushTimeout, PusherAt, Release, Flags, Places
<1>6. ASSUME NEW m \in Mutations, MutationWrite(m) PROVE Flags' /\ Places'
  BY <1>6 DEF MutationWrite, Arrive, Flags, Places
<1>7. ASSUME NEW m \in Mutations, MutationNotify(m) PROVE Flags' /\ Places'
  <2>1. Flags'
    BY <1>7 DEF MutationNotify, Send, Flags
  <2>2. Places'
    BY <1>7 DEF MutationNotify, Send, Places
  <2>3. QED
    BY <2>1, <2>2
<1>8. ASSUME NEW m \in Mutations, MutationCancelled(m) PROVE Flags' /\ Places'
  BY <1>8 DEF MutationCancelled, Flags, Places
<1>9. ASSUME WatcherFlush PROVE Flags' /\ Places'
  BY <1>9 DEF WatcherFlush, Flags, Places
<1>10. ASSUME WatchIndex PROVE Flags' /\ Places'
  <2>1. Flags'
    BY <1>10 DEF WatchIndex, Send, Flags
  <2>2. Places'
    BY <1>10 DEF WatchIndex, Send, Places
  <2>3. QED
    BY <2>1, <2>2
<1>11. ASSUME WatchIndexFails PROVE Flags' /\ Places'
  BY <1>11 DEF WatchIndexFails, Fail, Flags, Places
<1>12. ASSUME WatchEnter PROVE Flags' /\ Places'
  BY <1>12 DEF WatchEnter, GateFree, Flags, Places
<1>13. ASSUME WatchReconcile PROVE Flags' /\ Places'
  BY <1>13 DEF WatchReconcile, Sweep, Arrive, Flags, Places
<1>14. ASSUME StartServing PROVE Flags' /\ Places'
  BY <1>14 DEF StartServing, Sweep, Arrive, Flags, Places
<1>15. ASSUME ListenerReceive PROVE Flags' /\ Places'
  BY <1>15 DEF ListenerReceive, Flags, Places
<1>16. ASSUME ListenerMark PROVE Flags' /\ Places'
  <2>1. Flags'
    BY <1>16 DEF ListenerMark, Flags
  <2>2. Places'
    BY <1>16 DEF ListenerMark, Places
  <2>3. QED
    BY <2>1, <2>2
<1>17. ASSUME ListenerLagged PROVE Flags' /\ Places'
  <2>1. Flags'
    BY <1>17 DEF ListenerLagged, Flags
  <2>2. Places'
    BY <1>17 DEF ListenerLagged, Places
  <2>3. QED
    BY <2>1, <2>2
<1>18. ASSUME CommitterWake PROVE Flags' /\ Places'
  <2>1. Flags'
    BY <1>18 DEF CommitterWake, CommitterAt, Flags
  <2>2. Places'
    BY <1>18 DEF CommitterWake, CommitterAt, Places
  <2>3. QED
    BY <2>1, <2>2
<1>19. ASSUME CommitterExtend PROVE Flags' /\ Places'
  <2>1. Flags'
    BY <1>19 DEF CommitterExtend, CommitterAt, Flags
  <2>2. Places'
    BY <1>19 DEF CommitterExtend, CommitterAt, Places
  <2>3. QED
    BY <2>1, <2>2
<1>20. ASSUME CommitterQuiet PROVE Flags' /\ Places'
  BY <1>20 DEF CommitterQuiet, CommitterAt, Flags, Places
<1>21. ASSUME CommitterLock PROVE Flags' /\ Places'
  BY <1>21 DEF CommitterLock, CommitterAt, TakeLock, Flags, Places
<1>22. ASSUME CommitterGate PROVE Flags' /\ Places'
  BY <1>22 DEF CommitterGate, CommitterAt, ShutGate, GateEmpty, GateFree,
     Flags, Places
<1>23. ASSUME CommitterUngate PROVE Flags' /\ Places'
  BY <1>23 DEF CommitterUngate, CommitterAt, OpenGate, Flags, Places
<1>24. ASSUME CommitterFlag PROVE Flags' /\ Places'
  BY <1>24 DEF CommitterFlag, CommitterAt, Forget, Flags, Places
<1>25. ASSUME NEW w \in Windows, WindowLock(w) PROVE Flags' /\ Places'
  BY <1>25 DEF WindowLock, WindowAt, TakeLock, Flags, Places
<1>26. ASSUME NEW w \in Windows, WindowGate(w) PROVE Flags' /\ Places'
  BY <1>26 DEF WindowGate, WindowAt, ShutGate, GateEmpty, GateFree, Flags,
     Places
<1>27. ASSUME NEW w \in Windows, WindowSettle(w) PROVE Flags' /\ Places'
  BY <1>27 DEF WindowSettle, WindowAt, Flags, Places
<1>28. ASSUME NEW w \in Windows, WindowRebuild(w) PROVE Flags' /\ Places'
  <2>1. Flags'
    BY <1>28 DEF WindowRebuild, WindowAt, Send, Flags
  <2>2. Places'
    BY <1>28 DEF WindowRebuild, WindowAt, Send, Places
  <2>3. QED
    BY <2>1, <2>2
<1>29. ASSUME NEW w \in Windows, WindowRebuildFails(w) PROVE Flags' /\ Places'
  BY <1>29 DEF WindowRebuildFails, WindowAt, Fail, Flags, Places
<1>30. ASSUME NEW w \in Windows, WindowSweep(w) PROVE Flags' /\ Places'
  <2>1. Flags'
    BY <1>30 DEF WindowSweep, WindowAt, Sweep, Arrive, Send, Flags
  <2>2. Places'
    BY <1>30 DEF WindowSweep, WindowAt, Sweep, Arrive, Send, Places
  <2>3. QED
    BY <2>1, <2>2
<1>31. ASSUME NEW w \in Windows, WindowClose(w) PROVE Flags' /\ Places'
  <2>1. Flags'
    BY <1>31 DEF WindowClose, WindowAt, Flags
  <2>2. Places'
    BY <1>31 DEF WindowClose, WindowAt, Places
  <2>3. QED
    BY <2>1, <2>2
<1>32. ASSUME NEW w \in Windows, WindowUnpause(w) PROVE Flags' /\ Places'
  <2>1. Flags'
    BY <1>32 DEF WindowUnpause, WindowAt, Flags
  <2>2. Places'
    BY <1>32 DEF WindowUnpause, WindowAt, Places
  <2>3. QED
    BY <2>1, <2>2
<1>33. ASSUME NEW w \in Windows, WindowUngate(w) PROVE Flags' /\ Places'
  BY <1>33 DEF WindowUngate, WindowAt, OpenGate, Flags, Places
<1>34. ASSUME NEW w \in Windows, WindowUnsync(w) PROVE Flags' /\ Places'
  <2>1. Flags'
    BY <1>34 DEF WindowUnsync, WindowAt, Forget, Flags
  <2>2. Places'
    BY <1>34 DEF WindowUnsync, WindowAt, Forget, Places
  <2>3. QED
    BY <2>1, <2>2
<1>35. ASSUME PushLock PROVE Flags' /\ Places'
  BY <1>35 DEF PushLock, PusherAt, TakeLock, Flags, Places
<1>36. ASSUME PushGate PROVE Flags' /\ Places'
  BY <1>36 DEF PushGate, PusherAt, ShutGate, GateEmpty, GateFree, Flags,
     Places
<1>37. ASSUME PushDone PROVE Flags' /\ Places'
  BY <1>37 DEF PushDone, PusherAt, Release, Forget, Flags, Places
<1>38. ASSUME NEW a \in Actors, EngineCommit(a) PROVE Flags' /\ Places'
  BY <1>38 DEF EngineCommit, Finish, Flags, Places
<1>39. ASSUME NEW a \in Actors, EngineCommitFails(a) PROVE Flags' /\ Places'
  BY <1>39 DEF EngineCommitFails, Finish, Fail, Flags, Places
<1>40. ASSUME NEW w \in Windows, EnginePull(w) PROVE Flags' /\ Places'
  BY <1>40 DEF EnginePull, Finish, Arrive, Flags, Places
<1>41. ASSUME NEW w \in Windows, EnginePullFails(w) PROVE Flags' /\ Places'
  BY <1>41 DEF EnginePullFails, Finish, Fail, Arrive, Flags, Places
<1>42. CASE UNCHANGED vars
  <2>1. Flags'
    BY <1>42 DEF Flags, vars
  <2>2. Places'
    BY <1>42 DEF Places, vars
  <2>3. QED
    BY <2>1, <2>2
<1>43. QED
  BY <1>1, <1>2, <1>3, <1>4, <1>5, <1>6, <1>7, <1>8, <1>9, <1>10, <1>11,
     <1>12, <1>13, <1>14, <1>15, <1>16, <1>17, <1>18, <1>19, <1>20, <1>21,
     <1>22, <1>23, <1>24, <1>25, <1>26, <1>27, <1>28, <1>29, <1>30, <1>31,
     <1>32, <1>33, <1>34, <1>35, <1>36, <1>37, <1>38, <1>39, <1>40, <1>41,
     <1>42 DEF Next, Environment, ServerStep, EngineStep, CommitterStep,
     WindowStep

\* Every reachable state has its type: in particular the channel of the
\* listener never holds more than its capacity, and the tasks are only at the
\* program points that the code has.
THEOREM SyncTypeCorrect == Spec => []TypeOK
<1>1. TypeOK /\ [Next]_vars => TypeOK'
  BY TypeStep DEF TypeOK
<1>2. QED
  BY <1>1, TypeInit, PTL DEF Spec

-----------------------------------------------------------------------------
(* Who holds what.                                                         *)

Locked == {"gate", "engine", "rebuild", "sweep", "close", "unpause", "ungate",
           "unsync"}
Shut   == {"engine", "rebuild", "sweep", "close", "unpause", "ungate"}
Quiesced == {"engine", "rebuild", "sweep", "close", "unpause"}

\* sync_lock is held from the statement that takes it to the end of the scope.
Holders ==
  /\ \A w \in Windows : window[w] \in Locked <=> holder = w
  /\ committer \in {"gate", "engine", "flag"} <=> holder = Committer
  /\ pusher \in {"gate", "engine"} <=> holder = Pusher

\* So is the gate, and nobody is inside while it is shut.
Excluders ==
  /\ \A w \in Windows : window[w] \in Shut <=> excluder = w
  /\ committer = "engine" <=> excluder = Committer
  /\ pusher = "engine" <=> excluder = Pusher

Kept == excluder # Nobody => Inside = {} /\ watch # "inside"

\* The watcher is paused only by a window that has the gate.
Pausing == paused => \E w \in Windows : window[w] \in Quiesced

\* A running engine call belongs to a task that waits for it, unless the push
\* gave up on its own.
Engines ==
  /\ \A w \in Windows : w \in Running => window[w] = "engine"
  /\ Committer \in Running => committer = "engine"
  /\ Pusher \in Running => pusher = "engine" \/ timedOut

\* A merge that is not indexed yet is one that some window will index.
Indexing ==
  \/ unindexed
  \/ Merges \cap disk \subseteq index
  \/ \E w \in Windows :
       \/ window[w] = "rebuild"
       \/ /\ window[w] = "engine" /\ job[w] = "done"
          /\ result[w] \in {"changed", "error", "panic"}

Ownership == Holders /\ Excluders /\ Kept /\ Pausing /\ Engines /\ Indexing

\* At the start nobody holds anything and nothing has been merged.
LEMMA OwnershipInit == Init => Ownership
  BY ActorAssumption
  DEF Init, Ownership, Holders, Excluders, Kept, Pausing, Engines, Indexing,
      Running, Inside, Locked, Shut, Quiesced, Actors

\* Every step keeps it: the gate is shut only when it is empty and entered
\* only when it is open, and no task leaves its engine call behind but the
\* push that ran out of time.
LEMMA OwnershipStep ==
  ASSUME Flags, Places, Ownership, [Next]_vars PROVE Ownership'
<1> USE ActorAssumption, ChangeAssumption
    DEF Actors, Locked, Shut, Quiesced, Inside, Running, Ownership, Places
<1>1. ASSUME NEW m \in Mutations, MutationEnter(m) PROVE Ownership'
  BY <1>1 DEF MutationEnter, serving, GateFree, Holders, Excluders, Kept,
     Pausing, Engines, Indexing
<1>2. ASSUME NEW e \in Edits, Edit(e) PROVE Ownership'
  BY <1>2 DEF Edit, serving, Arrive, Holders, Excluders, Kept, Pausing,
     Engines, Indexing
<1>3. ASSUME NEW w \in Windows, RequestSync(w) PROVE Ownership'
  BY <1>3 DEF RequestSync, serving, WindowAt, Holders, Excluders, Kept,
     Pausing, Engines, Indexing
<1>4. ASSUME Shutdown PROVE Ownership'
  BY <1>4 DEF Shutdown, serving, PusherAt, Holders, Excluders, Kept,
     Pausing, Engines, Indexing
<1>5. ASSUME PushTimeout PROVE Ownership'
  BY <1>5 DEF PushTimeout, PusherAt, Release, Holders, Excluders, Kept,
     Pausing, Engines, Indexing
<1>6. ASSUME NEW m \in Mutations, MutationWrite(m) PROVE Ownership'
  BY <1>6 DEF MutationWrite, Arrive, Holders, Excluders, Kept, Pausing,
     Engines, Indexing
<1>7. ASSUME NEW m \in Mutations, MutationNotify(m) PROVE Ownership'
  BY <1>7 DEF MutationNotify, Send, Holders, Excluders, Kept, Pausing,
     Engines, Indexing
<1>8. ASSUME NEW m \in Mutations, MutationCancelled(m) PROVE Ownership'
  BY <1>8 DEF MutationCancelled, Holders, Excluders, Kept, Pausing, Engines,
     Indexing
<1>9. ASSUME WatcherFlush PROVE Ownership'
  BY <1>9 DEF WatcherFlush, Holders, Excluders, Kept, Pausing, Engines,
     Indexing
<1>10. ASSUME WatchIndex PROVE Ownership'
  BY <1>10 DEF WatchIndex, Send, Holders, Excluders, Kept, Pausing, Engines,
     Indexing
<1>11. ASSUME WatchIndexFails PROVE Ownership'
  BY <1>11 DEF WatchIndexFails, Fail, Holders, Excluders, Kept, Pausing,
     Engines, Indexing
<1>12. ASSUME WatchEnter PROVE Ownership'
  BY <1>12 DEF WatchEnter, GateFree, Holders, Excluders, Kept, Pausing,
     Engines, Indexing
<1>13. ASSUME WatchReconcile PROVE Ownership'
  BY <1>13 DEF WatchReconcile, Sweep, Arrive, Holders, Excluders, Kept,
     Pausing, Engines, Indexing
<1>14. ASSUME StartServing PROVE Ownership'
  BY <1>14 DEF StartServing, Sweep, Arrive, Holders, Excluders, Kept,
     Pausing, Engines, Indexing
<1>15. ASSUME ListenerReceive PROVE Ownership'
  BY <1>15 DEF ListenerReceive, Holders, Excluders, Kept, Pausing, Engines,
     Indexing
<1>16. ASSUME ListenerMark PROVE Ownership'
  BY <1>16 DEF ListenerMark, Holders, Excluders, Kept, Pausing, Engines,
     Indexing
<1>17. ASSUME ListenerLagged PROVE Ownership'
  BY <1>17 DEF ListenerLagged, Holders, Excluders, Kept, Pausing, Engines,
     Indexing
<1>18. ASSUME CommitterWake PROVE Ownership'
  BY <1>18 DEF CommitterWake, CommitterAt, Holders, Excluders, Kept,
     Pausing, Engines, Indexing
<1>19. ASSUME CommitterExtend PROVE Ownership'
  BY <1>19 DEF CommitterExtend, CommitterAt, Holders, Excluders, Kept,
     Pausing, Engines, Indexing
<1>20. ASSUME CommitterQuiet PROVE Ownership'
  BY <1>20 DEF CommitterQuiet, CommitterAt, Holders, Excluders, Kept,
     Pausing, Engines, Indexing
<1>21. ASSUME CommitterLock PROVE Ownership'
  BY <1>21 DEF CommitterLock, CommitterAt, TakeLock, Holders, Excluders,
     Kept, Pausing, Engines, Indexing
<1>22. ASSUME CommitterGate PROVE Ownership'
  BY <1>22 DEF CommitterGate, CommitterAt, ShutGate, GateEmpty, GateFree,
     Holders, Excluders, Kept, Pausing, Engines, Indexing
<1>23. ASSUME CommitterUngate PROVE Ownership'
  BY <1>23 DEF CommitterUngate, CommitterAt, OpenGate, Holders, Excluders,
     Kept, Pausing, Engines, Indexing
<1>24. ASSUME CommitterFlag PROVE Ownership'
  BY <1>24 DEF CommitterFlag, CommitterAt, Forget, Holders, Excluders, Kept,
     Pausing, Engines, Indexing
<1>25. ASSUME NEW w \in Windows, WindowLock(w) PROVE Ownership'
  BY <1>25 DEF WindowLock, WindowAt, TakeLock, Holders, Excluders, Kept,
     Pausing, Engines, Indexing
<1>26. ASSUME NEW w \in Windows, WindowGate(w) PROVE Ownership'
  BY <1>26 DEF WindowGate, WindowAt, ShutGate, GateEmpty, GateFree, Holders,
     Excluders, Kept, Pausing, Engines, Indexing
<1>27. ASSUME NEW w \in Windows, WindowSettle(w) PROVE Ownership'
  <2>1. Holders'
    BY <1>27 DEF WindowSettle, WindowAt, Holders
  <2>2. Excluders'
    BY <1>27 DEF WindowSettle, WindowAt, Excluders
  <2>3. Kept'
    BY <1>27 DEF WindowSettle, WindowAt, Kept
  <2>4. Pausing'
    BY <1>27 DEF WindowSettle, WindowAt, Pausing
  <2>5. Engines'
    BY <1>27 DEF WindowSettle, WindowAt, Engines
  <2>6. Indexing'
    BY <1>27 DEF WindowSettle, WindowAt, Indexing
  <2>7. QED
    BY <2>1, <2>2, <2>3, <2>4, <2>5, <2>6
<1>28. ASSUME NEW w \in Windows, WindowRebuild(w) PROVE Ownership'
  BY <1>28 DEF WindowRebuild, WindowAt, Send, Holders, Excluders, Kept,
     Pausing, Engines, Indexing
<1>29. ASSUME NEW w \in Windows, WindowRebuildFails(w) PROVE Ownership'
  BY <1>29 DEF WindowRebuildFails, WindowAt, Fail, Holders, Excluders, Kept,
     Pausing, Engines, Indexing
<1>30. ASSUME NEW w \in Windows, WindowSweep(w) PROVE Ownership'
  BY <1>30 DEF WindowSweep, WindowAt, Sweep, Arrive, Send, Holders,
     Excluders, Kept, Pausing, Engines, Indexing
<1>31. ASSUME NEW w \in Windows, WindowClose(w) PROVE Ownership'
  BY <1>31 DEF WindowClose, WindowAt, Holders, Excluders, Kept, Pausing,
     Engines, Indexing
<1>32. ASSUME NEW w \in Windows, WindowUnpause(w) PROVE Ownership'
  BY <1>32 DEF WindowUnpause, WindowAt, Holders, Excluders, Kept, Pausing,
     Engines, Indexing
<1>33. ASSUME NEW w \in Windows, WindowUngate(w) PROVE Ownership'
  BY <1>33 DEF WindowUngate, WindowAt, OpenGate, Holders, Excluders, Kept,
     Pausing, Engines, Indexing
<1>34. ASSUME NEW w \in Windows, WindowUnsync(w) PROVE Ownership'
  BY <1>34 DEF WindowUnsync, WindowAt, Forget, Holders, Excluders, Kept,
     Pausing, Engines, Indexing
<1>35. ASSUME PushLock PROVE Ownership'
  BY <1>35 DEF PushLock, PusherAt, TakeLock, Holders, Excluders, Kept,
     Pausing, Engines, Indexing
<1>36. ASSUME PushGate PROVE Ownership'
  BY <1>36 DEF PushGate, PusherAt, ShutGate, GateEmpty, GateFree, Holders,
     Excluders, Kept, Pausing, Engines, Indexing
<1>37. ASSUME PushDone PROVE Ownership'
  BY <1>37 DEF PushDone, PusherAt, Release, Forget, Holders, Excluders,
     Kept, Pausing, Engines, Indexing
<1>38. ASSUME NEW a \in Actors, EngineCommit(a) PROVE Ownership'
  BY <1>38 DEF EngineCommit, Finish, Holders, Excluders, Kept, Pausing,
     Engines, Indexing
<1>39. ASSUME NEW a \in Actors, EngineCommitFails(a) PROVE Ownership'
  BY <1>39 DEF EngineCommitFails, Finish, Fail, Holders, Excluders, Kept,
     Pausing, Engines, Indexing
<1>40. ASSUME NEW w \in Windows, EnginePull(w) PROVE Ownership'
  BY <1>40 DEF EnginePull, Finish, Arrive, Holders, Excluders, Kept,
     Pausing, Engines, Indexing
<1>41. ASSUME NEW w \in Windows, EnginePullFails(w) PROVE Ownership'
  BY <1>41 DEF EnginePullFails, Finish, Fail, Arrive, Holders, Excluders,
     Kept, Pausing, Engines, Indexing
<1>42. CASE UNCHANGED vars
  <2>1. Holders'
    BY <1>42 DEF Holders, vars
  <2>2. Excluders'
    BY <1>42 DEF Excluders, vars
  <2>3. Kept'
    BY <1>42 DEF Kept, vars
  <2>4. Pausing'
    BY <1>42 DEF Pausing, vars
  <2>5. Engines'
    BY <1>42 DEF Engines, vars
  <2>6. Indexing'
    BY <1>42 DEF Indexing, vars
  <2>7. QED
    BY <2>1, <2>2, <2>3, <2>4, <2>5, <2>6
<1>43. QED
  BY <1>1, <1>2, <1>3, <1>4, <1>5, <1>6, <1>7, <1>8, <1>9, <1>10, <1>11,
     <1>12, <1>13, <1>14, <1>15, <1>16, <1>17, <1>18, <1>19, <1>20, <1>21,
     <1>22, <1>23, <1>24, <1>25, <1>26, <1>27, <1>28, <1>29, <1>30, <1>31,
     <1>32, <1>33, <1>34, <1>35, <1>36, <1>37, <1>38, <1>39, <1>40, <1>41,
     <1>42 DEF Next, Environment, ServerStep, EngineStep, CommitterStep,
     WindowStep

\* Types and ownership hold in every reachable state.
THEOREM OwnershipHolds == Spec => [](TypeOK /\ Ownership)
<1>1. Init => TypeOK /\ Ownership
  BY TypeInit, OwnershipInit
<1>2. TypeOK /\ Ownership /\ [Next]_vars => (TypeOK /\ Ownership)'
  BY TypeStep, OwnershipStep DEF TypeOK
<1>3. QED
  BY <1>1, <1>2, PTL DEF Spec

-----------------------------------------------------------------------------
(* The properties.                                                         *)

\* One engine call at a time, and no mutation or reconcile move while it
\* runs, through shutdown too, unless the push ran out of its time.
THEOREM EngineExclusive == Spec => []OneEngineAtATime
<1>1. TypeOK /\ Ownership => OneEngineAtATime
  <2>1. SUFFICES ASSUME TypeOK, Ownership, ~timedOut
        PROVE /\ \A a, b \in Running : a = b
              /\ Running # {} => Inside = {} /\ watch # "inside"
    BY DEF OneEngineAtATime
  <2>2. \A a \in Running : excluder = a
    BY <2>1, ActorAssumption
    DEF Ownership, Engines, Excluders, Running, Actors, Shut
  <2>3. \A a \in Running : a # Nobody
    BY ActorAssumption DEF Running
  <2>4. QED
    BY <2>1, <2>2, <2>3 DEF Ownership, Kept
<1>2. QED
  BY <1>1, OwnershipHolds, PTL

\* No mutation is inside the gate while the watcher is paused.
THEOREM MutationsWatched == Spec => []WatchedMutations
<1>1. TypeOK /\ Ownership => WatchedMutations
  BY ActorAssumption
  DEF Ownership, Pausing, Excluders, Kept, Quiesced, Shut, WatchedMutations,
      Actors
<1>2. QED
  BY <1>1, OwnershipHolds, PTL

\* What a pull brought in is indexed whenever the gate is open, after failed
\* syncs too, unless a rebuild failed or the engine panicked.
THEOREM MergesIndexed == Spec => []MergedIsIndexed
<1>1. TypeOK /\ Ownership => MergedIsIndexed
  BY ActorAssumption
  DEF Ownership, Indexing, Excluders, Shut, MergedIsIndexed, GateFree, Actors
<1>2. QED
  BY <1>1, OwnershipHolds, PTL
-----------------------------------------------------------------------------
(* What a mutation wrote and git does not have yet is on its way there.     *)

\* Mutations that are in the vault and not in git.
Loose == (Mutations \cap disk) \ git

\* Something will lead to a commit after m: its event, a notification, the
\* permit, the committer or a sync that has not run its engine yet.
Coming(m) ==
  \/ m \in events \cup batch
  \/ channel > 0 \/ lagged \/ listener = "mark" \/ permit
  \/ committer \in {"quiet", "lock", "gate"}
  \/ committer = "engine" /\ job[Committer] = "commit"
  \/ \E w \in Windows :
       window[w] = "gate" \/ (window[w] = "engine" /\ job[w] = "commit")

\* A mutation is on disk once it has written, and none has entered before the
\* server serves.
Written ==
  /\ \A m \in Mutations : m \in disk => mutation[m] \in {"indexed", "done"}
  /\ listener = "off" /\ ~stopping => \A m \in Mutations : mutation[m] = "idle"

\* The syncing flag is up only in a window, and the push only at the end.
Syncs == syncing => \E w \in Windows : window[w] \in Locked
Ending == (stopping <=> pusher # "off") /\ (listener # "off" => ~stopping)

Up == failures = 0 /\ listener # "off"

\* Behind a shut gate everything is committed once the engine has committed.
CleanGate ==
  Up => \A a \in Actors : excluder = a /\ job[a] # "commit" => Loose = {}

\* In the last statements of a window notifications are ignored although the
\* gate is open: what is written then still has its event to come.
Sweeping ==
  Up => /\ \A m \in Loose : Coming(m)
        /\ (\E w \in Windows : window[w] = "unsync") => Loose \subseteq events

Swept == Written /\ Syncs /\ Ending /\ CleanGate /\ Sweeping

\* At the start nothing has been written.
LEMMA SweptInit == Init => Swept
  BY ActorAssumption
  DEF Init, Swept, Written, Syncs, Ending, CleanGate, Sweeping, Loose, Up, Locked, Actors

\* Every step keeps it: an event is dropped only while a window has the gate,
\* a notification only while one has sync_lock, and both commit.
LEMMA SweptStep ==
  ASSUME Flags, Places, Ownership, Swept, [Next]_vars PROVE Swept'
<1> USE ActorAssumption, ChangeAssumption, BoundAssumption
    DEF Actors, Swept, Places, Up, Written, Syncs, Ending, CleanGate, Sweeping, Coming, Loose,
        Ownership, Holders, Excluders, Kept, Pausing, Engines, Locked, Shut, Quiesced, Running,
        Inside, Closing
<1>1. ASSUME NEW m \in Mutations, MutationEnter(m) PROVE Swept'
  BY <1>1 DEF GateFree, MutationEnter, serving
<1>2. ASSUME NEW e \in Edits, Edit(e) PROVE Swept'
  BY <1>2 DEF Arrive, Edit, serving
<1>3. ASSUME NEW w \in Windows, RequestSync(w) PROVE Swept'
  BY <1>3 DEF RequestSync, WindowAt, serving
<1>4. ASSUME Shutdown PROVE Swept'
  BY <1>4 DEF PusherAt, Shutdown, serving
<1>5. ASSUME PushTimeout PROVE Swept'
  BY <1>5 DEF PushTimeout, PusherAt, Release
<1>6. ASSUME NEW m \in Mutations, MutationWrite(m) PROVE Swept'
  BY <1>6 DEF Arrive, MutationWrite
<1>7. ASSUME NEW m \in Mutations, MutationNotify(m) PROVE Swept'
  BY <1>7 DEF MutationNotify, Send
<1>8. ASSUME NEW m \in Mutations, MutationCancelled(m) PROVE Swept'
  BY <1>8 DEF MutationCancelled
<1>9. ASSUME WatcherFlush PROVE Swept'
  BY <1>9 DEF WatcherFlush
<1>10. ASSUME WatchIndex PROVE Swept'
  BY <1>10 DEF Send, WatchIndex
<1>11. ASSUME WatchIndexFails PROVE Swept'
  BY <1>11 DEF Fail, WatchIndexFails
<1>12. ASSUME WatchEnter PROVE Swept'
  BY <1>12 DEF GateFree, WatchEnter
<1>13. ASSUME WatchReconcile PROVE Swept'
  BY <1>13 DEF Arrive, Sweep, WatchReconcile
<1>14. ASSUME StartServing PROVE Swept'
  BY <1>14 DEF Arrive, StartServing, Sweep
<1>15. ASSUME ListenerReceive PROVE Swept'
  BY <1>15 DEF ListenerReceive
<1>16. ASSUME ListenerMark PROVE Swept'
  BY <1>16 DEF ListenerMark
<1>17. ASSUME ListenerLagged PROVE Swept'
  BY <1>17 DEF ListenerLagged
<1>18. ASSUME CommitterWake PROVE Swept'
  BY <1>18 DEF CommitterAt, CommitterWake
<1>19. ASSUME CommitterExtend PROVE Swept'
  BY <1>19 DEF CommitterAt, CommitterExtend
<1>20. ASSUME CommitterQuiet PROVE Swept'
  BY <1>20 DEF CommitterAt, CommitterQuiet
<1>21. ASSUME CommitterLock PROVE Swept'
  BY <1>21 DEF CommitterAt, CommitterLock, TakeLock
<1>22. ASSUME CommitterGate PROVE Swept'
  BY <1>22 DEF CommitterAt, CommitterGate, GateEmpty, GateFree, ShutGate
<1>23. ASSUME CommitterUngate PROVE Swept'
  BY <1>23 DEF CommitterAt, CommitterUngate, OpenGate
<1>24. ASSUME CommitterFlag PROVE Swept'
  BY <1>24 DEF CommitterAt, CommitterFlag, Forget
<1>25. ASSUME NEW w \in Windows, WindowLock(w) PROVE Swept'
  BY <1>25 DEF TakeLock, WindowAt, WindowLock
<1>26. ASSUME NEW w \in Windows, WindowGate(w) PROVE Swept'
  BY <1>26 DEF GateEmpty, GateFree, ShutGate, WindowAt, WindowGate
<1>27. ASSUME NEW w \in Windows, WindowSettle(w) PROVE Swept'
  BY <1>27 DEF WindowAt, WindowSettle
<1>28. ASSUME NEW w \in Windows, WindowRebuild(w) PROVE Swept'
  BY <1>28 DEF Send, WindowAt, WindowRebuild
<1>29. ASSUME NEW w \in Windows, WindowRebuildFails(w) PROVE Swept'
  BY <1>29 DEF Fail, WindowAt, WindowRebuildFails
<1>30. ASSUME NEW w \in Windows, WindowSweep(w) PROVE Swept'
  BY <1>30 DEF Arrive, Send, Sweep, WindowAt, WindowSweep
<1>31. ASSUME NEW w \in Windows, WindowClose(w) PROVE Swept'
  BY <1>31 DEF WindowAt, WindowClose
<1>32. ASSUME NEW w \in Windows, WindowUnpause(w) PROVE Swept'
  BY <1>32 DEF WindowAt, WindowUnpause
<1>33. ASSUME NEW w \in Windows, WindowUngate(w) PROVE Swept'
  BY <1>33 DEF OpenGate, WindowAt, WindowUngate
<1>34. ASSUME NEW w \in Windows, WindowUnsync(w) PROVE Swept'
  BY <1>34 DEF Forget, WindowAt, WindowUnsync
<1>35. ASSUME PushLock PROVE Swept'
  BY <1>35 DEF PushLock, PusherAt, TakeLock
<1>36. ASSUME PushGate PROVE Swept'
  BY <1>36 DEF GateEmpty, GateFree, PushGate, PusherAt, ShutGate
<1>37. ASSUME PushDone PROVE Swept'
  BY <1>37 DEF Forget, PushDone, PusherAt, Release
<1>38. ASSUME NEW a \in Actors, EngineCommit(a) PROVE Swept'
  BY <1>38 DEF EngineCommit, Finish
<1>39. ASSUME NEW a \in Actors, EngineCommitFails(a) PROVE Swept'
  BY <1>39 DEF EngineCommitFails, Fail, Finish
<1>40. ASSUME NEW w \in Windows, EnginePull(w) PROVE Swept'
  BY <1>40 DEF Arrive, EnginePull, Finish
<1>41. ASSUME NEW w \in Windows, EnginePullFails(w) PROVE Swept'
  BY <1>41 DEF Arrive, EnginePullFails, Fail, Finish
<1>42. CASE UNCHANGED vars
  <2>1. Written'
    BY <1>42 DEF vars, Written
  <2>2. Syncs'
    BY <1>42 DEF vars, Syncs, Locked
  <2>3. Ending'
    BY <1>42 DEF vars, Ending
  <2>4. CleanGate'
    BY <1>42 DEF vars, CleanGate, Loose
  <2>5. Sweeping'
    BY <1>42 DEF vars, Sweeping, Coming, Loose
  <2>6. QED
    BY <2>1, <2>2, <2>3, <2>4, <2>5
<1>43. QED
  BY <1>1, <1>2, <1>3, <1>4, <1>5, <1>6, <1>7, <1>8, <1>9, <1>10, <1>11,
     <1>12, <1>13, <1>14, <1>15, <1>16, <1>17, <1>18, <1>19, <1>20, <1>21,
     <1>22, <1>23, <1>24, <1>25, <1>26, <1>27, <1>28, <1>29, <1>30, <1>31,
     <1>32, <1>33, <1>34, <1>35, <1>36, <1>37, <1>38, <1>39, <1>40, <1>41,
     <1>42 DEF Next, Environment, ServerStep, EngineStep, CommitterStep,
     WindowStep

\* The whole invariant holds in every reachable state.
THEOREM SweptHolds == Spec => [](TypeOK /\ Ownership /\ Swept)
<1>1. Init => Swept
  BY SweptInit
<1>2. TypeOK /\ Ownership /\ Swept /\ [Next]_vars => Swept'
  BY SweptStep DEF TypeOK
<1>3. QED
  BY <1>1, <1>2, OwnershipHolds, PTL DEF Spec

\* What a mutation wrote is in git whenever the server is idle and nothing has
\* failed: its notification may be lost with the request, overflow the channel
\* or come during a sync (spawn_autocommit, SyncWindow).
THEOREM MutationsCommitted == Spec => []CommittedWhenIdle
<1>1. Swept => CommittedWhenIdle
  <2> SUFFICES ASSUME Swept, Idle, failures = 0, NEW m \in Mutations \cap disk, m \notin git
               PROVE  FALSE
    BY DEF CommittedWhenIdle
  <2>1. Coming(m)
    BY DEF Swept, Sweeping, Up, Loose, Idle
  <2>2. QED
    BY <2>1 DEF Coming, Idle
<1>2. QED
  BY <1>1, SweptHolds, PTL

\* However a window ended, with an error, a refusal or a panic, an idle server
\* has no flag up and nothing locked (the guards of SyncWindow).
THEOREM NothingLeftLocked == Spec => []IdleIsClean
<1>1. TypeOK /\ Ownership /\ Swept => IdleIsClean
  BY ActorAssumption
  DEF TypeOK, Places, Ownership, Holders, Excluders, Pausing, Swept, Syncs, Ending, Idle, IdleIsClean,
      GateFree, Locked, Shut, Quiesced, Actors
<1>2. QED
  BY <1>1, SweptHolds, PTL
=============================================================================
