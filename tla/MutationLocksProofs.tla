------------------------ MODULE MutationLocksProofs ------------------------
(***************************************************************************)
(* Proofs about MutationLocks, for any set of requests, any tree of keys   *)
(* and any supply of lock objects.  The argument has two halves that do    *)
(* not meet: whoever is past the gate has a hold on it (GateOwners), and   *)
(* an object that somebody refers to is the one in the table (Arcs), so    *)
(* that holders of a key hold the same object (Holders).  The queues play  *)
(* no part in safety.                                                      *)
(***************************************************************************)
EXTENDS MutationLocks, TLAPS

\* The types of the variables that safety depends on.
Types ==
    /\ pc \in [Task -> PcValue]
    /\ wants \in [Task -> SUBSET Key]
    /\ gate \in [Task -> {"no", "read", "write"}]
    /\ arc \in [Task -> [Key -> LockId \cup {NoLock}]]
    /\ got \in [Task -> SUBSET Key]
    /\ table \in [Key -> LockId \cup {NoLock}]

\* A writer of the gate is alone in it; whoever is past it is in it.
GateOwners ==
    /\ \A t, u \in Task : (t # u /\ gate[t] = "write") => gate[u] = "no"
    /\ \A t \in Task : pc[t] \in {"table", "acquire", "wait", "held"} => gate[t] # "no"
    /\ \A t \in Task : pc[t] = "excluded" => gate[t] = "write"

\* Every Arc refers to the object in the table: pruning never takes the entry
\* of an object that is in use, and a new object is made only without one.
Arcs ==
    /\ \A t \in Task, k \in Key : arc[t][k] # NoLock => table[k] = arc[t][k]
    /\ \A t \in Task : pc[t] \in {"acquire", "wait"} =>
          \A k \in Requests(t) : arc[t][k] # NoLock
    /\ \A t \in Task, k \in Key : k \in got[t] => arc[t][k] # NoLock

\* What is locked was asked for, and is shared only by readers.
Holders ==
    /\ \A t \in Task : pc[t] \in {"idle", "readGate", "writeGate", "excluded", "table"}
                          => got[t] = {}
    /\ \A t \in Task : got[t] \subseteq Requests(t)
    /\ \A t \in Task : pc[t] = "held" => got[t] = Requests(t)
    /\ \A t, u \in Task, k \in Key :
          (t # u /\ k \in got[t] /\ k \in got[u]) => ~Writes(t, k) /\ ~Writes(u, k)

Inv == Types /\ GateOwners /\ Arcs /\ Holders

-----------------------------------------------------------------------------
\* The keys a request locks are keys.
LEMMA RequestsAreKeys ==
  ASSUME Types, NEW t \in Task
  PROVE  Requests(t) \subseteq Key
BY AncestorAssumption DEF Types, Requests

\* Without a free object the critical section is not entered; with one, the
\* new lock is nobody's.
LEMMA NewIsFree ==
  ASSUME Types, NEW k \in Key, \E n \in LockId : Freed(k, n)
  PROVE  NewLock(k) \in LockId /\ Freed(k, NewLock(k))
BY DEF NewLock

\* Nobody has asked for anything at the start.
LEMMA InvInit == Init => Inv
<1> SUFFICES ASSUME Init PROVE Inv
  OBVIOUS
<1>1. Types
  BY DEF Init, Types, PcValue
<1>2. GateOwners
  BY DEF Init, GateOwners
<1>3. Arcs
  BY DEF Init, Arcs
<1>4. Holders
  BY DEF Init, Holders
<1>5. QED
  BY <1>1, <1>2, <1>3, <1>4 DEF Inv

\* Every step keeps the types; a resolved key has an object of its own.
LEMMA TypesStep ==
  ASSUME Types, [Next]_vars
  PROVE  Types'
<1> USE CommandAssumption
<1>1. ASSUME NEW t \in Task, NEW K \in Command, LockResources(t, K) PROVE Types'
  BY <1>1 DEF LockResources, Types, PcValue, lockVars
<1>2. ASSUME NEW t \in Task, ExcludeMutations(t) PROVE Types'
  BY <1>2 DEF ExcludeMutations, Types, PcValue, lockVars
<1>3. ASSUME NEW t \in Task, EnterGate(t) PROVE Types'
  BY <1>3 DEF EnterGate, Types, PcValue, lockVars
<1>4. ASSUME NEW t \in Task, CloseGate(t) PROVE Types'
  BY <1>4 DEF CloseGate, Types, PcValue, lockVars
<1>5. ASSUME NEW t \in Task, NEW K \in Command, ExecuteBatchExcluded(t, K) PROVE Types'
  BY <1>5 DEF ExecuteBatchExcluded, Types, PcValue, lockVars
<1>6. ASSUME NEW t \in Task, DropExclusion(t) PROVE Types'
  BY <1>6 DEF DropExclusion, Types, PcValue, lockVars
<1>7. ASSUME NEW t \in Task, Resolve(t) PROVE Types'
  <2>1. \A k \in Key : Pruned(k) \in LockId \cup {NoLock}
    BY DEF Types, Pruned
  <2>2. \A k \in Requests(t) : Resolved(k) \in LockId
    BY <1>7, RequestsAreKeys, NewIsFree, <2>1 DEF Resolve, Resolved
  <2>3. QED
    BY <1>7, <2>1, <2>2 DEF Resolve, Types, PcValue
<1>8. ASSUME NEW t \in Task, NEW k \in Key, Enqueue(t, k) PROVE Types'
  BY <1>8 DEF Enqueue, Types, PcValue, lockVars
<1>9. ASSUME NEW t \in Task, NEW k \in Key, Grant(t, k) PROVE Types'
  BY <1>9 DEF Grant, Types, PcValue, lockVars
<1>10. ASSUME NEW t \in Task, DropGuard(t) PROVE Types'
  BY <1>10 DEF DropGuard, Types, PcValue, lockVars
<1>11. ASSUME NEW t \in Task, NEW k \in Key, ReleaseLock(t, k) PROVE Types'
  BY <1>11 DEF ReleaseLock, Types, PcValue, lockVars
<1>12. ASSUME NEW t \in Task, NEW k \in Key, ReleaseArc(t, k) PROVE Types'
  BY <1>12 DEF ReleaseArc, Types, PcValue, lockVars
<1>13. ASSUME NEW t \in Task, Dropped(t) PROVE Types'
  BY <1>13 DEF Dropped, Types, PcValue, lockVars
<1>14. ASSUME NEW t \in Task, CancelGate(t) PROVE Types'
  BY <1>14 DEF CancelGate, Types, PcValue, lockVars
<1>15. ASSUME NEW t \in Task, CancelWait(t) PROVE Types'
  BY <1>15 DEF CancelWait, Types, PcValue, lockVars
<1>16. CASE UNCHANGED vars
  BY <1>16 DEF vars, Types, PcValue, lockVars
<1>17. QED
  BY <1>1, <1>2, <1>3, <1>4, <1>5, <1>6, <1>7, <1>8, <1>9, <1>10, <1>11, <1>12, <1>13, <1>14, <1>15, <1>16 DEF Next, Progress

\* Only EnterGate and CloseGate give the gate away, and they look at all holds.
LEMMA GateStep ==
  ASSUME Types, GateOwners, [Next]_vars
  PROVE  GateOwners'
<1>1. ASSUME NEW t \in Task, NEW K \in Command, LockResources(t, K) PROVE GateOwners'
  BY <1>1 DEF LockResources, Types, GateOwners, lockVars
<1>2. ASSUME NEW t \in Task, ExcludeMutations(t) PROVE GateOwners'
  BY <1>2 DEF ExcludeMutations, Types, GateOwners, lockVars
<1>3. ASSUME NEW t \in Task, EnterGate(t) PROVE GateOwners'
  BY <1>3 DEF EnterGate, Types, GateOwners, lockVars
<1>4. ASSUME NEW t \in Task, CloseGate(t) PROVE GateOwners'
  BY <1>4 DEF CloseGate, Types, GateOwners, lockVars
<1>5. ASSUME NEW t \in Task, NEW K \in Command, ExecuteBatchExcluded(t, K) PROVE GateOwners'
  BY <1>5 DEF ExecuteBatchExcluded, Types, GateOwners, lockVars
<1>6. ASSUME NEW t \in Task, DropExclusion(t) PROVE GateOwners'
  BY <1>6 DEF DropExclusion, Types, GateOwners, lockVars
<1>7. ASSUME NEW t \in Task, Resolve(t) PROVE GateOwners'
  BY <1>7 DEF Resolve, Types, GateOwners, lockVars
<1>8. ASSUME NEW t \in Task, NEW k \in Key, Enqueue(t, k) PROVE GateOwners'
  BY <1>8 DEF Enqueue, Types, GateOwners, lockVars
<1>9. ASSUME NEW t \in Task, NEW k \in Key, Grant(t, k) PROVE GateOwners'
  BY <1>9 DEF Grant, Types, GateOwners, lockVars
<1>10. ASSUME NEW t \in Task, DropGuard(t) PROVE GateOwners'
  BY <1>10 DEF DropGuard, Types, GateOwners, lockVars
<1>11. ASSUME NEW t \in Task, NEW k \in Key, ReleaseLock(t, k) PROVE GateOwners'
  BY <1>11 DEF ReleaseLock, Types, GateOwners, lockVars
<1>12. ASSUME NEW t \in Task, NEW k \in Key, ReleaseArc(t, k) PROVE GateOwners'
  BY <1>12 DEF ReleaseArc, Types, GateOwners, lockVars
<1>13. ASSUME NEW t \in Task, Dropped(t) PROVE GateOwners'
  BY <1>13 DEF Dropped, Types, GateOwners, lockVars
<1>14. ASSUME NEW t \in Task, CancelGate(t) PROVE GateOwners'
  BY <1>14 DEF CancelGate, Types, GateOwners, lockVars
<1>15. ASSUME NEW t \in Task, CancelWait(t) PROVE GateOwners'
  BY <1>15 DEF CancelWait, Types, GateOwners, lockVars
<1>16. CASE UNCHANGED vars
  BY <1>16 DEF vars, Types, GateOwners, lockVars
<1>17. QED
  BY <1>1, <1>2, <1>3, <1>4, <1>5, <1>6, <1>7, <1>8, <1>9, <1>10, <1>11, <1>12, <1>13, <1>14, <1>15, <1>16 DEF Next, Progress

\* Arcs change in the table's critical section and when a guard is dropped.
LEMMA ArcsStep ==
  ASSUME Types, Arcs, Holders, [Next]_vars
  PROVE  Arcs'
<1> USE CommandAssumption, AncestorAssumption
<1>1. ASSUME NEW t \in Task, NEW K \in Command, LockResources(t, K) PROVE Arcs'
  BY <1>1 DEF LockResources, Types, Arcs, Holders, lockVars, Requests
<1>2. ASSUME NEW t \in Task, ExcludeMutations(t) PROVE Arcs'
  BY <1>2 DEF ExcludeMutations, Types, Arcs, Holders, lockVars, Requests
<1>3. ASSUME NEW t \in Task, EnterGate(t) PROVE Arcs'
  BY <1>3 DEF EnterGate, Types, Arcs, Holders, lockVars, Requests
<1>4. ASSUME NEW t \in Task, CloseGate(t) PROVE Arcs'
  BY <1>4 DEF CloseGate, Types, Arcs, Holders, lockVars, Requests
<1>5. ASSUME NEW t \in Task, NEW K \in Command, ExecuteBatchExcluded(t, K) PROVE Arcs'
  BY <1>5 DEF ExecuteBatchExcluded, Types, Arcs, Holders, lockVars, Requests
<1>6. ASSUME NEW t \in Task, DropExclusion(t) PROVE Arcs'
  BY <1>6 DEF DropExclusion, Types, Arcs, Holders, lockVars, Requests
<1>7. ASSUME NEW t \in Task, Resolve(t) PROVE Arcs'
  <2> DEFINE R == Requests(t)
  <2>1. R \subseteq Key
    BY RequestsAreKeys
  <2>2. \A k \in R : Resolved(k) \in LockId /\ Resolved(k) # NoLock
    BY <1>7, <2>1, NewIsFree, NoLockAssumption DEF Resolve, Resolved, Pruned, Types
  <2>3. \A u \in Task, k \in Key : arc[u][k] # NoLock => Pruned(k) = arc[u][k]
    BY DEF Arcs, Pruned, Alive
  <2>4. \A u \in Task, k \in Key : arc[u][k] # NoLock => table'[k] = arc[u][k]
    BY <1>7, <2>1, <2>3 DEF Resolve, Resolved, Types
  <2>5. \A u \in Task \ {t} : arc'[u] = arc[u]
    BY <1>7 DEF Resolve, Types
  <2>6. \A k \in Key : /\ arc'[t][k] # NoLock => arc'[t][k] = table'[k]
                       /\ k \in R => arc'[t][k] # NoLock
    BY <1>7, <2>1, <2>2 DEF Resolve, Types
  <2>7. got' = got /\ got[t] = {} /\ wants' = wants
    BY <1>7 DEF Resolve, Holders
  <2>8. \A u \in Task : Requests(u)' = Requests(u)
    BY <2>7 DEF Requests
  <2>9. \A u \in Task : u # t => pc'[u] = pc[u]
    BY <1>7 DEF Resolve, Types
  <2>10. \A u \in Task, k \in Key : arc'[u][k] # NoLock => table'[k] = arc'[u][k]
    BY <2>4, <2>5, <2>6
  <2>11. ASSUME NEW u \in Task, pc'[u] \in {"acquire", "wait"}, NEW k \in Requests(u)
         PROVE  arc'[u][k] # NoLock
    <3>1. CASE u = t
      BY <3>1, <2>1, <2>6, <2>11
    <3>2. CASE u # t
      BY <3>2, <2>5, <2>9, <2>11 DEF Arcs
    <3>3. QED
      BY <3>1, <3>2
  <2>12. \A u \in Task, k \in Key : k \in got'[u] => arc'[u][k] # NoLock
    BY <2>5, <2>7 DEF Arcs
  <2>13. QED
    BY <2>8, <2>10, <2>11, <2>12 DEF Arcs
<1>8. ASSUME NEW t \in Task, NEW k \in Key, Enqueue(t, k) PROVE Arcs'
  BY <1>8 DEF Enqueue, Types, Arcs, Holders, lockVars, Requests
<1>9. ASSUME NEW t \in Task, NEW k \in Key, Grant(t, k) PROVE Arcs'
  <2>1. k \in Requests(t) /\ arc[t][k] # NoLock
    BY <1>9 DEF Grant, IsLeast, Remaining, Arcs
  <2>2. arc' = arc /\ table' = table /\ wants' = wants
    BY <1>9 DEF Grant
  <2>3. \A u \in Task : Requests(u)' = Requests(u)
    BY <2>2 DEF Requests
  <2>4. got' = [got EXCEPT ![t] = @ \cup {k}]
    BY <1>9 DEF Grant
  <2>5. \A u \in Task : pc'[u] \in {"acquire", "wait"} => pc[u] \in {"acquire", "wait"}
    BY <1>9 DEF Grant, Types
  <2>6. QED
    BY <2>1, <2>2, <2>3, <2>4, <2>5 DEF Arcs, Types
<1>10. ASSUME NEW t \in Task, DropGuard(t) PROVE Arcs'
  BY <1>10 DEF DropGuard, Types, Arcs, Holders, lockVars, Requests
<1>11. ASSUME NEW t \in Task, NEW k \in Key, ReleaseLock(t, k) PROVE Arcs'
  BY <1>11 DEF ReleaseLock, Types, Arcs, Holders, lockVars, Requests
<1>12. ASSUME NEW t \in Task, NEW k \in Key, ReleaseArc(t, k) PROVE Arcs'
  BY <1>12 DEF ReleaseArc, Types, Arcs, Holders, lockVars, Requests
<1>13. ASSUME NEW t \in Task, Dropped(t) PROVE Arcs'
  BY <1>13 DEF Dropped, Types, Arcs, Holders, lockVars, Requests
<1>14. ASSUME NEW t \in Task, CancelGate(t) PROVE Arcs'
  BY <1>14 DEF CancelGate, Types, Arcs, Holders, lockVars, Requests
<1>15. ASSUME NEW t \in Task, CancelWait(t) PROVE Arcs'
  BY <1>15 DEF CancelWait, Types, Arcs, Holders, lockVars, Requests
<1>16. CASE UNCHANGED vars
  BY <1>16 DEF vars, Types, Arcs, Holders, lockVars, Requests
<1>17. QED
  BY <1>1, <1>2, <1>3, <1>4, <1>5, <1>6, <1>7, <1>8, <1>9, <1>10, <1>11, <1>12, <1>13, <1>14, <1>15, <1>16 DEF Next, Progress

\* A lock is granted only beside readers of the same object.
LEMMA HoldersStep ==
  ASSUME Types, Arcs, Holders, [Next]_vars
  PROVE  Holders'
<1> USE CommandAssumption, AncestorAssumption
<1>1. ASSUME NEW t \in Task, NEW K \in Command, LockResources(t, K) PROVE Holders'
  BY <1>1 DEF LockResources, Types, Holders, lockVars, Requests, Writes
<1>2. ASSUME NEW t \in Task, ExcludeMutations(t) PROVE Holders'
  BY <1>2 DEF ExcludeMutations, Types, Holders, lockVars, Requests, Writes
<1>3. ASSUME NEW t \in Task, EnterGate(t) PROVE Holders'
  BY <1>3 DEF EnterGate, Types, Holders, lockVars, Requests, Writes
<1>4. ASSUME NEW t \in Task, CloseGate(t) PROVE Holders'
  BY <1>4 DEF CloseGate, Types, Holders, lockVars, Requests, Writes
<1>5. ASSUME NEW t \in Task, NEW K \in Command, ExecuteBatchExcluded(t, K) PROVE Holders'
  BY <1>5 DEF ExecuteBatchExcluded, Types, Holders, lockVars, Requests, Writes
<1>6. ASSUME NEW t \in Task, DropExclusion(t) PROVE Holders'
  BY <1>6 DEF DropExclusion, Types, Holders, lockVars, Requests, Writes
<1>7. ASSUME NEW t \in Task, Resolve(t) PROVE Holders'
  BY <1>7 DEF Resolve, Types, Holders, lockVars, Requests, Writes
<1>8. ASSUME NEW t \in Task, NEW k \in Key, Enqueue(t, k) PROVE Holders'
  BY <1>8 DEF Enqueue, Types, Holders, lockVars, Requests, Writes
<1>9. ASSUME NEW t \in Task, NEW k \in Key, Grant(t, k) PROVE Holders'
  <2>1. k \in Requests(t) /\ arc[t][k] # NoLock /\ pc[t] = "wait"
    BY <1>9 DEF Grant, IsLeast, Remaining, Arcs
  <2>2. wants' = wants /\ got' = [got EXCEPT ![t] = @ \cup {k}]
    BY <1>9 DEF Grant
  <2>3. \A u \in Task : Requests(u)' = Requests(u)
    BY <2>2 DEF Requests
  <2>4. \A u \in Task : k \in got[u] => ~Writes(u, k) /\ ~Writes(t, k)
    BY <1>9, <2>1 DEF Grant, Compatible, Arcs
  <2>5. \A u \in Task, j \in Key : Writes(u, j)' = Writes(u, j)
    BY <2>2 DEF Writes
  <2>6. \A u, v \in Task, j \in Key :
           (u # v /\ j \in got'[u] /\ j \in got'[v]) => ~Writes(u, j) /\ ~Writes(v, j)
    BY <2>2, <2>4 DEF Holders, Types
  <2>7. \A u \in Task : u # t => pc'[u] = pc[u] /\ got'[u] = got[u]
    BY <1>9 DEF Grant, Types
  <2>8. /\ got'[t] = got[t] \cup {k}
        /\ pc'[t] \in {"held", "acquire"}
        /\ pc'[t] = "held" => Remaining(t) = {k}
    BY <1>9 DEF Grant, Types
  <2>9. got'[t] \subseteq Requests(t) /\ (pc'[t] = "held" => got'[t] = Requests(t))
    BY <2>1, <2>8 DEF Holders, Remaining
  <2>10. \A u \in Task : /\ pc'[u] \in {"idle", "readGate", "writeGate", "excluded", "table"}
                              => got'[u] = {}
                         /\ got'[u] \subseteq Requests(u)
                         /\ pc'[u] = "held" => got'[u] = Requests(u)
    BY <2>7, <2>8, <2>9 DEF Holders
  <2>11. QED
    BY <2>3, <2>5, <2>6, <2>10 DEF Holders
<1>10. ASSUME NEW t \in Task, DropGuard(t) PROVE Holders'
  BY <1>10 DEF DropGuard, Types, Holders, lockVars, Requests, Writes
<1>11. ASSUME NEW t \in Task, NEW k \in Key, ReleaseLock(t, k) PROVE Holders'
  BY <1>11 DEF ReleaseLock, Types, Holders, lockVars, Requests, Writes
<1>12. ASSUME NEW t \in Task, NEW k \in Key, ReleaseArc(t, k) PROVE Holders'
  BY <1>12 DEF ReleaseArc, Types, Holders, lockVars, Requests, Writes
<1>13. ASSUME NEW t \in Task, Dropped(t) PROVE Holders'
  BY <1>13 DEF Dropped, Types, Holders, lockVars, Requests, Writes
<1>14. ASSUME NEW t \in Task, CancelGate(t) PROVE Holders'
  BY <1>14 DEF CancelGate, Types, Holders, lockVars, Requests, Writes
<1>15. ASSUME NEW t \in Task, CancelWait(t) PROVE Holders'
  BY <1>15 DEF CancelWait, Types, Holders, lockVars, Requests, Writes
<1>16. CASE UNCHANGED vars
  BY <1>16 DEF vars, Types, Holders, lockVars, Requests, Writes
<1>17. QED
  BY <1>1, <1>2, <1>3, <1>4, <1>5, <1>6, <1>7, <1>8, <1>9, <1>10, <1>11, <1>12, <1>13, <1>14, <1>15, <1>16 DEF Next, Progress

\* The invariant holds in every reachable state.
THEOREM Safe == Spec => []Inv
<1>1. Inv /\ [Next]_vars => Inv'
  BY TypesStep, GateStep, ArcsStep, HoldersStep DEF Inv
<1>2. QED
  BY <1>1, InvInit, PTL DEF Spec

\* What the coordinator promises holds for any number of requests, any tree
\* of folders and any commands: one lock object per key, no two running
\* mutations on one path or on a folder and its descendant, and nobody beside
\* an exclusion (lock_resources_excluded, exclude_mutations).
THEOREM LocksExclude == Spec => []Exclusion
<1>1. ASSUME Inv PROVE OneLockPerKey
  BY <1>1 DEF Inv, Arcs, OneLockPerKey
<1>2. ASSUME Inv PROVE SubtreeExclusion
  <2> SUFFICES ASSUME NEW t \in Task, NEW u \in Task, t # u, pc[t] = "held", pc[u] = "held",
                      NEW j \in wants[t], NEW k \in wants[u]
               PROVE  j # k /\ j \notin Ancestors[k]
    BY DEF SubtreeExclusion
  <2>1. wants[t] \subseteq Key /\ wants[u] \subseteq Key
    BY <1>2 DEF Inv, Types
  <2>2. j \in got[t] /\ k \in got[u] /\ Ancestors[k] \subseteq got[u]
    BY <1>2 DEF Inv, Holders, Requests
  <2>3. Writes(t, j)
    BY DEF Writes
  <2>4. j \notin got[u]
    BY <1>2, <2>1, <2>2, <2>3 DEF Inv, Holders
  <2>5. QED
    BY <2>2, <2>4
<1>3. ASSUME Inv PROVE ExclusionIsAlone
  BY <1>3 DEF Inv, GateOwners, ExclusionIsAlone
<1>4. Inv => Exclusion
  BY <1>1, <1>2, <1>3 DEF Exclusion
<1>5. QED
  BY <1>4, Safe, PTL

-----------------------------------------------------------------------------
\* While a request takes its locks, what it has comes before what it still
\* wants: the loop of lock_resources_excluded walks the sorted requests.
Ordered ==
    \A t \in Task : pc[t] \in {"acquire", "wait"} =>
       \A j \in got[t], k \in Remaining(t) : j < k

\* Request t waits for the lock of key k, which u has.
WaitsFor(t, k, u) == pc[t] = "wait" /\ IsLeast(k, Remaining(t)) /\ k \in got[u]

\* Along a chain of requests that wait for one another the keys grow, so no
\* chain closes: requests that hold locks never wait in a circle.
WaitsClimb ==
    \A t, u, v \in Task, j, k \in Key : WaitsFor(t, j, u) /\ WaitsFor(u, k, v) => j < k

\* Only a grant adds to what a request has, and it takes the least that is left.
LEMMA OrderedStep ==
  ASSUME Types, Holders, Ordered, [Next]_vars
  PROVE  Ordered'
<1> USE CommandAssumption, AncestorAssumption DEF Remaining, Requests
<1>1. ASSUME NEW t \in Task, NEW K \in Command, LockResources(t, K) PROVE Ordered'
  BY <1>1 DEF LockResources, Types, Holders, Ordered, lockVars
<1>2. ASSUME NEW t \in Task, ExcludeMutations(t) PROVE Ordered'
  BY <1>2 DEF ExcludeMutations, Types, Holders, Ordered, lockVars
<1>3. ASSUME NEW t \in Task, EnterGate(t) PROVE Ordered'
  BY <1>3 DEF EnterGate, Types, Holders, Ordered, lockVars
<1>4. ASSUME NEW t \in Task, CloseGate(t) PROVE Ordered'
  BY <1>4 DEF CloseGate, Types, Holders, Ordered, lockVars
<1>5. ASSUME NEW t \in Task, NEW K \in Command, ExecuteBatchExcluded(t, K) PROVE Ordered'
  BY <1>5 DEF ExecuteBatchExcluded, Types, Holders, Ordered, lockVars
<1>6. ASSUME NEW t \in Task, DropExclusion(t) PROVE Ordered'
  BY <1>6 DEF DropExclusion, Types, Holders, Ordered, lockVars
<1>7. ASSUME NEW t \in Task, Resolve(t) PROVE Ordered'
  BY <1>7 DEF Resolve, Types, Holders, Ordered, lockVars
<1>8. ASSUME NEW t \in Task, NEW k \in Key, Enqueue(t, k) PROVE Ordered'
  BY <1>8 DEF Enqueue, Types, Holders, Ordered, lockVars
<1>9. ASSUME NEW t \in Task, NEW k \in Key, Grant(t, k) PROVE Ordered'
  <2>1. k \in Remaining(t) /\ \A j \in Remaining(t) : k <= j
    BY <1>9 DEF Grant, IsLeast
  <2>2. Remaining(t) \subseteq Nat
    BY RequestsAreKeys, KeyAssumption
  <2>3. \A j \in Remaining(t) \ {k} : k < j
    BY <2>1, <2>2
  <2>4. /\ wants' = wants
        /\ got'[t] = got[t] \cup {k}
        /\ \A u \in Task : pc'[u] \in {"acquire", "wait"} => pc[u] \in {"acquire", "wait"}
        /\ \A u \in Task \ {t} : got'[u] = got[u]
    BY <1>9 DEF Grant, Types
  <2>5. \A u \in Task : Requests(u)' = Requests(u)
    BY <2>4
  <2>6. Remaining(t)' = Remaining(t) \ {k} /\ \A u \in Task \ {t} : Remaining(u)' = Remaining(u)
    BY <2>4, <2>5
  <2> HIDE DEF Remaining, Requests
  <2>7. QED
    BY <2>3, <2>4, <2>6 DEF Ordered
<1>10. ASSUME NEW t \in Task, DropGuard(t) PROVE Ordered'
  BY <1>10 DEF DropGuard, Types, Holders, Ordered, lockVars
<1>11. ASSUME NEW t \in Task, NEW k \in Key, ReleaseLock(t, k) PROVE Ordered'
  BY <1>11 DEF ReleaseLock, Types, Holders, Ordered, lockVars
<1>12. ASSUME NEW t \in Task, NEW k \in Key, ReleaseArc(t, k) PROVE Ordered'
  BY <1>12 DEF ReleaseArc, Types, Holders, Ordered, lockVars
<1>13. ASSUME NEW t \in Task, Dropped(t) PROVE Ordered'
  BY <1>13 DEF Dropped, Types, Holders, Ordered, lockVars
<1>14. ASSUME NEW t \in Task, CancelGate(t) PROVE Ordered'
  BY <1>14 DEF CancelGate, Types, Holders, Ordered, lockVars
<1>15. ASSUME NEW t \in Task, CancelWait(t) PROVE Ordered'
  BY <1>15 DEF CancelWait, Types, Holders, Ordered, lockVars
<1>16. CASE UNCHANGED vars
  BY <1>16 DEF vars, Ordered
<1>17. QED
  BY <1>1, <1>2, <1>3, <1>4, <1>5, <1>6, <1>7, <1>8, <1>9, <1>10, <1>11, <1>12, <1>13, <1>14, <1>15, <1>16 DEF Next, Progress

\* Ordered acquisition rules out a deadlock of requests that hold locks,
\* however many there are and however they overlap (lock_resources_excluded).
THEOREM NoCircularWait == Spec => []WaitsClimb
<1>1. Init => Ordered
  BY DEF Init, Ordered
<1>2. Inv /\ Ordered /\ [Next]_vars => Ordered'
  BY OrderedStep DEF Inv
<1>3. Ordered => WaitsClimb
  BY DEF Ordered, WaitsClimb, WaitsFor, IsLeast
<1>4. QED
  BY <1>1, <1>2, <1>3, Safe, PTL DEF Spec

=============================================================================
