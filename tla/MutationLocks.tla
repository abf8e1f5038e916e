--------------------------- MODULE MutationLocks ---------------------------
(***************************************************************************)
(* The locks of crates/clep-mutate/src/mutation_coordinator.rs.  A         *)
(* mutation takes the coordinator's gate shared, looks up one lock object  *)
(* per key in a table of weak references, and takes the locks in key       *)
(* order: the paths it changes exclusively, the folders above them shared. *)
(* Whoever needs the vault to stand still takes the gate exclusively, and  *)
(* may then run one batch under it, which takes its path locks only.       *)
(*                                                                         *)
(* The table is under a mutex; the Arcs of running mutations are dropped   *)
(* outside of it, one by one, at any moment.  A request whose client has   *)
(* gone is dropped while it waits.  The lock objects are tokio's RwLock:   *)
(* requests are granted first come, first served.                          *)
(***************************************************************************)
EXTENDS Integers, Sequences

CONSTANTS
    Task,        \* requests being served
    Key,         \* paths and rubbish items, numbered in the order of MutationLockKey::cmp
    Ancestors,   \* the folders above a key (none for a rubbish item)
    Command,     \* the sets of keys a mutation may ask for
    LockId,      \* names of a key's lock objects, reused once nobody refers to them
    NoLock       \* no lock object

ASSUME KeyAssumption == Key \subseteq Nat
ASSUME AncestorAssumption ==
    Ancestors \in [Key -> SUBSET Key] /\ \A k \in Key : \A a \in Ancestors[k] : a < k
ASSUME CommandAssumption == Command \subseteq (SUBSET Key) \ {{}}
ASSUME NoLockAssumption == NoLock \notin LockId

VARIABLES
    pc,      \* pc[t]: where the request is
    wants,   \* wants[t]: the keys it changes
    gate,    \* gate[t]: its hold on the gate: "no", "read", "write"
    gateQ,   \* requests waiting for the gate, oldest first
    arc,     \* arc[t][k]: the lock object of key k it refers to
    got,     \* got[t]: the keys it has locked
    table,   \* table[k]: the weak reference the table holds for key k
    queue    \* queue[k][n]: requests waiting for object n of key k, oldest first

vars == <<pc, wants, gate, gateQ, arc, got, table, queue>>
lockVars == <<arc, got, table, queue>>

(***************************************************************************)
(* What a request locks.                                                   *)
(***************************************************************************)
Requests(t) == wants[t] \cup UNION {Ancestors[k] : k \in wants[t]}

Writes(t, k) == k \in wants[t]

\* strong_count() # 0: somebody still holds the object, it can be upgraded.
Alive(k, n) == n # NoLock /\ \E t \in Task : arc[t][k] = n

\* The object is freed once neither an Arc nor the table entry refers to it.
Freed(k, n) == ~Alive(k, n) /\ table[k] # n

IsLeast(k, S) == k \in S /\ \A j \in S : k <= j

Init ==
    /\ pc = [t \in Task |-> "idle"]
    /\ wants = [t \in Task |-> {}]
    /\ gate = [t \in Task |-> "no"]
    /\ gateQ = <<>>
    /\ arc = [t \in Task |-> [k \in Key |-> NoLock]]
    /\ got = [t \in Task |-> {}]
    /\ table = [k \in Key |-> NoLock]
    /\ queue = [k \in Key |-> [n \in LockId |-> <<>>]]

(***************************************************************************)
(* The gate.                                                               *)
(***************************************************************************)
\* lock_resources: mutation_gate.read_owned().
LockResources(t, K) ==
    /\ pc[t] = "idle"
    /\ pc' = [pc EXCEPT ![t] = "readGate"]
    /\ wants' = [wants EXCEPT ![t] = K]
    /\ gateQ' = Append(gateQ, t)
    /\ UNCHANGED <<gate, lockVars>>

\* exclude_mutations: mutation_gate.write_owned().
ExcludeMutations(t) ==
    /\ pc[t] = "idle"
    /\ pc' = [pc EXCEPT ![t] = "writeGate"]
    /\ gateQ' = Append(gateQ, t)
    /\ UNCHANGED <<wants, gate, lockVars>>

EnterGate(t) ==
    /\ pc[t] = "readGate"
    /\ gateQ # <<>> /\ Head(gateQ) = t
    /\ \A u \in Task : gate[u] # "write"
    /\ gate' = [gate EXCEPT ![t] = "read"]
    /\ gateQ' = Tail(gateQ)
    /\ pc' = [pc EXCEPT ![t] = "table"]
    /\ UNCHANGED <<wants, lockVars>>

CloseGate(t) ==
    /\ pc[t] = "writeGate"
    /\ gateQ # <<>> /\ Head(gateQ) = t
    /\ \A u \in Task : gate[u] = "no"
    /\ gate' = [gate EXCEPT ![t] = "write"]
    /\ gateQ' = Tail(gateQ)
    /\ pc' = [pc EXCEPT ![t] = "excluded"]
    /\ UNCHANGED <<wants, lockVars>>

\* Mutant: the batch asks for the gate its own exclusion closes.
MutantGateTwice(t, K) ==
    /\ pc[t] = "excluded"
    /\ pc' = [pc EXCEPT ![t] = "readGate"]
    /\ wants' = [wants EXCEPT ![t] = K]
    /\ gateQ' = Append(gateQ, t)
    /\ UNCHANGED <<gate, lockVars>>

\* execute_batch_excluded: the exclusion moves into the batch, which takes its
\* path locks without the gate.
ExecuteBatchExcluded(t, K) ==
    /\ pc[t] = "excluded"
    /\ pc' = [pc EXCEPT ![t] = "table"]
    /\ wants' = [wants EXCEPT ![t] = K]
    /\ UNCHANGED <<gate, gateQ, lockVars>>

\* The exclusion is dropped with no batch run under it.
DropExclusion(t) ==
    /\ pc[t] = "excluded"
    /\ pc' = [pc EXCEPT ![t] = "idle"]
    /\ gate' = [gate EXCEPT ![t] = "no"]
    /\ UNCHANGED <<wants, gateQ, lockVars>>

(***************************************************************************)
(* The table's critical section: prune the dead references, then upgrade   *)
(* or renew the reference of every requested key.  An Arc dropped          *)
(* meanwhile counts as dropped before the section or after it: the drop    *)
(* concerns one key, and commutes with the lookups of the others.          *)
(***************************************************************************)
\* Mutant: an entry is pruned although somebody still uses its object.
MutantPruned(k) == NoLock

Pruned(k) == IF Alive(k, table[k]) THEN table[k] ELSE NoLock

\* The new object is one that nobody refers to; one such stands for all.
NewLock(k) == CHOOSE n \in LockId : Freed(k, n)

Resolved(k) == IF Pruned(k) # NoLock THEN Pruned(k) ELSE NewLock(k)

Resolve(t) ==
    /\ pc[t] = "table"
    /\ \A k \in Requests(t) : Pruned(k) = NoLock => \E n \in LockId : Freed(k, n)
    /\ table' = [k \in Key |-> IF k \in Requests(t) THEN Resolved(k) ELSE Pruned(k)]
    /\ arc' = [arc EXCEPT ![t] = [k \in Key |-> IF k \in Requests(t) THEN Resolved(k) ELSE NoLock]]
    /\ pc' = [pc EXCEPT ![t] = "acquire"]
    /\ UNCHANGED <<wants, gate, gateQ, got, queue>>

(***************************************************************************)
(* Taking the locks, in key order.                                         *)
(***************************************************************************)
Remaining(t) == Requests(t) \ got[t]

\* write_owned() or read_owned() is polled for the first time.
Enqueue(t, k) ==
    /\ pc[t] = "acquire"
    /\ IsLeast(k, Remaining(t))
    /\ queue' = [queue EXCEPT ![k][arc[t][k]] = Append(@, t)]
    /\ pc' = [pc EXCEPT ![t] = "wait"]
    /\ UNCHANGED <<wants, gate, gateQ, arc, got, table>>

\* Whoever holds the object shares it, and the request only reads.
Compatible(t, k) ==
    \A u \in Task :
        (k \in got[u] /\ arc[u][k] = arc[t][k]) => ~Writes(u, k) /\ ~Writes(t, k)

Grant(t, k) ==
    /\ pc[t] = "wait"
    /\ IsLeast(k, Remaining(t))
    /\ queue[k][arc[t][k]] # <<>> /\ Head(queue[k][arc[t][k]]) = t
    /\ Compatible(t, k)
    /\ queue' = [queue EXCEPT ![k][arc[t][k]] = Tail(@)]
    /\ got' = [got EXCEPT ![t] = @ \cup {k}]
    /\ pc' = [pc EXCEPT ![t] = IF Remaining(t) = {k} THEN "held" ELSE "acquire"]
    /\ UNCHANGED <<wants, gate, gateQ, arc, table>>

(***************************************************************************)
(* Dropping a MutationGuard, in the order of its fields: the gate or the   *)
(* exclusion, the lock guards, the Arcs.                                   *)
(***************************************************************************)
DropGuard(t) ==
    /\ pc[t] = "held"
    /\ pc' = [pc EXCEPT ![t] = "drop"]
    /\ gate' = [gate EXCEPT ![t] = "no"]
    /\ UNCHANGED <<wants, gateQ, lockVars>>

ReleaseLock(t, k) ==
    /\ pc[t] \in {"drop", "cancel"}
    /\ IsLeast(k, got[t])
    /\ got' = [got EXCEPT ![t] = @ \ {k}]
    /\ UNCHANGED <<pc, wants, gate, gateQ, arc, table, queue>>

ReleaseArc(t, k) ==
    /\ pc[t] \in {"drop", "cancel"}
    /\ got[t] = {}
    /\ IsLeast(k, {j \in Key : arc[t][j] # NoLock})
    /\ arc' = [arc EXCEPT ![t][k] = NoLock]
    /\ UNCHANGED <<pc, wants, gate, gateQ, got, table, queue>>

\* The last Arc is gone; a cancelled request gives the gate back only now.
Dropped(t) ==
    /\ pc[t] \in {"drop", "cancel"}
    /\ got[t] = {} /\ \A k \in Key : arc[t][k] = NoLock
    /\ pc' = [pc EXCEPT ![t] = "idle"]
    /\ gate' = [gate EXCEPT ![t] = "no"]
    /\ wants' = [wants EXCEPT ![t] = {}]
    /\ UNCHANGED <<gateQ, lockVars>>

(***************************************************************************)
(* The client goes away while the request waits: its future is dropped,    *)
(* leaves the queue it is in, and drops what it had taken so far.          *)
(***************************************************************************)
Without(q, t) == SelectSeq(q, LAMBDA u : u # t)

CancelGate(t) ==
    /\ pc[t] \in {"readGate", "writeGate"}
    /\ gateQ' = Without(gateQ, t)
    /\ pc' = [pc EXCEPT ![t] = "idle"]
    /\ wants' = [wants EXCEPT ![t] = {}]
    /\ UNCHANGED <<gate, lockVars>>

CancelWait(t) ==
    /\ pc[t] = "wait"
    /\ queue' = [k \in Key |-> [n \in LockId |-> Without(queue[k][n], t)]]
    /\ pc' = [pc EXCEPT ![t] = "cancel"]
    /\ UNCHANGED <<wants, gate, gateQ, arc, got, table>>

\* What a request does once it has been made.
Progress(t) ==
    \/ EnterGate(t)
    \/ CloseGate(t)
    \/ Resolve(t)
    \/ DropExclusion(t)
    \/ DropGuard(t)
    \/ Dropped(t)
    \/ \E k \in Key :
        \/ Enqueue(t, k)
        \/ Grant(t, k)
        \/ ReleaseLock(t, k)
        \/ ReleaseArc(t, k)

Next ==
    \E t \in Task :
        \/ \E K \in Command : LockResources(t, K) \/ ExecuteBatchExcluded(t, K)
        \/ ExcludeMutations(t)
        \/ Progress(t)
        \/ CancelGate(t)
        \/ CancelWait(t)

\* The runtime polls every task that can go on, and a mutation's file and index
\* work ends.
Fairness == \A t \in Task : WF_vars(Progress(t))

Spec == Init /\ [][Next]_vars

FairSpec == Spec /\ Fairness

(***************************************************************************)
(* Properties.                                                             *)
(***************************************************************************)
PcValue == {"idle", "readGate", "writeGate", "excluded", "table",
            "acquire", "wait", "held", "drop", "cancel"}

\* The variables have their types (MutationCoordinator's fields, the locals of
\* lock_resources_excluded).
TypeOK ==
    /\ pc \in [Task -> PcValue]
    /\ wants \in [Task -> SUBSET Key]
    /\ gate \in [Task -> {"no", "read", "write"}]
    /\ gateQ \in Seq(Task)
    /\ arc \in [Task -> [Key -> LockId \cup {NoLock}]]
    /\ got \in [Task -> SUBSET Key]
    /\ table \in [Key -> LockId \cup {NoLock}]
    /\ queue \in [Key -> [LockId -> Seq(Task)]]

\* Two requests never use two lock objects for one key, whatever the pruning
\* of the table by strong_count interleaves with: the identity the whole
\* scheme rests on (lock_resources_excluded, table.retain and Weak::upgrade).
OneLockPerKey ==
    \A t, u \in Task, k \in Key :
        (arc[t][k] # NoLock /\ arc[u][k] # NoLock) => arc[t][k] = arc[u][k]

\* Two mutations that run together touch neither the same path nor a folder
\* and something below it ("a folder deletion excludes all descendants",
\* lock_paths).
SubtreeExclusion ==
    \A t, u \in Task : (t # u /\ pc[t] = "held" /\ pc[u] = "held") =>
        \A j \in wants[t], k \in wants[u] : j # k /\ j \notin Ancestors[k]

\* While one request holds the exclusion (exclude_mutations), through the
\* batch it runs under it, no other request is between having its locks and
\* the end of its work.
ExclusionIsAlone ==
    \A t, u \in Task : (t # u /\ gate[t] = "write") => pc[u] \notin {"held", "excluded"}

\* Mutations exclude one another as the coordinator promises: one lock object
\* per key, no two running mutations on one path or on a folder and its
\* descendant, and nobody beside an exclusion (lock_resources_excluded,
\* exclude_mutations, execute_batch_excluded).
Exclusion ==
    /\ OneLockPerKey
    /\ SubtreeExclusion
    /\ ExclusionIsAlone

\* Every request gets its locks (or its client leaves): ordered acquisition
\* rules out a cycle of requests that hold and wait, and the queues let no
\* request starve, not even one that locks many paths (lock_resources_excluded).
NoStarvation ==
    \A t \in Task :
        pc[t] \in {"readGate", "writeGate", "table", "acquire", "wait"}
            ~> pc[t] \in {"held", "excluded", "cancel", "idle"}

=============================================================================
