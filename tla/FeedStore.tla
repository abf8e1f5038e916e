----------------------------- MODULE FeedStore -----------------------------
(***************************************************************************)
(* The feed database: a private SQLite copy and its publication.           *)
(*                                                                         *)
(* One worker thread runs every command on a private working copy of       *)
(* feeds.db.  After each command it publishes what SQLite appended to the  *)
(* private write-ahead log: the new bytes are copied to the end of the     *)
(* public log and flushed, and the command is answered.  A long log, or    *)
(* one whose header SQLite has rewritten, is checkpointed: the private     *)
(* main file replaces the public one and the public log is removed.  A     *)
(* backup process copies the two public files under the shared generation  *)
(* lock.  The process may be killed, and the power may fail, between any   *)
(* two of these steps.                                                     *)
(*                                                                         *)
(* A log is a sequence of cells: its header, then the cells (stretches of  *)
(* bytes) of the transactions' frames.  A database is the set of the       *)
(* transactions in it.                                                     *)
(*                                                                         *)
(* Source: clep-feeds (store.rs).                                          *)
(***************************************************************************)
EXTENDS Integers, Sequences, FiniteSets

CONSTANTS
  MaxTx,      \* bound on the commands that change the database
  MaxCells,   \* bound on the cells one transaction writes
  Threshold,  \* length of the log at which it is checkpointed
  MaxFaults,  \* bound on failed file operations
  MaxCrashes, \* bound on kills and power losses
  Missing     \* no log at this path

ASSUME FeedStoreAssumption ==
  /\ {MaxTx, MaxCells, Threshold, MaxFaults, MaxCrashes} \subseteq Nat
  /\ MaxCells > 0
  /\ Missing \notin Seq([gen : Nat])

VARIABLES
  main,     \* the public main file: the transactions it holds
  keptMain, \* the one a power loss may bring back
  wal,      \* the public log, or Missing
  keptWal,  \* the log the directory on disk shows, up to what was flushed
  flushed,  \* length of the public log that is on disk
  pmain,    \* the private main file
  pwal,     \* the private log, empty when there is none
  backing,  \* PreparedDatabase: what the worker believes is published
  pc,       \* where the worker is
  tx,       \* the command it runs, 0 while it opens the database
  baseline, \* published state at the start of publish_mutation
  mode,     \* why it checkpoints: "reset" or "full"
  gate,     \* the generation lock: "free", "worker" or "backup"
  backup,   \* the backup: what it has copied
  next,     \* the next transaction
  acked,    \* transactions answered with success
  refused,  \* transactions answered with an error
  carried,  \* refused, left in the private copy because the lock failed
  unsure,   \* refused after a checkpoint published it or when recovery failed
  torn,     \* the log was opened with the rest of a dead append at its end,
            \* and no checkpoint has replaced it
  risk,     \* acknowledged, and lost to the torn log
  faults, crashes

public  == <<main, keptMain, wal, keptWal, flushed>>
private == <<pmain, pwal>>
command == <<tx, baseline, mode>>
answers == <<next, acked, refused, carried, unsure, risk>>
vars == <<public, private, backing, pc, command, gate, backup, answers, torn,
          faults, crashes>>

----------------------------------------------------------------------------
(* What SQLite makes of a main file and a log.                             *)

Header(g, base) ==
  [gen |-> g, tx |-> 0, part |-> 0, of |-> 0, prev |-> 0, base |-> base]

Frames(g, t, n, last) ==
  [i \in 1 .. n |->
    [gen |-> g, tx |-> t, part |-> i, of |-> n, prev |-> last, base |-> {}]]

\* The checksum of a cell covers the salt of the log and all that precedes.
Chained(w, i) ==
  /\ w[i].gen = w[1].gen
  /\ IF w[i].part = 1
     THEN /\ w[i - 1].part = w[i - 1].of
          /\ w[i].prev = w[i - 1].tx
     ELSE w[i].tx = w[i - 1].tx /\ w[i].part = w[i - 1].part + 1

\* The length of the log up to its last whole transaction.
ValidLen(w) ==
  IF w = Missing \/ w = <<>> THEN 0
  ELSE CHOOSE n \in 1 .. Len(w) :
         LET whole(k) == /\ \A i \in 2 .. k : Chained(w, i)
                         /\ w[k].part = w[k].of
         IN whole(n) /\ \A k \in n + 1 .. Len(w) : ~whole(k)

Committed(w) == {w[i].tx : i \in 2 .. ValidLen(w)}

\* The log was begun on a main file `base`; pages of a main file that has
\* gone past the log would be overwritten by older ones.
Mixed == {0}
Database(m, w) ==
  IF Committed(w) = {} THEN m
  ELSE LET all == w[1].base \cup Committed(w)
       IN IF w[1].base \subseteq m /\ m \subseteq all THEN all ELSE Mixed

\* A commit overwrites what follows the last whole transaction; the first
\* one of a log writes a new header.
Over(w, at, cells) ==
  [i \in 1 .. (IF Len(w) > at + Len(cells) THEN Len(w) ELSE at + Len(cells)) |->
     IF i \in at + 1 .. at + Len(cells) THEN cells[i - at] ELSE w[i]]

Written(m, w, t, n) ==
  LET v == ValidLen(w)
  IN IF v <= 1 THEN Over(w, 0, <<Header(t, m)>> \o Frames(t, t, n, 0))
     ELSE Over(w, v, Frames(w[1].gen, t, n, w[v].tx))

----------------------------------------------------------------------------
LenOf(w)    == IF w = Missing THEN 0 ELSE Len(w)
HeaderOf(w) == IF LenOf(w) = 0 THEN 0 ELSE w[1].gen
Copy(w)     == IF w = Missing THEN <<>> ELSE w

Init ==
  /\ main = {} /\ keptMain = {} /\ wal = Missing /\ keptWal = Missing
  /\ flushed = 0 /\ pmain = {} /\ pwal = <<>>
  /\ backing = [len |-> 0, hdr |-> 0, wal |-> FALSE, file |-> {}, same |-> TRUE]
  /\ pc = "down" /\ tx = 0
  /\ baseline = [len |-> 0, hdr |-> 0, wal |-> FALSE] /\ mode = "full"
  /\ gate = "free" /\ backup = [pc |-> "none", main |-> {}, wal |-> Missing]
  /\ next = 1 /\ acked = {} /\ refused = {} /\ carried = {} /\ unsure = {}
  /\ torn = FALSE /\ risk = {} /\ faults = 0 /\ crashes = 0

Fault == faults < MaxFaults /\ faults' = faults + 1
Goto(p) == pc' = p

\* The public log is replaced in place; `flushed` and what is on disk with it.
SetWal(w, n) == wal' = w /\ flushed' = n

\* fsync of the directory: names on disk are the names in the cache.
SyncDir ==
  /\ keptMain' = main
  /\ keptWal' = IF wal = Missing THEN Missing ELSE SubSeq(wal, 1, flushed)

\* rebuild_private_connection: a new working copy of the published files.
Rebuild(b, w) ==
  /\ pmain' = b.file
  /\ pwal' = IF b.wal THEN w ELSE Copy(w)
  /\ backing' = [b EXCEPT !.len = IF b.wal THEN LenOf(w) ELSE 0,
                          !.hdr = IF b.wal THEN HeaderOf(w) ELSE 0]

----------------------------------------------------------------------------
(* The worker.                                                             *)

\* open_connection: what is published is what is found, torn or not.
Open ==
  /\ pc = "down"
  /\ pmain' = main /\ pwal' = Copy(wal)
  /\ backing' = [len |-> LenOf(wal), hdr |-> HeaderOf(wal),
                 wal |-> wal # Missing, file |-> main, same |-> TRUE]
  /\ torn' = (torn \/ (Committed(wal) # {} /\ LenOf(wal) > ValidLen(wal)))
  /\ tx' = 0 /\ Goto("lock")
  /\ UNCHANGED <<public, baseline, mode, gate, backup, answers, faults, crashes>>

\* A command commits in the private copy.
Mutate(n) ==
  /\ pc = "idle" /\ next <= MaxTx
  /\ pwal' = Written(pmain, pwal, next, n)
  /\ tx' = next /\ next' = next + 1 /\ Goto("lock")
  /\ UNCHANGED <<public, pmain, backing, baseline, mode, gate, backup, acked,
                 refused, carried, unsure, risk, torn, faults, crashes>>

\* The command, or the open, fails: the generation lock is given back.
Refuse ==
  /\ refused' = refused \cup ({tx} \ {0})
  /\ gate' = IF gate = "worker" THEN "free" ELSE gate
  /\ Goto(IF tx = 0 THEN "down" ELSE "idle")

LockGeneration ==
  /\ pc = "lock" /\ gate = "free"
  /\ gate' = "worker"
  /\ baseline' = [len |-> backing.len, hdr |-> backing.hdr, wal |-> backing.wal]
  /\ Goto("append")
  /\ UNCHANGED <<public, private, backing, tx, mode, backup, answers, torn,
                 faults, crashes>>

\* The descriptor cannot be cloned or locked: nothing undoes the commit.
LockFails ==
  /\ pc = "lock" /\ Fault
  /\ carried' = carried \cup ({tx} \ {0})
  /\ Refuse
  /\ UNCHANGED <<public, private, backing, command, backup, next, acked, risk,
                 unsure, torn, crashes>>

Answer ==
  /\ acked' = acked \cup ({tx} \ {0})
  /\ gate' = "free"

\* append_private_wal compares lengths and headers.
Unchanged == Len(pwal) = backing.len /\ HeaderOf(pwal) = backing.hdr
Reset == \/ Len(pwal) < backing.len
         \/ Len(pwal) = backing.len /\ HeaderOf(pwal) # backing.hdr
         \/ backing.len > 0 /\ HeaderOf(pwal) # backing.hdr

AppendNothing ==
  /\ pc = "append" /\ Unchanged
  /\ Answer /\ Goto("idle")
  /\ UNCHANGED <<public, private, backing, command, backup, next, refused,
                 carried, unsure, risk, torn, faults, crashes>>

AppendReset ==
  /\ pc = "append" /\ Reset
  /\ mode' = "reset" /\ Goto("ckpt")
  /\ UNCHANGED <<public, private, backing, tx, baseline, gate, backup, answers,
                 torn, faults, crashes>>

\* open_public_wal: O_EXCL, then the directory is flushed.
CreateWal ==
  /\ pc = "append" /\ ~Unchanged /\ ~Reset /\ ~backing.wal
  /\ IF wal = Missing
     THEN /\ SetWal(<<>>, 0)
          /\ backing' = [backing EXCEPT !.wal = TRUE]
          /\ Goto("entry")
     ELSE Goto("restore") /\ UNCHANGED <<wal, flushed, backing>>
  /\ UNCHANGED <<main, keptMain, keptWal, private, command, gate, backup,
                 answers, torn, faults, crashes>>

SyncEntry ==
  /\ pc = "entry"
  /\ \/ SyncDir /\ Goto("write") /\ UNCHANGED faults
     \/ Fault /\ Goto("restore") /\ UNCHANGED <<keptMain, keptWal>>
  /\ UNCHANGED <<main, wal, flushed, private, backing, command, gate, backup,
                 answers, torn, crashes>>

UseWal ==
  /\ pc = "append" /\ ~Unchanged /\ ~Reset /\ backing.wal
  /\ Goto(IF LenOf(wal) = backing.len THEN "write" ELSE "restore")
  /\ UNCHANGED <<public, private, backing, command, gate, backup, answers,
                 torn, faults, crashes>>

\* The bytes past the published length, a buffer at a time.
WriteCell ==
  /\ pc = "write" /\ Len(wal) < Len(pwal)
  /\ \/ /\ SetWal(Append(wal, pwal[Len(wal) + 1]), flushed)
        /\ UNCHANGED <<pc, faults>>
     \/ Fault /\ Goto("restore") /\ UNCHANGED <<wal, flushed>>
  /\ UNCHANGED <<main, keptMain, keptWal, private, backing, command, gate,
                 backup, answers, torn, crashes>>

\* The append counts once it is flushed; a long log is checkpointed.
SyncWal ==
  /\ pc = "write" /\ Len(wal) = Len(pwal)
  /\ \/ /\ SetWal(wal, Len(wal)) /\ keptWal' = wal
        /\ backing' = [backing EXCEPT !.len = Len(pwal), !.hdr = HeaderOf(pwal)]
        /\ IF Len(pwal) >= Threshold
           THEN Goto("ckpt") /\ mode' = "full" /\ UNCHANGED <<acked, gate>>
           ELSE Goto("idle") /\ Answer /\ UNCHANGED mode
        /\ UNCHANGED faults
     \/ /\ Fault /\ Goto("restore")
        /\ UNCHANGED <<wal, flushed, keptWal, backing, acked, gate, mode>>
  /\ UNCHANGED <<main, keptMain, private, tx, baseline, backup, next, refused,
                 carried, unsure, risk, torn, crashes>>

\* The recovery failed too: the worker stops at the next command.
Poison ==
  /\ gate' = "free" /\ Goto(IF tx = 0 THEN "down" ELSE "dead")

\* restore_last_durable_state.
RestoreTruncate ==
  /\ pc = "restore" /\ baseline.wal /\ backing.wal
  /\ SetWal(SubSeq(wal, 1, baseline.len), baseline.len)
  /\ keptWal' = SubSeq(wal, 1, baseline.len)
  /\ Goto("rebuild")
  /\ UNCHANGED <<main, keptMain, private, backing, command, gate, backup,
                 answers, torn, faults, crashes>>

RestoreUnlink ==
  /\ pc = "restore" /\ ~baseline.wal
  /\ IF backing.wal
     THEN /\ SetWal(Missing, 0) /\ keptWal' = Missing /\ keptMain' = main
          /\ backing' = [backing EXCEPT !.wal = FALSE]
     ELSE UNCHANGED <<wal, flushed, keptWal, keptMain, backing>>
  /\ Goto("rebuild")
  /\ UNCHANGED <<main, private, command, gate, backup, answers, torn, faults,
                 crashes>>

\* A call of the recovery fails, or the log to restore is gone.
RestoreFails ==
  /\ pc = "restore"
  /\ IF baseline.wal /\ ~backing.wal THEN UNCHANGED faults ELSE Fault
  /\ \/ UNCHANGED <<wal, flushed>>
     \/ /\ baseline.wal /\ backing.wal
        /\ SetWal(SubSeq(wal, 1, baseline.len), 
                  IF flushed < baseline.len THEN flushed ELSE baseline.len)
     \/ ~baseline.wal /\ backing.wal /\ SetWal(Missing, 0)
  /\ refused' = refused \cup ({tx} \ {0})
  /\ unsure' = unsure \cup ({tx} \ {0})
  /\ Poison
  /\ UNCHANGED <<main, keptMain, keptWal, private, backing, command, backup,
                 next, acked, risk, carried, torn, crashes>>

\* Mutant: the worker goes on with the working copy that has the
\* refused command.
MutantRebuildPrivate ==
  /\ pc = "rebuild" /\ Refuse
  /\ UNCHANGED <<public, private, backing, command, backup, next, acked, risk,
                 carried, unsure, torn, faults, crashes>>

\* The main file must still be the one that was opened.
RebuildPrivate ==
  /\ pc = "rebuild"
  /\ \/ /\ backing.same
        /\ Rebuild([backing EXCEPT !.len = baseline.len, !.hdr = baseline.hdr], wal)
        /\ unsure' = unsure \cup ({tx} \cap main)
        /\ Refuse /\ UNCHANGED faults
     \/ /\ IF backing.same THEN Fault ELSE UNCHANGED faults
        /\ refused' = refused \cup ({tx} \ {0})
        /\ unsure' = unsure \cup ({tx} \ {0})
        /\ Poison /\ UNCHANGED <<private, backing>>
  /\ UNCHANGED <<public, command, backup, next, acked, risk, carried, torn, crashes>>

----------------------------------------------------------------------------
(* checkpoint_private_connection.                                          *)

\* SQLite moves the log into the private main file, which is copied and
\* renamed over the public one.
PublishMain ==
  /\ pc = "ckpt"
  /\ pmain' = Database(pmain, pwal) /\ pwal' = <<>>
  /\ \/ /\ main' = pmain' /\ Goto("mainsync")
        /\ backing' = [backing EXCEPT !.same = FALSE] /\ UNCHANGED faults
     \/ Fault /\ Goto("failed") /\ UNCHANGED <<main, backing>>
  /\ UNCHANGED <<keptMain, wal, keptWal, flushed, command, gate, backup,
                 answers, torn, crashes>>

\* Mutant: the log is removed before the new main file is on disk.
MutantSyncMain ==
  /\ pc = "mainsync"
  /\ Goto("unlink")
  /\ backing' = [backing EXCEPT !.file = main, !.same = TRUE]
  /\ UNCHANGED <<public, private, command, gate, backup, answers,
                 torn, faults, crashes>>

SyncMain ==
  /\ pc = "mainsync"
  /\ \/ /\ SyncDir /\ Goto("unlink") /\ UNCHANGED faults
        /\ backing' = [backing EXCEPT !.file = main, !.same = TRUE]
     \/ Fault /\ Goto("failed") /\ UNCHANGED <<keptMain, keptWal, backing>>
  /\ UNCHANGED <<main, wal, flushed, private, command, gate, backup, answers,
                 torn, crashes>>

UnlinkWal ==
  /\ pc = "unlink"
  /\ \/ /\ SetWal(Missing, 0) /\ Goto("clean") /\ UNCHANGED faults
        /\ backing' = [backing EXCEPT !.wal = FALSE]
     \/ /\ Fault /\ Goto("recover") /\ UNCHANGED <<wal, flushed, backing>>
  /\ UNCHANGED <<main, keptMain, keptWal, private, command, gate, backup,
                 answers, torn, crashes>>

\* The removal is on disk; what the worker believes published is reset.
SyncUnlink ==
  /\ pc = "clean"
  /\ \/ /\ SyncDir /\ Answer /\ Goto("idle") /\ UNCHANGED faults
        /\ backing' = [backing EXCEPT !.len = 0, !.hdr = 0]
        /\ torn' = FALSE /\ risk' = IF torn THEN acked' \ main ELSE risk
     \/ /\ Fault /\ Goto("recover")
        /\ UNCHANGED <<keptMain, keptWal, backing, acked, risk, gate, torn>>
  /\ UNCHANGED <<main, wal, flushed, private, command, backup, next, refused,
                 carried, unsure, crashes>>

\* A failed clean-up reopens what is published and goes on.
Recover ==
  /\ pc = "recover"
  /\ \/ Rebuild(backing, wal) /\ Answer /\ Goto("idle") /\ UNCHANGED faults
     \/ Fault /\ Goto("failed") /\ UNCHANGED <<private, backing, acked, gate>>
  /\ UNCHANGED <<public, command, backup, next, refused, carried, unsure, risk, torn,
                 crashes>>

\* A checkpoint after an append is not needed for the answer; one that
\* publishes the command itself is.
CheckpointFailed ==
  /\ pc = "failed"
  /\ \/ /\ mode = "reset" /\ Goto("restore")
        /\ UNCHANGED <<private, backing, acked, gate, faults>>
     \/ /\ mode = "full" /\ Rebuild(backing, wal)
        /\ Answer /\ Goto("idle") /\ UNCHANGED faults
     \/ /\ mode = "full" /\ Fault /\ Answer /\ Goto("dead")
        /\ UNCHANGED <<private, backing>>
  /\ UNCHANGED <<public, command, backup, next, refused, carried, unsure, risk, torn,
                 crashes>>

----------------------------------------------------------------------------
(* The end of the process, and what the disk keeps.                        *)

Stopped ==
  /\ Goto("down") /\ tx' = 0 /\ mode' = "full"
  /\ pmain' = {} /\ pwal' = <<>>
  /\ baseline' = [len |-> 0, hdr |-> 0, wal |-> FALSE]
  /\ backing' = [len |-> 0, hdr |-> 0, wal |-> FALSE, file |-> {}, same |-> TRUE]
  /\ gate' = IF gate = "worker" THEN "free" ELSE gate
  /\ UNCHANGED <<backup, answers, torn, faults>>

\* Shutdown, or the restart of a server whose worker has stopped.
Shutdown ==
  /\ pc \in {"idle", "dead"} /\ Stopped
  /\ UNCHANGED <<public, crashes>>

Kill ==
  /\ pc # "down" /\ crashes < MaxCrashes /\ crashes' = crashes + 1
  /\ Stopped /\ UNCHANGED public

\* Any prefix past the flushed one may have reached the disk.
Survivors ==
  {keptWal} \cup (IF wal = Missing THEN {Missing}
                  ELSE {SubSeq(wal, 1, k) : k \in flushed .. Len(wal)})

PowerLoss ==
  /\ crashes < MaxCrashes /\ crashes' = crashes + 1
  /\ main' \in {main, keptMain} /\ keptMain' = main'
  /\ wal' \in Survivors /\ keptWal' = wal' /\ flushed' = LenOf(wal')
  /\ Goto("down") /\ tx' = 0 /\ mode' = "full"
  /\ pmain' = {} /\ pwal' = <<>>
  /\ baseline' = [len |-> 0, hdr |-> 0, wal |-> FALSE]
  /\ backing' = [len |-> 0, hdr |-> 0, wal |-> FALSE, file |-> {}, same |-> TRUE]
  /\ gate' = "free" /\ backup' = [pc |-> "none", main |-> {}, wal |-> Missing]
  /\ UNCHANGED <<answers, torn, faults>>

----------------------------------------------------------------------------
(* The backup: snapshot_database_file under the shared lock.               *)

\* Mutant: the backup copies without the generation lock.
MutantLockBackup ==
  /\ backup.pc = "none" /\ backup' = [backup EXCEPT !.pc = "main"]
  /\ UNCHANGED <<public, private, backing, pc, command, answers, gate, torn,
                 faults, crashes>>

LockBackup ==
  /\ backup.pc = "none" /\ gate = "free"
  /\ gate' = "backup" /\ backup' = [backup EXCEPT !.pc = "main"]
  /\ UNCHANGED <<public, private, backing, pc, command, answers, torn, faults,
                 crashes>>

CopyMain ==
  /\ backup.pc = "main"
  /\ backup' = [backup EXCEPT !.pc = "wal", !.main = main]
  /\ UNCHANGED <<public, private, backing, pc, command, gate, answers, torn,
                 faults, crashes>>

CopyWal ==
  /\ backup.pc = "wal"
  /\ backup' = [backup EXCEPT !.pc = "copied", !.wal = wal]
  /\ UNCHANGED <<public, private, backing, pc, command, gate, answers, torn,
                 faults, crashes>>

FinishBackup ==
  /\ backup.pc = "copied"
  /\ backup' = [pc |-> "none", main |-> {}, wal |-> Missing]
  /\ gate' = IF gate = "backup" THEN "free" ELSE gate
  /\ UNCHANGED <<public, private, backing, pc, command, answers, torn, faults,
                 crashes>>

Next ==
  \/ Open \/ LockGeneration \/ LockFails \/ AppendNothing \/ AppendReset
  \/ CreateWal \/ SyncEntry \/ UseWal \/ WriteCell \/ SyncWal
  \/ RestoreTruncate \/ RestoreUnlink \/ RestoreFails \/ RebuildPrivate
  \/ PublishMain \/ SyncMain \/ UnlinkWal \/ SyncUnlink \/ Recover
  \/ CheckpointFailed \/ Shutdown \/ Kill \/ PowerLoss
  \/ LockBackup \/ CopyMain \/ CopyWal \/ FinishBackup
  \/ \E n \in 1 .. MaxCells : Mutate(n)

Spec == Init /\ [][Next]_vars

----------------------------------------------------------------------------
(* Properties.                                                             *)

\* What is kept of a command that succeeded, whatever the power does next:
\* every combination of files the disk may show gives a database with every
\* acknowledged command, unless the log was opened with a torn end.
AckedIsDurable ==
  \A m \in {main, keptMain}, w \in Survivors :
    torn \/ acked \ risk \subseteq Database(m, w)

\* A command that failed is in none of them, once the worker has gone back
\* to the published state (publish_mutation's error path), unless the lock
\* itself failed, or the recovery did, or a checkpoint had published it.
RefusedIsGone ==
  \A m \in {main, keptMain}, w \in Survivors :
    Database(m, w) \cap (refused \ (carried \cup unsure)) = {}

\* An answer is true of the disk: what was acknowledged is in every database
\* a power loss may leave, what was refused in none (publish_mutation).
AnswersAreTrue == AckedIsDurable /\ RefusedIsGone

\* Between commands the worker answers reads from exactly what a restart
\* would find.
LiveIsDurable ==
  pc = "idle" /\ ~torn /\ carried = {} =>
    Database(pmain, pwal) = Database(main, wal)

\* The two files a backup copies belong together: it holds every command
\* acknowledged before it and none that failed.
BackupIsWhole ==
  backup.pc = "copied" /\ ~torn =>
    /\ Database(backup.main, backup.wal) = Database(main, wal)
    /\ acked \ risk \subseteq Database(backup.main, backup.wal)

(***************************************************************************)
(* What docs, comments or tests say and the code does not keep: see        *)
(* "Known divergences" in the README.                                      *)
(***************************************************************************)
\* The claim of the tests, without the exception for a torn log: "successful
\* patch must durably publish WAL bytes" (store.rs:3565).
SuccessIsPublished == acked \subseteq Database(main, wal)
=============================================================================
