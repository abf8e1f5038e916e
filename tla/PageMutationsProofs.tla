------------------------ MODULE PageMutationsProofs ------------------------
(***************************************************************************)
(* Proofs about PageMutations, for any paths, folders and first files, any *)
(* number of requests and of commands.                                     *)
(***************************************************************************)
EXTENDS PageMutations, TLAPS

CreatePc == {"publishCreate", "indexCreate", "rollback", "rollbackPartial", "compensate"}
UpdatePc == {"compare", "prepare", "publish", "index", "follow"}
MovePc == {"publishMove", "indexMove"}
FolderPc == {"snapshot", "removeDir", "indexDelete"}
ReadPc == {"confirm", "read"}
Pcs == {"idle", "lock"} \cup CreatePc \cup UpdatePc \cup MovePc \cup FolderPc \cup ReadPc

Requests ==
    [op : {"none", "create", "update", "move", "deleteFolder", "read"},
     path : Path \cup {Nothing}, dest : Path \cup {Nothing}, content : Entry,
     expected : [Path -> Entry], id : Page \cup {Nothing}, tries : Nat, rows : SUBSET Path]

Results == {"none", "done", "absent", "vanished", "unstable", "unavailable",
            "stale", "conflict", "failed"}

\* The types the argument depends on.
Types ==
    /\ files \in [Path -> Entry]
    /\ index \in [Path -> Entry]
    /\ events \subseteq Path
    /\ work \in 0..MaxWork
    /\ pc \in [Task -> Pcs]
    /\ req \in [Task -> Requests]
    /\ held \in [Task -> SUBSET Path]
    /\ result \in [Task -> Results]
    /\ wHeld \subseteq Path

\* Nobody else has locked what somebody has.
Locks ==
    \A t \in Task : /\ held[t] \cap wHeld = {}
                    /\ \A u \in Task \ {t} : held[t] \cap held[u] = {}

\* The request in hand fits the place it is at, and its locks are held.
Fits(t) ==
    /\ req[t].op = "none" <=> pc[t] = "idle"
    /\ pc[t] \in CreatePc => req[t].op = "create"
    /\ pc[t] \in UpdatePc => req[t].op = "update"
    /\ pc[t] \in MovePc => req[t].op = "move"
    /\ pc[t] \in FolderPc => req[t].op = "deleteFolder"
    /\ pc[t] \in ReadPc => req[t].op = "read"
    /\ req[t].op \in {"create", "update", "move", "read"} => req[t].path \in Path
    /\ req[t].op \in {"create", "update"} => req[t].content # Nothing
    /\ req[t].op \in {"move", "deleteFolder", "read"} => req[t].content = Nothing
    /\ req[t].op \in {"update", "move"} => req[t].dest # req[t].path
    /\ req[t].op = "move" =>
         /\ req[t].dest \in Path
         /\ {req[t].path, req[t].dest} \subseteq req[t].rows
         /\ req[t].expected[req[t].dest] = Nothing
         /\ \A r \in req[t].rows \ {req[t].dest} : req[t].expected[r] # Nothing
    /\ pc[t] = "follow" => req[t].dest \in Path
    /\ pc[t] \in {"removeDir", "indexDelete"} => req[t].rows \subseteq Folder
    /\ pc[t] \in {"idle", "lock"} => held[t] = {}
    /\ pc[t] \notin {"idle", "lock"} => Wanted(t) \subseteq held[t]
    /\ pc[t] # "idle" => result[t] = "none"

Refused(t) == pc[t] = "idle" /\ result[t] \in {"stale", "conflict", "failed"}

\* No file is the writing of the given number.
NoFileOf(ver) == \A p \in Path : files[p] # Nothing => files[p].ver # ver

\* A command's content is in the vault exactly between its publication and its
\* removal, and, while its path is locked, only there.
Writing(t) ==
    req[t].content # Nothing =>
      LET c == req[t].content IN
      /\ c.ver \in 1..work
      /\ (\/ pc[t] \in {"lock", "publishCreate", "compare", "prepare", "publish", "compensate"}
          \/ Refused(t)) => NoFileOf(c.ver)
      /\ pc[t] \in {"indexCreate", "rollback", "rollbackPartial"} =>
           \A p \in Path : files[p] # Nothing /\ files[p].ver = c.ver => p = req[t].path
      /\ req[t].op = "create" => c.id = c.ver
      /\ req[t].op = "create" /\ pc[t] \in {"lock", "publishCreate"} =>
           \A p \in Path : files[p] # Nothing => files[p].id # c.id

\* What a command has found out about its files stays true: nobody without the
\* lock removes the file or changes whose it is, and nobody creates one.
Found(t) ==
    LET f == files[req[t].path] IN
    /\ pc[t] \in {"prepare", "publish"} =>
         /\ f # Nothing /\ f.id = req[t].content.id
         /\ f = req[t].expected[req[t].path] \/ f.by = "editor" \/ req[t].path \in crossed
    /\ req[t].op = "update" =>
         req[t].expected[req[t].path] # Nothing
         /\ req[t].expected[req[t].path].id = req[t].content.id
    /\ pc[t] = "compensate" => f = Nothing \/ req[t].path \in crossed
    /\ pc[t] = "indexDelete" => \A p \in Folder : files[p] = Nothing \/ p \in crossed

\* No two commands write under one number.
Numbers ==
    /\ \A t, u \in Task :
         (t # u /\ req[t].content # Nothing /\ req[u].content # Nothing)
            => req[t].content.ver # req[u].content.ver
    /\ \A p \in Path : files[p] # Nothing =>
         files[p].id \in FirstPage \cup 1..work /\ files[p].ver \in 0..work

\* The rows of the index belong to different pages: the id is the primary key.
OneRowPerPage ==
    \A p, q \in Path :
        (p # q /\ index[p] # Nothing /\ index[q] # Nothing) => index[p].id # index[q].id

Inv ==
    /\ Types /\ Locks /\ Numbers
    /\ \A t \in Task : Fits(t) /\ Writing(t) /\ Found(t)
    /\ OneFilePerPage /\ OneRowPerPage /\ IndexFollowsFiles

-----------------------------------------------------------------------------
(* What the steps do to the requests.                                      *)

\* The step is one of request t: it leaves the other requests alone.
TaskFrame(t) ==
    /\ pc' \in [Task -> Pcs]
    /\ req' \in [Task -> Requests]
    /\ held' \in [Task -> SUBSET Path]
    /\ result' \in [Task -> Results]
    /\ \A u \in Task \ {t} : /\ pc'[u] = pc[u] /\ req'[u] = req[u]
                             /\ held'[u] = held[u] /\ result'[u] = result[u]

\* Request t takes no lock that somebody has, and no number given out before.
Claims(t) ==
    /\ UNCHANGED wHeld
    /\ held'[t] \subseteq held[t] \/ held'[t] \cap LockedByOthers(t) = {}
    /\ \/ req'[t].content \in {Nothing, req[t].content}
       \/ work' = work + 1 /\ req'[t].content.ver = work'

\* The empty request is one.
LEMMA EmptyRequest ==
  NoReq \in Requests /\ NoReq.op = "none" /\ NoReq.content = Nothing
BY DEF NoReq, Requests, Entry

\* An answered request is idle and holds no path.
LEMMA FinishEffect ==
  ASSUME Types, NEW t \in Task, NEW answer \in Results, Finish(t, answer)
  PROVE  /\ TaskFrame(t)
         /\ pc'[t] = "idle" /\ held'[t] = {} /\ result'[t] = answer
         /\ req'[t].op = "none"
         /\ answer \in Answered => req'[t].content = Nothing
         /\ answer \notin Answered => req'[t].content = req[t].content
<1>1. req[t].content \in Entry
  BY DEF Types, Requests
<1>2. PICK c \in Entry : /\ req' = [req EXCEPT ![t] = [NoReq EXCEPT !.content = c]]
                         /\ answer \in Answered => c = Nothing
                         /\ answer \notin Answered => c = req[t].content
  BY <1>1 DEF Finish, Entry
<1>3. /\ [NoReq EXCEPT !.content = c] \in Requests
      /\ [NoReq EXCEPT !.content = c].op = "none"
      /\ [NoReq EXCEPT !.content = c].content = c
  BY DEF NoReq, Requests, Entry
<1>4. req' \in [Task -> Requests] /\ req'[t].op = "none" /\ req'[t].content = c
  BY <1>2, <1>3 DEF Types
<1>5. /\ pc' = [pc EXCEPT ![t] = "idle"] /\ held' = [held EXCEPT ![t] = {}]
      /\ result' = [result EXCEPT ![t] = answer]
  BY DEF Finish, Goto
<1>6. QED
  BY <1>2, <1>4, <1>5 DEF Types, TaskFrame, Pcs

\* Moving on changes where a request is and nothing else of it.
LEMMA GotoEffect ==
  ASSUME Types, NEW t \in Task, NEW label \in Pcs, Goto(t, label), UNCHANGED <<req, held, result>>
  PROVE  /\ TaskFrame(t)
         /\ pc'[t] = label /\ held'[t] = held[t] /\ result'[t] = result[t] /\ req'[t] = req[t]
BY DEF Types, TaskFrame, Goto

\* A creation begins with a new version and expects nothing at its path.
LEMMA BeginCreateEffect ==
  ASSUME Types, NEW t \in Task, NEW p \in Path, BeginCreate(t, p)
  PROVE  /\ TaskFrame(t)
         /\ pc[t] = "idle" /\ pc'[t] = "lock" /\ held'[t] = held[t] /\ result'[t] = "none"
         /\ work' = work + 1 /\ work' \in 0..MaxWork
         /\ req'[t].op = "create" /\ req'[t].path = p
         /\ req'[t].content \in Content
         /\ req'[t].content.id = work' /\ req'[t].content.ver = work'
<1>1. work \in 0..MaxWork /\ work < MaxWork /\ work' = work + 1
  BY DEF Types, BeginCreate, Begins
<1> DEFINE c == [id |-> work + 1, ver |-> work + 1, filed |-> FALSE, link |-> Nothing, by |-> "server"]
<1>2. c \in Content /\ c.id = work + 1 /\ c.ver = work + 1
  BY <1>1, BoundAssumption DEF Content, Page
<1> DEFINE q == [NoReq EXCEPT !.op = "create", !.path = p, !.content = c]
<1>3. q \in Requests /\ q.op = "create" /\ q.path = p /\ q.content = c
  BY <1>2 DEF NoReq, Requests, Entry
<1>4. req' = [req EXCEPT ![t] = q] /\ pc[t] = "idle" /\ pc' = [pc EXCEPT ![t] = "lock"]
      /\ held' = held /\ result' = [result EXCEPT ![t] = "none"]
  BY DEF BeginCreate, Begins, Goto
<1> HIDE DEF q, c
<1>5. req' \in [Task -> Requests] /\ req'[t] = q /\ \A u \in Task \ {t} : req'[u] = req[u]
  BY <1>3, <1>4 DEF Types
<1>6. QED
  BY <1>1, <1>2, <1>3, <1>4, <1>5, BoundAssumption DEF Types, TaskFrame, Pcs, Results

\* An update begins with a new version and expects what its caller read.
LEMMA BeginUpdateEffect ==
  ASSUME Types, NEW t \in Task, NEW p \in Path, NEW assign \in BOOLEAN, BeginUpdate(t, p, assign)
  PROVE  /\ TaskFrame(t)
         /\ pc[t] = "idle" /\ pc'[t] = "lock" /\ held'[t] = held[t] /\ result'[t] = "none"
         /\ work' = work + 1 /\ work' \in 0..MaxWork
         /\ req'[t].op = "update" /\ req'[t].path = p /\ req'[t].dest # p
         /\ req'[t].content \in Content /\ req'[t].content.ver = work'
         /\ files[p] # Nothing /\ req'[t].expected[p] = files[p]
         /\ req'[t].content.id = files[p].id
<1>1. work \in 0..MaxWork /\ work < MaxWork /\ work' = work + 1 /\ files[p] \in Content
  BY DEF Types, BeginUpdate, Begins, Entry
<1> DEFINE c == [files[p] EXCEPT !.ver = work + 1, !.filed = @ \/ assign, !.by = "server"]
<1> DEFINE d == IF assign THEN ProjectPath(p, c) ELSE Nothing
<1> DEFINE q == [NoReq EXCEPT !.op = "update", !.path = p, !.content = c, !.dest = d,
                              !.expected[p] = files[p]]
<1>2. c \in Content /\ c.ver = work + 1 /\ c.id = files[p].id
  <2>1. PICK b \in BOOLEAN : b <=> files[p].filed \/ assign
    OBVIOUS
  <2>2. (files[p].filed \/ assign) = b
    BY <1>1, <2>1 DEF Content
  <2>3. c = [files[p] EXCEPT !.ver = work + 1, !.filed = b, !.by = "server"]
    BY <2>2
  <2>4. work + 1 \in 0..MaxWork
    BY <1>1, BoundAssumption
  <2> HIDE DEF c
  <2>5. QED
    BY <1>1, <2>3, <2>4 DEF Content
<1>3. d \in Path \cup {Nothing} /\ d # p
  BY PathAssumption, NothingAssumption DEF ProjectPath
<1>4. req' = [req EXCEPT ![t] = q] /\ pc[t] = "idle" /\ pc' = [pc EXCEPT ![t] = "lock"]
      /\ held' = held /\ result' = [result EXCEPT ![t] = "none"]
  BY DEF BeginUpdate, Begins, Goto
<1> HIDE DEF c, d
<1>5. /\ q \in Requests /\ q.op = "update" /\ q.path = p /\ q.content = c /\ q.dest = d
      /\ q.expected[p] = files[p]
  BY <1>1, <1>2, <1>3 DEF NoReq, Requests, Entry
<1> HIDE DEF q
<1>6. req' \in [Task -> Requests] /\ req'[t] = q /\ \A u \in Task \ {t} : req'[u] = req[u]
  BY <1>4, <1>5 DEF Types
<1>7. TaskFrame(t) /\ pc[t] = "idle" /\ pc'[t] = "lock" /\ held'[t] = held[t] /\ result'[t] = "none"
  BY <1>4, <1>6 DEF Types, TaskFrame, Pcs, Results
<1>8. QED
  BY <1>1, <1>2, <1>3, <1>5, <1>6, <1>7, NothingAssumption, BoundAssumption

\* A move is planned against the file found before any lock is taken.
LEMMA PlanMoveEffect ==
  ASSUME Types, NEW t \in Task, NEW p \in Path, PlanMove(t, p)
  PROVE  /\ TaskFrame(t)
         /\ pc[t] = "idle" /\ pc'[t] = "lock" /\ held'[t] = held[t] /\ result'[t] = "none"
         /\ work' = work + 1 /\ work' \in 0..MaxWork
         /\ req'[t].op = "move" /\ req'[t].path = p /\ req'[t].dest \in Path \ {p}
         /\ req'[t].content = Nothing
         /\ {p, req'[t].dest} \subseteq req'[t].rows
         /\ req'[t].expected[req'[t].dest] = Nothing
         /\ \A r \in req'[t].rows \ {req'[t].dest} : req'[t].expected[r] # Nothing
<1>1. /\ work \in 0..MaxWork /\ work < MaxWork /\ work' = work + 1
      /\ Home[p] \in Path \ {p} /\ files[p] # Nothing /\ files[Home[p]] = Nothing /\ Plannable(p)
  BY PathAssumption DEF Types, PlanMove, Begins
<1> DEFINE R == MovedPaths(p, Home[p])
<1> DEFINE E == [r \in Path |-> IF r \in R THEN files[r] ELSE Nothing]
<1> DEFINE q == [NoReq EXCEPT !.op = "move", !.path = p, !.dest = Home[p],
                              !.rows = R, !.expected = E]
<1>2. R \subseteq Path /\ {p, Home[p]} \subseteq R /\ \A r \in R \ {Home[p]} : files[r] # Nothing
  BY <1>1 DEF MovedPaths, Backlinks, Plannable
<1>3. req' = [req EXCEPT ![t] = q] /\ pc[t] = "idle" /\ pc' = [pc EXCEPT ![t] = "lock"]
      /\ held' = held /\ result' = [result EXCEPT ![t] = "none"]
  BY DEF PlanMove, Begins, Goto
<1> HIDE DEF R
<1>4. /\ E \in [Path -> Entry]
      /\ E[Home[p]] = Nothing /\ \A r \in R \ {Home[p]} : E[r] # Nothing
  BY <1>1, <1>2 DEF Types, Entry
<1> HIDE DEF E
<1>5. /\ q \in Requests /\ q.op = "move" /\ q.path = p /\ q.dest = Home[p] /\ q.content = Nothing
      /\ q.rows = R /\ q.expected = E
  BY <1>1, <1>2, <1>4 DEF NoReq, Requests, Entry
<1> HIDE DEF q
<1>6. req' \in [Task -> Requests] /\ req'[t] = q /\ \A u \in Task \ {t} : req'[u] = req[u]
  BY <1>3, <1>5 DEF Types
<1>7. TaskFrame(t) /\ pc[t] = "idle" /\ pc'[t] = "lock" /\ held'[t] = held[t] /\ result'[t] = "none"
  BY <1>3, <1>6 DEF Types, TaskFrame, Pcs, Results
<1>8. QED
  BY <1>1, <1>2, <1>4, <1>5, <1>6, <1>7, BoundAssumption

\* A folder deletion begins without content and without rows.
LEMMA BeginDeleteFolderEffect ==
  ASSUME Types, NEW t \in Task, BeginDeleteFolder(t)
  PROVE  /\ TaskFrame(t)
         /\ pc[t] = "idle" /\ pc'[t] = "lock" /\ held'[t] = held[t] /\ result'[t] = "none"
         /\ work' = work + 1 /\ work' \in 0..MaxWork
         /\ req'[t].op = "deleteFolder" /\ req'[t].content = Nothing
<1>1. work \in 0..MaxWork /\ work < MaxWork /\ work' = work + 1
  BY DEF Types, BeginDeleteFolder, Begins
<1> DEFINE q == [NoReq EXCEPT !.op = "deleteFolder"]
<1>2. q \in Requests /\ q.op = "deleteFolder" /\ q.content = Nothing
  BY DEF NoReq, Requests, Entry
<1>3. req' = [req EXCEPT ![t] = q] /\ pc[t] = "idle" /\ pc' = [pc EXCEPT ![t] = "lock"]
      /\ held' = held /\ result' = [result EXCEPT ![t] = "none"]
  BY DEF BeginDeleteFolder, Begins, Goto
<1> HIDE DEF q
<1>4. QED
  BY <1>1, <1>2, <1>3, BoundAssumption DEF Types, TaskFrame, Pcs, Results

\* A read by id waits for the path the index gives, or ends when there is none.
LEMMA LookUpEffect ==
  ASSUME Types, NEW t \in Task, NEW id \in Page \cup {Nothing}, NEW tries \in Nat,
         LookUp(t, id, tries)
  PROVE  /\ TaskFrame(t)
         /\ held'[t] = {} /\ req'[t].content = Nothing
         /\ \/ /\ pc'[t] = "lock" /\ result'[t] = "none" /\ req'[t].op = "read"
               /\ req'[t].path \in Path /\ req'[t].id = id
            \/ /\ pc'[t] = "idle" /\ result'[t] = "absent" /\ req'[t].op = "none"
               /\ PathsById(id) = {}
<1>1. ASSUME NEW p \in PathsById(id),
             req' = [req EXCEPT ![t] = [NoReq EXCEPT !.op = "read", !.id = id, !.path = p, !.tries = tries]],
             held' = [held EXCEPT ![t] = {}], Goto(t, "lock"), result' = [result EXCEPT ![t] = "none"]
      PROVE  /\ TaskFrame(t) /\ held'[t] = {} /\ req'[t].content = Nothing
             /\ pc'[t] = "lock" /\ result'[t] = "none" /\ req'[t].op = "read"
             /\ req'[t].path \in Path /\ req'[t].id = id
  <2> DEFINE q == [NoReq EXCEPT !.op = "read", !.id = id, !.path = p, !.tries = tries]
  <2>1. p \in Path
    BY DEF PathsById
  <2>2. q \in Requests /\ q.op = "read" /\ q.content = Nothing /\ q.path = p /\ q.id = id
    BY <2>1 DEF NoReq, Requests, Entry
  <2> HIDE DEF q
  <2>3. req' = [req EXCEPT ![t] = q]
    BY <1>1 DEF q
  <2>4. QED
    BY <1>1, <2>1, <2>2, <2>3 DEF Types, TaskFrame, Pcs, Results, Goto
<1>2. CASE PathsById(id) = {} /\ Finish(t, "absent")
  BY <1>2, FinishEffect DEF Results, Answered
<1>3. QED
  BY <1>1, <1>2 DEF LookUp

\* The rows a folder deletion remembers are of the folder.
LEMMA SnapshotEffect ==
  ASSUME Types, NEW t \in Task, SnapshotFolder(t)
  PROVE  /\ TaskFrame(t)
         /\ pc'[t] = "removeDir" /\ held'[t] = held[t] /\ result'[t] = result[t]
         /\ req'[t].op = req[t].op /\ req'[t].content = req[t].content
         /\ req'[t].rows \subseteq Folder
<1> DEFINE R == {p \in Folder : index[p] # Nothing}
<1>1. R \in SUBSET Path /\ R \subseteq Folder
  BY PathAssumption
<1>2. /\ req' = [req EXCEPT ![t].rows = R] /\ pc' = [pc EXCEPT ![t] = "removeDir"]
      /\ held' = held /\ result' = result
  BY DEF SnapshotFolder, Goto
<1> HIDE DEF R
<1>3. /\ req' \in [Task -> Requests] /\ \A u \in Task \ {t} : req'[u] = req[u]
      /\ req'[t].op = req[t].op /\ req'[t].content = req[t].content /\ req'[t].rows = R
  <2>1. req \in [Task -> Requests] /\ req[t] \in Requests
    BY DEF Types
  <2>2. [req[t] EXCEPT !.rows = R] \in Requests
    BY <1>1, <2>1 DEF Requests
  <2>3. req' = [req EXCEPT ![t] = [req[t] EXCEPT !.rows = R]]
    BY <1>2
  <2>4. QED
    BY <2>1, <2>2, <2>3 DEF Requests
<1>4. QED
  BY <1>1, <1>2, <1>3 DEF Types, TaskFrame, Pcs, FolderPc

\* A row is taken off the list a folder deletion works through.
LEMMA RowsEffect ==
  ASSUME Types, NEW t \in Task, NEW p \in Path, req' = [req EXCEPT ![t].rows = @ \ {p}],
         UNCHANGED <<pc, held, result>>
  PROVE  /\ TaskFrame(t)
         /\ pc'[t] = pc[t] /\ held'[t] = held[t] /\ result'[t] = result[t]
         /\ req'[t].op = req[t].op /\ req'[t].content = req[t].content
         /\ req'[t].rows \subseteq req[t].rows
<1>1. /\ req' \in [Task -> Requests] /\ \A u \in Task \ {t} : req'[u] = req[u]
      /\ req'[t].op = req[t].op /\ req'[t].content = req[t].content
      /\ req'[t].rows = req[t].rows \ {p}
  BY DEF Types, Requests
<1>2. QED
  BY <1>1 DEF Types, TaskFrame

\* A page is looked up again, or given up.
LEMMA RetryEffect ==
  ASSUME Types, NEW t \in Task, Retry(t)
  PROVE  /\ TaskFrame(t)
         /\ held'[t] = {} /\ req'[t].content = Nothing
         /\ \/ /\ pc'[t] = "lock" /\ result'[t] = "none" /\ req'[t].op = "read"
               /\ req'[t].path \in Path
            \/ /\ pc'[t] = "idle" /\ req'[t].op = "none"
               /\ \/ result'[t] = "unstable"
                  \/ result'[t] = "absent" /\ PathsById(req[t].id) = {}
<1>1. req[t].id \in Page \cup {Nothing} /\ req[t].tries + 1 \in Nat
  BY DEF Types, Requests
<1>2. CASE LookUp(t, req[t].id, req[t].tries + 1)
  BY <1>1, <1>2, LookUpEffect
<1>3. CASE Finish(t, "unstable")
  BY <1>3, FinishEffect DEF Results, Answered
<1>4. QED
  BY <1>2, <1>3 DEF Retry

\* The locks are taken.
LEMMA LockEffect ==
  ASSUME Types, NEW t \in Task, Fits(t), LockPaths(t)
  PROVE  /\ TaskFrame(t)
         /\ pc[t] = "lock" /\ pc'[t] = FirstStep(req[t].op)
         /\ held'[t] = Wanted(t) /\ Wanted(t) \cap LockedByOthers(t) = {}
         /\ result'[t] = result[t] /\ req'[t] = req[t]
<1>1. req[t].op \in {"create", "update", "move", "deleteFolder", "read"}
  BY DEF Fits, Types, Requests, LockPaths
<1>2. FirstStep(req[t].op) \in Pcs
  BY <1>1 DEF FirstStep, Pcs, CreatePc, UpdatePc, MovePc, FolderPc, ReadPc
<1>3. Wanted(t) \in SUBSET Path
  BY <1>1, PathAssumption DEF Wanted, Fits, Types, Requests
<1>4. /\ pc' = [pc EXCEPT ![t] = FirstStep(req[t].op)]
      /\ held' = [held EXCEPT ![t] = Wanted(t)]
      /\ Wanted(t) \cap LockedByOthers(t) = {} /\ pc[t] = "lock"
      /\ UNCHANGED <<req, result>>
  BY DEF LockPaths, Lock, Goto
<1>5. QED
  BY <1>2, <1>3, <1>4 DEF Types, TaskFrame

\* A step of one request leaves the others alone.
LEMMA TaskStep ==
  ASSUME Types, NEW t \in Task, Fits(t), Begin(t) \/ Step(t)
  PROVE  TaskFrame(t) /\ work' \in {work, work + 1} /\ work' \in 0..MaxWork /\ Claims(t)
<1> USE DEF Claims, watchVars
<1>0. CASE Begin(t)
  <2>1. ASSUME NEW p \in Path, BeginCreate(t, p) PROVE TaskFrame(t) /\ work' = work + 1 /\ work' \in 0..MaxWork /\ Claims(t)
    BY <2>1, BeginCreateEffect DEF BeginCreate
  <2>2. ASSUME NEW p \in Path, NEW a \in BOOLEAN, BeginUpdate(t, p, a)
        PROVE  TaskFrame(t) /\ work' = work + 1 /\ work' \in 0..MaxWork /\ Claims(t)
    <3>1. UNCHANGED wHeld
      BY <2>2 DEF BeginUpdate
    <3>2. QED
      BY <2>2, <3>1, BeginUpdateEffect
  <2>3. ASSUME NEW p \in Path, PlanMove(t, p) PROVE TaskFrame(t) /\ work' = work + 1 /\ work' \in 0..MaxWork /\ Claims(t)
    BY <2>3, PlanMoveEffect DEF PlanMove
  <2>4. CASE BeginDeleteFolder(t)
    BY <2>4, BeginDeleteFolderEffect DEF BeginDeleteFolder
  <2>5. ASSUME NEW id \in Page, BeginRead(t, id) PROVE TaskFrame(t) /\ work' = work + 1 /\ work' \in 0..MaxWork /\ Claims(t)
    BY <2>5, LookUpEffect, BoundAssumption DEF BeginRead, Begins, Types
  <2>6. QED
    BY <1>0, <2>1, <2>2, <2>3, <2>4, <2>5 DEF Begin
<1>a. work \in 0..MaxWork
  BY DEF Types
<1> USE <1>a, FinishEffect, GotoEffect
<1> USE DEF Pcs, CreatePc, UpdatePc, MovePc, FolderPc, ReadPc, Results
<1>1. CASE LockPaths(t)
  BY <1>1, LockEffect DEF LockPaths
<1>2. CASE PublishCreate(t)
  BY <1>2 DEF PublishCreate
<1>3. CASE UndurableCreate(t)
  BY <1>3 DEF UndurableCreate
<1>4. CASE IndexCreate(t)
  BY <1>4 DEF IndexCreate
<1>5. CASE RollbackCreate(t)
  BY <1>5 DEF RollbackCreate
<1>6. CASE CompensateCreate(t)
  BY <1>6 DEF CompensateCreate
<1>7. CASE CompareUpdate(t)
  BY <1>7 DEF CompareUpdate
<1>8. CASE PrepareUpdate(t)
  BY <1>8 DEF PrepareUpdate
<1>9. CASE PublishUpdate(t)
  BY <1>9 DEF PublishUpdate
<1>10. CASE IndexUpdate(t)
  BY <1>10 DEF IndexUpdate
<1>11. CASE FollowUpdate(t)
  BY <1>11 DEF FollowUpdate
<1>12. CASE PublishMove(t)
  BY <1>12 DEF PublishMove
<1>13. CASE IndexMove(t)
  BY <1>13 DEF IndexMove
<1>14. CASE SnapshotFolder(t)
  BY <1>14, SnapshotEffect DEF SnapshotFolder
<1>15. CASE RemoveFolder(t)
  BY <1>15 DEF RemoveFolder
<1>16. CASE IndexDeleteFolder(t)
  <2>1. req[t].rows \subseteq Path
    BY DEF Types, Requests
  <2>2. QED
    BY <1>16, <2>1, RowsEffect DEF IndexDeleteFolder
<1>17. CASE ConfirmRead(t)
  BY <1>17, RetryEffect DEF ConfirmRead
<1>18. CASE ReadById(t)
  BY <1>18, RetryEffect DEF ReadById
<1>19. QED
  BY <1>0, <1>1, <1>2, <1>3, <1>4, <1>5, <1>6, <1>7, <1>8, <1>9, <1>10, <1>11, <1>12, <1>13, <1>14, <1>15, <1>16, <1>17, <1>18 DEF Step

-----------------------------------------------------------------------------
(* What the steps do to the files.                                         *)

\* No page in two entries.
Unique(f) == \A p, q \in Path : (p # q /\ f[p] # Nothing /\ f[q] # Nothing) => f[p].id # f[q].id

\* Ids and numbers of files were given out before.
Numbered(f, n) ==
    \A p \in Path : f[p] # Nothing => f[p].id \in FirstPage \cup 1..n /\ f[p].ver \in 0..n

\* What request t may rely on about the files it has locked and about the
\* writing it has in hand, while others step.
HeldLaw(t) ==
    \A p \in held[t] :
      /\ files[p] # Nothing =>
           /\ files'[p] # Nothing /\ files'[p].id = files[p].id
           /\ files'[p] = files[p] \/ files'[p].by = "editor" \/ p \in crossed'
      /\ files[p] = Nothing => files'[p] = Nothing \/ p \in crossed'

OldVersions(t) ==
    req[t].content # Nothing =>
      \A p \in Path : files'[p] # Nothing /\ files'[p].ver = req[t].content.ver =>
        \E q \in Path : /\ files[q] # Nothing /\ files[q].ver = req[t].content.ver
                        /\ q = p \/ q \notin held[t]

OldPages(t) ==
    req[t].op = "create" =>
      \A p \in Path : files'[p] # Nothing /\ files'[p].id = req[t].content.id =>
        \E q \in Path : files[q] # Nothing /\ files[q].id = req[t].content.id

Laws(t) == HeldLaw(t) /\ OldVersions(t) /\ OldPages(t)

\* The files stay as they are.
LEMMA SameFiles ==
  ASSUME NEW u \in Task, Types, UNCHANGED files
  PROVE  Laws(u)
BY DEF Types, Laws, HeldLaw, OldVersions, OldPages

\* Publishing the content of request t under its lock.
LEMMA PutEffect ==
  ASSUME Types, Numbers, OneFilePerPage, NEW t \in Task, NEW p \in held[t], UNCHANGED work,
         req[t].content # Nothing,
         WriteFiles([files EXCEPT ![p] = req[t].content]),
         files[p] # Nothing => files[p].id = req[t].content.id,
         files[p] = Nothing => /\ \A q \in Path : files[q] # Nothing => files[q].id # req[t].content.id
                               /\ req[t].content.id \in FirstPage \cup 1..work,
         files[p] = Nothing => \A u \in Task \ {t} : req[u].op = "create" /\ req[u].content # Nothing =>
                                   req[u].content.id # req[t].content.id,
         req[t].content.ver \in 0..work
  PROVE  /\ files' \in [Path -> Entry]
         /\ files' = [files EXCEPT ![p] = req[t].content]
         /\ Unique(files') /\ Numbered(files', work')
         /\ \A u \in Task \ {t} : Locks /\ Fits(u) => Laws(u)
<1>1. p \in Path /\ req[t].content \in Entry
  BY DEF Types, Requests
<1>2. files' = [files EXCEPT ![p] = req[t].content] /\ files' \in [Path -> Entry]
  BY <1>1 DEF WriteFiles, Types
<1>3. files'[p] = req[t].content /\ \A q \in Path \ {p} : files'[q] = files[q]
  BY <1>1, <1>2 DEF Types
<1>4. Unique(files')
  BY <1>1, <1>3 DEF Unique, OneFilePerPage
<1>5. Numbered(files', work')
  BY <1>1, <1>3 DEF Numbered, Numbers
<1>6. ASSUME NEW u \in Task \ {t}, Locks, Fits(u) PROVE Laws(u)
  <2>1. p \notin held[u] /\ held[u] \subseteq Path
    BY <1>6 DEF Locks, Types
  <2>2. HeldLaw(u)
    BY <1>3, <2>1 DEF HeldLaw
  <2>3. OldVersions(u)
    BY <1>1, <1>3 DEF OldVersions, Numbers
  <2>4. OldPages(u)
    BY <1>1, <1>3, <1>6 DEF OldPages, Fits
  <2>5. QED
    BY <2>2, <2>3, <2>4 DEF Laws
<1>7. QED
  BY <1>2, <1>4, <1>5, <1>6

\* Removing files under their locks.
LEMMA RemoveEffect ==
  ASSUME Types, Numbers, OneFilePerPage, NEW t \in Task, NEW G \in SUBSET held[t], UNCHANGED work,
         WriteFiles([p \in Path |-> IF p \in G THEN Nothing ELSE files[p]])
  PROVE  /\ files' \in [Path -> Entry]
         /\ files' = [p \in Path |-> IF p \in G THEN Nothing ELSE files[p]]
         /\ Unique(files') /\ Numbered(files', work')
         /\ \A u \in Task \ {t} : Locks => Laws(u)
<1>1. files' = [p \in Path |-> IF p \in G THEN Nothing ELSE files[p]]
  BY DEF WriteFiles
<1>2. files' \in [Path -> Entry]
  BY <1>1 DEF Types, Entry
<1>3. Unique(files') /\ Numbered(files', work')
  BY <1>1 DEF Unique, OneFilePerPage, Numbered, Numbers
<1>4. ASSUME NEW u \in Task \ {t}, Locks PROVE Laws(u)
  <2>1. held[u] \subseteq Path /\ \A p \in held[u] : p \notin G
    BY <1>4 DEF Locks, Types
  <2>2. QED
    BY <1>1, <2>1 DEF Laws, HeldLaw, OldVersions, OldPages
<1>5. QED
  BY <1>1, <1>2, <1>3, <1>4

\* Moving a page from p to q and rewriting the links in the other paths.
LEMMA MoveEffect ==
  ASSUME Types, Numbers, OneFilePerPage, NEW p \in Path, NEW q \in Path \ {p}, UNCHANGED work,
         NEW R \in SUBSET Path, {p, q} \subseteq R,
         files[p] # Nothing, files[q] = Nothing, \A r \in R \ {q} : files[r] # Nothing,
         WriteFiles(Moved(p, q, R))
  PROVE  /\ files' \in [Path -> Entry] /\ files' = Moved(p, q, R)
         /\ Unique(files') /\ Numbered(files', work')
         /\ \A u \in Task : (p \notin held[u] /\ \A r \in R : r \in held[u] => r \in crossed') => Laws(u)
<1>1. files' = Moved(p, q, R)
  BY DEF WriteFiles
<1>2. ASSUME NEW r \in R \ {p, q}
      PROVE  /\ files'[r] \in Content /\ files'[r].id = files[r].id /\ files'[r].ver = files[r].ver
             /\ files'[r] # Nothing /\ files[r] # Nothing
  <2>1. files[r] \in Content
    BY DEF Types, Entry
  <2>2. files'[r] = [files[r] EXCEPT !.link = q, !.by = "rewrite"]
    BY <1>1 DEF Moved
  <2>3. files'[r] \in Content /\ files'[r].id = files[r].id /\ files'[r].ver = files[r].ver
    BY <2>1, <2>2 DEF Content
  <2>4. QED
    BY <2>1, <2>3, NothingAssumption
<1>3. files'[q] = files[p] /\ files'[p] = Nothing
  BY <1>1 DEF Moved
<1>4. \A r \in Path \ R : files'[r] = files[r]
  BY <1>1 DEF Moved
<1>5. files' \in [Path -> Entry]
  <2>1. \A r \in Path : files'[r] \in Entry
    BY <1>2, <1>3, <1>4 DEF Types, Entry
  <2>2. QED
    BY <1>1, <2>1 DEF Moved
<1>6. \A r \in Path \ {p, q} : /\ files'[r] # Nothing <=> files[r] # Nothing
                               /\ files[r] # Nothing => /\ files'[r].id = files[r].id
                                                        /\ files'[r].ver = files[r].ver
  BY <1>2, <1>4
<1>7. Unique(files')
  BY <1>3, <1>6 DEF Unique, OneFilePerPage
<1>8. Numbered(files', work')
  BY <1>3, <1>6 DEF Numbered, Numbers
<1>9. ASSUME NEW u \in Task, p \notin held[u], \A r \in R : r \in held[u] => r \in crossed'
      PROVE  Laws(u)
  <2>1. held[u] \subseteq Path
    BY DEF Types
  <2>2. HeldLaw(u)
    BY <1>3, <1>4, <1>6, <1>9, <2>1 DEF HeldLaw
  <2>3. OldVersions(u)
    BY <1>3, <1>6, <1>9 DEF OldVersions
  <2>4. OldPages(u)
    BY <1>3, <1>6 DEF OldPages
  <2>5. QED
    BY <2>2, <2>3, <2>4 DEF Laws
<1>10. QED
  BY <1>1, <1>5, <1>7, <1>8, <1>9

\* An editor saves a page.
LEMMA SaveEffect ==
  ASSUME Types, Numbers, OneFilePerPage, NEW p \in Path, NEW filed \in BOOLEAN, EditorSave(p, filed)
  PROVE  /\ files' \in [Path -> Entry] /\ work' = work + 1 /\ work' \in 0..MaxWork
         /\ Unique(files') /\ Numbered(files', work')
         /\ \A u \in Task : (req[u].content # Nothing => req[u].content.ver \in 1..work) => Laws(u)
<1>1. files[p] \in Content /\ work \in 0..MaxWork /\ work < MaxWork /\ work' = work + 1
  BY DEF EditorSave, Types, Entry
<1>2. files' = [files EXCEPT ![p].ver = work + 1, ![p].filed = filed, ![p].by = "editor"]
  BY DEF EditorSave, WriteFiles
<1>3. /\ files'[p] \in Content /\ files'[p].id = files[p].id /\ files'[p].ver = work + 1
      /\ files'[p].by = "editor" /\ \A q \in Path \ {p} : files'[q] = files[q]
      /\ files' \in [Path -> Entry]
  <2> DEFINE c == [files[p] EXCEPT !.ver = work + 1, !.filed = filed, !.by = "editor"]
  <2>1. work + 1 \in 0..MaxWork
    BY <1>1, BoundAssumption
  <2>2. c \in Content /\ c.id = files[p].id /\ c.ver = work + 1 /\ c.by = "editor"
    BY <1>1, <2>1 DEF Content
  <2>3. files' = [files EXCEPT ![p] = c]
    BY <1>2
  <2> HIDE DEF c
  <2>4. QED
    BY <2>2, <2>3 DEF Types, Entry
<1>4. files'[p] # Nothing /\ files[p] # Nothing
  BY <1>1, <1>3, NothingAssumption
<1>5. work' \in 0..MaxWork /\ work + 1 \in 0..work' /\ 1..work \subseteq 1..work' /\ 0..work \subseteq 0..work'
  BY <1>1, BoundAssumption
<1>6. Unique(files')
  BY <1>3, <1>4 DEF Unique, OneFilePerPage
<1>7. Numbered(files', work')
  BY <1>3, <1>4, <1>5 DEF Numbered, Numbers
<1>8. ASSUME NEW u \in Task, req[u].content # Nothing => req[u].content.ver \in 1..work PROVE Laws(u)
  <2>1. held[u] \subseteq Path
    BY DEF Types
  <2>2. HeldLaw(u)
    BY <1>3, <1>4, <2>1 DEF HeldLaw
  <2>3. OldVersions(u)
    BY <1>1, <1>3, <1>8 DEF OldVersions
  <2>4. OldPages(u)
    BY <1>3, <1>4 DEF OldPages
  <2>5. QED
    BY <2>2, <2>3, <2>4 DEF Laws
<1>9. QED
  BY <1>1, <1>3, <1>5, <1>6, <1>7, <1>8

\* What the path locks and the request in hand say together.
Sound == Types /\ Locks /\ Numbers /\ OneFilePerPage /\ \A t \in Task : Fits(t) /\ Writing(t) /\ Found(t)

\* A step keeps the files in order, and request u may rely on its laws.
FilesFrame ==
    /\ files' \in [Path -> Entry] /\ Unique(files') /\ Numbered(files', work')
    /\ crossed \subseteq crossed'

\* A step that writes no file keeps the files in order, and every request may
\* go on relying on its laws.
LEMMA SameFilesFrame ==
  ASSUME Sound, UNCHANGED <<files, crossed>>, work' \in {work, work + 1}
  PROVE  FilesFrame /\ \A u \in Task : Laws(u)
<1>1. Types /\ Numbers /\ OneFilePerPage
  BY DEF Sound
<1>2. 0..work \subseteq 0..work' /\ 1..work \subseteq 1..work'
  BY <1>1 DEF Types
<1>3. QED
  BY <1>1, <1>2, SameFiles DEF FilesFrame, Types, Unique, OneFilePerPage, Numbered, Numbers

\* Publishing a creation.
LEMMA PutNew ==
  ASSUME Sound, NEW t \in Task, pc[t] = "publishCreate", files[req[t].path] = Nothing,
         WriteFiles([files EXCEPT ![req[t].path] = req[t].content]), UNCHANGED <<work, crossed>>
  PROVE  /\ FilesFrame /\ \A u \in Task \ {t} : Laws(u)
         /\ files' = [files EXCEPT ![req[t].path] = req[t].content]
<1>1. /\ Types /\ Numbers /\ OneFilePerPage /\ Locks
      /\ Fits(t) /\ Writing(t) /\ \A u \in Task : Fits(u) /\ Writing(u)
  BY DEF Sound
<1>2. req[t].op = "create" /\ req[t].content # Nothing /\ req[t].path \in held[t]
  BY <1>1 DEF Fits, CreatePc, Wanted
<1>3. /\ req[t].content.ver \in 1..work /\ req[t].content.id = req[t].content.ver
      /\ \A q \in Path : files[q] # Nothing => files[q].id # req[t].content.id
  BY <1>1, <1>2 DEF Writing
<1>4. \A u \in Task \ {t} : req[u].op = "create" /\ req[u].content # Nothing =>
                              req[u].content.id # req[t].content.id
  BY <1>1, <1>2, <1>3 DEF Writing, Numbers
<1>5. req[t].content.ver \in 0..work
  BY <1>1, <1>3 DEF Types
<1>6. QED
  BY <1>1, <1>2, <1>3, <1>4, <1>5, PutEffect DEF FilesFrame

\* Publishing an update.
LEMMA PutUpdate ==
  ASSUME Sound, NEW t \in Task, pc[t] = "publish",
         WriteFiles([files EXCEPT ![req[t].path] = req[t].content]), UNCHANGED <<work, crossed>>
  PROVE  /\ FilesFrame /\ \A u \in Task \ {t} : Laws(u)
         /\ files' = [files EXCEPT ![req[t].path] = req[t].content]
<1>1. /\ Types /\ Numbers /\ OneFilePerPage /\ Locks
      /\ Fits(t) /\ Writing(t) /\ Found(t) /\ \A u \in Task : Fits(u)
  BY DEF Sound
<1>2. req[t].op = "update" /\ req[t].content # Nothing /\ req[t].path \in held[t]
  BY <1>1, NothingAssumption DEF Fits, UpdatePc, Wanted
<1>3. files[req[t].path] # Nothing /\ files[req[t].path].id = req[t].content.id
  BY <1>1 DEF Found
<1>4. req[t].content.ver \in 0..work
  BY <1>1, <1>2 DEF Writing, Types
<1>5. QED
  BY <1>1, <1>2, <1>3, <1>4, PutEffect DEF FilesFrame

\* The paths a move writes.
LEMMA MovedPathsFacts ==
  ASSUME NEW p \in Path, NEW q \in Path, files[p] # Nothing, Plannable(p)
  PROVE  /\ MovedPaths(p, q) \in SUBSET Path /\ {p, q} \subseteq MovedPaths(p, q)
         /\ \A r \in MovedPaths(p, q) \ {q} : files[r] # Nothing
BY DEF MovedPaths, Plannable, Backlinks

\* A move on the index thread, under locks that cover at least the source.
LEMMA MoveToFrame ==
  ASSUME Sound, NEW p \in Path, NEW q \in Path \ {p}, NEW locked \in SUBSET Path,
         PublishMoveTo(p, q, locked), UNCHANGED work
  PROVE  /\ FilesFrame /\ files' = Moved(p, q, MovedPaths(p, q))
         /\ MovedPaths(p, q) \in SUBSET Path
         /\ \A r \in Path \ MovedPaths(p, q) : files'[r] = files[r]
         /\ \A u \in Task : (p \notin held[u] /\ held[u] \cap locked = {}) => Laws(u)
<1>1. Types /\ Numbers /\ OneFilePerPage
  BY DEF Sound
<1> DEFINE R == MovedPaths(p, q)
<1>2. /\ files[p] # Nothing /\ files[q] = Nothing /\ Plannable(p) /\ WriteFiles(Moved(p, q, R))
  BY DEF PublishMoveTo
<1> DEFINE H == UNION {held[u] : u \in Task}
<1>a. crossed' = crossed \cup (R \cap (H \ locked))
  BY Zenon DEF PublishMoveTo
<1>3. R \in SUBSET Path /\ {p, q} \subseteq R /\ \A r \in R \ {q} : files[r] # Nothing
  BY <1>2, MovedPathsFacts
<1> HIDE DEF R
<1>b. \A u \in Task : held[u] \subseteq H
  OBVIOUS
<1> HIDE DEF H
<1>4. \A u \in Task : held[u] \cap locked = {} => \A r \in R : r \in held[u] => r \in crossed'
  BY <1>a, <1>b
<1>5. /\ files' \in [Path -> Entry] /\ files' = Moved(p, q, R)
      /\ Unique(files') /\ Numbered(files', work')
      /\ \A u \in Task : (p \notin held[u] /\ \A r \in R : r \in held[u] => r \in crossed') => Laws(u)
  BY <1>1, <1>2, <1>3, MoveEffect
<1>6. \A r \in Path \ R : files'[r] = files[r]
  BY <1>3, <1>5 DEF Moved
<1>7. QED
  BY <1>a, <1>3, <1>4, <1>5, <1>6 DEF FilesFrame, R

\* Every step of a request keeps the files in order and the laws of the others.
LEMMA FilesStep ==
  ASSUME Sound, NEW t \in Task, Begin(t) \/ Step(t)
  PROVE  FilesFrame /\ \A u \in Task \ {t} : Laws(u)
<1>0. /\ Types /\ Numbers /\ OneFilePerPage /\ Locks
      /\ Fits(t) /\ \A u \in Task \ {t} : held[t] \cap held[u] = {}
  BY DEF Sound, Locks
<1>a. work' \in {work, work + 1}
  BY <1>0, TaskStep
<1> USE DEF fileVars
<1> DEFINE Goal == FilesFrame /\ \A u \in Task \ {t} : Laws(u)
<1>b. ASSUME UNCHANGED <<files, crossed>> PROVE Goal
  BY <1>a, <1>b, SameFilesFrame
<1>19. CASE Begin(t)
  BY <1>19, <1>b DEF Begin, BeginCreate, BeginUpdate, PlanMove, BeginDeleteFolder, BeginRead
<1>c. ASSUME NEW G \in SUBSET held[t], UNCHANGED <<work, crossed>>,
             WriteFiles([p \in Path |-> IF p \in G THEN Nothing ELSE files[p]])
      PROVE  Goal
  BY <1>0, <1>c, RemoveEffect DEF FilesFrame
<1>1. CASE LockPaths(t)
  BY <1>1, <1>b DEF LockPaths
<1>2. CASE PublishCreate(t)
  BY <1>2, <1>b, PutNew DEF PublishCreate
<1>3. CASE UndurableCreate(t)
  BY <1>3, <1>b, PutNew DEF UndurableCreate
<1>4. CASE IndexCreate(t)
  BY <1>4, <1>b DEF IndexCreate
<1>5. CASE RollbackCreate(t)
  <2>1. CASE WriteFiles([files EXCEPT ![req[t].path] = Nothing])
    <3>1. req[t].path \in held[t] /\ req[t].path \in Path
      BY <1>0, <1>5 DEF RollbackCreate, Fits, CreatePc, Wanted
    <3>2. [files EXCEPT ![req[t].path] = Nothing] =
             [p \in Path |-> IF p \in {req[t].path} THEN Nothing ELSE files[p]]
      BY <1>0, <3>1 DEF Types
    <3>3. UNCHANGED <<work, crossed>> /\ {req[t].path} \in SUBSET held[t]
      BY <1>5, <3>1 DEF RollbackCreate
    <3>4. WriteFiles([p \in Path |-> IF p \in {req[t].path} THEN Nothing ELSE files[p]])
      BY <2>1, <3>2
    <3>5. QED
      BY <1>c, <3>3, <3>4
  <2>2. QED
    BY <1>5, <1>b, <2>1 DEF RollbackCreate
<1>6. CASE CompensateCreate(t)
  BY <1>6, <1>b DEF CompensateCreate
<1>7. CASE CompareUpdate(t)
  BY <1>7, <1>b DEF CompareUpdate
<1>8. CASE PrepareUpdate(t)
  BY <1>8, <1>b DEF PrepareUpdate
<1>9. CASE PublishUpdate(t)
  BY <1>9, PutUpdate DEF PublishUpdate
<1>10. CASE IndexUpdate(t)
  BY <1>10, <1>b DEF IndexUpdate
<1>11. CASE FollowUpdate(t)
  <2>1. /\ req[t].path \in Path /\ req[t].dest \in Path \ {req[t].path}
        /\ req[t].path \in held[t] /\ held[t] \in SUBSET Path
    BY <1>0, <1>11, NothingAssumption DEF FollowUpdate, Fits, UpdatePc, Wanted, Types
  <2>2. CASE PublishMoveTo(req[t].path, req[t].dest, held[t])
    BY <1>0, <1>11, <2>1, <2>2, MoveToFrame DEF FollowUpdate
  <2>3. QED
    BY <1>11, <1>b, <2>2 DEF FollowUpdate, MovePageTo, MovePageToUnindexed
<1>12. CASE PublishMove(t)
  <2>1. CASE /\ \A r \in req[t].rows : files[r] = req[t].expected[r]
             /\ WriteFiles(Moved(req[t].path, req[t].dest, req[t].rows))
             /\ UNCHANGED <<work, crossed>>
    <3>1. /\ req[t].path \in Path /\ req[t].dest \in Path \ {req[t].path}
          /\ req[t].rows \in SUBSET Path /\ {req[t].path, req[t].dest} \subseteq req[t].rows
          /\ req[t].rows \subseteq held[t]
          /\ req[t].expected[req[t].dest] = Nothing
          /\ \A r \in req[t].rows \ {req[t].dest} : req[t].expected[r] # Nothing
      BY <1>0, <1>12 DEF PublishMove, Fits, MovePc, Wanted, Types, Requests
    <3>2. \A u \in Task \ {t} : \A r \in req[t].rows : r \notin held[u]
      BY <1>0, <3>1
    <3>3. /\ files[req[t].path] # Nothing /\ files[req[t].dest] = Nothing
          /\ \A r \in req[t].rows \ {req[t].dest} : files[r] # Nothing
      BY <2>1, <3>1
    <3>4. QED
      BY <1>0, <2>1, <3>1, <3>2, <3>3, MoveEffect DEF FilesFrame
  <2>2. QED
    BY <1>12, <1>b, <2>1 DEF PublishMove
<1>13. CASE IndexMove(t)
  BY <1>13, <1>b DEF IndexMove
<1>14. CASE SnapshotFolder(t)
  BY <1>14, <1>b DEF SnapshotFolder
<1>15. CASE RemoveFolder(t)
  <2>1. Folder \subseteq held[t]
    BY <1>0, <1>15 DEF RemoveFolder, Fits, FolderPc, Wanted
  <2>2. QED
    BY <1>15, <1>c, <2>1 DEF RemoveFolder
<1>16. CASE IndexDeleteFolder(t)
  BY <1>16, <1>b DEF IndexDeleteFolder
<1>17. CASE ConfirmRead(t)
  BY <1>17, <1>b DEF ConfirmRead
<1>18. CASE ReadById(t)
  BY <1>18, <1>b DEF ReadById
<1>20. QED
  BY <1>19, <1>1, <1>2, <1>3, <1>4, <1>5, <1>6, <1>7, <1>8, <1>9, <1>10, <1>11, <1>12, <1>13, <1>14, <1>15, <1>16, <1>17, <1>18 DEF Step

-----------------------------------------------------------------------------
(* The laws of a request hold after every step.                            *)

Own(t) == Fits(t) /\ Writing(t) /\ Found(t)

\* A request that does not step keeps what it knows, by the laws of the others.
LEMMA OthersKeep ==
  ASSUME Sound, NEW u \in Task, Laws(u), FilesFrame, work' \in {work, work + 1},
         pc'[u] = pc[u], req'[u] = req[u], held'[u] = held[u], result'[u] = result[u]
  PROVE  Own(u)'
<1>1. Types /\ Fits(u) /\ Writing(u) /\ Found(u)
  BY DEF Sound
<1>2. Fits(u)'
  BY <1>1 DEF Fits, Wanted
<1>3. Writing(u)'
  <2>1. ASSUME req[u].content # Nothing PROVE Writing(u)'
    <3>1. req[u].content.ver \in 1..work /\ req[u].content.ver \in 1..work'
      BY <1>1, <2>1 DEF Writing, Types
    <3>2. pc[u] \in CreatePc => req[u].path \in held[u]
      BY <1>1 DEF Fits, Wanted, CreatePc
    <3>3. \A p \in Path : files'[p] # Nothing /\ files'[p].ver = req[u].content.ver =>
             \E q \in Path : /\ files[q] # Nothing /\ files[q].ver = req[u].content.ver
                             /\ q = p \/ q \notin held[u]
      BY <2>1 DEF Laws, OldVersions
    <3>4. pc[u] \in {"lock", "publishCreate", "compare", "prepare", "publish", "compensate"} \/ Refused(u)
            => \A p \in Path : files'[p] # Nothing => files'[p].ver # req[u].content.ver
      BY <1>1, <2>1, <3>3 DEF Writing, NoFileOf
    <3>5. pc[u] \in {"indexCreate", "rollback", "rollbackPartial"} =>
            \A p \in Path : files'[p] # Nothing /\ files'[p].ver = req[u].content.ver => p = req[u].path
      BY <1>1, <2>1, <3>2, <3>3 DEF Writing, CreatePc
    <3>6. req[u].op = "create" /\ pc[u] \in {"lock", "publishCreate"} =>
            \A p \in Path : files'[p] # Nothing => files'[p].id # req[u].content.id
      BY <1>1, <2>1 DEF Writing, Laws, OldPages
    <3>7. req[u].op = "create" => req[u].content.id = req[u].content.ver
      BY <1>1, <2>1 DEF Writing
    <3>8. QED
      BY <3>1, <3>4, <3>5, <3>6, <3>7 DEF Writing, Refused, NoFileOf
  <2>2. QED
    BY <2>1 DEF Writing
<1>4. Found(u)'
  <2>1. crossed \subseteq crossed'
    BY DEF FilesFrame
  <2>2. pc[u] \in {"prepare", "publish", "compensate"} => req[u].path \in held[u]
    BY <1>1, NothingAssumption DEF Fits, Wanted, UpdatePc, CreatePc
  <2>3. pc[u] = "indexDelete" => Folder \subseteq held[u]
    BY <1>1 DEF Fits, Wanted, FolderPc
  <2>4. ASSUME pc[u] \in {"prepare", "publish"}
        PROVE  LET f == files'[req[u].path] IN
                 /\ f # Nothing /\ f.id = req[u].content.id
                 /\ f = req[u].expected[req[u].path] \/ f.by = "editor" \/ req[u].path \in crossed'
    BY <1>1, <2>1, <2>2, <2>4 DEF Found, Laws, HeldLaw
  <2>5. pc[u] = "compensate" => files'[req[u].path] = Nothing \/ req[u].path \in crossed'
    BY <1>1, <2>1, <2>2 DEF Found, Laws, HeldLaw
  <2>6. pc[u] = "indexDelete" => \A p \in Folder : files'[p] = Nothing \/ p \in crossed'
    BY <1>1, <2>1, <2>3 DEF Found, Laws, HeldLaw
  <2>7. QED
    BY <1>1, <2>4, <2>5, <2>6 DEF Found
<1>5. QED
  BY <1>2, <1>3, <1>4 DEF Own

\* A command that ends is sound if a refusal leaves nothing of it in the files.
LEMMA FinishKeeps ==
  ASSUME Types, NEW t \in Task, Writing(t), NEW answer \in Results, Finish(t, answer), UNCHANGED work,
         answer \in {"stale", "conflict", "failed"} /\ req[t].content # Nothing =>
            \A p \in Path : files'[p] # Nothing => files'[p].ver # req[t].content.ver
  PROVE  Own(t)'
<1>1. /\ pc'[t] = "idle" /\ held'[t] = {} /\ result'[t] = answer /\ req'[t].op = "none"
      /\ answer \in Answered => req'[t].content = Nothing
      /\ answer \notin Answered => req'[t].content = req[t].content
  BY FinishEffect
<1>2. Fits(t)'
  BY <1>1 DEF Fits, CreatePc, UpdatePc, MovePc, FolderPc, ReadPc
<1>3. Writing(t)'
  BY <1>1 DEF Writing, Refused, NoFileOf, Answered
<1>4. Found(t)'
  BY <1>1 DEF Found
<1>5. QED
  BY <1>2, <1>3, <1>4 DEF Own

\* A command that begins fits, and its number is new.
LEMMA BeginKeeps ==
  ASSUME Sound, NEW t \in Task, Begin(t)
  PROVE  Own(t)'
<1>1. Types /\ Numbers /\ Fits(t)
  BY DEF Sound
<1>2. pc[t] = "idle" /\ held[t] = {} /\ work' = work + 1 /\ work \in 0..MaxWork /\ work < MaxWork /\ UNCHANGED files
  BY <1>1 DEF Begin, BeginCreate, BeginUpdate, PlanMove, BeginDeleteFolder, BeginRead, Begins, Fits,
              Types, fileVars
<1>3. work' \in 1..work' /\ work' \in 1..MaxWork
  BY <1>2, BoundAssumption
<1>4. \A p \in Path : files'[p] # Nothing => files'[p].ver # work' /\ files'[p].id # work'
  BY <1>1, <1>2, <1>3, FirstAssumption DEF Numbers
<1>5. ASSUME NEW p \in Path, BeginCreate(t, p) PROVE Own(t)'
  <2>1. /\ pc'[t] = "lock" /\ held'[t] = {} /\ result'[t] = "none" /\ req'[t].op = "create"
        /\ req'[t].path \in Path /\ req'[t].content \in Content
        /\ req'[t].content.id = work' /\ req'[t].content.ver = work'
    BY <1>1, <1>2, <1>5, BeginCreateEffect
  <2>2. Fits(t)'
    BY <2>1, NothingAssumption DEF Fits, CreatePc, UpdatePc, MovePc, FolderPc, ReadPc
  <2>3. Writing(t)'
    BY <1>3, <1>4, <2>1 DEF Writing, NoFileOf
  <2>4. QED
    BY <2>1, <2>2, <2>3 DEF Found, Own
<1>6. ASSUME NEW p \in Path, NEW assign \in BOOLEAN, BeginUpdate(t, p, assign) PROVE Own(t)'
  <2>1. /\ pc'[t] = "lock" /\ held'[t] = {} /\ result'[t] = "none" /\ req'[t].op = "update"
        /\ req'[t].path = p /\ req'[t].content \in Content /\ req'[t].dest # p
        /\ req'[t].content.ver = work'
        /\ files[p] # Nothing /\ req'[t].expected[p] = files[p] /\ req'[t].content.id = files[p].id
    BY <1>1, <1>2, <1>6, BeginUpdateEffect
  <2>2. Fits(t)'
    BY <2>1, NothingAssumption DEF Fits, CreatePc, UpdatePc, MovePc, FolderPc, ReadPc
  <2>3. Writing(t)'
    BY <1>3, <1>4, <2>1 DEF Writing, NoFileOf
  <2>4. Found(t)'
    BY <2>1 DEF Found
  <2>5. QED
    BY <2>2, <2>3, <2>4 DEF Own
<1>7. ASSUME NEW p \in Path, PlanMove(t, p) PROVE Own(t)'
  <2>1. /\ pc'[t] = "lock" /\ held'[t] = {} /\ result'[t] = "none" /\ req'[t].op = "move"
        /\ req'[t].path = p /\ req'[t].dest \in Path \ {p} /\ req'[t].content = Nothing
        /\ {p, req'[t].dest} \subseteq req'[t].rows
        /\ req'[t].expected[req'[t].dest] = Nothing
        /\ \A r \in req'[t].rows \ {req'[t].dest} : req'[t].expected[r] # Nothing
    BY <1>1, <1>2, <1>7, PlanMoveEffect
  <2>2. Fits(t)'
    BY <2>1 DEF Fits, CreatePc, UpdatePc, MovePc, FolderPc, ReadPc
  <2>3. QED
    BY <2>1, <2>2 DEF Writing, Found, Own
<1>8. CASE BeginDeleteFolder(t)
  <2>1. /\ pc'[t] = "lock" /\ held'[t] = {} /\ result'[t] = "none" /\ req'[t].op = "deleteFolder"
        /\ req'[t].content = Nothing
    BY <1>1, <1>2, <1>8, BeginDeleteFolderEffect
  <2>2. Fits(t)'
    BY <2>1 DEF Fits, CreatePc, UpdatePc, MovePc, FolderPc, ReadPc
  <2>3. QED
    BY <2>1, <2>2 DEF Writing, Found, Own
<1>9. ASSUME NEW id \in Page, BeginRead(t, id) PROVE Own(t)'
  <2>1. /\ held'[t] = {} /\ req'[t].content = Nothing
        /\ \/ pc'[t] = "lock" /\ result'[t] = "none" /\ req'[t].op = "read" /\ req'[t].path \in Path
           \/ pc'[t] = "idle" /\ result'[t] = "absent" /\ req'[t].op = "none"
    BY <1>1, <1>9, LookUpEffect DEF BeginRead
  <2>2. Fits(t)'
    BY <2>1 DEF Fits, CreatePc, UpdatePc, MovePc, FolderPc, ReadPc
  <2>3. QED
    BY <2>1, <2>2 DEF Writing, Found, Own
<1>10. QED
  BY <1>5, <1>6, <1>7, <1>8, <1>9 DEF Begin

\* A read that tries again, or gives up.
LEMMA RetryKeeps ==
  ASSUME Sound, NEW t \in Task, Retry(t)
  PROVE  Own(t)'
<1>1. /\ held'[t] = {} /\ req'[t].content = Nothing
      /\ \/ pc'[t] = "lock" /\ result'[t] = "none" /\ req'[t].op = "read" /\ req'[t].path \in Path
         \/ pc'[t] = "idle" /\ req'[t].op = "none"
  BY RetryEffect DEF Sound
<1>2. Fits(t)'
  BY <1>1 DEF Fits, CreatePc, UpdatePc, MovePc, FolderPc, ReadPc
<1>3. QED
  BY <1>1, <1>2 DEF Writing, Found, Own

\* Going on to another place of the same command.
LEMMA GotoFits ==
  ASSUME Sound, NEW t \in Task, NEW label \in Pcs, Goto(t, label), UNCHANGED <<req, held, result>>,
         \E K \in {CreatePc, UpdatePc, MovePc, FolderPc, ReadPc} : pc[t] \in K /\ label \in K,
         label = "follow" => req[t].dest \in Path,
         label = "indexDelete" => req[t].rows \subseteq Folder,
         label # "removeDir"
  PROVE  Fits(t)' /\ pc'[t] = label /\ req'[t] = req[t]
<1>1. Types /\ Fits(t)
  BY DEF Sound
<1>2. pc'[t] = label /\ held'[t] = held[t] /\ result'[t] = result[t] /\ req'[t] = req[t]
  BY <1>1, GotoEffect
<1>3. Wanted(t)' = Wanted(t)
  BY <1>2 DEF Wanted
<1>4. QED
  BY <1>1, <1>2, <1>3 DEF Fits, CreatePc, UpdatePc, MovePc, FolderPc, ReadPc

\* The steps of a creation.
LEMMA CreateKeeps ==
  ASSUME Sound, NEW t \in Task,
         \/ PublishCreate(t) \/ UndurableCreate(t) \/ IndexCreate(t)
         \/ RollbackCreate(t) \/ CompensateCreate(t)
  PROVE  Own(t)'
<1> USE DEF fileVars
<1>0. Types /\ Fits(t) /\ Writing(t) /\ UNCHANGED work
  BY DEF Sound, PublishCreate, UndurableCreate, IndexCreate, RollbackCreate, CompensateCreate
<1>1. pc[t] \in CreatePc
  BY DEF PublishCreate, UndurableCreate, IndexCreate, RollbackCreate, CompensateCreate, CreatePc
<1>2. /\ req[t].op = "create" /\ req[t].path \in Path /\ req[t].content # Nothing
      /\ req[t].content.ver \in 1..work /\ req[t].content.id = req[t].content.ver
  BY <1>0, <1>1 DEF Fits, Writing
<1>3. /\ pc[t] \in {"publishCreate", "compensate"} => NoFileOf(req[t].content.ver)
      /\ pc[t] \in {"indexCreate", "rollback", "rollbackPartial"} =>
           \A p \in Path : files[p] # Nothing /\ files[p].ver = req[t].content.ver => p = req[t].path
  BY <1>0, <1>2 DEF Writing
<1>4. ASSUME NEW label \in {"indexCreate", "rollback", "rollbackPartial"}, Goto(t, label), UNCHANGED <<req, held, result>>,
             \A p \in Path : files'[p] # Nothing /\ files'[p].ver = req[t].content.ver => p = req[t].path
      PROVE  Own(t)'
  <2>1. Fits(t)' /\ pc'[t] = label /\ req'[t] = req[t]
    BY <1>1, <1>4, GotoFits DEF CreatePc, Pcs
  <2>2. Writing(t)'
    BY <1>0, <1>2, <1>4, <2>1 DEF Writing, Refused
  <2>3. Found(t)'
    BY <1>2, <2>1 DEF Found
  <2>4. QED
    BY <2>1, <2>2, <2>3 DEF Own
<1>5. CASE PublishCreate(t)
  <2>1. ASSUME files[req[t].path] = Nothing, Goto(t, "indexCreate"), UNCHANGED <<req, held, result>>,
               WriteFiles([files EXCEPT ![req[t].path] = req[t].content])
        PROVE  Own(t)'
    <3>1. files' = [files EXCEPT ![req[t].path] = req[t].content]
      BY <2>1 DEF WriteFiles
    <3>2. \A p \in Path \ {req[t].path} : files'[p] = files[p]
      BY <1>0, <3>1 DEF Types
    <3>3. \A p \in Path : files'[p] # Nothing /\ files'[p].ver = req[t].content.ver => p = req[t].path
      BY <1>3, <1>5, <3>2 DEF NoFileOf, PublishCreate
    <3>4. QED
      BY <1>4, <2>1, <3>3
  <2>2. ASSUME NEW answer \in {"conflict", "failed"}, Finish(t, answer), UNCHANGED files PROVE Own(t)'
    BY <1>0, <1>3, <1>5, <2>2, FinishKeeps DEF NoFileOf, PublishCreate, Results
  <2>3. QED
    BY <1>5, <2>1, <2>2 DEF PublishCreate
<1>6. CASE UndurableCreate(t)
  <2>1. CASE Finish(t, "failed") /\ UNCHANGED files
    BY <1>0, <1>3, <1>6, <2>1, FinishKeeps DEF NoFileOf, UndurableCreate, Results
  <2>2. CASE Finish(t, "done")
    BY <1>0, <2>2, FinishKeeps DEF Results
  <2>3. QED
    BY <1>6, <2>1, <2>2 DEF UndurableCreate
<1>7. CASE IndexCreate(t)
  <2>1. UNCHANGED files /\ pc[t] = "indexCreate"
    BY <1>7 DEF IndexCreate
  <2>2. CASE Finish(t, "done")
    BY <1>0, <2>2, FinishKeeps DEF Results
  <2>3. ASSUME NEW label \in {"rollback", "rollbackPartial"}, Goto(t, label), UNCHANGED <<req, held, result>>
        PROVE  Own(t)'
    BY <1>3, <1>4, <2>1, <2>3
  <2>4. QED
    BY <1>7, <2>2, <2>3 DEF IndexCreate
<1>8. CASE RollbackCreate(t)
  <2>1. CASE Finish(t, "done")
    BY <1>0, <2>1, FinishKeeps DEF Results
  <2>2. ASSUME WriteFiles([files EXCEPT ![req[t].path] = Nothing])
        PROVE  /\ files'[req[t].path] = Nothing
               /\ \A p \in Path : files'[p] # Nothing => files'[p].ver # req[t].content.ver
    <3>1. files'[req[t].path] = Nothing /\ \A p \in Path \ {req[t].path} : files'[p] = files[p]
      BY <1>0, <1>2, <2>2 DEF WriteFiles, Types
    <3>2. QED
      BY <1>3, <1>8, <3>1 DEF RollbackCreate
  <2>3. CASE WriteFiles([files EXCEPT ![req[t].path] = Nothing]) /\ Finish(t, "failed")
    BY <1>0, <2>2, <2>3, FinishKeeps DEF Results
  <2>4. CASE /\ WriteFiles([files EXCEPT ![req[t].path] = Nothing])
             /\ Goto(t, "compensate") /\ UNCHANGED <<req, held, result>>
    <3>1. Fits(t)' /\ pc'[t] = "compensate" /\ req'[t] = req[t]
      BY <1>1, <2>4, GotoFits DEF CreatePc, Pcs
    <3>2. Writing(t)'
      BY <1>0, <1>2, <2>2, <2>4, <3>1 DEF Writing, NoFileOf
    <3>3. Found(t)'
      BY <1>2, <2>2, <2>4, <3>1 DEF Found
    <3>4. QED
      BY <3>1, <3>2, <3>3 DEF Own
  <2>5. QED
    BY <1>8, <2>1, <2>3, <2>4 DEF RollbackCreate
<1>9. CASE CompensateCreate(t)
  BY <1>0, <1>3, <1>9, FinishKeeps DEF CompensateCreate, NoFileOf, Results
<1>10. QED
  BY <1>5, <1>6, <1>7, <1>8, <1>9

\* The steps of an update.
LEMMA UpdateKeeps ==
  ASSUME Sound, NEW t \in Task,
         \/ CompareUpdate(t) \/ PrepareUpdate(t) \/ PublishUpdate(t)
         \/ IndexUpdate(t) \/ FollowUpdate(t)
  PROVE  Own(t)'
<1> USE DEF fileVars
<1>0. Types /\ Fits(t) /\ Writing(t) /\ Found(t) /\ UNCHANGED work
  BY DEF Sound, CompareUpdate, PrepareUpdate, PublishUpdate, IndexUpdate, FollowUpdate
<1>1. pc[t] \in UpdatePc
  BY DEF CompareUpdate, PrepareUpdate, PublishUpdate, IndexUpdate, FollowUpdate, UpdatePc
<1>2. /\ req[t].op = "update" /\ req[t].path \in Path /\ req[t].content # Nothing
      /\ req[t].content.ver \in 1..work
      /\ req[t].expected[req[t].path] # Nothing
      /\ req[t].expected[req[t].path].id = req[t].content.id
  BY <1>0, <1>1 DEF Fits, Writing, Found
<1>3. pc[t] \in {"compare", "prepare", "publish"} => NoFileOf(req[t].content.ver)
  BY <1>0, <1>2 DEF Writing
<1>4. ASSUME NEW answer \in Results, Finish(t, answer), UNCHANGED files,
             pc[t] \in {"compare", "prepare", "publish"}
      PROVE  Own(t)'
  BY <1>0, <1>3, <1>4, FinishKeeps DEF NoFileOf
<1>5. ASSUME NEW answer \in {"done", "unavailable"}, Finish(t, answer) PROVE Own(t)'
  BY <1>0, <1>5, FinishKeeps DEF Results
<1>6. ASSUME NEW label \in {"prepare", "publish"}, Goto(t, label), UNCHANGED <<files, crossed, req, held, result>>,
             pc[t] \in {"compare", "prepare", "publish"},
             LET f == files[req[t].path] IN
               /\ f # Nothing /\ f.id = req[t].content.id
               /\ f = req[t].expected[req[t].path] \/ f.by = "editor" \/ req[t].path \in crossed
      PROVE  Own(t)'
  <2>1. Fits(t)' /\ pc'[t] = label /\ req'[t] = req[t]
    BY <1>1, <1>6, GotoFits DEF UpdatePc, Pcs
  <2>2. Writing(t)'
    BY <1>0, <1>2, <1>3, <1>6, <2>1 DEF Writing, NoFileOf
  <2>3. Found(t)'
    BY <1>2, <1>6, <2>1 DEF Found
  <2>4. QED
    BY <2>1, <2>2, <2>3 DEF Own
<1>7. CASE CompareUpdate(t)
  <2>1. CASE files[req[t].path] = req[t].expected[req[t].path]
    BY <1>2, <1>6, <1>7, <2>1 DEF CompareUpdate
  <2>2. CASE files[req[t].path] # req[t].expected[req[t].path]
    BY <1>4, <1>7, <2>2 DEF CompareUpdate, Results
  <2>3. QED
    BY <2>1, <2>2
<1>8. CASE PrepareUpdate(t)
  <2>1. CASE Goto(t, "publish") /\ UNCHANGED <<req, held, result>>
    BY <1>0, <1>6, <1>8, <2>1 DEF PrepareUpdate, Found
  <2>2. QED
    BY <1>4, <1>8, <2>1 DEF PrepareUpdate, Results
<1>9. CASE PublishUpdate(t)
  <2>1. Fits(t)' /\ pc'[t] = "index" /\ req'[t] = req[t]
    BY <1>1, <1>9, GotoFits DEF PublishUpdate, UpdatePc, Pcs
  <2>2. Writing(t)'
    BY <1>0, <1>2, <2>1 DEF Writing, Refused
  <2>3. Found(t)'
    BY <1>2, <2>1 DEF Found
  <2>4. QED
    BY <2>1, <2>2, <2>3 DEF Own
<1>10. CASE IndexUpdate(t)
  <2>1. CASE req[t].dest # Nothing /\ Goto(t, "follow") /\ UNCHANGED <<req, held, result>>
    <3>1. req[t].dest \in Path
      BY <1>0, <2>1 DEF Types, Requests
    <3>2. Fits(t)' /\ pc'[t] = "follow" /\ req'[t] = req[t]
      BY <1>1, <2>1, <3>1, GotoFits DEF UpdatePc, Pcs
    <3>3. Writing(t)'
      BY <1>0, <1>2, <3>2 DEF Writing, Refused
    <3>4. Found(t)'
      BY <1>2, <3>2 DEF Found
    <3>5. QED
      BY <3>2, <3>3, <3>4 DEF Own
  <2>2. QED
    BY <1>5, <1>10, <2>1 DEF IndexUpdate
<1>11. CASE FollowUpdate(t)
  BY <1>5, <1>11 DEF FollowUpdate
<1>12. QED
  BY <1>7, <1>8, <1>9, <1>10, <1>11

\* The steps of the other commands.
LEMMA RestKeeps ==
  ASSUME Sound, NEW t \in Task,
         \/ PublishMove(t) \/ IndexMove(t) \/ SnapshotFolder(t) \/ RemoveFolder(t)
         \/ IndexDeleteFolder(t) \/ ConfirmRead(t) \/ ReadById(t)
  PROVE  Own(t)'
<1> USE DEF fileVars
<1>0. Types /\ Fits(t) /\ Writing(t) /\ Found(t) /\ UNCHANGED work
  BY DEF Sound, PublishMove, IndexMove, SnapshotFolder, RemoveFolder, IndexDeleteFolder, ConfirmRead, ReadById
<1>1. pc[t] \in MovePc \cup FolderPc \cup ReadPc
  BY DEF PublishMove, IndexMove, SnapshotFolder, RemoveFolder, IndexDeleteFolder, ConfirmRead, ReadById,
         MovePc, FolderPc, ReadPc
<1>2. req[t].op \in {"move", "deleteFolder", "read"} /\ req[t].content = Nothing
  BY <1>0, <1>1 DEF Fits
<1>3. ASSUME NEW answer \in Results, Finish(t, answer) PROVE Own(t)'
  BY <1>0, <1>2, <1>3, FinishKeeps
<1>4. CASE PublishMove(t)
  <2>1. CASE Goto(t, "indexMove") /\ UNCHANGED <<req, held, result>>
    <3>1. Fits(t)' /\ pc'[t] = "indexMove" /\ req'[t] = req[t]
      BY <1>4, <2>1, GotoFits DEF PublishMove, MovePc, Pcs
    <3>2. QED
      BY <1>2, <3>1 DEF Own, Writing, Found
  <2>2. QED
    BY <1>3, <1>4, <2>1 DEF PublishMove, Results
<1>5. CASE IndexMove(t)
  BY <1>3, <1>5 DEF IndexMove, Results
<1>6. CASE SnapshotFolder(t)
  <2>1. /\ pc'[t] = "removeDir" /\ held'[t] = held[t] /\ result'[t] = result[t]
        /\ req'[t].op = req[t].op /\ req'[t].content = req[t].content
        /\ req'[t].rows \subseteq Folder
    BY <1>0, <1>6, SnapshotEffect
  <2>2. req[t].op = "deleteFolder" /\ Folder \subseteq held[t] /\ result[t] = "none"
    BY <1>0, <1>6 DEF Fits, SnapshotFolder, FolderPc, Wanted
  <2>3. Fits(t)'
    BY <1>2, <2>1, <2>2 DEF Fits, Wanted, CreatePc, UpdatePc, MovePc, FolderPc, ReadPc
  <2>4. QED
    BY <1>2, <2>1, <2>2, <2>3 DEF Own, Writing, Found
<1>7. CASE RemoveFolder(t)
  <2>1. CASE /\ WriteFiles([p \in Path |-> IF p \in Folder THEN Nothing ELSE files[p]])
             /\ Goto(t, "indexDelete") /\ UNCHANGED <<req, held, result>>
    <3>1. req[t].rows \subseteq Folder
      BY <1>0, <1>7 DEF Fits, RemoveFolder
    <3>2. Fits(t)' /\ pc'[t] = "indexDelete" /\ req'[t] = req[t]
      BY <1>7, <2>1, <3>1, GotoFits DEF RemoveFolder, FolderPc, Pcs
    <3>3. \A p \in Folder : files'[p] = Nothing
      BY <2>1, PathAssumption DEF WriteFiles
    <3>4. QED
      BY <1>2, <3>2, <3>3, <1>7, <1>0 DEF Own, Writing, Found, Fits, RemoveFolder, FolderPc
  <2>2. QED
    BY <1>3, <1>7, <2>1 DEF RemoveFolder, Results
<1>8. CASE IndexDeleteFolder(t)
  <2>1. ASSUME NEW p \in req[t].rows, req' = [req EXCEPT ![t].rows = @ \ {p}], UNCHANGED <<pc, held, result>>
        PROVE  Own(t)'
    <3>1. p \in Path
      BY <1>0 DEF Types, Requests
    <3>2. /\ pc'[t] = pc[t] /\ held'[t] = held[t] /\ result'[t] = result[t]
          /\ req'[t].op = req[t].op /\ req'[t].content = req[t].content
          /\ req'[t].rows \subseteq req[t].rows
      BY <1>0, <2>1, <3>1, RowsEffect
    <3>3. /\ req[t].op = "deleteFolder" /\ pc[t] = "indexDelete" /\ Folder \subseteq held[t]
          /\ req[t].rows \subseteq Folder /\ result[t] = "none"
      BY <1>0, <1>8 DEF Fits, IndexDeleteFolder, FolderPc, Wanted
    <3>4. Fits(t)'
      BY <1>2, <3>2, <3>3 DEF Fits, Wanted, CreatePc, UpdatePc, MovePc, FolderPc, ReadPc
    <3>5. \A p1 \in Folder : files'[p1] = Nothing \/ p1 \in crossed'
      BY <1>0, <1>8, <3>3 DEF Found, IndexDeleteFolder
    <3>6. QED
      BY <1>2, <3>2, <3>3, <3>4, <3>5 DEF Own, Writing, Found
  <2>2. CASE Finish(t, "done")
    BY <1>3, <2>2 DEF Results
  <2>3. QED
    BY <1>8, <2>1, <2>2 DEF IndexDeleteFolder
<1>9. CASE ConfirmRead(t)
  <2>1. CASE Goto(t, "read") /\ UNCHANGED <<req, held, result>>
    <3>1. Fits(t)' /\ pc'[t] = "read" /\ req'[t] = req[t]
      BY <1>9, <2>1, GotoFits DEF ConfirmRead, ReadPc, Pcs
    <3>2. QED
      BY <1>0, <1>2, <1>9, <3>1 DEF Own, Writing, Found, Fits, ConfirmRead, ReadPc
  <2>2. QED
    BY <1>9, <2>1, RetryKeeps DEF ConfirmRead
<1>10. CASE ReadById(t)
  BY <1>3, <1>10, RetryKeeps DEF ReadById, Results
<1>11. QED
  BY <1>4, <1>5, <1>6, <1>7, <1>8, <1>9, <1>10

\* Taking the locks.
LEMMA LockKeeps ==
  ASSUME Sound, NEW t \in Task, LockPaths(t)
  PROVE  Own(t)'
<1>0. Types /\ Fits(t) /\ Writing(t) /\ Found(t) /\ UNCHANGED <<work, files, crossed>>
  BY DEF Sound, LockPaths, fileVars
<1>1. /\ pc[t] = "lock" /\ pc'[t] = FirstStep(req[t].op) /\ held'[t] = Wanted(t)
      /\ result'[t] = result[t] /\ req'[t] = req[t]
  BY <1>0, LockEffect
<1>2. req[t].op \in {"create", "update", "move", "deleteFolder", "read"}
  BY <1>0, <1>1 DEF Fits, Types, Requests
<1>3. Wanted(t)' = Wanted(t)
  BY <1>1 DEF Wanted
<1>4. Fits(t)'
  BY <1>0, <1>1, <1>2, <1>3 DEF Fits, FirstStep, CreatePc, UpdatePc, MovePc, FolderPc, ReadPc
<1>5. Writing(t)'
  BY <1>0, <1>1, <1>2 DEF Writing, NoFileOf, FirstStep, Refused
<1>6. Found(t)'
  BY <1>0, <1>1, <1>2 DEF Found, FirstStep
<1>7. QED
  BY <1>4, <1>5, <1>6 DEF Own

\* After a step of request t, every request knows what it must, the locks
\* exclude each other and the numbers differ.
LEMMA SoundStep ==
  ASSUME Sound, NEW t \in Task, Begin(t) \/ Step(t)
  PROVE  Locks' /\ Numbers' /\ OneFilePerPage' /\ \A u \in Task : Own(u)'
<1>0. Types /\ Locks /\ Numbers /\ Fits(t) /\ \A u \in Task : Writing(u)
  BY DEF Sound
<1>1. TaskFrame(t) /\ work' \in {work, work + 1} /\ Claims(t)
  BY <1>0, TaskStep
<1>2. FilesFrame /\ \A u \in Task \ {t} : Laws(u)
  BY FilesStep
<1>3. Own(t)'
  BY BeginKeeps, LockKeeps, CreateKeeps, UpdateKeeps, RestKeeps DEF Step
<1>4. \A u \in Task \ {t} : Own(u)'
  BY <1>1, <1>2, OthersKeep DEF TaskFrame
<1>5. OneFilePerPage'
  BY <1>2 DEF FilesFrame, Unique, OneFilePerPage
<1>6. Locks'
  <2>1. wHeld' = wHeld /\ \A u \in Task \ {t} : held'[u] = held[u]
    BY <1>1 DEF TaskFrame, Claims
  <2>2. held'[t] \cap wHeld = {} /\ \A u \in Task \ {t} : held'[t] \cap held[u] = {}
    <3>1. CASE held'[t] \subseteq held[t]
      BY <1>0, <3>1 DEF Locks
    <3>2. CASE held'[t] \cap LockedByOthers(t) = {}
      BY <3>2 DEF LockedByOthers
    <3>3. QED
      BY <1>1, <3>1, <3>2 DEF Claims
  <2>3. QED
    BY <1>0, <2>1, <2>2 DEF Locks
<1>7. Numbers'
  <2>1. ASSUME NEW u \in Task \ {t}, req'[t].content # Nothing, req'[u].content # Nothing
        PROVE  req'[t].content.ver # req'[u].content.ver
    <3>1. req'[u] = req[u] /\ req[u].content.ver \in 1..work
      BY <1>0, <1>1, <2>1 DEF TaskFrame, Writing
    <3>2. CASE req'[t].content = req[t].content
      BY <1>0, <2>1, <3>1, <3>2 DEF Numbers
    <3>3. CASE work' = work + 1 /\ req'[t].content.ver = work'
      BY <1>0, <3>1, <3>3 DEF Types
    <3>4. QED
      BY <1>1, <2>1, <3>2, <3>3 DEF Claims
  <2>2. ASSUME NEW u \in Task \ {t}, NEW v \in Task \ {t}, u # v,
               req'[u].content # Nothing, req'[v].content # Nothing
        PROVE  req'[u].content.ver # req'[v].content.ver
    BY <1>0, <1>1, <2>2 DEF TaskFrame, Numbers
  <2>3. Numbered(files', work')
    BY <1>2 DEF FilesFrame
  <2>4. QED
    BY <2>1, <2>2, <2>3 DEF Numbers, Numbered
<1>8. QED
  BY <1>3, <1>4, <1>5, <1>6, <1>7

-----------------------------------------------------------------------------
(* What the steps do to the index.                                         *)

\* A step is seen by the watcher, and leaves the index no farther from the
\* files than it was, except where a move crossed a lock.
IndexFrame ==
    /\ index' \in [Path -> Entry] /\ Unique(index')
    /\ events' \subseteq Path
    /\ \A p \in Path : p \in events \/ files'[p] # files[p] => p \in events'
    /\ \A p \in Path : index'[p] # files'[p] => index[p] # files'[p] \/ p \in crossed'
    /\ missed \subseteq missed' /\ crossed \subseteq crossed'

\* Such a step lets the index follow.
LEMMA IndexKeeps ==
  ASSUME IndexFollowsFiles, IndexFrame
  PROVE  IndexFollowsFiles' /\ OneRowPerPage'
<1>1. OneRowPerPage'
  BY DEF IndexFrame, Unique, OneRowPerPage
<1>2. ASSUME NEW p \in Path, index'[p] # files'[p] PROVE p \in events' \cup missed' \cup crossed'
  <2>1. index[p] # files'[p] \/ p \in crossed'
    BY <1>2 DEF IndexFrame
  <2>2. CASE files'[p] = files[p]
    BY <2>1, <2>2 DEF IndexFrame, IndexFollowsFiles
  <2>3. CASE files'[p] # files[p]
    BY <2>3 DEF IndexFrame
  <2>4. QED
    BY <2>2, <2>3
<1>3. QED
  BY <1>1, <1>2 DEF IndexFollowsFiles

\* Indexing some paths makes their rows right, and loses no other right row.
LEMMA ReindexedEffect ==
  ASSUME NEW P \in SUBSET Path, NEW new \in [Path -> Entry], index \in [Path -> Entry],
         Unique(index), Unique(new), index' = Reindexed(P, new)
  PROVE  /\ index' \in [Path -> Entry] /\ Unique(index')
         /\ \A r \in Path : index'[r] # new[r] => r \notin P /\ index[r] # new[r]
<1>1. \A r \in P : index'[r] = new[r]
  BY DEF Reindexed
<1>2. ASSUME NEW r \in Path \ P
      PROVE  /\ index'[r] \in {index[r], Nothing}
             /\ index'[r] # Nothing =>
                  \A p \in P : new[p] # Nothing => new[p].id # index'[r].id
             /\ index'[r] # index[r] =>
                  index[r] # Nothing /\ \E p \in P : new[p] # Nothing /\ new[p].id = index[r].id
  BY DEF Reindexed
<1>3. index' \in [Path -> Entry]
  <2>1. \A r \in Path : index'[r] \in Entry
    BY <1>1, <1>2 DEF Entry
  <2>2. QED
    BY <2>1 DEF Reindexed
<1>4. Unique(index')
  <2> SUFFICES ASSUME NEW p \in Path, NEW q \in Path, p # q, index'[p] # Nothing, index'[q] # Nothing
               PROVE  index'[p].id # index'[q].id
    BY DEF Unique
  <2>1. CASE p \in P /\ q \in P
    BY <1>1, <2>1 DEF Unique
  <2>2. CASE p \in P /\ q \notin P
    BY <1>1, <1>2, <2>2
  <2>3. CASE p \notin P /\ q \in P
    BY <1>1, <1>2, <2>3
  <2>4. CASE p \notin P /\ q \notin P
    BY <1>2, <2>4 DEF Unique
  <2>5. QED
    BY <2>1, <2>2, <2>3, <2>4
<1>5. ASSUME NEW r \in Path, index'[r] # new[r] PROVE r \notin P /\ index[r] # new[r]
  <2>1. r \notin P
    BY <1>1, <1>5
  <2>2. CASE index'[r] = index[r]
    BY <1>5, <2>1, <2>2
  <2>3. CASE index'[r] # index[r]
    BY <1>2, <2>1, <2>3 DEF Unique
  <2>4. QED
    BY <2>1, <2>2, <2>3
<1>6. QED
  BY <1>3, <1>4, <1>5

\* A step that leaves the index alone.
LEMMA SameIndex ==
  ASSUME Types, OneRowPerPage, UNCHANGED <<index, missed>>, crossed \subseteq crossed', events' \subseteq Path,
         \A p \in Path : p \in events \/ files'[p] # files[p] => p \in events'
  PROVE  IndexFrame
BY DEF Types, OneRowPerPage, IndexFrame, Unique

\* A step that indexes some paths as they are.
LEMMA IndexPaths ==
  ASSUME Sound, OneRowPerPage, NEW paths \in SUBSET Path, index' = Reindexed(paths, files),
         UNCHANGED <<fileVars, missed, crossed>>
  PROVE  IndexFrame
<1>1. Types /\ Unique(index) /\ Unique(files)
  BY DEF Sound, OneRowPerPage, OneFilePerPage, Unique
<1>2. /\ index' \in [Path -> Entry] /\ Unique(index')
      /\ \A r \in Path : index'[r] # files[r] => index[r] # files[r]
  BY <1>1, ReindexedEffect DEF Types
<1>3. QED
  BY <1>1, <1>2 DEF IndexFrame, fileVars, Types

\* A step that drops the row of a path without a file.
LEMMA DropRow ==
  ASSUME Types, OneRowPerPage, NEW p \in Path, index' = [index EXCEPT ![p] = Nothing],
         files[p] = Nothing \/ p \in crossed, UNCHANGED <<fileVars, missed, crossed>>
  PROVE  IndexFrame
<1>1. index'[p] = Nothing /\ \A q \in Path \ {p} : index'[q] = index[q]
  BY DEF Types
<1>2. index' \in [Path -> Entry]
  BY DEF Types, Entry
<1>3. Unique(index')
  BY <1>1 DEF Unique, OneRowPerPage
<1>4. \A q \in Path : index'[q] # files[q] => index[q] # files[q] \/ q \in crossed
  BY <1>1
<1>5. QED
  BY <1>2, <1>3, <1>4 DEF IndexFrame, fileVars, Types

\* A step that changes files, and tells the watcher.
LEMMA WriteOnly ==
  ASSUME Types, OneRowPerPage, NEW new, WriteFiles(new), UNCHANGED <<index, missed>>, crossed \subseteq crossed'
  PROVE  IndexFrame
<1>1. files' = new /\ events' = events \cup {p \in Path : new[p] # files[p]}
  BY DEF WriteFiles
<1>2. events' \subseteq Path /\ \A p \in Path : p \in events \/ files'[p] # files[p] => p \in events'
  BY <1>1 DEF Types
<1>3. QED
  BY <1>2, SameIndex

\* A move on the index thread, indexed or not.
LEMMA MoveToIndex ==
  ASSUME Sound, OneRowPerPage, NEW p \in Path, NEW q \in Path \ {p}, NEW locked \in SUBSET Path,
         MovePageTo(p, q, locked) \/ MovePageToUnindexed(p, q, locked), UNCHANGED <<work, missed>>
  PROVE  IndexFrame
<1>1. Types /\ Unique(index)
  BY DEF Sound, OneRowPerPage, Unique
<1> DEFINE R == MovedPaths(p, q)
<1> DEFINE M == Moved(p, q, R)
<1>2. PublishMoveTo(p, q, locked)
  BY DEF MovePageTo, MovePageToUnindexed
<1>3. FilesFrame /\ files' = M /\ R \in SUBSET Path
  BY <1>2, MoveToFrame
<1>4. WriteFiles(M)
  BY <1>2 DEF PublishMoveTo
<1>5. CASE MovePageToUnindexed(p, q, locked)
  BY <1>1, <1>3, <1>4, <1>5, WriteOnly DEF MovePageToUnindexed, FilesFrame
<1>6. CASE MovePageTo(p, q, locked)
  <2>1. index' = Reindexed(R, M)
    BY <1>6 DEF MovePageTo
  <2> HIDE DEF M, R
  <2>2. M \in [Path -> Entry] /\ Unique(M) /\ crossed \subseteq crossed'
    BY <1>3 DEF FilesFrame
  <2>3. /\ index' \in [Path -> Entry] /\ Unique(index')
        /\ \A r \in Path : index'[r] # M[r] => index[r] # M[r]
    BY <1>1, <1>3, <2>1, <2>2, ReindexedEffect DEF Types
  <2>4. events' = events \cup {r \in Path : M[r] # files[r]}
    BY <1>4 DEF WriteFiles
  <2>5. events' \subseteq Path /\ \A r \in Path : r \in events \/ M[r] # files[r] => r \in events'
    BY <1>1, <2>4 DEF Types
  <2>6. QED
    BY <1>3, <2>2, <2>3, <2>5 DEF IndexFrame
<1>7. QED
  BY <1>5, <1>6

\* Every step of a request leaves the index no farther from the files.
LEMMA IndexStep ==
  ASSUME Sound, OneRowPerPage, NEW t \in Task, Begin(t) \/ Step(t)
  PROVE  IndexFrame
<1>0. Types /\ Fits(t) /\ Found(t)
  BY DEF Sound
<1> USE DEF fileVars, watchVars
<1>a. UNCHANGED missed
  BY DEF Begin, BeginCreate, BeginUpdate, PlanMove, BeginDeleteFolder, BeginRead,
         Step, LockPaths, PublishCreate, UndurableCreate, IndexCreate, RollbackCreate, CompensateCreate,
         CompareUpdate, PrepareUpdate, PublishUpdate, IndexUpdate, FollowUpdate, PublishMove, IndexMove,
         SnapshotFolder, RemoveFolder, IndexDeleteFolder, ConfirmRead, ReadById
<1>b. ASSUME UNCHANGED <<files, events, index, crossed>> PROVE IndexFrame
  BY <1>0, <1>a, <1>b, SameIndex DEF Types
<1>c. ASSUME NEW new, WriteFiles(new), UNCHANGED <<index, crossed>> PROVE IndexFrame
  BY <1>0, <1>a, <1>c, WriteOnly
<1>d. ASSUME NEW p \in Path, index' = Reindexed({p}, files), UNCHANGED <<files, events, crossed>>
      PROVE  IndexFrame
  BY <1>a, <1>d, IndexPaths
<1>1. CASE Begin(t)
  BY <1>1, <1>b DEF Begin, BeginCreate, BeginUpdate, PlanMove, BeginDeleteFolder, BeginRead
<1>2. CASE LockPaths(t)
  BY <1>2, <1>b DEF LockPaths
<1>3. CASE PublishCreate(t)
  BY <1>3, <1>b, <1>c DEF PublishCreate
<1>4. CASE UndurableCreate(t)
  <2>1. CASE events' = events \cup {req[t].path} /\ UNCHANGED files
    <3>1. req[t].path \in Path
      BY <1>0, <1>4 DEF UndurableCreate, Fits, CreatePc
    <3>2. QED
      BY <1>0, <1>4, <1>a, <2>1, <3>1, SameIndex DEF UndurableCreate, Types
  <2>2. QED
    BY <1>4, <1>c, <2>1 DEF UndurableCreate
<1>5. CASE IndexCreate(t)
  <2>1. req[t].path \in Path
    BY <1>0, <1>5 DEF IndexCreate, Fits, CreatePc
  <2>2. QED
    BY <1>5, <1>b, <1>d, <2>1 DEF IndexCreate
<1>6. CASE RollbackCreate(t)
  BY <1>6, <1>b, <1>c DEF RollbackCreate
<1>7. CASE CompensateCreate(t)
  <2>1. req[t].path \in Path /\ (files[req[t].path] = Nothing \/ req[t].path \in crossed)
    BY <1>0, <1>7 DEF CompensateCreate, Fits, Found, CreatePc
  <2>2. QED
    BY <1>0, <1>7, <1>a, <1>b, <2>1, DropRow DEF CompensateCreate
<1>8. CASE CompareUpdate(t)
  BY <1>8, <1>b DEF CompareUpdate
<1>9. CASE PrepareUpdate(t)
  BY <1>9, <1>b DEF PrepareUpdate
<1>10. CASE PublishUpdate(t)
  BY <1>10, <1>c DEF PublishUpdate
<1>11. CASE IndexUpdate(t)
  <2>1. req[t].path \in Path
    BY <1>0, <1>11 DEF IndexUpdate, Fits, UpdatePc
  <2>2. QED
    BY <1>11, <1>b, <1>d, <2>1 DEF IndexUpdate
<1>12. CASE FollowUpdate(t)
  <2>1. req[t].path \in Path /\ req[t].dest \in Path \ {req[t].path} /\ held[t] \in SUBSET Path
    BY <1>0, <1>12 DEF FollowUpdate, Fits, UpdatePc, Types
  <2>2. CASE MovePageTo(req[t].path, req[t].dest, held[t]) \/ MovePageToUnindexed(req[t].path, req[t].dest, held[t])
    BY <1>12, <1>a, <2>1, <2>2, MoveToIndex DEF FollowUpdate
  <2>3. QED
    BY <1>12, <1>b, <2>2 DEF FollowUpdate
<1>13. CASE PublishMove(t)
  BY <1>13, <1>b, <1>c DEF PublishMove
<1>14. CASE IndexMove(t)
  <2>1. req[t].rows \in SUBSET Path
    BY <1>0 DEF Types, Requests
  <2>2. QED
    BY <1>14, <1>a, <1>b, <2>1, IndexPaths DEF IndexMove
<1>15. CASE SnapshotFolder(t)
  BY <1>15, <1>b DEF SnapshotFolder
<1>16. CASE RemoveFolder(t)
  BY <1>16, <1>c DEF RemoveFolder
<1>17. CASE IndexDeleteFolder(t)
  <2>1. \A p \in req[t].rows : p \in Path /\ (files[p] = Nothing \/ p \in crossed)
    BY <1>0, <1>17, PathAssumption DEF IndexDeleteFolder, Fits, Found
  <2>2. ASSUME NEW p \in req[t].rows, index' = [index EXCEPT ![p] = Nothing] PROVE IndexFrame
    BY <1>0, <1>17, <1>a, <2>1, <2>2, DropRow DEF IndexDeleteFolder
  <2>3. QED
    BY <1>17, <1>b, <2>2 DEF IndexDeleteFolder
<1>18. CASE ConfirmRead(t)
  BY <1>18, <1>b DEF ConfirmRead
<1>19. CASE ReadById(t)
  BY <1>19, <1>b DEF ReadById
<1>20. QED
  BY <1>1, <1>2, <1>3, <1>4, <1>5, <1>6, <1>7, <1>8, <1>9, <1>10, <1>11, <1>12, <1>13, <1>14,
     <1>15, <1>16, <1>17, <1>18, <1>19 DEF Step

-----------------------------------------------------------------------------
(* The invariant.                                                          *)

\* A step of nobody's request keeps what the requests know, by their laws.
LEMMA WorldStep ==
  ASSUME Sound, UNCHANGED taskVars, FilesFrame, \A u \in Task : Laws(u),
         work' \in {work, work + 1}, wHeld' \subseteq Path, \A u \in Task : held[u] \cap wHeld' = {}
  PROVE  Locks' /\ Numbers' /\ OneFilePerPage' /\ \A u \in Task : Own(u)'
<1>1. Types /\ Locks /\ Numbers
  BY DEF Sound
<1>2. pc' = pc /\ req' = req /\ held' = held /\ result' = result
  BY DEF taskVars
<1>3. \A u \in Task : Own(u)'
  BY <1>2, OthersKeep
<1>4. Locks'
  BY <1>1, <1>2 DEF Locks
<1>5. Numbers'
  BY <1>1, <1>2 DEF Numbers, FilesFrame, Numbered
<1>6. QED
  BY <1>3, <1>4, <1>5 DEF FilesFrame, Unique, OneFilePerPage

\* It holds at the start.
LEMMA InitInv == Init => Inv
<1> SUFFICES ASSUME Init PROVE Inv
  OBVIOUS
<1> USE DEF Init
<1>1. Types
  <2>1. work \in 0..MaxWork
    BY BoundAssumption
  <2>2. req \in [Task -> Requests]
    BY EmptyRequest
  <2>3. QED
    BY <2>1, <2>2, FirstAssumption DEF Types, Pcs, Results
<1>2. Locks
  BY DEF Locks
<1>3. \A t \in Task : req[t].content = Nothing /\ req[t].op = "none" /\ pc[t] = "idle" /\ held[t] = {}
  BY EmptyRequest
<1>4. Numbers
  BY <1>3, FirstAssumption DEF Numbers
<1>5. OneFilePerPage /\ OneRowPerPage
  BY FirstAssumption DEF OneFilePerPage, OneRowPerPage
<1>6. \A t \in Task : Own(t)
  BY <1>3 DEF Own, Fits, Writing, Found, CreatePc, UpdatePc, MovePc, FolderPc, ReadPc
<1>7. IndexFollowsFiles
  BY DEF IndexFollowsFiles
<1>8. QED
  BY <1>1, <1>2, <1>4, <1>5, <1>6, <1>7 DEF Inv, Own

\* A step of a request keeps it.
LEMMA RequestStep ==
  ASSUME Inv, NEW t \in Task, Begin(t) \/ Step(t)
  PROVE  Inv'
<1>1. Sound /\ Types /\ Fits(t) /\ OneRowPerPage /\ IndexFollowsFiles
  BY DEF Inv, Sound
<1>2. Locks' /\ Numbers' /\ OneFilePerPage' /\ \A u \in Task : Own(u)'
  BY <1>1, SoundStep
<1>3. IndexFrame
  BY <1>1, IndexStep
<1>4. OneRowPerPage' /\ IndexFollowsFiles'
  BY <1>1, <1>3, IndexKeeps
<1>5. TaskFrame(t) /\ work' \in 0..MaxWork /\ Claims(t)
  BY <1>1, TaskStep
<1>6. FilesFrame
  BY <1>1, FilesStep
<1>7. Types'
  BY <1>1, <1>3, <1>5, <1>6 DEF Types, TaskFrame, Claims, IndexFrame, FilesFrame
<1>8. QED
  BY <1>2, <1>4, <1>7 DEF Inv, Own

\* The watcher indexing a batch keeps it.
LEMMA BatchStep ==
  ASSUME Inv, IndexBatch
  PROVE  Inv'
<1>1. Sound /\ Types /\ OneRowPerPage /\ IndexFollowsFiles /\ Unique(index) /\ Unique(files) /\ Locks
  BY DEF Inv, Sound, OneRowPerPage, OneFilePerPage, Unique
<1>2. UNCHANGED <<files, work, taskVars, wHeld, crossed>> /\ events' = {}
  BY DEF IndexBatch
<1>3. FilesFrame /\ \A u \in Task : Laws(u)
  BY <1>1, <1>2, SameFilesFrame
<1>4. Locks' /\ Numbers' /\ OneFilePerPage' /\ \A u \in Task : Own(u)'
  BY <1>1, <1>2, <1>3, WorldStep DEF Types, Locks
<1>5. CASE index' = Reindexed(events, files) /\ missed' = missed \ events
  <2>1. /\ index' \in [Path -> Entry] /\ Unique(index')
        /\ \A r \in Path : index'[r] # files[r] => r \notin events /\ index[r] # files[r]
    BY <1>1, <1>5, ReindexedEffect DEF Types
  <2>2. IndexFollowsFiles'
    BY <1>1, <1>2, <1>5, <2>1 DEF IndexFollowsFiles
  <2>3. OneRowPerPage'
    BY <2>1 DEF OneRowPerPage, Unique
  <2>4. Types'
    BY <1>1, <1>2, <2>1 DEF Types, taskVars
  <2>5. QED
    BY <1>4, <2>2, <2>3, <2>4 DEF Inv, Own
<1>6. CASE UNCHANGED index /\ missed' = missed \cup events
  <2>1. IndexFollowsFiles'
    BY <1>1, <1>2, <1>6 DEF IndexFollowsFiles
  <2>2. OneRowPerPage'
    BY <1>1, <1>6 DEF OneRowPerPage
  <2>3. Types'
    BY <1>1, <1>2, <1>6 DEF Types, taskVars
  <2>4. QED
    BY <1>4, <2>1, <2>2, <2>3 DEF Inv, Own
<1>7. QED
  BY <1>5, <1>6 DEF IndexBatch

\* The watcher taking the lock of a page keeps it.
LEMMA LockReconcileStep ==
  ASSUME Inv, NEW p \in Path, LockReconcile(p)
  PROVE  Inv'
<1>1. Sound /\ Types /\ OneRowPerPage /\ IndexFollowsFiles
  BY DEF Inv, Sound
<1>2. /\ UNCHANGED <<files, index, events, work, taskVars, missed, crossed>> /\ wHeld' = {p}
      /\ \A u \in Task : p \notin held[u]
  BY DEF LockReconcile
<1>3. FilesFrame /\ \A u \in Task : Laws(u)
  BY <1>1, <1>2, SameFilesFrame
<1>4. Locks' /\ Numbers' /\ OneFilePerPage' /\ \A u \in Task : Own(u)'
  BY <1>1, <1>2, <1>3, WorldStep
<1>5. Types' /\ OneRowPerPage' /\ IndexFollowsFiles'
  BY <1>1, <1>2 DEF Types, taskVars, OneRowPerPage, IndexFollowsFiles
<1>6. QED
  BY <1>4, <1>5 DEF Inv, Own

\* The watcher moving a page to the folder it declares keeps it.
LEMMA ReconcileStep ==
  ASSUME Inv, ReconcilePage
  PROVE  Inv'
<1>1. Sound /\ Types /\ OneRowPerPage /\ IndexFollowsFiles /\ Locks
  BY DEF Inv, Sound
<1> DEFINE p == CHOOSE q \in wHeld : TRUE
<1>2. /\ \/ /\ files[p] # Nothing /\ ProjectPath(p, files[p]) # Nothing
            /\ MovePageTo(p, Home[p], {}) \/ MovePageToUnindexed(p, Home[p], {})
         \/ UNCHANGED <<fileVars, index, crossed>>
      /\ p \in wHeld /\ wHeld' = {} /\ UNCHANGED <<work, taskVars, missed>>
  BY DEF ReconcilePage
<1> HIDE DEF p
<1>3. p \in Path /\ \A u \in Task : p \notin held[u]
  BY <1>1, <1>2 DEF Types, Locks
<1>4. FilesFrame /\ (\A u \in Task : Laws(u)) /\ IndexFrame
  <2>1. CASE UNCHANGED <<fileVars, index, crossed>>
    <3>1. FilesFrame /\ \A u \in Task : Laws(u)
      BY <1>1, <1>2, <2>1, SameFilesFrame DEF fileVars
    <3>2. IndexFrame
      BY <1>1, <1>2, <2>1, SameIndex DEF fileVars, Types
    <3>3. QED
      BY <3>1, <3>2
  <2>2. CASE /\ ProjectPath(p, files[p]) # Nothing
             /\ MovePageTo(p, Home[p], {}) \/ MovePageToUnindexed(p, Home[p], {})
    <3>1. Home[p] \in Path \ {p}
      BY <1>3, <2>2, PathAssumption DEF ProjectPath
    <3>2. PublishMoveTo(p, Home[p], {})
      BY <2>2 DEF MovePageTo, MovePageToUnindexed
    <3>3. {} \in SUBSET Path /\ \A u \in Task : held[u] \cap {} = {}
      OBVIOUS
    <3>4. FilesFrame /\ \A u \in Task : Laws(u)
      BY <1>1, <1>2, <1>3, <3>1, <3>2, <3>3, MoveToFrame
    <3>5. IndexFrame
      BY <1>1, <1>2, <1>3, <2>2, <3>1, <3>3, MoveToIndex
    <3>6. QED
      BY <3>4, <3>5
  <2>3. QED
    BY <1>2, <2>1, <2>2
<1>5. Locks' /\ Numbers' /\ OneFilePerPage' /\ \A u \in Task : Own(u)'
  BY <1>1, <1>2, <1>4, WorldStep
<1>6. OneRowPerPage' /\ IndexFollowsFiles'
  BY <1>1, <1>4, IndexKeeps
<1>7. Types'
  BY <1>1, <1>2, <1>4 DEF Types, taskVars, FilesFrame, IndexFrame
<1>8. QED
  BY <1>5, <1>6, <1>7 DEF Inv, Own

\* An editor saving a page keeps it.
LEMMA EditorStep ==
  ASSUME Inv, NEW p \in Path, NEW filed \in BOOLEAN, EditorSave(p, filed)
  PROVE  Inv'
<1>1. /\ Sound /\ Types /\ Numbers /\ OneFilePerPage /\ OneRowPerPage /\ IndexFollowsFiles /\ Locks
      /\ \A u \in Task : Writing(u)
  BY DEF Inv, Sound
<1>2. UNCHANGED <<index, taskVars, wHeld, missed, crossed>>
  BY DEF EditorSave, watchVars
<1>3. /\ files' \in [Path -> Entry] /\ work' = work + 1 /\ work' \in 0..MaxWork
      /\ Unique(files') /\ Numbered(files', work')
      /\ \A u \in Task : (req[u].content # Nothing => req[u].content.ver \in 1..work) => Laws(u)
  BY <1>1, SaveEffect
<1>4. FilesFrame /\ \A u \in Task : Laws(u)
  BY <1>1, <1>2, <1>3 DEF FilesFrame, Writing
<1>5. Locks' /\ Numbers' /\ OneFilePerPage' /\ \A u \in Task : Own(u)'
  BY <1>1, <1>2, <1>3, <1>4, WorldStep DEF Types, Locks
<1>6. PICK new : WriteFiles(new)
  BY DEF EditorSave
<1>7. IndexFrame
  BY <1>1, <1>2, <1>6, WriteOnly
<1>8. OneRowPerPage' /\ IndexFollowsFiles'
  BY <1>1, <1>7, IndexKeeps
<1>9. Types'
  BY <1>1, <1>2, <1>3, <1>7 DEF Types, taskVars, IndexFrame
<1>10. QED
  BY <1>5, <1>8, <1>9 DEF Inv, Own

\* Doing nothing keeps it.
LEMMA StutterInv ==
  ASSUME Inv, UNCHANGED vars
  PROVE  Inv'
<1>1. Sound /\ Types /\ OneRowPerPage /\ IndexFollowsFiles /\ Locks
  BY DEF Inv, Sound
<1>2. UNCHANGED <<files, index, events, work, taskVars, wHeld, missed, crossed>>
  BY DEF vars, watchVars
<1>3. FilesFrame /\ \A u \in Task : Laws(u)
  BY <1>1, <1>2, SameFilesFrame
<1>4. Locks' /\ Numbers' /\ OneFilePerPage' /\ \A u \in Task : Own(u)'
  BY <1>1, <1>2, <1>3, WorldStep DEF Types, Locks
<1>5. Types' /\ OneRowPerPage' /\ IndexFollowsFiles'
  BY <1>1, <1>2 DEF Types, taskVars, OneRowPerPage, IndexFollowsFiles
<1>6. QED
  BY <1>4, <1>5 DEF Inv, Own

\* Every reachable state satisfies the invariant: the locks exclude each other,
\* and what a request found out under its locks stays true until it acts on it.
THEOREM Safe == Spec => []Inv
<1>1. Init => Inv
  BY InitInv
<1>2. Inv /\ [Next]_vars => Inv'
  BY RequestStep, BatchStep, LockReconcileStep, ReconcileStep, EditorStep, StutterInv DEF Next
<1>3. QED
  BY <1>1, <1>2, PTL DEF Spec

\* No page is ever in two files, whatever moves, updates, creations, folder
\* projections and editor saves interleave (move_page_to, reconcile_upserts).
THEOREM PagesStayApart == Spec => []OneFilePerPage
<1>1. Inv => OneFilePerPage
  BY DEF Inv
<1>2. QED
  BY <1>1, Safe, PTL

\* The index differs from a file only where a reported change is still to be
\* indexed, a batch's failure was logged, or a move crossed a lock.
THEOREM IndexNeverLies == Spec => []IndexFollowsFiles
<1>1. Inv => IndexFollowsFiles
  BY DEF Inv
<1>2. QED
  BY <1>1, Safe, PTL

\* A create, update or replacement whose answer says that nothing was applied
\* has left nothing in the vault, but for the conflict of a destination that was
\* taken after the content was published (MutationError::filesystem_applied).
THEOREM RefusalsAreTrue == Spec => []RefusedIsNotApplied
<1>1. ASSUME Inv PROVE RefusedIsNotApplied
  <2> SUFFICES ASSUME NEW t \in Task, result[t] \in {"stale", "conflict", "failed"}, NEW p \in Path,
                      req[t].content # Nothing, files[p] = req[t].content
               PROVE  FALSE
    BY DEF RefusedIsNotApplied, Refusals, InVault
  <2>1. Fits(t) /\ Writing(t)
    BY <1>1 DEF Inv
  <2>2. Refused(t)
    BY <2>1 DEF Refused, Fits
  <2>3. NoFileOf(req[t].content.ver)
    BY <2>1, <2>2 DEF Writing
  <2>4. QED
    BY <2>3 DEF NoFileOf
<1>2. QED
  BY <1>1, Safe, PTL

\* A published update replaces exactly the content it compared, or an editor's
\* save, or a link that a move rewrote meanwhile (expected_content).
THEOREM UpdatesAreNotLost == Spec => NoLostUpdate
<1>1. ASSUME Inv, NEW t \in Task, pc[t] = "publish"
      PROVE  LET old == files[req[t].path]
             IN \/ old = req[t].expected[req[t].path]
                \/ old.by = "editor"
                \/ req[t].path \in crossed
  BY <1>1 DEF Inv, Found
<1> DEFINE Kept == \A t \in Task : (pc[t] = "publish" /\ pc'[t] = "index") =>
                     LET old == files[req[t].path]
                     IN \/ old = req[t].expected[req[t].path]
                        \/ old.by = "editor"
                        \/ req[t].path \in crossed
<1>2. Inv => Kept
  BY <1>1
<1>3. QED
  BY <1>2, Safe, PTL DEF NoLostUpdate

\* A read by id that fails on a page of the vault does so only while the index
\* lags behind that page's file (resolve_stable_by_id).
THEOREM ReadsAreTrue == Spec => ReadsFindThePage
<1> DEFINE Fair == \A t \in Task : (pc[t] \in {"confirm", "read"} /\ result'[t] \in {"vanished", "absent"}) =>
                     \A p \in Path : (files[p] # Nothing /\ files[p].id = req[t].id /\ p # req[t].path) =>
                       p \in events \cup missed \cup crossed
<1>1. ASSUME Inv, Next PROVE Fair
  <2> SUFFICES ASSUME NEW t \in Task, pc[t] \in {"confirm", "read"}, result'[t] \in {"vanished", "absent"},
                      NEW p \in Path, files[p] # Nothing, files[p].id = req[t].id, p # req[t].path,
                      index[p] = files[p]
               PROVE  FALSE
    BY <1>1 DEF Inv, IndexFollowsFiles
  <2>1. Types /\ OneRowPerPage /\ \A u \in Task : Fits(u)
    BY <1>1 DEF Inv
  <2>2. result[t] = "none"
    BY <2>1 DEF Fits
  <2>3. p \in PathsById(req[t].id)
    BY DEF PathsById
  <2>4. \A q \in PathsById(req[t].id) : q = p
    BY <2>1, <2>3 DEF PathsById, OneRowPerPage
  <2>5. ASSUME NEW answer \in {"done", "unstable", "absent", "vanished"}, Finish(t, answer)
        PROVE  result'[t] = answer
    BY <2>1, <2>5, FinishEffect DEF Results
  <2>6. ~ Retry(t)
    BY <2>1, <2>3, RetryEffect
  <2>7. ~ ConfirmRead(t)
    BY <2>2, <2>6 DEF ConfirmRead
  <2>8. ~ ReadById(t)
    BY <2>4, <2>5, <2>6 DEF ReadById
  <2>9. ~ (Begin(t) \/ Step(t))
    BY <2>7, <2>8 DEF Begin, BeginCreate, BeginUpdate, PlanMove, BeginDeleteFolder, BeginRead, Begins,
         Step, LockPaths, PublishCreate, UndurableCreate, IndexCreate, RollbackCreate, CompensateCreate,
         CompareUpdate, PrepareUpdate, PublishUpdate, IndexUpdate, FollowUpdate, PublishMove, IndexMove,
         SnapshotFolder, RemoveFolder, IndexDeleteFolder
  <2>10. ASSUME NEW u \in Task \ {t}, Begin(u) \/ Step(u) PROVE result'[t] = result[t]
    BY <2>1, <2>10, TaskStep DEF TaskFrame
  <2>11. CASE UNCHANGED result
    BY <2>2, <2>11
  <2>12. QED
    BY <1>1, <2>2, <2>9, <2>10, <2>11 DEF Next, IndexBatch, LockReconcile, ReconcilePage, EditorSave, taskVars
<1>2. ASSUME Inv, UNCHANGED vars PROVE Fair
  BY <1>2 DEF Inv, Fits, vars, taskVars
<1>3. Inv /\ [Next]_vars => Fair
  BY <1>1, <1>2
<1>4. QED
  BY <1>3, Safe, PTL DEF ReadsFindThePage, Spec
=============================================================================
