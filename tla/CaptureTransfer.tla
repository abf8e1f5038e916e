--------------------------- MODULE CaptureTransfer ---------------------------
(***************************************************************************)
(* Capturing a page with the browser extension.                            *)
(*                                                                         *)
(* The user starts a capture of a tab; the background worker claims an     *)
(* attempt, injects a content script, and the script sends metadata and    *)
(* the snapshot in chunks, one message at a time.  The worker assembles    *)
(* them, uploads the page and shows the phase of the attempt.  The browser *)
(* may stop the worker at any point and starts it again with the next      *)
(* event: what is in memory is gone, and the statuses come back from       *)
(* session storage as the last finished write left them.  A script that    *)
(* was sent for an attempt can outlive it.                                 *)
(*                                                                         *)
(* A snapshot is its chunk numbers; a status is its phase and attempt.     *)
(* The worker is single-threaded: an action runs to its next await, and    *)
(* what follows the write of a status is carried in the queue of writes.   *)
(*                                                                         *)
(* Source: extension/src/background/service-worker.ts and, of its lib,     *)
(* chunked-transfer.ts, pending-transfer.ts and capture-queue.ts;          *)
(* extension/src/content/capture.ts.                                       *)
(***************************************************************************)
EXTENDS Integers, Sequences

CONSTANTS
  Tab,           \* browser tabs
  Url,           \* [Tab -> the URL shown]
  Chunks,        \* chunks of a snapshot
  MaxAttempts,   \* bound on captures started
  MaxDeaths,     \* bound on worker terminations
  MaxFaults      \* bound on failing storage writes, injections and settings, and
                 \* on snapshots over the limits of a transfer

ASSUME CaptureAssumption ==
  /\ Chunks \in Nat \ {0}
  /\ {MaxAttempts, MaxDeaths, MaxFaults} \subseteq Nat

VARIABLES
  awake,     \* the worker runs
  status,    \* statuses: [Tab -> phase and attempt; attempt 0 when none]
  stored,    \* captureStatuses in session storage
  tail,      \* persistenceTail: snapshots to write, each with what awaits it
  bound,     \* captureAttempts: the attempt of a script's capture, or 0
  transfer,  \* pending transfers: "none", "bare" (no metadata yet), "meta"
  parts,     \* chunks in the assembler
  queue,     \* URLs in captureQueue
  task,      \* where a script's processCapture is
  injecting, \* attempts whose script is about to be injected
  recovery,  \* tabs with a capturing-recovery timer
  marker,    \* recentAborts: the script whose abort was shown, or 0
  script,    \* [attempt -> the content script injected for it]
  home,      \* [attempt -> its tab]
  attempts,  \* attempts so far
  vanished,  \* tabs whose script went away without a word (navigation)
  deaths, faults

memory == <<bound, transfer, parts, queue, task, injecting, marker>>
pages  == <<script, home, attempts, vanished>>
shown  == <<status, tail, recovery>>
vars   == <<awake, shown, stored, memory, pages, deaths, faults>>

Attempt == 1..MaxAttempts
Phases == {"capturing", "processing", "uploading", "done", "duplicate", "conflict", "error"}
Running == {"capturing", "processing", "uploading"}
NoStatus == [phase |-> "none", attempt |-> 0]
Waiting == {"meta", "chunkWait", "abortWait", "errorWait"}

Fault == faults < MaxFaults /\ faults' = faults + 1

Forgotten ==
  /\ bound' = [s \in Attempt |-> 0] /\ transfer' = [s \in Attempt |-> "none"]
  /\ parts' = [s \in Attempt |-> {}] /\ queue' = {}
  /\ task' = [s \in Attempt |-> "none"] /\ injecting' = {}
  /\ marker' = [t \in Tab |-> 0]

Init ==
  /\ awake = TRUE
  /\ status = [t \in Tab |-> NoStatus] /\ stored = [t \in Tab |-> NoStatus]
  /\ tail = <<>> /\ recovery = {}
  /\ bound = [s \in Attempt |-> 0] /\ transfer = [s \in Attempt |-> "none"]
  /\ parts = [s \in Attempt |-> {}] /\ queue = {}
  /\ task = [s \in Attempt |-> "none"] /\ injecting = {}
  /\ marker = [t \in Tab |-> 0]
  /\ script = [s \in Attempt |-> [pc |-> "none", next |-> 1]]
  /\ home \in [Attempt -> Tab]
  /\ attempts = 0 /\ vanished = {} /\ deaths = 0 /\ faults = 0

----------------------------------------------------------------------------
(* Statuses.                                                               *)

\* reportPhase: the status of the attempt changes, and "then" follows when
\* the snapshot of all statuses is written.
Report(t, a, phase, then, who) ==
  /\ status' = [status EXCEPT ![t] = [phase |-> phase, attempt |-> a]]
  /\ tail' = Append(tail, [tab |-> t, snap |-> status', then |-> then, who |-> who])
  /\ recovery' = recovery \ {t}

\* reportPhase writes only for the attempt that the tab still shows.
Shows(t, a) == a # 0 /\ status[t].attempt = a

Active(t) == status[t].phase \in Running

\* The answer to a message lets the script go on.
Answered(s) ==
  [script EXCEPT ![s].pc = CASE @ = "meta" -> "chunk"
                             [] @ = "abortWait" -> "erring"
                             [] @ = "chunkWait" -> IF script[s].next > Chunks
                                                   THEN "over" ELSE "chunk"
                             [] @ = "errorWait" -> "over"
                             [] OTHER -> @]

\* A write ends, or fails unnoticed, and its reporter continues: it was applied
\* unless the tab's status has changed since.
Persist ==
  /\ awake /\ tail # <<>>
  /\ LET h == Head(tail)
         applied == \A k \in 2..Len(tail) : tail[k].tab # h.tab
     IN /\ \/ stored' = h.snap /\ UNCHANGED faults
           \/ Fault /\ UNCHANGED stored
        /\ tail' = Tail(tail)
        /\ script' = IF h.then \in {"meta", "answer"} THEN Answered(h.who) ELSE script
        /\ transfer' = IF h.then = "meta" /\ applied
                       THEN [transfer EXCEPT ![h.who] = "meta"] ELSE transfer
        /\ task' = CASE h.then = "upload" /\ applied -> [task EXCEPT ![h.who] = "post"]
                     [] h.then = "upload" /\ ~applied -> [task EXCEPT ![h.who] = "none"]
                     [] h.then = "finish" -> [task EXCEPT ![h.who] = "none"]
                     [] OTHER -> task
        /\ queue' = IF h.then = "finish" \/ (h.then = "upload" /\ ~applied)
                    THEN queue \ {Url[home[h.who]]} ELSE queue
  /\ UNCHANGED <<awake, status, recovery, bound, parts, injecting, marker, home,
                 attempts, vanished, deaths>>

----------------------------------------------------------------------------
(* Starting a capture.                                                     *)

\* claimAttempt for the toolbar, the shortcut and the popup.
Start(t) ==
  /\ awake /\ ~Active(t) /\ attempts < MaxAttempts
  /\ LET a == attempts + 1
     IN /\ attempts' = a /\ home[a] = t
        /\ Report(t, a, "capturing", "nothing", a)
        /\ injecting' = injecting \cup {a}
  /\ UNCHANGED <<awake, stored, bound, transfer, parts, queue, task, marker,
                 script, home, vanished, deaths, faults>>

\* injectClaimedCapture, fetchTabAndInject.
Inject(a) ==
  /\ awake /\ a \in injecting /\ injecting' = injecting \ {a}
  /\ \/ /\ ~Shows(home[a], a) /\ UNCHANGED <<shown, script, faults>>
     \/ /\ Shows(home[a], a) /\ script' = [script EXCEPT ![a].pc = "reading"]
        /\ UNCHANGED <<shown, faults>>
     \/ /\ Shows(home[a], a) /\ Fault
        /\ Report(home[a], a, "error", "nothing", a) /\ UNCHANGED script
  /\ UNCHANGED <<awake, stored, bound, transfer, parts, queue, task, marker,
                 home, attempts, vanished, deaths>>

----------------------------------------------------------------------------
(* The messages of a script.                                               *)

\* bindCaptureToCurrentAttempt: a new capture belongs to the attempt the tab
\* shows, a known one only to its own, and none to an attempt that ended.
Bindable(s) ==
  /\ Active(home[s])
  /\ bound[s] \in {0, status[home[s]].attempt}

Bind(s) == bound' = [bound EXCEPT ![s] = IF Bindable(s) THEN status[home[s]].attempt ELSE @]

HandleMeta(s) ==
  /\ awake /\ script[s].pc = "reading" /\ Bind(s)
  /\ IF Bindable(s)
     THEN /\ Report(home[s], status[home[s]].attempt, "processing", "meta", s)
          /\ script' = [script EXCEPT ![s].pc = "meta"]
     ELSE script' = [script EXCEPT ![s].pc = "chunk"] /\ UNCHANGED shown
  /\ UNCHANGED <<awake, stored, transfer, parts, queue, task, injecting, marker,
                 home, attempts, vanished, deaths, faults>>

Sent(s) ==
  [script EXCEPT ![s].next = @ + 1, ![s].pc = IF script[s].next = Chunks THEN "over" ELSE @]

\* A chunk is kept and restarts the inactivity timer, or completes the
\* snapshot, which goes to the capture queue with its metadata, or is rejected
\* because the snapshot is too large.
HandleChunk(s) ==
  /\ awake /\ script[s].pc = "chunk" /\ Bind(s)
  /\ LET t == home[s]
         now == parts[s] \cup {script[s].next}
         whole == now = 1..Chunks
     IN \/ /\ ~Bindable(s)
           /\ script' = Sent(s) /\ UNCHANGED <<shown, transfer, parts, queue, task, faults>>
        \/ /\ Bindable(s) /\ Fault
           /\ parts' = [parts EXCEPT ![s] = {}]
           /\ transfer' = [transfer EXCEPT ![s] = "none"]
           /\ Report(t, status[t].attempt, "error", "answer", s)
           /\ script' = [Sent(s) EXCEPT ![s].pc = "chunkWait"]
           /\ UNCHANGED <<queue, task>>
        \/ /\ Bindable(s) /\ ~whole
           /\ parts' = [parts EXCEPT ![s] = now]
           /\ transfer' = [transfer EXCEPT ![s] = IF @ = "none" THEN "bare" ELSE @]
           /\ Report(t, status[t].attempt, "processing", "nothing", s)
           /\ script' = Sent(s) /\ UNCHANGED <<queue, task, faults>>
        \/ /\ Bindable(s) /\ whole /\ UNCHANGED faults
           /\ parts' = [parts EXCEPT ![s] = {}]
           /\ transfer' = [transfer EXCEPT ![s] = "none"]
           /\ IF transfer[s] = "meta" /\ Url[t] \notin queue
              THEN /\ queue' = queue \cup {Url[t]}
                   /\ task' = [task EXCEPT ![s] = "settings"]
                   /\ script' = Sent(s) /\ UNCHANGED shown
              ELSE /\ Report(t, status[t].attempt,
                             IF transfer[s] = "meta" THEN "duplicate" ELSE "error",
                             "answer", s)
                   /\ script' = [Sent(s) EXCEPT ![s].pc = "chunkWait"]
                   /\ UNCHANGED <<queue, task>>
  /\ UNCHANGED <<awake, stored, injecting, marker, home, attempts, vanished, deaths>>

\* sendCaptureTransfer's abort, after a message that failed.
HandleAbort(s) ==
  /\ awake /\ script[s].pc = "aborting" /\ Bind(s)
  /\ transfer' = [transfer EXCEPT ![s] = "none"] /\ parts' = [parts EXCEPT ![s] = {}]
  /\ IF Bindable(s)
     THEN /\ Report(home[s], status[home[s]].attempt, "error", "answer", s)
          /\ marker' = [marker EXCEPT ![home[s]] = s]
          /\ script' = [script EXCEPT ![s].pc = "abortWait"]
     ELSE script' = [script EXCEPT ![s].pc = "erring"] /\ UNCHANGED <<shown, marker>>
  /\ UNCHANGED <<awake, stored, queue, task, injecting, home, attempts, vanished,
                 deaths, faults>>

\* capture_error: unless it repeats the abort just shown, it is shown on
\* whatever attempt the tab has.
HandleError(s) ==
  /\ awake /\ script[s].pc = "erring"
  /\ LET t == home[s]
         a == IF status[t].attempt # 0 THEN status[t].attempt ELSE attempts + 1
     IN \/ /\ marker[t] = s
           /\ marker' = [marker EXCEPT ![t] = 0]
           /\ script' = [script EXCEPT ![s].pc = "over"]
           /\ UNCHANGED <<shown, attempts>>
        \/ /\ marker[t] # s /\ a <= MaxAttempts
           /\ attempts' = IF a > attempts THEN a ELSE attempts
           /\ Report(t, a, "error", "answer", s)
           /\ script' = [script EXCEPT ![s].pc = "errorWait"]
           /\ UNCHANGED marker
  /\ UNCHANGED <<awake, stored, bound, transfer, parts, queue, task, injecting,
                 home, vanished, deaths, faults>>

MarkerExpires(t) ==
  /\ awake /\ marker[t] # 0 /\ marker' = [marker EXCEPT ![t] = 0]
  /\ UNCHANGED <<awake, shown, stored, bound, transfer, parts, queue, task,
                 injecting, pages, deaths, faults>>

\* The snapshot is rejected or cannot be made.
ScriptFails(s) ==
  /\ script[s].pc = "reading" /\ script' = [script EXCEPT ![s].pc = "erring"]
  /\ UNCHANGED <<awake, shown, stored, memory, home, attempts, vanished, deaths, faults>>

\* The user leaves the page: its script is gone.
Vanish(s) ==
  /\ script[s].pc \notin {"none", "over"}
  /\ script' = [script EXCEPT ![s].pc = "over"]
  /\ vanished' = vanished \cup {home[s]}
  /\ UNCHANGED <<awake, shown, stored, memory, home, attempts, deaths, faults>>

----------------------------------------------------------------------------
(* Uploading.                                                              *)

\* The settings are read, or not; then the phase is "uploading" if the attempt
\* is still the tab's.
Settings(s) ==
  /\ awake /\ task[s] = "settings"
  /\ LET t == home[s]
     IN \/ /\ ~Shows(t, bound[s])
           /\ task' = [task EXCEPT ![s] = "none"] /\ queue' = queue \ {Url[t]}
           /\ UNCHANGED <<shown, faults>>
        \/ /\ Shows(t, bound[s]) /\ Report(t, bound[s], "uploading", "upload", s)
           /\ task' = [task EXCEPT ![s] = "reporting"] /\ UNCHANGED <<queue, faults>>
        \/ /\ Shows(t, bound[s]) /\ Fault /\ Report(t, bound[s], "error", "finish", s)
           /\ task' = [task EXCEPT ![s] = "reporting"] /\ UNCHANGED queue
  /\ UNCHANGED <<awake, stored, bound, transfer, parts, injecting, marker, pages, deaths>>

\* ingestArchive answers.
Post(s, answer) ==
  /\ awake /\ task[s] = "post"
  /\ LET t == home[s]
     IN IF Shows(t, bound[s])
        THEN /\ Report(t, bound[s], answer, "finish", s)
             /\ task' = [task EXCEPT ![s] = "reporting"] /\ UNCHANGED queue
        ELSE /\ task' = [task EXCEPT ![s] = "none"] /\ queue' = queue \ {Url[t]}
             /\ UNCHANGED shown
  /\ UNCHANGED <<awake, stored, bound, transfer, parts, injecting, marker, pages,
                 deaths, faults>>

----------------------------------------------------------------------------
(* Timers, tabs and the worker's life.                                     *)

\* Mutant: an expired transfer is dropped without a word.
MutantExpire(s) ==
  /\ awake /\ transfer[s] # "none"
  /\ transfer' = [transfer EXCEPT ![s] = "none"] /\ parts' = [parts EXCEPT ![s] = {}]
  /\ UNCHANGED <<awake, shown, stored, bound, queue, task, injecting, marker, pages,
                 deaths, faults>>

\* The inactivity timer of a transfer and onExpire.
Expire(s) ==
  /\ awake /\ transfer[s] # "none"
  /\ transfer' = [transfer EXCEPT ![s] = "none"] /\ parts' = [parts EXCEPT ![s] = {}]
  /\ IF Shows(home[s], bound[s])
     THEN Report(home[s], bound[s], "error", "nothing", s)
     ELSE UNCHANGED shown
  /\ UNCHANGED <<awake, stored, bound, queue, task, injecting, marker, pages,
                 deaths, faults>>

\* scheduleCapturingRecovery.
Recover(t) ==
  /\ awake /\ t \in recovery
  /\ Report(t, status[t].attempt, "error", "nothing", 0)
  /\ UNCHANGED <<awake, stored, memory, pages, deaths, faults>>

\* tabs.onRemoved.
CloseTab(t) ==
  /\ awake /\ status[t] # NoStatus
  /\ LET here(s) == home[s] = t
     IN /\ transfer' = [s \in Attempt |-> IF here(s) THEN "none" ELSE transfer[s]]
        /\ parts' = [s \in Attempt |-> IF here(s) THEN {} ELSE parts[s]]
        /\ bound' = [s \in Attempt |-> IF here(s) THEN 0 ELSE bound[s]]
        /\ script' = [s \in Attempt |-> IF here(s) /\ script[s].pc # "none"
                                        THEN [script[s] EXCEPT !.pc = "over"]
                                        ELSE script[s]]
  /\ marker' = [marker EXCEPT ![t] = 0]
  /\ status' = [status EXCEPT ![t] = NoStatus]
  /\ tail' = Append(tail, [tab |-> t, snap |-> status', then |-> "nothing", who |-> 0])
  /\ recovery' = recovery \ {t}
  /\ UNCHANGED <<awake, stored, queue, task, injecting, home, attempts, vanished,
                 deaths, faults>>

\* The browser stops the worker: unanswered messages fail.
Die ==
  /\ awake /\ deaths < MaxDeaths /\ deaths' = deaths + 1
  /\ awake' = FALSE /\ Forgotten
  /\ status' = [t \in Tab |-> NoStatus] /\ tail' = <<>> /\ recovery' = {}
  /\ script' = [s \in Attempt |->
       [script[s] EXCEPT !.pc = CASE @ \in {"meta", "chunkWait"} -> "aborting"
                                  [] @ = "abortWait" -> "erring"
                                  [] @ = "errorWait" -> "over"
                                  [] OTHER -> @]]
  /\ UNCHANGED <<stored, home, attempts, vanished, faults>>

\* Mutant: a status comes back as it was.
MutantWake ==
  /\ ~awake /\ awake' = TRUE
  /\ status' = stored /\ tail' = <<>>
  /\ recovery' = {t \in Tab : stored[t].phase = "capturing"}
  /\ UNCHANGED <<stored, memory, pages, deaths, faults>>

\* The next event starts it: rehydrateStatuses ends what cannot be resumed and
\* gives a capture that was being read a deadline.
Wake ==
  /\ ~awake /\ awake' = TRUE
  /\ LET lost == {t \in Tab : stored[t].phase \in {"processing", "uploading"}}
         back == [t \in Tab |-> IF t \in lost THEN [stored[t] EXCEPT !.phase = "error"]
                                ELSE stored[t]]
     IN /\ status' = back
        /\ tail' = IF lost = {} THEN <<>>
                   ELSE <<[tab |-> CHOOSE t \in lost : TRUE, snap |-> back,
                           then |-> "nothing", who |-> 0]>>
        /\ recovery' = {t \in Tab : stored[t].phase = "capturing"}
  /\ UNCHANGED <<stored, memory, pages, deaths, faults>>

Next ==
  \/ Persist \/ Die \/ Wake
  \/ \E t \in Tab : Start(t) \/ MarkerExpires(t) \/ Recover(t) \/ CloseTab(t)
  \/ \E s \in Attempt : \/ Inject(s) \/ HandleMeta(s) \/ HandleChunk(s)
                        \/ HandleAbort(s) \/ HandleError(s) \/ ScriptFails(s)
                        \/ Vanish(s) \/ Settings(s) \/ Expire(s)
                        \/ \E answer \in {"done", "duplicate", "conflict", "error"} :
                             Post(s, answer)

Spec == Init /\ [][Next]_vars

\* The browser wakes the worker for its events, a script ends, a request is
\* answered, and an inactivity timer fires: a pending transfer keeps the worker
\* alive (startKeepAlive).  Nothing keeps it alive for the two minutes of
\* Recover, and so nothing is assumed of that timer.
Handle(s) == HandleMeta(s) \/ HandleChunk(s) \/ HandleAbort(s) \/ HandleError(s)
FairSpec ==
  /\ Spec
  /\ WF_vars(Persist) /\ WF_vars(Wake)
  /\ \A s \in Attempt :
       /\ WF_vars(Inject(s)) /\ WF_vars(Handle(s)) /\ WF_vars(Settings(s))
       /\ WF_vars(Expire(s))
       /\ WF_vars(\E answer \in {"done", "duplicate", "conflict", "error"} : Post(s, answer))

----------------------------------------------------------------------------
(* Properties.                                                             *)

\* What will end the attempt that tab t shows.
Owner(t) ==
  LET a == status[t].attempt
      here == {s \in Attempt : home[s] = t}
  IN CASE status[t].phase = "capturing" ->
            \/ a \in injecting \/ t \in recovery \cup vanished
            \/ \E s \in here : script[s].pc \notin {"none", "over"}
       [] status[t].phase = "processing" ->
            \E s \in here : bound[s] = a /\ \/ transfer[s] # "none" \/ task[s] # "none"
                                            \/ \E k \in DOMAIN tail :
                                                 tail[k].then = "meta" /\ tail[k].who = s
       [] status[t].phase = "uploading" ->
            \E s \in here : bound[s] = a /\ task[s] # "none"
       [] OTHER -> TRUE

\* A tab that shows a capture in progress has something under way that will
\* end it: an injection, a script, a transfer with its timer, an upload or the
\* recovery timer.  A worker that comes back never shows progress that nobody
\* makes (rehydrateStatuses, onExpire, claimAttempt refuses a second capture).
ProgressHasOwner == \A t \in Tab : Owner(t)

\* Tab t is in the middle of a capture: it shows one, or will when the worker
\* has been woken.
InProgress(t) == IF awake THEN Active(t) ELSE stored[t].phase \in Running

\* Nobody reads the page any more, and a tab that is still "capturing" has only
\* the recovery timer left, or nothing.
Stranded(t) ==
  /\ awake /\ status[t].phase = "capturing"
  /\ \/ t \in vanished
     \/ /\ t \in recovery /\ status[t].attempt \notin injecting
        /\ \A s \in Attempt : home[s] = t => script[s].pc \in {"none", "over"}

\* Every capture comes to an end, through deaths and restarts of the worker
\* (which end nothing by themselves while its status is stored), lost messages,
\* rejected chunks and expired transfers.  Excused is a capture whose page was
\* left while it was being read, or whose worker died between the claim and the
\* injection: it has no script, and the tab refuses another capture until the
\* worker has lived for two minutes.
CaptureEnds == \A t \in Tab : InProgress(t) ~> (~InProgress(t) \/ Stranded(t))

(***************************************************************************)
(* What docs, comments or tests say and the code does not keep: see        *)
(* "Known divergences" in the README.                                      *)
(***************************************************************************)
\* "Unique generation for one tab capture; stale work must match it to report"
\* (badge.ts:20): the status of an attempt changes by its own script, its
\* timers or the user.
StaleWorkIsSilent ==
  [][\A s \in Attempt, t \in Tab :
       (home[s] = t /\ (Handle(s) \/ Expire(s)) /\ status[t].attempt # s)
         => status'[t] = status[t]]_vars
=============================================================================
