------------------------ MODULE CaptureTransferProofs ------------------------
(***************************************************************************)
(* Proofs about CaptureTransfer, for every number of tabs, attempts,       *)
(* chunks, worker deaths and faults: progress that a tab shows has an      *)
(* owner that will end it.                                                 *)
(***************************************************************************)
EXTENDS CaptureTransfer, TLAPS

-----------------------------------------------------------------------------
(* The inductive invariant.                                                *)

AnyAttempt == 0..MaxAttempts
AnyPhase == Phases \cup {"none"}
Status == [phase : AnyPhase, attempt : AnyAttempt]
Write == [tab : Tab, snap : [Tab -> Status], who : AnyAttempt,
          then : {"nothing", "meta", "answer", "upload", "finish"}]
Script == [pc : {"none", "reading", "chunk", "aborting", "erring", "over"} \cup Waiting,
           next : Nat]

\* Captures, scripts and markers have their types.
Captures ==
  /\ bound \in [Attempt -> AnyAttempt]
  /\ transfer \in [Attempt -> {"none", "bare", "meta"}]
  /\ task \in [Attempt -> {"none", "settings", "reporting", "post"}]
  /\ injecting \subseteq Attempt /\ marker \in [Tab -> AnyAttempt]
  /\ script \in [Attempt -> Script] /\ vanished \subseteq Tab

TypeOK ==
  /\ awake \in BOOLEAN
  /\ status \in [Tab -> Status] /\ stored \in [Tab -> Status] /\ tail \in Seq(Write)
  /\ recovery \subseteq Tab /\ home \in [Attempt -> Tab] /\ attempts \in AnyAttempt
  /\ Captures

\* A set of statuses that could be shown: running phases belong to an attempt
\* that was made, and the page being read to one of that tab.
Fit(st) ==
  \A t \in Tab :
    /\ st[t].attempt <= attempts
    /\ st[t].phase \in Running => st[t].attempt # 0
    /\ st[t].phase = "capturing" => home[st[t].attempt] = t

\* Numbers in use are those of attempts that were made.
Made ==
  /\ \A s \in Attempt : bound[s] <= attempts /\ (script[s].pc # "none" => s <= attempts)
  /\ \A t \in Tab : marker[t] <= attempts

Numbered ==
  /\ Fit(status) /\ Fit(stored) /\ \A k \in DOMAIN tail : Fit(tail[k].snap)
  /\ Made

\* A worker that does not run has nothing in memory.
Asleep ==
  ~awake => /\ \A s \in Attempt : bound[s] = 0 /\ transfer[s] = "none" /\ task[s] = "none"
            /\ injecting = {} /\ \A t \in Tab : marker[t] = 0 /\ status[t] = NoStatus

\* Where a script is tells what it has not done yet.
Scripts ==
  \A s \in Attempt :
    /\ s \in injecting => script[s].pc = "none"
    /\ script[s].pc \in {"none", "reading"} => bound[s] = 0
    /\ task[s] # "none" => script[s].pc = "over"
    /\ transfer[s] # "none" => bound[s] # 0

\* Write k is the last one that tab t waits for.
Last(t, k) ==
  /\ k \in DOMAIN tail /\ tail[k].tab = t
  /\ \A m \in DOMAIN tail : m > k => tail[m].tab # t

\* A write that a task waits for is the only one of that task, and one that a
\* script's metadata waits for leaves the capture bound while it is the last.
Writes ==
  \A k \in DOMAIN tail :
    /\ tail[k].then \in {"upload", "finish"} =>
         /\ tail[k].who \in Attempt /\ task[tail[k].who] = "reporting"
         /\ \A m \in DOMAIN tail :
              (m # k /\ tail[m].then \in {"upload", "finish"}) => tail[m].who # tail[k].who
    /\ tail[k].then = "meta" =>
         /\ tail[k].who \in Attempt /\ home[tail[k].who] = tail[k].tab
         /\ Last(tail[k].tab, k) => bound[tail[k].who] # 0

\* The page of tab t is being read, by the script of the attempt itself.
Reading(t) ==
  LET a == status[t].attempt
  IN  /\ \A s \in Attempt : home[s] = t => bound[s] # a
      /\ marker[t] # a
      /\ \/ a \in injecting \/ t \in recovery \cup vanished
         \/ script[a].pc \in {"reading", "erring"}

\* Capture s has what it takes to end a transfer of tab t: chunks with their
\* timer, a task, or metadata about to be kept.
Carries(s, t) ==
  /\ home[s] = t /\ bound[s] = status[t].attempt
  /\ \/ transfer[s] # "none" \/ task[s] = "settings"
     \/ \E k \in DOMAIN tail : Last(t, k) /\ tail[k].then = "meta" /\ tail[k].who = s

\* Capture s uploads for tab t.
Uploads(s, t) ==
  /\ home[s] = t /\ bound[s] = status[t].attempt
  /\ \/ task[s] = "post"
     \/ task[s] = "reporting" /\ \E k \in DOMAIN tail :
          Last(t, k) /\ tail[k].then = "upload" /\ tail[k].who = s

Owned(t) ==
  /\ status[t].phase = "capturing" => Reading(t)
  /\ status[t].phase = "processing" => \E s \in Attempt : Carries(s, t)
  /\ status[t].phase = "uploading" => \E s \in Attempt : Uploads(s, t)

Inv ==
  /\ TypeOK /\ Numbered /\ Asleep /\ Scripts /\ Writes
  /\ \A t \in Tab : Owned(t)
-----------------------------------------------------------------------------
(* What reportPhase does.                                                  *)

\* The numbers of attempts.
LEMMA AttemptNumbers ==
  /\ Attempt \subseteq AnyAttempt /\ 0 \in AnyAttempt /\ AnyAttempt \subseteq Nat
  /\ \A a \in AnyAttempt : a # 0 => a \in Attempt
BY CaptureAssumption DEF Attempt, AnyAttempt

\* reportPhase changes the status of its tab and appends one write.
LEMMA ReportIs ==
  ASSUME TypeOK, NEW t \in Tab, NEW a \in AnyAttempt, NEW phase \in AnyPhase,
         NEW then \in {"nothing", "meta", "answer", "upload", "finish"}, NEW who \in AnyAttempt,
         Report(t, a, phase, then, who)
  PROVE  /\ status' \in [Tab -> Status] /\ tail' \in Seq(Write) /\ recovery' \subseteq Tab
         /\ status'[t].phase = phase /\ status'[t].attempt = a
         /\ \A u \in Tab : u # t => status'[u] = status[u]
         /\ recovery' = recovery \ {t}
         /\ Len(tail) \in Nat /\ DOMAIN tail = 1..Len(tail) /\ DOMAIN tail' = 1..(Len(tail) + 1)
         /\ \A k \in DOMAIN tail : tail'[k] = tail[k]
         /\ LET e == tail'[Len(tail) + 1]
            IN  e.tab = t /\ e.snap = status' /\ e.then = then /\ e.who = who
<1> DEFINE st == [phase |-> phase, attempt |-> a]
           e == [tab |-> t, snap |-> status', then |-> then, who |-> who]
<1>1. st \in Status /\ st.phase = phase /\ st.attempt = a
  BY DEF Status
<1>2. status' = [status EXCEPT ![t] = st] /\ tail' = Append(tail, e) /\ recovery' = recovery \ {t}
  BY DEF Report
<1> HIDE DEF st
<1>3. status' \in [Tab -> Status] /\ status'[t] = st /\ \A u \in Tab : u # t => status'[u] = status[u]
  BY <1>1, <1>2 DEF TypeOK
<1>4. e \in Write /\ e.tab = t /\ e.snap = status' /\ e.then = then /\ e.who = who
  BY <1>3 DEF Write
<1> HIDE DEF e
<1>5. tail \in Seq(Write) /\ tail' \in Seq(Write) /\ tail'[Len(tail) + 1] = e
      /\ Len(tail) \in Nat /\ DOMAIN tail = 1..Len(tail) /\ DOMAIN tail' = 1..(Len(tail) + 1)
      /\ \A k \in DOMAIN tail : tail'[k] = tail[k]
  BY <1>2, <1>4 DEF TypeOK
<1>6. recovery' \subseteq Tab
  BY <1>2 DEF TypeOK
<1> QED BY <1>1, <1>2, <1>3, <1>4, <1>5, <1>6

\* It leaves the statuses fit when what it reports is.
LEMMA ReportFits ==
  ASSUME TypeOK, Numbered, NEW t \in Tab, NEW a \in AnyAttempt, NEW phase \in AnyPhase,
         NEW then \in {"nothing", "meta", "answer", "upload", "finish"}, NEW who \in AnyAttempt,
         Report(t, a, phase, then, who), home' = home, attempts' \in AnyAttempt, attempts <= attempts',
         a <= attempts', phase \in Running => a # 0, phase = "capturing" => home[a] = t
  PROVE  Fit(status)' /\ (\A k \in DOMAIN tail : Fit(tail[k].snap))'
<1> DEFINE Fits(st) == \A u \in Tab : /\ st[u].attempt <= attempts'
                                      /\ st[u].phase \in Running => st[u].attempt # 0
                                      /\ st[u].phase = "capturing" => home[st[u].attempt] = u
<1>0. /\ status' \in [Tab -> Status] /\ status'[t].phase = phase /\ status'[t].attempt = a
      /\ \A u \in Tab : u # t => status'[u] = status[u]
      /\ DOMAIN tail = 1..Len(tail) /\ DOMAIN tail' = 1..(Len(tail) + 1) /\ Len(tail) \in Nat
      /\ \A k \in DOMAIN tail : tail'[k] = tail[k]
      /\ tail'[Len(tail) + 1].snap = status'
  BY ReportIs
<1>1. ASSUME NEW st \in [Tab -> Status], Fit(st)
      PROVE  Fits(st)
  <2>1. \A u \in Tab : st[u].attempt \in Nat
    BY AttemptNumbers DEF Status
  <2>2. attempts \in Nat /\ attempts' \in Nat
    BY AttemptNumbers DEF TypeOK
  <2>3. \A u \in Tab : st[u].attempt <= attempts'
    BY <1>1, <2>1, <2>2 DEF Fit
  <2> QED BY <1>1, <2>3 DEF Fit
<1>2. Fits(status')
  <2>1. Fits(status)
    BY <1>1 DEF TypeOK, Numbered
  <2> QED BY <1>0, <2>1
<1>3. ASSUME NEW k \in DOMAIN tail'
      PROVE  Fits(tail'[k].snap)
  <2>1. CASE k \in DOMAIN tail
    <3>1. tail[k] \in Write
      BY <2>1 DEF TypeOK
    <3>2. tail[k].snap \in [Tab -> Status] /\ Fit(tail[k].snap)
      BY <2>1, <3>1 DEF Write, Numbered
    <3>3. Fits(tail[k].snap)
      BY <1>1, <3>2
    <3> QED BY <1>0, <2>1, <3>3
  <2>2. CASE k \notin DOMAIN tail
    <3>1. k = Len(tail) + 1
      BY <1>0, <1>3, <2>2
    <3> QED BY <1>0, <1>2, <3>1
  <2> QED BY <2>1, <2>2
<1> QED BY <1>2, <1>3 DEF Fit

\* The queue of writes grew by one write for tab t.
Grown(t, then, who) ==
  /\ Len(tail) \in Nat /\ DOMAIN tail = 1..Len(tail) /\ DOMAIN tail' = 1..(Len(tail) + 1)
  /\ \A k \in DOMAIN tail : tail'[k] = tail[k]
  /\ tail'[Len(tail) + 1].tab = t
  /\ tail'[Len(tail) + 1].then = then /\ tail'[Len(tail) + 1].who = who

\* The new write is the last one of its tab; other tabs keep theirs.
LEMMA GrownLast ==
  ASSUME NEW t \in Tab, NEW then, NEW who, Grown(t, then, who)
  PROVE  /\ \A k \in Nat : Last(t, k)' <=> k = Len(tail) + 1
         /\ \A u \in Tab, k \in Nat : u # t => (Last(u, k)' <=> Last(u, k))
<1> DEFINE n == Len(tail) + 1
           LastP(u, k) == /\ k \in DOMAIN tail' /\ tail'[k].tab = u
                          /\ \A m \in DOMAIN tail' : m > k => tail'[m].tab # u
<1>1. /\ n \in Nat /\ DOMAIN tail = 1..Len(tail) /\ DOMAIN tail' = 1..n /\ Len(tail) \in Nat
      /\ \A k \in DOMAIN tail : tail'[k] = tail[k]
      /\ tail'[n].tab = t
  BY DEF Grown
<1>2. LastP(t, n)
  BY <1>1
<1>3. \A k \in Nat : LastP(t, k) => k = n
  BY <1>1
<1>4. ASSUME NEW u \in Tab, NEW k \in Nat, u # t
      PROVE  LastP(u, k) <=> Last(u, k)
  <2>1. LastP(u, k) => Last(u, k)
    BY <1>1, <1>4 DEF Last
  <2>2. Last(u, k) => LastP(u, k)
    BY <1>1, <1>4 DEF Last
  <2> QED BY <2>1, <2>2
<1>5. \A u, k : Last(u, k)' <=> LastP(u, k)
  BY DEF Last
<1> HIDE DEF LastP
<1> QED BY <1>1, <1>2, <1>3, <1>4, <1>5

\* A task that awaits a write goes on awaiting it.
Awaiting == \A s \in Attempt : task[s] = "reporting" => task'[s] = "reporting"

\* What is known of the writes survives a new one.
LEMMA WritesGrow ==
  ASSUME NEW t \in Tab, NEW then, NEW who, Grown(t, then, who),
         Writes, Awaiting, home' = home,
         \A s \in Attempt : (home[s] # t /\ bound[s] # 0) => bound'[s] # 0,
         then \in {"upload", "finish"} =>
           who \in Attempt /\ task'[who] = "reporting" /\ task[who] # "reporting",
         then = "meta" => who \in Attempt /\ home[who] = t /\ bound'[who] # 0
  PROVE  Writes'
<1> DEFINE n == Len(tail) + 1
<1>0. /\ n \in Nat /\ n = Len(tail) + 1 /\ DOMAIN tail = 1..Len(tail) /\ DOMAIN tail' = 1..n /\ Len(tail) \in Nat
      /\ \A k \in DOMAIN tail : tail'[k] = tail[k]
      /\ tail'[n].tab = t /\ tail'[n].then = then /\ tail'[n].who = who
  BY DEF Grown
<1> HIDE DEF n
<1>1. ASSUME NEW k \in DOMAIN tail', tail'[k].then \in {"upload", "finish"}
      PROVE  /\ tail'[k].who \in Attempt /\ task'[tail'[k].who] = "reporting"
             /\ \A m \in DOMAIN tail' :
                  (m # k /\ tail'[m].then \in {"upload", "finish"}) => tail'[m].who # tail'[k].who
  <2>1. CASE k \in DOMAIN tail
    <3>1. tail[k].who \in Attempt /\ task[tail[k].who] = "reporting"
      BY <1>0, <1>1, <2>1 DEF Writes
    <3>2. \A m \in DOMAIN tail :
            (m # k /\ tail[m].then \in {"upload", "finish"}) => tail[m].who # tail[k].who
      BY <1>0, <1>1, <2>1 DEF Writes
    <3>3. tail'[k] = tail[k] /\ task'[tail[k].who] = "reporting"
      BY <1>0, <2>1, <3>1 DEF Awaiting
    <3>4. then \in {"upload", "finish"} => who # tail[k].who
      BY <3>1
    <3> QED BY <1>0, <3>1, <3>2, <3>3, <3>4
  <2>2. CASE k = n
    <3>1. who \in Attempt /\ task'[who] = "reporting" /\ task[who] # "reporting"
      BY <1>0, <1>1, <2>2
    <3>2. \A m \in DOMAIN tail : tail[m].then \in {"upload", "finish"} => tail[m].who # who
      BY <3>1 DEF Writes
    <3> QED BY <1>0, <2>2, <3>1, <3>2
  <2> QED BY <1>0, <2>1, <2>2
<1>2. ASSUME NEW k \in DOMAIN tail', tail'[k].then = "meta"
      PROVE  /\ tail'[k].who \in Attempt /\ home[tail'[k].who] = tail'[k].tab
             /\ (\A m \in DOMAIN tail' : m > k => tail'[m].tab # tail'[k].tab)
                  => bound'[tail'[k].who] # 0
  <2>1. CASE k \in DOMAIN tail
    <3>1. tail[k].who \in Attempt /\ home[tail[k].who] = tail[k].tab
      BY <1>0, <1>2, <2>1 DEF Writes
    <3>2. ASSUME \A m \in DOMAIN tail' : m > k => tail'[m].tab # tail'[k].tab
          PROVE  bound'[tail[k].who] # 0
      <4>1. tail[k].tab # t
        BY <1>0, <2>1, <3>2
      <4>2. Last(tail[k].tab, k)
        BY <1>0, <2>1, <3>2 DEF Last
      <4>3. bound[tail[k].who] # 0
        BY <1>0, <1>2, <2>1, <4>2 DEF Writes
      <4> QED BY <3>1, <4>1, <4>3
    <3> QED BY <1>0, <2>1, <3>1, <3>2
  <2>2. CASE k = n
    BY <1>0, <1>2, <2>2
  <2> QED BY <1>0, <2>1, <2>2
<1> QED BY <1>1, <1>2 DEF Writes, Last

\* And a step that writes nothing.
LEMMA WritesStay ==
  ASSUME tail' = tail, home' = home, Writes, Awaiting,
         \A s \in Attempt : bound[s] # 0 => bound'[s] # 0
  PROVE  Writes'
<1>1. ASSUME NEW k \in DOMAIN tail, tail[k].then \in {"upload", "finish"}
      PROVE  /\ tail[k].who \in Attempt /\ task'[tail[k].who] = "reporting"
             /\ \A m \in DOMAIN tail :
                  (m # k /\ tail[m].then \in {"upload", "finish"}) => tail[m].who # tail[k].who
  BY <1>1 DEF Writes, Awaiting
<1>2. ASSUME NEW k \in DOMAIN tail, tail[k].then = "meta"
      PROVE  /\ tail[k].who \in Attempt /\ home[tail[k].who] = tail[k].tab
             /\ Last(tail[k].tab, k) => bound'[tail[k].who] # 0
  BY <1>2 DEF Writes
<1>3. \A k \in DOMAIN tail : Last(tail[k].tab, k)' <=> Last(tail[k].tab, k)
  BY DEF Last
<1> QED BY <1>1, <1>2, <1>3 DEF Writes

-----------------------------------------------------------------------------
(* A tab that the step does not report on keeps its owner.                 *)

\* Tab u waits for the same last write.
WaitsOn(u) == \A k \in Nat : Last(u, k) => (Last(u, k)' /\ tail'[k] = tail[k])

\* The step takes nothing from what ends the attempt that tab u shows.
Spared(u) ==
  LET a == status[u].attempt
  IN  /\ status'[u] = status[u] /\ marker'[u] \in {marker[u], 0}
      /\ u \in recovery => u \in recovery'
      /\ vanished \subseteq vanished'
      /\ WaitsOn(u)
      /\ (status[u].phase = "capturing" /\ home[a] = u) =>
           /\ a \in injecting => (a \in injecting' \/ script'[a].pc = "reading")
           /\ (marker[u] # a /\ script[a].pc \in {"reading", "erring"})
                => (script'[a].pc \in {"reading", "erring"} \/ u \in vanished')
      /\ Active(u) =>
           /\ \A s \in Attempt : home[s] = u =>
                /\ bound'[s] = bound[s]
                /\ bound[s] = a =>
                     /\ transfer[s] # "none" => transfer'[s] # "none"
                     /\ task[s] # "none" => task'[s] = task[s]

\* Such a tab keeps its owner.
LEMMA SparedOwned ==
  ASSUME TypeOK, Numbered, NEW u \in Tab, Owned(u), Spared(u), home' = home
  PROVE  Owned(u)'
<1> DEFINE a == status[u].attempt
<1>0. /\ status'[u] = status[u] /\ marker'[u] \in {marker[u], 0}
      /\ u \in recovery => u \in recovery'
      /\ vanished \subseteq vanished'
      /\ WaitsOn(u)
  BY DEF Spared
<1>1. ASSUME Active(u)
      PROVE  /\ a # 0 /\ a \in Attempt
             /\ \A s \in Attempt : home[s] = u => bound'[s] = bound[s]
             /\ \A s \in Attempt : (home[s] = u /\ bound[s] = a) =>
                     /\ transfer[s] # "none" => transfer'[s] # "none"
                     /\ task[s] # "none" => task'[s] = task[s]
  <2>1. a # 0
    BY <1>1 DEF Active, Numbered, Fit
  <2>2. a \in AnyAttempt
    BY DEF TypeOK, Status
  <2>3. a \in Attempt
    BY <2>1, <2>2, AttemptNumbers
  <2> QED BY <1>1, <2>1, <2>3 DEF Spared
<1>2. ASSUME status[u].phase = "capturing"
      PROVE  Reading(u)'
  <2>1. Reading(u) /\ Active(u) /\ home[a] = u
    BY <1>2 DEF Owned, Active, Running, Numbered, Fit
  <2>2. \A s \in Attempt : home[s] = u => bound'[s] # a
    BY <1>1, <2>1 DEF Reading
  <2>3. marker[u] # a /\ marker'[u] # a
    BY <1>0, <1>1, <2>1 DEF Reading
  <2>4. a \in injecting' \/ u \in recovery' \cup vanished' \/ script'[a].pc \in {"reading", "erring"}
    BY <1>0, <1>2, <2>1, <2>3 DEF Reading, Spared
  <2>5. status'[u].attempt = a
    BY <1>0
  <2> QED BY <2>2, <2>3, <2>4, <2>5 DEF Reading
<1>3. ASSUME status[u].phase = "processing"
      PROVE  \E s \in Attempt : Carries(s, u)'
  <2>1. Active(u)
    BY <1>3 DEF Active, Running
  <2>2. PICK s \in Attempt : Carries(s, u)
    BY <1>3 DEF Owned
  <2>3. home'[s] = u /\ bound'[s] = status'[u].attempt
    BY <1>0, <1>1, <2>1, <2>2 DEF Carries
  <2>4. \/ transfer'[s] # "none" \/ task'[s] = "settings"
        \/ \E k \in DOMAIN tail : Last(u, k) /\ tail[k].then = "meta" /\ tail[k].who = s
    BY <1>1, <2>1, <2>2 DEF Carries
  <2>5. ASSUME NEW k \in DOMAIN tail, Last(u, k), tail[k].then = "meta" /\ tail[k].who = s
        PROVE  Carries(s, u)'
    <3>1. k \in Nat
      BY DEF TypeOK
    <3>2. Last(u, k)' /\ tail'[k] = tail[k]
      BY <1>0, <2>5, <3>1 DEF WaitsOn
    <3>3. k \in DOMAIN tail'
      BY <3>2 DEF Last
    <3> QED BY <2>3, <2>5, <3>2, <3>3 DEF Carries
  <2>6. CASE transfer'[s] # "none" \/ task'[s] = "settings"
    BY <2>3, <2>6 DEF Carries
  <2> QED BY <2>4, <2>5, <2>6
<1>4. ASSUME status[u].phase = "uploading"
      PROVE  \E s \in Attempt : Uploads(s, u)'
  <2>1. Active(u)
    BY <1>4 DEF Active, Running
  <2>2. PICK s \in Attempt : Uploads(s, u)
    BY <1>4 DEF Owned
  <2>3. home'[s] = u /\ bound'[s] = status'[u].attempt
    BY <1>0, <1>1, <2>1, <2>2 DEF Uploads
  <2>4. \/ task'[s] = "post"
        \/ task'[s] = "reporting" /\ \E k \in DOMAIN tail :
             Last(u, k) /\ tail[k].then = "upload" /\ tail[k].who = s
    BY <1>1, <2>1, <2>2 DEF Uploads
  <2>5. ASSUME NEW k \in DOMAIN tail, Last(u, k), tail[k].then = "upload" /\ tail[k].who = s,
               task'[s] = "reporting"
        PROVE  Uploads(s, u)'
    <3>1. k \in Nat
      BY DEF TypeOK
    <3>2. Last(u, k)' /\ tail'[k] = tail[k]
      BY <1>0, <2>5, <3>1 DEF WaitsOn
    <3>3. k \in DOMAIN tail'
      BY <3>2 DEF Last
    <3> QED BY <2>3, <2>5, <3>2, <3>3 DEF Uploads
  <2>6. CASE task'[s] = "post"
    BY <2>3, <2>6 DEF Uploads
  <2> QED BY <2>4, <2>5, <2>6
<1> QED BY <1>0, <1>2, <1>3, <1>4 DEF Owned

-----------------------------------------------------------------------------
(* Steps that report a phase, and steps that do not.                       *)

\* A step that reports on tab t keeps the invariant if it leaves the captures
\* of other tabs alone and gives the progress it reports an owner.
LEMMA ReportStep ==
  ASSUME Inv, NEW t \in Tab, NEW a \in AnyAttempt, NEW phase \in AnyPhase,
         NEW then \in {"nothing", "meta", "answer", "upload", "finish"}, NEW who \in AnyAttempt,
         Report(t, a, phase, then, who),
         awake /\ awake' = awake, stored' = stored, home' = home,
         attempts' \in AnyAttempt, attempts <= attempts', a <= attempts',
         phase \in Running => a # 0, phase = "capturing" => home[a] = t,
         Captures', Made', Scripts', Awaiting, vanished \subseteq vanished',
         \A u \in Tab : u # t => marker'[u] = marker[u],
         \A s \in Attempt : home[s] # t =>
           /\ bound'[s] = bound[s] /\ transfer'[s] = transfer[s] /\ task'[s] = task[s]
           /\ script'[s] = script[s] /\ (s \in injecting => s \in injecting'),
         then \in {"upload", "finish"} =>
           who \in Attempt /\ task'[who] = "reporting" /\ task[who] # "reporting",
         then = "meta" => who \in Attempt /\ home[who] = t /\ bound'[who] # 0,
         phase \in Running => Owned(t)'
  PROVE  Inv'
<1>0. TypeOK /\ Numbered /\ Writes /\ \A u \in Tab : Owned(u)
  BY DEF Inv
<1>1. /\ status' \in [Tab -> Status] /\ tail' \in Seq(Write) /\ recovery' \subseteq Tab
      /\ status'[t].phase = phase /\ status'[t].attempt = a
      /\ \A u \in Tab : u # t => status'[u] = status[u]
      /\ recovery' = recovery \ {t}
      /\ Grown(t, then, who)
  <2>1. Grown(t, then, who)
    BY <1>0, ReportIs DEF Grown
  <2> QED BY <1>0, <2>1, ReportIs
<1>2. TypeOK'
  BY <1>0, <1>1 DEF TypeOK
<1>3. Numbered'
  <2>1. Fit(status)' /\ (\A k \in DOMAIN tail : Fit(tail[k].snap))'
    BY <1>0, ReportFits
  <2>2. Fit(stored)'
    <3>1. \A u \in Tab : stored[u].attempt \in Nat /\ attempts \in Nat /\ attempts' \in Nat
      BY <1>0, AttemptNumbers DEF TypeOK, Status
    <3>2. Fit(stored)
      BY <1>0 DEF Numbered
    <3>3. \A u \in Tab : stored[u].attempt <= attempts'
      BY <3>1, <3>2 DEF Fit
    <3> QED BY <3>2, <3>3 DEF Fit
  <2> QED BY <2>1, <2>2 DEF Numbered
<1>4. Asleep'
  BY DEF Asleep
<1>5. Writes'
  BY <1>0, <1>1, WritesGrow
<1>6. ASSUME NEW u \in Tab, u # t
      PROVE  Owned(u)'
  <2>1. WaitsOn(u)
    BY <1>1, <1>6, GrownLast DEF WaitsOn, Grown, Last
  <2>2. ASSUME status[u].phase = "capturing", home[status[u].attempt] = u
        PROVE  LET b == status[u].attempt
               IN  /\ b \in injecting => b \in injecting'
                   /\ script'[b] = script[b]
    <3>1. status[u].attempt \in AnyAttempt /\ status[u].attempt # 0
      BY <1>0, <2>2 DEF TypeOK, Status, Running, Numbered, Fit
    <3>2. status[u].attempt \in Attempt
      BY <3>1, AttemptNumbers
    <3> QED BY <1>6, <2>2, <3>2
  <2>3. Spared(u)
    BY <1>1, <1>6, <2>1, <2>2 DEF Spared
  <2> QED BY <1>0, <2>3, SparedOwned
<1>7. Owned(t)'
  BY <1>1 DEF Owned, Running
<1> QED BY <1>2, <1>3, <1>4, <1>5, <1>6, <1>7 DEF Inv

\* A step that reports nothing keeps it if every tab keeps its owner.
LEMMA QuietStep ==
  ASSUME Inv, awake' = awake, stored' = stored, home' = home, attempts' = attempts,
         UNCHANGED shown, Captures', Made', Asleep', Scripts', Awaiting,
         \A s \in Attempt : bound[s] # 0 => bound'[s] # 0,
         \A u \in Tab : Owned(u)'
  PROVE  Inv'
<1>0. TypeOK /\ Numbered /\ Writes /\ status' = status /\ tail' = tail /\ recovery' = recovery
  BY DEF Inv, shown
<1>1. TypeOK'
  BY <1>0 DEF TypeOK
<1>2. Numbered'
  BY <1>0 DEF Numbered, Fit
<1>3. Writes'
  BY <1>0, WritesStay
<1> QED BY <1>1, <1>2, <1>3 DEF Inv

-----------------------------------------------------------------------------
(* What the steps do to scripts and bindings.                              *)

Places == {"none", "reading", "chunk", "aborting", "erring", "over"} \cup Waiting

\* A script moves.
LEMMA ScriptMoves ==
  ASSUME TypeOK, NEW s \in Attempt, NEW pc \in Places, script' = [script EXCEPT ![s].pc = pc]
  PROVE  /\ script' \in [Attempt -> Script] /\ script'[s].pc = pc
         /\ \A r \in Attempt : r # s => script'[r] = script[r]
<1>1. script \in [Attempt -> Script]
  BY DEF TypeOK, Captures
<1> QED BY <1>1 DEF Script, Places

\* A script has sent a chunk.
LEMMA ScriptSends ==
  ASSUME TypeOK, NEW s \in Attempt, script' = Sent(s)
  PROVE  /\ script' \in [Attempt -> Script] /\ script'[s].pc \in {"over", script[s].pc}
         /\ \A r \in Attempt : r # s => script'[r] = script[r]
<1>1. script \in [Attempt -> Script]
  BY DEF TypeOK, Captures
<1>2. script'[s] = [script[s] EXCEPT !.next = @ + 1,
                                     !.pc = IF script[s].next = Chunks THEN "over" ELSE @]
      /\ script' \in [Attempt -> {script[r] : r \in Attempt} \cup {script'[s]}]
      /\ \A r \in Attempt : r # s => script'[r] = script[r]
  BY <1>1 DEF Sent
<1>3. script[s] \in Script
  BY <1>1
<1>4. script'[s] \in Script /\ script'[s].pc \in {"over", script[s].pc}
  <2> DEFINE n == script[s].next + 1
             at == IF script[s].next = Chunks THEN "over" ELSE script[s].pc
  <2>2. n \in Nat /\ at \in Places /\ at \in {"over", script[s].pc}
    BY <1>3 DEF Script, Places
  <2>3. script'[s] = [script[s] EXCEPT !.next = n, !.pc = at]
    BY <1>1, Zenon DEF Sent
  <2> HIDE DEF n, at
  <2>4. PICK m \in Nat, pc \in Places : m = n /\ pc = at
    BY <2>2
  <2>5. PICK r \in Script : r = script[s]
    BY <1>3
  <2>6. script'[s] = [r EXCEPT !.next = m, !.pc = pc]
    BY <2>3, <2>4, <2>5, Zenon
  <2>7. [r EXCEPT !.next = m, !.pc = pc] \in Script /\ [r EXCEPT !.next = m, !.pc = pc].pc = pc
    BY DEF Script, Places
  <2>8. script'[s] \in Script /\ script'[s].pc = pc
    BY <2>6, <2>7, Zenon
  <2> QED BY <2>2, <2>4, <2>8
<1> QED BY <1>1, <1>2, <1>4

\* A script has sent a chunk and waits for its answer.
LEMMA ScriptRests ==
  ASSUME TypeOK, NEW s \in Attempt, script' = [Sent(s) EXCEPT ![s].pc = "chunkWait"]
  PROVE  /\ script' \in [Attempt -> Script] /\ script'[s].pc = "chunkWait"
         /\ script'[s].next = script[s].next + 1
         /\ \A r \in Attempt : r # s => script'[r] = script[r]
<1>1. script \in [Attempt -> Script]
  BY DEF TypeOK, Captures
<1>2. /\ script' = [x \in Attempt |-> IF x = s THEN script'[s] ELSE script[x]]
      /\ \A r \in Attempt : r # s => script'[r] = script[r]
  BY <1>1 DEF Sent
<1>3. PICK x \in Script : x = script[s]
  BY <1>1
<1>4. script'[s] = [x EXCEPT !.next = x.next + 1, !.pc = "chunkWait"]
  BY <1>1, <1>3 DEF Sent, Script
<1>5. PICK n \in Nat : n = x.next + 1
  BY DEF Script
<1>6. script'[s] = [x EXCEPT !.next = n, !.pc = "chunkWait"]
  BY <1>4, <1>5, Zenon
<1>7. /\ [x EXCEPT !.next = n, !.pc = "chunkWait"] \in Script
      /\ [x EXCEPT !.next = n, !.pc = "chunkWait"].pc = "chunkWait"
      /\ [x EXCEPT !.next = n, !.pc = "chunkWait"].next = n
  BY DEF Script, Places, Waiting
<1>8. script'[s] \in Script /\ script'[s].pc = "chunkWait" /\ script'[s].next = n
  BY <1>6, <1>7, Zenon
<1> QED BY <1>1, <1>2, <1>3, <1>5, <1>8

\* bindCaptureToCurrentAttempt binds to the attempt in progress or not at all.
LEMMA Binds ==
  ASSUME TypeOK, Numbered, NEW s \in Attempt, Bind(s)
  PROVE  /\ bound' \in [Attempt -> AnyAttempt]
         /\ \A r \in Attempt : r # s => bound'[r] = bound[r]
         /\ ~Bindable(s) => bound'[s] = bound[s]
         /\ Bindable(s) => /\ bound'[s] = status[home[s]].attempt
                           /\ status[home[s]].attempt \in Attempt
                           /\ status[home[s]].attempt \in AnyAttempt /\ status[home[s]].attempt # 0
         /\ \A r \in Attempt : bound'[r] <= attempts /\ (bound[r] # 0 => bound'[r] = bound[r])
<1> DEFINE a == status[home[s]].attempt
<1>1. home[s] \in Tab /\ a \in AnyAttempt /\ bound \in [Attempt -> AnyAttempt]
  BY DEF TypeOK, Captures, Status
<1>2. bound' = [bound EXCEPT ![s] = IF Bindable(s) THEN a ELSE @]
  BY DEF Bind
<1>3. Bindable(s) => a # 0 /\ a \in Attempt /\ bound[s] \in {0, a}
  BY <1>1, AttemptNumbers DEF Bindable, Active, Numbered, Fit
<1>4. a <= attempts /\ \A r \in Attempt : bound[r] <= attempts
  BY <1>1 DEF Numbered, Fit, Made
<1> QED BY <1>1, <1>2, <1>3, <1>4

-----------------------------------------------------------------------------
(* Each step keeps the invariant.                                          *)

\* claimAttempt: the new attempt is about to be injected.
LEMMA StartKeeps ==
  ASSUME Inv, NEW t \in Tab, Start(t)
  PROVE  Inv'
<1> DEFINE a == attempts + 1
<1>0. TypeOK /\ Numbered /\ Scripts
  BY DEF Inv
<1>1. /\ awake /\ awake' = awake /\ stored' = stored /\ home' = home /\ attempts' = a /\ home[a] = t
      /\ Report(t, a, "capturing", "nothing", a) /\ injecting' = injecting \cup {a}
      /\ bound' = bound /\ transfer' = transfer /\ task' = task /\ marker' = marker
      /\ script' = script /\ vanished' = vanished /\ attempts < MaxAttempts
  BY DEF Start
<1>2. attempts \in Nat /\ a \in Nat /\ a \in Attempt /\ a \in AnyAttempt /\ a # 0 /\ attempts < a
  BY <1>0, <1>1, CaptureAssumption DEF TypeOK, Attempt, AnyAttempt
<1> HIDE DEF a
<1>3. Captures'
  BY <1>0, <1>1, <1>2 DEF TypeOK, Captures
<1>4. \A s \in Attempt : bound[s] \in Nat /\ s \in Nat
  BY <1>0, AttemptNumbers DEF TypeOK, Captures
<1>5. \A u \in Tab : marker[u] \in Nat
  BY <1>0, AttemptNumbers DEF TypeOK, Captures
<1>6. Made'
  BY <1>0, <1>1, <1>2, <1>4, <1>5 DEF Made, Numbered
<1>7. Scripts'
  <2>1. script[a].pc = "none"
    BY <1>0, <1>2 DEF Numbered, Made
  <2> QED BY <1>0, <1>1, <2>1 DEF Scripts
<1>8. Owned(t)'
  <2>1. status'[t].attempt = a /\ status'[t].phase = "capturing"
    BY <1>0, <1>1, <1>2, ReportIs DEF AnyPhase, Phases
  <2>2. \A s \in Attempt : bound[s] # a
    BY <1>0, <1>2, <1>4 DEF Numbered, Made
  <2>3. marker[t] # a
    BY <1>0, <1>2, <1>5 DEF Numbered, Made
  <2>4. Reading(t)'
    BY <1>1, <2>1, <2>2, <2>3 DEF Reading
  <2> QED BY <2>1, <2>4 DEF Owned
<1>9. Awaiting /\ "capturing" \in AnyPhase
  BY <1>1 DEF Awaiting, AnyPhase, Phases
<1> QED BY <1>1, <1>2, <1>3, <1>6, <1>7, <1>8, <1>9, ReportStep

\* A step that writes nothing leaves every tab waiting for the same write.
LEMMA QuietWaits ==
  ASSUME UNCHANGED shown
  PROVE  /\ status' = status /\ tail' = tail /\ recovery' = recovery
         /\ \A u \in Tab : WaitsOn(u)
BY DEF shown, WaitsOn, Last

\* injectClaimedCapture: the script reads the page, or the attempt is over.
LEMMA InjectKeeps ==
  ASSUME Inv, NEW a \in Attempt, Inject(a)
  PROVE  Inv'
<1> DEFINE t == home[a]
<1>0. TypeOK /\ Numbered /\ Scripts /\ \A u \in Tab : Owned(u)
  BY DEF Inv
<1>1. /\ awake /\ awake' = awake /\ stored' = stored /\ home' = home /\ attempts' = attempts
      /\ a \in injecting /\ injecting' = injecting \ {a} /\ vanished' = vanished
      /\ bound' = bound /\ transfer' = transfer /\ task' = task /\ marker' = marker
  BY DEF Inject
<1>2. t \in Tab /\ a \in AnyAttempt /\ attempts \in AnyAttempt /\ a # 0 /\ attempts <= attempts
  BY <1>0, AttemptNumbers DEF TypeOK, Attempt, AnyAttempt
<1>3. Awaiting /\ Asleep'
  BY <1>1 DEF Awaiting, Asleep
<1>4. script[a].pc = "none" /\ bound[a] = 0 /\ task[a] = "none"
  BY <1>0, <1>1 DEF Scripts
<1>5. CASE ~Shows(t, a) /\ UNCHANGED <<shown, script, faults>>
  <2>1. script' = script /\ status' = status /\ tail' = tail /\ recovery' = recovery
        /\ (\A u \in Tab : WaitsOn(u)) /\ UNCHANGED shown
    BY <1>5, QuietWaits
  <2>2. Captures' /\ Made' /\ Scripts'
    BY <1>0, <1>1, <2>1 DEF TypeOK, Captures, Numbered, Made, Scripts
  <2>3. \A u \in Tab : Spared(u)
    BY <1>1, <1>2, <1>5, <2>1 DEF Spared, Shows
  <2>4. \A u \in Tab : Owned(u)'
    BY <1>0, <1>1, <2>3, SparedOwned
  <2> QED BY <1>1, <1>3, <2>1, <2>2, <2>4, QuietStep
<1>6. CASE Shows(t, a) /\ script' = [script EXCEPT ![a].pc = "reading"] /\ UNCHANGED <<shown, faults>>
  <2>1. status' = status /\ tail' = tail /\ recovery' = recovery
        /\ (\A u \in Tab : WaitsOn(u)) /\ UNCHANGED shown
    BY <1>6, QuietWaits
  <2>2. script' \in [Attempt -> Script] /\ script'[a].pc = "reading"
        /\ \A r \in Attempt : r # a => script'[r] = script[r]
    BY <1>0, <1>6, ScriptMoves DEF Places
  <2>3. Captures'
    BY <1>0, <1>1, <2>2 DEF TypeOK, Captures
  <2>4. Made'
    <3>1. a <= attempts
      BY <1>0, <1>2, <1>6 DEF Numbered, Fit, Shows
    <3> QED BY <1>0, <1>1, <2>2, <3>1 DEF Numbered, Made
  <2>5. Scripts'
    BY <1>0, <1>1, <1>4, <2>2 DEF Scripts
  <2>6. ASSUME NEW u \in Tab
        PROVE  Spared(u)
    <3>1. \A b : status[u].phase = "capturing" /\ b = status[u].attempt => b \in Attempt
      BY <1>0, AttemptNumbers DEF TypeOK, Status, Numbered, Fit, Running
    <3> QED BY <1>1, <2>1, <2>2, <3>1 DEF Spared
  <2>7. \A u \in Tab : Owned(u)'
    BY <1>0, <1>1, <2>6, SparedOwned
  <2> QED BY <1>1, <1>3, <2>1, <2>3, <2>4, <2>5, <2>7, QuietStep
<1>7. CASE Shows(t, a) /\ Report(t, a, "error", "nothing", a) /\ script' = script
  <2>1. Captures' /\ Made' /\ Scripts'
    BY <1>0, <1>1, <1>7 DEF TypeOK, Captures, Numbered, Made, Scripts
  <2>2. "error" \in AnyPhase /\ "error" \notin Running /\ "error" # "capturing"
    BY DEF AnyPhase, Phases, Running
  <2>3. a <= attempts
    BY <1>0, <1>2, <1>7 DEF Numbered, Fit, Shows
  <2>4. \A s \in Attempt : home[s] # t =>
           /\ bound'[s] = bound[s] /\ transfer'[s] = transfer[s] /\ task'[s] = task[s]
           /\ script'[s] = script[s] /\ (s \in injecting => s \in injecting')
    BY <1>1, <1>7
  <2> HIDE DEF t
  <2> QED BY <1>1, <1>2, <1>3, <1>7, <2>1, <2>2, <2>3, <2>4, ReportStep
<1> QED BY <1>5, <1>6, <1>7 DEF Inject

\* The metadata of a capture: bound to the attempt in progress, it is kept
\* when the write of "processing" ends.
LEMMA MetaKeeps ==
  ASSUME Inv, NEW s \in Attempt, HandleMeta(s)
  PROVE  Inv'
<1>0. TypeOK /\ Numbered /\ Scripts /\ \A u \in Tab : Owned(u)
  BY DEF Inv
<1>t. PICK t \in Tab, a \in AnyAttempt : t = home[s] /\ a = status[t].attempt
  BY <1>0 DEF TypeOK, Status
<1>1. /\ awake /\ awake' = awake /\ stored' = stored /\ home' = home /\ attempts' = attempts
      /\ injecting' = injecting /\ vanished' = vanished
      /\ transfer' = transfer /\ task' = task /\ marker' = marker
      /\ script[s].pc = "reading" /\ Bind(s)
  BY DEF HandleMeta
<1>2. t \in Tab /\ s \in AnyAttempt /\ attempts \in AnyAttempt /\ a \in AnyAttempt
      /\ attempts <= attempts /\ a <= attempts
  BY <1>0, <1>t, AttemptNumbers DEF TypeOK, Attempt, AnyAttempt, Status, Numbered, Fit
<1>3. Awaiting /\ Asleep'
  BY <1>1 DEF Awaiting, Asleep
<1>4. bound[s] = 0 /\ task[s] = "none" /\ s \notin injecting /\ transfer[s] = "none"
  BY <1>0, <1>1 DEF Scripts, TypeOK
<1>5. /\ bound' \in [Attempt -> AnyAttempt]
      /\ \A r \in Attempt : r # s => bound'[r] = bound[r]
      /\ ~Bindable(s) => bound'[s] = bound[s]
      /\ Bindable(s) => bound'[s] = a /\ a \in Attempt /\ a # 0
      /\ \A r \in Attempt : bound'[r] <= attempts /\ (bound[r] # 0 => bound'[r] = bound[r])
  BY <1>0, <1>1, <1>t, Binds
<1>6. CASE Bindable(s)
  <2>1. Report(t, a, "processing", "meta", s) /\ script' = [script EXCEPT ![s].pc = "meta"]
    BY <1>6, <1>t DEF HandleMeta
  <2>2. script' \in [Attempt -> Script] /\ script'[s].pc = "meta"
        /\ \A r \in Attempt : r # s => script'[r] = script[r]
    BY <1>0, <2>1, ScriptMoves DEF Places, Waiting
  <2>3. Captures'
    BY <1>0, <1>1, <1>5, <2>2 DEF TypeOK, Captures
  <2>4. Made'
    BY <1>0, <1>1, <1>5, <2>2 DEF Numbered, Made
  <2>5. Scripts'
    BY <1>0, <1>1, <1>4, <1>5, <2>2 DEF Scripts
  <2>6. "processing" \in AnyPhase
    BY DEF AnyPhase, Phases
  <2>7. Owned(t)'
    <3>1. /\ status'[t].phase = "processing" /\ status'[t].attempt = a
          /\ Grown(t, "meta", s)
      BY <1>0, <1>2, <2>1, <2>6, ReportIs DEF Grown
    <3>2. PICK n \in Nat : n = Len(tail) + 1
      BY <3>1 DEF Grown
    <3>3. Last(t, n)' /\ n \in DOMAIN tail' /\ tail'[n].then = "meta" /\ tail'[n].who = s
      BY <3>1, <3>2, GrownLast DEF Grown
    <3>4. Carries(s, t)'
      BY <1>1, <1>t, <1>5, <1>6, <3>1, <3>3 DEF Carries
    <3> QED BY <3>1, <3>4 DEF Owned
  <2>8. \A r \in Attempt : home[r] # t =>
           /\ bound'[r] = bound[r] /\ transfer'[r] = transfer[r] /\ task'[r] = task[r]
           /\ script'[r] = script[r] /\ (r \in injecting => r \in injecting')
    BY <1>1, <1>t, <1>5, <2>2
  <2>9. home[s] = t /\ bound'[s] # 0 /\ a # 0
    BY <1>t, <1>5, <1>6
  <2> QED BY <1>1, <1>2, <1>3, <2>1, <2>3, <2>4, <2>5, <2>6, <2>7, <2>8, <2>9, ReportStep
<1>7. CASE ~Bindable(s)
  <2>1. UNCHANGED shown /\ script' = [script EXCEPT ![s].pc = "chunk"]
    BY <1>7 DEF HandleMeta
  <2>2. script' \in [Attempt -> Script] /\ script'[s].pc = "chunk"
        /\ \A r \in Attempt : r # s => script'[r] = script[r]
    BY <1>0, <2>1, ScriptMoves DEF Places, Waiting
  <2>3. bound' = bound
    BY <1>0, <1>5, <1>7 DEF TypeOK, Captures
  <2>4. Captures'
    BY <1>0, <1>1, <1>5, <2>2 DEF TypeOK, Captures
  <2>5. Made'
    BY <1>0, <1>1, <1>5, <2>2 DEF Numbered, Made
  <2>6. Scripts'
    BY <1>0, <1>1, <1>4, <2>2, <2>3 DEF Scripts
  <2>7. status' = status /\ tail' = tail /\ recovery' = recovery /\ \A u \in Tab : WaitsOn(u)
    BY <2>1, QuietWaits
  <2>8. ~Active(t)
    BY <1>t, <1>4, <1>7 DEF Bindable
  <2>9. ASSUME NEW u \in Tab
        PROVE  Spared(u)
    <3>1. \A b : status[u].phase = "capturing" /\ b = status[u].attempt => b \in Attempt
      BY <1>0, AttemptNumbers DEF TypeOK, Status, Numbered, Fit, Running
    <3>2. status[u].phase = "capturing" => Active(u)
      BY DEF Active, Running
    <3> QED BY <1>1, <1>t, <2>2, <2>3, <2>7, <2>8, <3>1, <3>2 DEF Spared
  <2>10. \A u \in Tab : Owned(u)'
    BY <1>0, <1>1, <2>9, SparedOwned
  <2> QED BY <1>1, <1>3, <2>1, <2>3, <2>4, <2>5, <2>6, <2>10, QuietStep
<1> QED BY <1>6, <1>7

\* What the captures of tabs other than t keep in a step that reports on t.
Elsewhere(t) ==
  /\ \A u \in Tab : u # t => marker'[u] = marker[u]
  /\ \A s \in Attempt : home[s] # t =>
       /\ bound'[s] = bound[s] /\ transfer'[s] = transfer[s] /\ task'[s] = task[s]
       /\ script'[s] = script[s] /\ (s \in injecting => s \in injecting')

\* A report that ends an attempt needs no owner.
LEMMA EndStep ==
  ASSUME Inv, NEW t \in Tab, NEW a \in AnyAttempt, NEW phase \in AnyPhase \ Running,
         NEW then \in {"nothing", "answer", "finish"}, NEW who \in AnyAttempt,
         Report(t, a, phase, then, who),
         awake /\ awake' = awake, stored' = stored, home' = home,
         attempts' \in AnyAttempt, attempts <= attempts', a <= attempts',
         Captures', Made', Scripts', Awaiting, vanished \subseteq vanished', Elsewhere(t),
         then = "finish" => who \in Attempt /\ task'[who] = "reporting" /\ task[who] # "reporting"
  PROVE  Inv'
<1>1. phase \in AnyPhase /\ phase \notin Running /\ phase # "capturing"
  BY DEF Running
<1>2. then \in {"nothing", "meta", "answer", "upload", "finish"} /\ then # "meta"
      /\ (then \in {"upload", "finish"} => then = "finish")
  OBVIOUS
<1>3. \A u \in Tab : u # t => marker'[u] = marker[u]
  BY DEF Elsewhere
<1>4. \A s \in Attempt : home[s] # t =>
       /\ bound'[s] = bound[s] /\ transfer'[s] = transfer[s] /\ task'[s] = task[s]
       /\ script'[s] = script[s] /\ (s \in injecting => s \in injecting')
  BY DEF Elsewhere
<1> QED BY <1>1, <1>2, <1>3, <1>4, ReportStep

\* An attempt that is being read has a script.
LEMMA ReadingNumber ==
  ASSUME TypeOK, Numbered, NEW u \in Tab
  PROVE  /\ \A b : (status[u].phase = "capturing" /\ b = status[u].attempt) => b \in Attempt
         /\ status[u].phase = "capturing" => Active(u)
         /\ Active(u) => status[u].attempt # 0
         /\ status[u].attempt \in AnyAttempt /\ status[u].attempt <= attempts
         /\ attempts \in AnyAttempt /\ attempts <= attempts
<1>1. status[u].attempt \in AnyAttempt /\ attempts \in AnyAttempt
  BY DEF TypeOK, Status
<1>2. status[u].attempt <= attempts /\ (status[u].phase \in Running => status[u].attempt # 0)
  BY DEF Numbered, Fit
<1>3. attempts <= attempts
  BY <1>1, AttemptNumbers
<1> QED BY <1>1, <1>2, <1>3, AttemptNumbers DEF Active, Running

\* The abort of a transfer is shown, or was overtaken.
LEMMA AbortKeeps ==
  ASSUME Inv, NEW s \in Attempt, HandleAbort(s)
  PROVE  Inv'
<1>0. TypeOK /\ Numbered /\ Scripts /\ \A u \in Tab : Owned(u)
  BY DEF Inv
<1>t. PICK t \in Tab, a \in AnyAttempt : t = home[s] /\ a = status[t].attempt
  BY <1>0 DEF TypeOK, Status
<1>1. /\ awake /\ awake' = awake /\ stored' = stored /\ home' = home /\ attempts' = attempts
      /\ injecting' = injecting /\ vanished' = vanished /\ task' = task
      /\ transfer' = [transfer EXCEPT ![s] = "none"]
      /\ script[s].pc = "aborting" /\ Bind(s)
  BY DEF HandleAbort
<1>2. s \in AnyAttempt /\ attempts \in AnyAttempt /\ attempts <= attempts /\ a <= attempts
      /\ s <= attempts
  <2>1. s <= attempts
    BY <1>0, <1>1 DEF Numbered, Made
  <2> QED BY <1>0, <1>t, <2>1, ReadingNumber, AttemptNumbers
<1>3. Awaiting /\ Asleep'
  BY <1>1 DEF Awaiting, Asleep
<1>4. task[s] = "none" /\ s \notin injecting
  BY <1>0, <1>1 DEF Scripts
<1>5. /\ bound' \in [Attempt -> AnyAttempt]
      /\ \A r \in Attempt : r # s => bound'[r] = bound[r]
      /\ ~Bindable(s) => bound'[s] = bound[s]
      /\ \A r \in Attempt : bound'[r] <= attempts /\ (bound[r] # 0 => bound'[r] = bound[r])
  BY <1>0, <1>1, Binds
<1>6. transfer' \in [Attempt -> {"none", "bare", "meta"}] /\ transfer'[s] = "none"
      /\ \A r \in Attempt : r # s => transfer'[r] = transfer[r]
  BY <1>0, <1>1 DEF TypeOK, Captures
<1>7. CASE Bindable(s)
  <2>1. Report(t, a, "error", "answer", s) /\ script' = [script EXCEPT ![s].pc = "abortWait"]
        /\ marker' = [marker EXCEPT ![t] = s]
    BY <1>t, <1>7 DEF HandleAbort
  <2>2. script' \in [Attempt -> Script] /\ script'[s].pc = "abortWait"
        /\ \A r \in Attempt : r # s => script'[r] = script[r]
    BY <1>0, <2>1, ScriptMoves DEF Places, Waiting
  <2>3. marker' \in [Tab -> AnyAttempt] /\ marker'[t] = s
        /\ \A u \in Tab : u # t => marker'[u] = marker[u]
    BY <1>0, <1>2, <2>1 DEF TypeOK, Captures
  <2>4. Captures'
    BY <1>0, <1>1, <1>5, <1>6, <2>2, <2>3 DEF TypeOK, Captures
  <2>5. Made'
    BY <1>0, <1>1, <1>2, <1>5, <2>2, <2>3 DEF Numbered, Made
  <2>6. Scripts'
    BY <1>0, <1>1, <1>4, <1>5, <1>6, <2>2 DEF Scripts
  <2>7. "error" \in AnyPhase \ Running /\ Elsewhere(t)
    BY <1>1, <1>t, <1>5, <1>6, <2>2, <2>3 DEF AnyPhase, Phases, Running, Elsewhere
  <2> QED BY <1>1, <1>2, <1>3, <2>1, <2>4, <2>5, <2>6, <2>7, EndStep
<1>8. CASE ~Bindable(s)
  <2>1. UNCHANGED shown /\ script' = [script EXCEPT ![s].pc = "erring"] /\ marker' = marker
    BY <1>8 DEF HandleAbort
  <2>2. script' \in [Attempt -> Script] /\ script'[s].pc = "erring"
        /\ \A r \in Attempt : r # s => script'[r] = script[r]
    BY <1>0, <2>1, ScriptMoves DEF Places, Waiting
  <2>3. bound' = bound
    BY <1>0, <1>5, <1>8 DEF TypeOK, Captures
  <2>4. Captures'
    BY <1>0, <1>1, <1>5, <1>6, <2>1, <2>2 DEF TypeOK, Captures
  <2>5. Made'
    BY <1>0, <1>1, <1>5, <1>2, <2>1, <2>2 DEF Numbered, Made
  <2>6. Scripts'
    BY <1>0, <1>1, <1>4, <1>6, <2>2, <2>3 DEF Scripts
  <2>7. status' = status /\ tail' = tail /\ recovery' = recovery /\ \A u \in Tab : WaitsOn(u)
    BY <2>1, QuietWaits
  <2>8. Active(t) => bound[s] # a
    BY <1>t, <1>8 DEF Bindable
  <2>9. \A u \in Tab : Spared(u)
    BY <1>0, <1>1, <1>t, <1>6, <2>1, <2>2, <2>3, <2>7, <2>8, ReadingNumber DEF Spared
  <2>10. \A u \in Tab : Owned(u)'
    BY <1>0, <1>1, <2>9, SparedOwned
  <2> QED BY <1>1, <1>3, <2>1, <2>3, <2>4, <2>5, <2>6, <2>10, QuietStep
<1> QED BY <1>7, <1>8

\* An error of a script is shown on the tab's attempt unless it repeats an abort.
LEMMA ErrorKeeps ==
  ASSUME Inv, NEW s \in Attempt, HandleError(s)
  PROVE  Inv'
<1>0. TypeOK /\ Numbered /\ Scripts /\ \A u \in Tab : Owned(u)
  BY DEF Inv
<1>t. PICK t \in Tab : t = home[s]
  BY <1>0 DEF TypeOK
<1>1. /\ awake /\ awake' = awake /\ stored' = stored /\ home' = home
      /\ injecting' = injecting /\ vanished' = vanished /\ task' = task
      /\ transfer' = transfer /\ bound' = bound /\ script[s].pc = "erring"
  BY DEF HandleError
<1>2. s \in AnyAttempt /\ attempts \in Nat
  BY <1>0, AttemptNumbers DEF TypeOK
<1>3. Awaiting /\ Asleep'
  BY <1>1 DEF Awaiting, Asleep
<1>4. task[s] = "none" /\ s \notin injecting
  BY <1>0, <1>1 DEF Scripts
<1>5. CASE /\ marker[t] = s /\ marker' = [marker EXCEPT ![t] = 0]
           /\ script' = [script EXCEPT ![s].pc = "over"] /\ UNCHANGED <<shown, attempts>>
  <2>1. UNCHANGED shown /\ attempts' = attempts
    BY <1>5
  <2>2. script' \in [Attempt -> Script] /\ script'[s].pc = "over"
        /\ \A r \in Attempt : r # s => script'[r] = script[r]
    BY <1>0, <1>5, ScriptMoves DEF Places
  <2>3. marker' \in [Tab -> AnyAttempt] /\ marker'[t] = 0
        /\ \A u \in Tab : u # t => marker'[u] = marker[u]
    BY <1>0, <1>5, AttemptNumbers DEF TypeOK, Captures
  <2>4. Captures'
    BY <1>0, <1>1, <2>2, <2>3 DEF TypeOK, Captures
  <2>5. Made'
    BY <1>0, <1>1, <1>2, <2>1, <2>2, <2>3 DEF Numbered, Made
  <2>6. Scripts'
    BY <1>0, <1>1, <1>4, <2>2 DEF Scripts
  <2>7. status' = status /\ tail' = tail /\ recovery' = recovery /\ \A u \in Tab : WaitsOn(u)
    BY <2>1, QuietWaits
  <2>8. \A u \in Tab : Spared(u)
    BY <1>0, <1>1, <1>t, <1>5, <2>2, <2>3, <2>7, ReadingNumber DEF Spared
  <2>9. \A u \in Tab : Owned(u)'
    BY <1>0, <1>1, <2>8, SparedOwned
  <2> QED BY <1>1, <1>3, <2>1, <2>4, <2>5, <2>6, <2>9, QuietStep
<1>6. CASE /\ marker[t] # s /\ UNCHANGED marker
           /\ LET a == IF status[t].attempt # 0 THEN status[t].attempt ELSE attempts + 1
              IN  /\ a <= MaxAttempts /\ attempts' = IF a > attempts THEN a ELSE attempts
                  /\ Report(t, a, "error", "answer", s)
           /\ script' = [script EXCEPT ![s].pc = "errorWait"]
  <2> DEFINE new == IF status[t].attempt # 0 THEN status[t].attempt ELSE attempts + 1
  <2>1. new \in AnyAttempt
    <3>1. status[t].attempt \in Nat
      BY <1>0, ReadingNumber, AttemptNumbers
    <3> QED BY <1>2, <1>6, <3>1, CaptureAssumption DEF AnyAttempt
  <2>2. PICK a \in AnyAttempt : a = new
    BY <2>1
  <2>3. Report(t, a, "error", "answer", s) /\ attempts' = IF a > attempts THEN a ELSE attempts
    BY <1>6, <2>2
  <2>4. attempts' \in AnyAttempt /\ attempts <= attempts' /\ a <= attempts' /\ attempts' \in Nat
    BY <1>0, <1>2, <2>3, AttemptNumbers DEF TypeOK
  <2>5. script' \in [Attempt -> Script] /\ script'[s].pc = "errorWait"
        /\ \A r \in Attempt : r # s => script'[r] = script[r]
    BY <1>0, <1>6, ScriptMoves DEF Places, Waiting
  <2>6. Captures'
    BY <1>0, <1>1, <1>6, <2>5 DEF TypeOK, Captures
  <2>7. Made'
    <3>1. \A r \in Attempt : bound[r] \in Nat /\ r \in Nat
      BY <1>0, AttemptNumbers DEF TypeOK, Captures
    <3>2. \A u \in Tab : marker[u] \in Nat
      BY <1>0, AttemptNumbers DEF TypeOK, Captures
    <3>3. Made
      BY <1>0 DEF Numbered
    <3>4. \A r \in Attempt : script'[r].pc # "none" => r <= attempts
      BY <1>1, <2>5, <3>3 DEF Made
    <3>5. \A r \in Attempt : bound'[r] <= attempts' /\ (script'[r].pc # "none" => r <= attempts')
      <4>1. \A r \in Attempt : bound[r] <= attempts
        BY <3>3 DEF Made
      <4>2. \A x \in Nat : x <= attempts => x <= attempts'
        BY <1>2, <2>4
      <4> QED BY <1>1, <3>1, <3>4, <4>1, <4>2
    <3>6. \A u \in Tab : marker'[u] <= attempts'
      BY <1>2, <1>6, <2>4, <3>2, <3>3 DEF Made
    <3> QED BY <3>5, <3>6 DEF Made
  <2>8. Scripts'
    BY <1>0, <1>1, <1>4, <2>5 DEF Scripts
  <2>9. "error" \in AnyPhase \ Running /\ Elsewhere(t)
    BY <1>1, <1>t, <1>6, <2>5 DEF AnyPhase, Phases, Running, Elsewhere
  <2> QED BY <1>1, <1>2, <1>3, <2>3, <2>4, <2>6, <2>7, <2>8, <2>9, EndStep
<1> QED BY <1>t, <1>5, <1>6 DEF HandleError

\* The marker of an abort is forgotten.
LEMMA MarkerKeeps ==
  ASSUME Inv, NEW t \in Tab, MarkerExpires(t)
  PROVE  Inv'
<1>0. TypeOK /\ Numbered /\ Scripts /\ \A u \in Tab : Owned(u)
  BY DEF Inv
<1>1. /\ awake /\ awake' = awake /\ stored' = stored /\ home' = home /\ attempts' = attempts
      /\ injecting' = injecting /\ vanished' = vanished /\ task' = task
      /\ transfer' = transfer /\ bound' = bound /\ script' = script /\ UNCHANGED shown
      /\ marker' = [marker EXCEPT ![t] = 0]
  BY DEF MarkerExpires, pages
<1>2. Awaiting /\ Asleep' /\ Scripts'
  BY <1>0, <1>1 DEF Awaiting, Asleep, Scripts
<1>3. marker' \in [Tab -> AnyAttempt] /\ \A u \in Tab : marker'[u] \in {marker[u], 0}
  BY <1>0, <1>1, AttemptNumbers DEF TypeOK, Captures
<1>4. attempts \in Nat
  BY <1>0, AttemptNumbers DEF TypeOK
<1>5. Captures'
  BY <1>0, <1>1, <1>3 DEF TypeOK, Captures
<1>6. Made'
  BY <1>0, <1>1, <1>3, <1>4 DEF Numbered, Made
<1>7. status' = status /\ tail' = tail /\ recovery' = recovery /\ \A u \in Tab : WaitsOn(u)
  BY <1>1, QuietWaits
<1>8. \A u \in Tab : Spared(u)
  BY <1>1, <1>3, <1>7 DEF Spared
<1>9. \A u \in Tab : Owned(u)'
  BY <1>0, <1>1, <1>8, SparedOwned
<1> QED BY <1>1, <1>2, <1>5, <1>6, <1>9, QuietStep

\* A script that cannot read its page has an error to send, and one whose
\* page was left is gone.
LEMMA ScriptKeeps ==
  ASSUME Inv, NEW s \in Attempt, ScriptFails(s) \/ Vanish(s)
  PROVE  Inv'
<1>0. TypeOK /\ Numbered /\ Scripts /\ Asleep /\ \A u \in Tab : Owned(u)
  BY DEF Inv
<1>1. /\ awake' = awake /\ stored' = stored /\ home' = home /\ attempts' = attempts
      /\ UNCHANGED shown /\ UNCHANGED memory
  BY DEF ScriptFails, Vanish
<1>2. /\ injecting' = injecting /\ task' = task /\ transfer' = transfer /\ bound' = bound
      /\ marker' = marker
  BY <1>1 DEF memory
<1>3. PICK pc \in {"erring", "over"} :
        /\ script' = [script EXCEPT ![s].pc = pc] /\ script[s].pc # "none"
        /\ \/ pc = "erring" /\ script[s].pc = "reading" /\ vanished' = vanished
           \/ pc = "over" /\ vanished' = vanished \cup {home[s]}
  <2>1. CASE ScriptFails(s)
    <3> WITNESS "erring" \in {"erring", "over"}
    <3> QED BY <2>1 DEF ScriptFails
  <2>2. CASE Vanish(s)
    <3> WITNESS "over" \in {"erring", "over"}
    <3> QED BY <2>2 DEF Vanish
  <2> QED BY <2>1, <2>2
<1>4. script' \in [Attempt -> Script] /\ script'[s].pc = pc
      /\ \A r \in Attempt : r # s => script'[r] = script[r]
  BY <1>0, <1>3, ScriptMoves DEF Places
<1>5. home[s] \in Tab
  BY <1>0 DEF TypeOK
<1>6. Captures'
  BY <1>0, <1>2, <1>3, <1>4, <1>5 DEF TypeOK, Captures
<1>7. Made'
  BY <1>0, <1>1, <1>2, <1>3, <1>4 DEF Numbered, Made
<1>8. Scripts'
  <2>1. task[s] # "none" => script[s].pc = "over"
    BY <1>0 DEF Scripts
  <2>2. s \notin injecting /\ (task[s] # "none" => pc = "over")
    BY <1>0, <1>3, <2>1 DEF Scripts
  <2> QED BY <1>0, <1>2, <1>4, <2>2 DEF Scripts
<1>9. status' = status /\ tail' = tail /\ recovery' = recovery /\ \A u \in Tab : WaitsOn(u)
  BY <1>1, QuietWaits
<1>10. \A u \in Tab : Spared(u)
  BY <1>0, <1>2, <1>3, <1>4, <1>9, ReadingNumber DEF Spared
<1>11. \A u \in Tab : Owned(u)'
  BY <1>0, <1>1, <1>10, SparedOwned
<1>12. Awaiting /\ Asleep'
  BY <1>0, <1>1, <1>2, <1>9 DEF Awaiting, Asleep
<1> QED BY <1>1, <1>2, <1>6, <1>7, <1>8, <1>11, <1>12, QuietStep

\* The recovery timer ends a capture that was being read when the worker died.
LEMMA RecoverKeeps ==
  ASSUME Inv, NEW t \in Tab, Recover(t)
  PROVE  Inv'
<1>0. TypeOK /\ Numbered /\ Scripts
  BY DEF Inv
<1>1. /\ awake /\ awake' = awake /\ stored' = stored /\ home' = home /\ attempts' = attempts
      /\ vanished' = vanished /\ script' = script
      /\ Report(t, status[t].attempt, "error", "nothing", 0)
      /\ injecting' = injecting /\ task' = task /\ transfer' = transfer /\ bound' = bound
      /\ marker' = marker
  BY DEF Recover, memory, pages
<1>2. PICK a \in AnyAttempt : a = status[t].attempt /\ a <= attempts
  BY <1>0, ReadingNumber
<1>3. Captures' /\ Made' /\ Scripts'
  BY <1>0, <1>1 DEF TypeOK, Captures, Numbered, Made, Scripts
<1>4. attempts \in AnyAttempt /\ attempts <= attempts /\ 0 \in AnyAttempt
  BY <1>0, ReadingNumber, AttemptNumbers
<1>5. "error" \in AnyPhase \ Running /\ Elsewhere(t) /\ Awaiting
  BY <1>1 DEF AnyPhase, Phases, Running, Elsewhere, Awaiting
<1> QED BY <1>1, <1>2, <1>3, <1>4, <1>5, EndStep

\* A transfer that expires is shown as an error unless the tab has moved on.
LEMMA ExpireKeeps ==
  ASSUME Inv, NEW s \in Attempt, Expire(s)
  PROVE  Inv'
<1>0. TypeOK /\ Numbered /\ Scripts /\ \A u \in Tab : Owned(u)
  BY DEF Inv
<1>t. PICK t \in Tab, a \in AnyAttempt : t = home[s] /\ a = bound[s]
  BY <1>0 DEF TypeOK, Captures
<1>1. /\ awake /\ awake' = awake /\ stored' = stored /\ home' = home /\ attempts' = attempts
      /\ vanished' = vanished /\ script' = script /\ transfer' = [transfer EXCEPT ![s] = "none"]
      /\ injecting' = injecting /\ task' = task /\ bound' = bound /\ marker' = marker
  BY DEF Expire, pages
<1>2. transfer' \in [Attempt -> {"none", "bare", "meta"}] /\ transfer'[s] = "none"
      /\ \A r \in Attempt : r # s => transfer'[r] = transfer[r]
  BY <1>0, <1>1 DEF TypeOK, Captures
<1>3. Captures' /\ Made' /\ Scripts'
  BY <1>0, <1>1, <1>2 DEF TypeOK, Captures, Numbered, Made, Scripts
<1>4. attempts \in AnyAttempt /\ attempts <= attempts /\ s \in AnyAttempt /\ a <= attempts
  BY <1>0, <1>t, ReadingNumber, AttemptNumbers DEF Numbered, Made
<1>5. Awaiting /\ Asleep'
  BY <1>1 DEF Awaiting, Asleep
<1>6. CASE Shows(t, a)
  <2>1. Report(t, a, "error", "nothing", s)
    BY <1>t, <1>6 DEF Expire
  <2>2. "error" \in AnyPhase \ Running /\ Elsewhere(t)
    BY <1>t, <1>1, <1>2 DEF AnyPhase, Phases, Running, Elsewhere
  <2> QED BY <1>1, <1>3, <1>4, <1>5, <2>1, <2>2, EndStep
<1>7. CASE ~Shows(t, a)
  <2>1. UNCHANGED shown
    BY <1>t, <1>7 DEF Expire
  <2>2. status' = status /\ tail' = tail /\ recovery' = recovery /\ \A u \in Tab : WaitsOn(u)
    BY <2>1, QuietWaits
  <2>3. Active(t) => bound[s] # status[t].attempt
    BY <1>0, <1>t, <1>7, ReadingNumber DEF Shows
  <2>4. \A u \in Tab : Spared(u)
    BY <1>0, <1>1, <1>t, <1>2, <2>2, <2>3 DEF Spared
  <2>5. \A u \in Tab : Owned(u)'
    BY <1>0, <1>1, <2>4, SparedOwned
  <2> QED BY <1>1, <1>3, <1>5, <2>1, <2>5, QuietStep
<1> QED BY <1>6, <1>7

\* The task of a capture goes on: nothing else of the captures changes.
LEMMA TaskMoves ==
  ASSUME TypeOK, Numbered, Scripts, NEW s \in Attempt, NEW to \in {"none", "reporting"},
         task[s] \in {"settings", "post"}, task' = [task EXCEPT ![s] = to],
         attempts' = attempts, vanished' = vanished, script' = script, transfer' = transfer,
         injecting' = injecting, bound' = bound, marker' = marker
  PROVE  /\ Captures' /\ Made' /\ Scripts' /\ Awaiting
         /\ task'[s] = to /\ \A r \in Attempt : r # s => task'[r] = task[r]
<1>1. task' \in [Attempt -> {"none", "settings", "reporting", "post"}]
      /\ task'[s] = to /\ \A r \in Attempt : r # s => task'[r] = task[r]
  BY DEF TypeOK, Captures
<1>2. Captures' /\ Made'
  BY <1>1 DEF TypeOK, Captures, Numbered, Made
<1>3. Scripts' /\ Awaiting
  BY <1>1 DEF Scripts, Awaiting
<1> QED BY <1>1, <1>2, <1>3

\* A capture whose attempt the tab no longer shows ends without a word.
LEMMA TaskEnds ==
  ASSUME Inv, NEW s \in Attempt, task[s] \in {"settings", "post"}, ~Shows(home[s], bound[s]),
         task' = [task EXCEPT ![s] = "none"], UNCHANGED shown, awake, awake' = awake,
         stored' = stored, transfer' = transfer, injecting' = injecting, bound' = bound,
         marker' = marker, UNCHANGED pages
  PROVE  Inv'
<1>0. TypeOK /\ Numbered /\ Scripts /\ \A u \in Tab : Owned(u)
  BY DEF Inv
<1>1. script' = script /\ home' = home /\ attempts' = attempts /\ vanished' = vanished
  BY DEF pages
<1>2. /\ Captures' /\ Made' /\ Scripts' /\ Awaiting
      /\ task'[s] = "none" /\ \A r \in Attempt : r # s => task'[r] = task[r]
  BY <1>0, <1>1, TaskMoves
<1>3. status' = status /\ tail' = tail /\ recovery' = recovery /\ \A u \in Tab : WaitsOn(u)
  BY QuietWaits
<1>4. home[s] \in Tab /\ (Active(home[s]) => bound[s] # status[home[s]].attempt)
  <2>1. home[s] \in Tab
    BY <1>0 DEF TypeOK
  <2> QED BY <1>0, <2>1, ReadingNumber DEF Shows
<1>5. \A u \in Tab : Spared(u)
  BY <1>1, <1>2, <1>3, <1>4 DEF Spared
<1>6. \A u \in Tab : Owned(u)'
  BY <1>0, <1>1, <1>5, SparedOwned
<1>7. Asleep'
  BY DEF Asleep
<1> QED BY <1>1, <1>2, <1>6, <1>7, QuietStep

\* processCapture reads the settings and announces the upload.
LEMMA SettingsKeeps ==
  ASSUME Inv, NEW s \in Attempt, Settings(s)
  PROVE  Inv'
<1>0. TypeOK /\ Numbered /\ Scripts
  BY DEF Inv
<1>t. PICK t \in Tab, a \in AnyAttempt : t = home[s] /\ a = bound[s]
  BY <1>0 DEF TypeOK, Captures
<1>1. /\ awake /\ awake' = awake /\ stored' = stored /\ home' = home /\ attempts' = attempts
      /\ vanished' = vanished /\ script' = script /\ transfer' = transfer
      /\ injecting' = injecting /\ bound' = bound /\ marker' = marker
      /\ task[s] = "settings" /\ UNCHANGED pages
  BY DEF Settings, pages
<1>2. attempts \in AnyAttempt /\ attempts <= attempts /\ s \in AnyAttempt /\ a <= attempts
  BY <1>0, <1>t, ReadingNumber, AttemptNumbers DEF Numbered, Made
<1>3. CASE ~Shows(t, a) /\ task' = [task EXCEPT ![s] = "none"] /\ UNCHANGED shown
  BY <1>t, <1>1, <1>3, TaskEnds
<1>4. CASE /\ Shows(t, a) /\ Report(t, a, "uploading", "upload", s)
           /\ task' = [task EXCEPT ![s] = "reporting"]
  <2>1. /\ Captures' /\ Made' /\ Scripts' /\ Awaiting
        /\ task'[s] = "reporting" /\ \A r \in Attempt : r # s => task'[r] = task[r]
    BY <1>0, <1>1, <1>4, TaskMoves
  <2>2. "uploading" \in AnyPhase /\ a # 0
    BY <1>4 DEF AnyPhase, Phases, Shows
  <2>3. Owned(t)'
    <3>1. /\ status'[t].phase = "uploading" /\ status'[t].attempt = a
          /\ Grown(t, "upload", s)
      BY <1>0, <1>2, <1>4, <2>2, ReportIs DEF Grown
    <3>2. PICK n \in Nat : n = Len(tail) + 1
      BY <3>1 DEF Grown
    <3>3. Last(t, n)' /\ n \in DOMAIN tail' /\ tail'[n].then = "upload" /\ tail'[n].who = s
      BY <3>1, <3>2, GrownLast DEF Grown
    <3>4. Uploads(s, t)'
      BY <1>1, <1>t, <2>1, <3>1, <3>3 DEF Uploads
    <3> QED BY <3>1, <3>4 DEF Owned
  <2>4. Elsewhere(t)
    BY <1>1, <1>t, <2>1 DEF Elsewhere
  <2>5. \A u \in Tab : u # t => marker'[u] = marker[u]
    BY <2>4 DEF Elsewhere
  <2>6. \A r \in Attempt : home[r] # t =>
           /\ bound'[r] = bound[r] /\ transfer'[r] = transfer[r] /\ task'[r] = task[r]
           /\ script'[r] = script[r] /\ (r \in injecting => r \in injecting')
    BY <2>4 DEF Elsewhere
  <2> QED BY <1>1, <1>2, <1>4, <2>1, <2>2, <2>3, <2>5, <2>6, ReportStep
<1>5. CASE /\ Shows(t, a) /\ Report(t, a, "error", "finish", s)
           /\ task' = [task EXCEPT ![s] = "reporting"]
  <2>1. /\ Captures' /\ Made' /\ Scripts' /\ Awaiting
        /\ task'[s] = "reporting" /\ \A r \in Attempt : r # s => task'[r] = task[r]
    BY <1>0, <1>1, <1>5, TaskMoves
  <2>2. "error" \in AnyPhase \ Running /\ Elsewhere(t)
    BY <1>1, <1>t, <2>1 DEF AnyPhase, Phases, Running, Elsewhere
  <2> QED BY <1>1, <1>2, <1>5, <2>1, <2>2, EndStep
<1> QED BY <1>t, <1>3, <1>4, <1>5 DEF Settings

\* The answer to the upload ends the attempt.
LEMMA PostKeeps ==
  ASSUME Inv, NEW s \in Attempt, NEW answer \in {"done", "duplicate", "conflict", "error"},
         Post(s, answer)
  PROVE  Inv'
<1>0. TypeOK /\ Numbered /\ Scripts
  BY DEF Inv
<1>t. PICK t \in Tab, a \in AnyAttempt : t = home[s] /\ a = bound[s]
  BY <1>0 DEF TypeOK, Captures
<1>1. /\ awake /\ awake' = awake /\ stored' = stored /\ home' = home /\ attempts' = attempts
      /\ vanished' = vanished /\ script' = script /\ transfer' = transfer
      /\ injecting' = injecting /\ bound' = bound /\ marker' = marker
      /\ task[s] = "post" /\ UNCHANGED pages
  BY DEF Post, pages
<1>2. attempts \in AnyAttempt /\ attempts <= attempts /\ s \in AnyAttempt /\ a <= attempts
  BY <1>0, <1>t, ReadingNumber, AttemptNumbers DEF Numbered, Made
<1>3. CASE ~Shows(t, a) /\ task' = [task EXCEPT ![s] = "none"] /\ UNCHANGED shown
  BY <1>t, <1>1, <1>3, TaskEnds
<1>4. CASE /\ Shows(t, a) /\ Report(t, a, answer, "finish", s)
           /\ task' = [task EXCEPT ![s] = "reporting"]
  <2>1. /\ Captures' /\ Made' /\ Scripts' /\ Awaiting
        /\ task'[s] = "reporting" /\ \A r \in Attempt : r # s => task'[r] = task[r]
    BY <1>0, <1>1, <1>4, TaskMoves
  <2>2. answer \in AnyPhase \ Running /\ Elsewhere(t)
    BY <1>1, <1>t, <2>1 DEF AnyPhase, Phases, Running, Elsewhere
  <2> QED BY <1>1, <1>2, <1>4, <2>1, <2>2, EndStep
<1> QED BY <1>t, <1>3, <1>4 DEF Post

\* The assembler of a capture holds chunks that its script has sent.
Chunked ==
  /\ parts \in [Attempt -> SUBSET Nat]
  /\ \A s \in Attempt : \A c \in parts[s] : c < script[s].next

\* A chunk is dropped, kept, or the last one, after which the snapshot is queued.
LEMMA ChunkKeeps ==
  ASSUME Inv, Chunked, NEW s \in Attempt, HandleChunk(s)
  PROVE  Inv'
<1>0. TypeOK /\ Numbered /\ Scripts /\ \A u \in Tab : Owned(u)
  BY DEF Inv
<1>t. PICK t \in Tab, a \in AnyAttempt : t = home[s] /\ a = status[t].attempt
  BY <1>0 DEF TypeOK, Status
<1>1. /\ awake /\ awake' = awake /\ stored' = stored /\ home' = home /\ attempts' = attempts
      /\ injecting' = injecting /\ vanished' = vanished /\ marker' = marker
      /\ script[s].pc = "chunk" /\ Bind(s)
  BY DEF HandleChunk
<1>2. s \in AnyAttempt /\ attempts \in AnyAttempt /\ attempts <= attempts /\ a <= attempts
  BY <1>0, <1>t, ReadingNumber, AttemptNumbers
<1>3. Asleep'
  BY <1>1 DEF Asleep
<1>4. task[s] = "none" /\ s \notin injecting /\ (transfer[s] # "none" => bound[s] # 0)
  BY <1>0, <1>1 DEF Scripts
<1>5. /\ bound' \in [Attempt -> AnyAttempt]
      /\ \A r \in Attempt : r # s => bound'[r] = bound[r]
      /\ ~Bindable(s) => bound'[s] = bound[s]
      /\ Bindable(s) => bound'[s] = a /\ a # 0 /\ bound[s] \in {0, a} /\ Active(t)
      /\ \A r \in Attempt : bound'[r] <= attempts /\ (bound[r] # 0 => bound'[r] = bound[r])
  BY <1>0, <1>1, <1>t, Binds DEF Bindable
<1>6. CASE /\ ~Bindable(s) /\ script' = Sent(s)
           /\ UNCHANGED shown /\ transfer' = transfer /\ task' = task
  <2>1. script' \in [Attempt -> Script] /\ script'[s].pc \in {"over", "chunk"}
        /\ \A r \in Attempt : r # s => script'[r] = script[r]
    BY <1>0, <1>1, <1>6, ScriptSends
  <2>2. bound' = bound
    BY <1>0, <1>5, <1>6 DEF TypeOK, Captures
  <2>3. Captures'
    BY <1>0, <1>1, <1>5, <1>6, <2>1 DEF TypeOK, Captures
  <2>4. Made'
    BY <1>0, <1>1, <1>5, <2>1 DEF Numbered, Made
  <2>5. Scripts'
    BY <1>0, <1>1, <1>4, <1>6, <2>1, <2>2 DEF Scripts
  <2>6. status' = status /\ tail' = tail /\ recovery' = recovery /\ \A u \in Tab : WaitsOn(u)
    BY <1>6, QuietWaits
  <2>7. \A u \in Tab : Spared(u)
    BY <1>0, <1>1, <1>6, <2>1, <2>2, <2>6, ReadingNumber DEF Spared
  <2>8. \A u \in Tab : Owned(u)'
    BY <1>0, <1>1, <2>7, SparedOwned
  <2>9. Awaiting
    BY <1>6 DEF Awaiting
  <2> QED BY <1>1, <1>3, <1>6, <2>2, <2>3, <2>4, <2>5, <2>8, <2>9, QuietStep
<1>7. CASE /\ Bindable(s) /\ script' = Sent(s) /\ task' = task
           /\ transfer' = [transfer EXCEPT ![s] = IF @ = "none" THEN "bare" ELSE @]
           /\ Report(t, a, "processing", "nothing", s)
  <2>1. script' \in [Attempt -> Script] /\ script'[s].pc \in {"over", "chunk"}
        /\ \A r \in Attempt : r # s => script'[r] = script[r]
    BY <1>0, <1>1, <1>7, ScriptSends
  <2>2. transfer' \in [Attempt -> {"none", "bare", "meta"}] /\ transfer'[s] # "none"
        /\ \A r \in Attempt : r # s => transfer'[r] = transfer[r]
    BY <1>0, <1>7 DEF TypeOK, Captures
  <2>3. Captures'
    BY <1>0, <1>1, <1>5, <1>7, <2>1, <2>2 DEF TypeOK, Captures
  <2>4. Made'
    BY <1>0, <1>1, <1>5, <2>1 DEF Numbered, Made
  <2>5. Scripts'
    BY <1>0, <1>1, <1>4, <1>5, <1>7, <2>1, <2>2 DEF Scripts
  <2>6. "processing" \in AnyPhase /\ Awaiting
    BY <1>7 DEF AnyPhase, Phases, Awaiting
  <2>7. Owned(t)'
    <3>1. status'[t].phase = "processing" /\ status'[t].attempt = a
      BY <1>0, <1>2, <1>7, <2>6, ReportIs
    <3>2. Carries(s, t)'
      BY <1>1, <1>t, <1>5, <1>7, <2>2, <3>1 DEF Carries
    <3> QED BY <3>1, <3>2 DEF Owned
  <2>8. \A r \in Attempt : home[r] # t =>
           /\ bound'[r] = bound[r] /\ transfer'[r] = transfer[r] /\ task'[r] = task[r]
           /\ script'[r] = script[r] /\ (r \in injecting => r \in injecting')
    BY <1>1, <1>t, <1>5, <1>7, <2>1, <2>2
  <2>9. a # 0
    BY <1>5, <1>7
  <2> QED BY <1>1, <1>2, <1>7, <2>3, <2>4, <2>5, <2>6, <2>7, <2>8, <2>9, ReportStep
<1>8. CASE /\ Bindable(s) /\ parts[s] \cup {script[s].next} = 1..Chunks /\ transfer[s] = "meta"
           /\ transfer' = [transfer EXCEPT ![s] = "none"]
           /\ task' = [task EXCEPT ![s] = "settings"]
           /\ script' = Sent(s) /\ UNCHANGED shown
  <2>1. script' \in [Attempt -> Script] /\ script'[s].pc = "over"
        /\ \A r \in Attempt : r # s => script'[r] = script[r]
    <3>1. script[s] \in Script /\ script[s].next \in Nat
      BY <1>0 DEF TypeOK, Captures, Script
    <3>2. script[s].next = Chunks
      <4>1. \A c \in parts[s] : c < script[s].next
        BY DEF Chunked
      <4>2. Chunks \in parts[s] \cup {script[s].next} /\ script[s].next <= Chunks
        BY <1>8, <3>1, CaptureAssumption
      <4> QED BY <3>1, <4>1, <4>2, CaptureAssumption
    <3>3. script'[s].pc = "over"
      <4>1. script \in [Attempt -> Script] /\ script[s] \in Script
        BY <1>0 DEF TypeOK, Captures
      <4>2. script'[s] = [script[s] EXCEPT !.next = @ + 1, !.pc = "over"]
        BY <1>8, <3>2, <4>1 DEF Sent
      <4> QED BY <3>1, <4>2 DEF Script
    <3> QED BY <1>0, <1>8, <3>3, ScriptSends
  <2>2. transfer' \in [Attempt -> {"none", "bare", "meta"}] /\ transfer'[s] = "none"
        /\ \A r \in Attempt : r # s => transfer'[r] = transfer[r]
    BY <1>0, <1>8 DEF TypeOK, Captures
  <2>3. task' \in [Attempt -> {"none", "settings", "reporting", "post"}] /\ task'[s] = "settings"
        /\ \A r \in Attempt : r # s => task'[r] = task[r]
    BY <1>0, <1>8 DEF TypeOK, Captures
  <2>4. Captures'
    BY <1>0, <1>1, <1>5, <2>1, <2>2, <2>3 DEF TypeOK, Captures
  <2>5. Made'
    BY <1>0, <1>1, <1>5, <2>1 DEF Numbered, Made
  <2>6. Scripts'
    BY <1>0, <1>1, <1>4, <1>5, <2>1, <2>2, <2>3 DEF Scripts
  <2>7. Awaiting
    BY <1>4, <2>3 DEF Awaiting
  <2>8. status' = status /\ tail' = tail /\ recovery' = recovery /\ \A u \in Tab : WaitsOn(u)
    BY <1>8, QuietWaits
  <2>9. bound[s] = a /\ bound' = bound
    <3>1. bound[s] = a
      BY <1>4, <1>5, <1>8
    <3> QED BY <1>0, <1>5, <1>8, <3>1 DEF TypeOK, Captures
  <2>10. ASSUME NEW u \in Tab, u # t
         PROVE  Owned(u)'
    <3>1. Spared(u)
      BY <1>0, <1>1, <1>t, <2>1, <2>2, <2>3, <2>8, <2>9, <2>10, ReadingNumber DEF Spared
    <3> QED BY <1>0, <1>1, <3>1, SparedOwned
  <2>11. Owned(t)'
    <3>1. status[t].phase # "capturing"
      <4>1. SUFFICES ASSUME status[t].phase = "capturing" PROVE FALSE
        OBVIOUS
      <4>2. Reading(t)
        BY <1>0, <4>1 DEF Owned
      <4> QED BY <1>t, <2>9, <4>2 DEF Reading
    <3>2. Carries(s, t)'
      BY <1>1, <1>t, <2>3, <2>8, <2>9 DEF Carries
    <3>3. ASSUME status[t].phase = "uploading"
          PROVE  \E r \in Attempt : Uploads(r, t)'
      <4>1. PICK r \in Attempt : Uploads(r, t)
        BY <1>0, <3>3 DEF Owned
      <4>2. task'[r] = task[r]
        BY <1>4, <2>3, <4>1 DEF Uploads
      <4>3. \A k \in DOMAIN tail : Last(t, k)' <=> Last(t, k)
        BY <2>8 DEF Last
      <4>4. Uploads(r, t)'
        BY <1>1, <2>8, <2>9, <4>1, <4>2, <4>3 DEF Uploads
      <4> QED BY <4>4
    <3> QED BY <2>8, <3>1, <3>2, <3>3 DEF Owned
  <2> QED BY <1>1, <1>3, <1>8, <2>4, <2>5, <2>6, <2>7, <2>9, <2>10, <2>11, QuietStep
<1>9. CASE /\ Bindable(s) /\ task' = task
           /\ transfer' = [transfer EXCEPT ![s] = "none"]
           /\ script' = [Sent(s) EXCEPT ![s].pc = "chunkWait"]
           /\ \E end \in {"duplicate", "error"} : Report(t, a, end, "answer", s)
  <2>1. script' \in [Attempt -> Script] /\ script'[s].pc = "chunkWait"
        /\ \A r \in Attempt : r # s => script'[r] = script[r]
    BY <1>0, <1>9, ScriptRests
  <2>2. transfer' \in [Attempt -> {"none", "bare", "meta"}] /\ transfer'[s] = "none"
        /\ \A r \in Attempt : r # s => transfer'[r] = transfer[r]
    BY <1>0, <1>9 DEF TypeOK, Captures
  <2>3. Captures'
    BY <1>0, <1>1, <1>5, <1>9, <2>1, <2>2 DEF TypeOK, Captures
  <2>4. Made'
    BY <1>0, <1>1, <1>5, <2>1 DEF Numbered, Made
  <2>5. Scripts'
    BY <1>0, <1>1, <1>4, <1>5, <1>9, <2>1, <2>2 DEF Scripts
  <2>6. PICK end \in {"duplicate", "error"} : Report(t, a, end, "answer", s)
    BY <1>9
  <2>7. end \in AnyPhase \ Running /\ Awaiting /\ Elsewhere(t)
    BY <1>1, <1>t, <1>5, <1>9, <2>1, <2>2 DEF AnyPhase, Phases, Running, Awaiting, Elsewhere
  <2> QED BY <1>1, <1>2, <2>3, <2>4, <2>5, <2>6, <2>7, EndStep
<1> QED
  <2>1. \/ /\ ~Bindable(s)
           /\ script' = Sent(s) /\ UNCHANGED <<shown, transfer, parts, queue, task>>
        \/ /\ Bindable(s)
           /\ transfer' = [transfer EXCEPT ![s] = "none"]
           /\ Report(t, a, "error", "answer", s)
           /\ script' = [Sent(s) EXCEPT ![s].pc = "chunkWait"] /\ UNCHANGED <<queue, task>>
        \/ /\ Bindable(s)
           /\ transfer' = [transfer EXCEPT ![s] = IF @ = "none" THEN "bare" ELSE @]
           /\ Report(t, a, "processing", "nothing", s)
           /\ script' = Sent(s) /\ UNCHANGED <<queue, task>>
        \/ /\ Bindable(s) /\ parts[s] \cup {script[s].next} = 1..Chunks
           /\ transfer' = [transfer EXCEPT ![s] = "none"]
           /\ \/ /\ transfer[s] = "meta" /\ task' = [task EXCEPT ![s] = "settings"]
                 /\ script' = Sent(s) /\ UNCHANGED shown
              \/ /\ Report(t, a, IF transfer[s] = "meta" THEN "duplicate" ELSE "error", "answer", s)
                 /\ script' = [Sent(s) EXCEPT ![s].pc = "chunkWait"]
                 /\ UNCHANGED <<queue, task>>
    BY <1>t, Zenon DEF HandleChunk
  <2> QED BY <1>6, <1>7, <1>8, <1>9, <2>1

\* tabs.onRemoved: the tab's captures are forgotten.
LEMMA CloseKeeps ==
  ASSUME Inv, NEW t \in Tab, CloseTab(t)
  PROVE  Inv'
<1>0. TypeOK /\ Numbered /\ Scripts
  BY DEF Inv
<1>1. /\ awake /\ awake' = awake /\ stored' = stored /\ home' = home /\ attempts' = attempts
      /\ injecting' = injecting /\ vanished' = vanished /\ task' = task
      /\ marker' = [marker EXCEPT ![t] = 0]
  BY DEF CloseTab
<1>2. /\ transfer' = [s \in Attempt |-> IF home[s] = t THEN "none" ELSE transfer[s]]
      /\ bound' = [s \in Attempt |-> IF home[s] = t THEN 0 ELSE bound[s]]
      /\ script' = [s \in Attempt |-> IF home[s] = t /\ script[s].pc # "none"
                                      THEN [script[s] EXCEPT !.pc = "over"]
                                      ELSE script[s]]
  BY DEF CloseTab
<1>3. Report(t, 0, "none", "nothing", 0)
  BY DEF CloseTab, Report, NoStatus
<1>4. transfer' \in [Attempt -> {"none", "bare", "meta"}] /\ bound' \in [Attempt -> AnyAttempt]
  BY <1>0, <1>2, AttemptNumbers DEF TypeOK, Captures
<1>5. /\ script' \in [Attempt -> Script]
      /\ \A s \in Attempt : home[s] # t => script'[s] = script[s]
      /\ \A s \in Attempt : script'[s].pc \in {script[s].pc, "over"}
      /\ \A s \in Attempt : script'[s].pc = script[s].pc \/ script[s].pc # "none"
  <2>1. \A s \in Attempt : script[s] \in Script
    BY <1>0 DEF TypeOK, Captures
  <2>2. ASSUME NEW r \in Script
        PROVE  [r EXCEPT !.pc = "over"] \in Script /\ [r EXCEPT !.pc = "over"].pc = "over"
    BY DEF Script
  <2>3. \A s \in Attempt : [script[s] EXCEPT !.pc = "over"] \in Script
                           /\ [script[s] EXCEPT !.pc = "over"].pc = "over"
    BY <2>1, <2>2
  <2> QED BY <1>2, <2>1, <2>3
<1>6. marker' \in [Tab -> AnyAttempt] /\ marker'[t] = 0
      /\ \A u \in Tab : u # t => marker'[u] = marker[u]
  BY <1>0, <1>1, AttemptNumbers DEF TypeOK, Captures
<1>7. attempts \in AnyAttempt /\ attempts <= attempts /\ 0 <= attempts /\ 0 \in AnyAttempt
      /\ attempts \in Nat
  BY <1>0, AttemptNumbers DEF TypeOK
<1>8. Captures'
  BY <1>0, <1>1, <1>4, <1>5, <1>6 DEF TypeOK, Captures
<1>9. Made'
  BY <1>0, <1>1, <1>2, <1>5, <1>6, <1>7 DEF Numbered, Made
<1>10. Scripts'
  <2>1. ASSUME NEW s \in Attempt
        PROVE  /\ s \in injecting => script'[s].pc = "none"
               /\ script'[s].pc \in {"none", "reading"} => bound'[s] = 0
               /\ task[s] # "none" => script'[s].pc = "over"
               /\ transfer'[s] # "none" => bound'[s] # 0
    BY <1>0, <1>2, <1>5 DEF Scripts
  <2> QED BY <1>1, <2>1 DEF Scripts
<1>11. Elsewhere(t)
  BY <1>1, <1>2, <1>5, <1>6 DEF Elsewhere
<1>12. "none" \in AnyPhase \ Running /\ Awaiting
  BY <1>1 DEF AnyPhase, Running, Awaiting
<1> QED BY <1>1, <1>3, <1>7, <1>8, <1>9, <1>10, <1>11, <1>12, EndStep

\* The worker dies: nothing of what it had in memory is left.
LEMMA DieKeeps ==
  ASSUME Inv, Die
  PROVE  Inv'
<1>0. TypeOK /\ Numbered
  BY DEF Inv
<1>1. /\ awake' = FALSE /\ stored' = stored /\ home' = home /\ attempts' = attempts
      /\ vanished' = vanished /\ status' = [t \in Tab |-> NoStatus] /\ tail' = <<>>
      /\ recovery' = {} /\ injecting' = {} /\ marker' = [t \in Tab |-> 0]
      /\ bound' = [s \in Attempt |-> 0] /\ transfer' = [s \in Attempt |-> "none"]
      /\ task' = [s \in Attempt |-> "none"]
  BY DEF Die, Forgotten
<1>2. script' \in [Attempt -> Script] /\ \A s \in Attempt : script[s].pc = "none" => script'[s].pc = "none"
  <2> DEFINE gone(pc) == CASE pc \in {"meta", "chunkWait"} -> "aborting"
                           [] pc = "abortWait" -> "erring"
                           [] pc = "errorWait" -> "over"
                           [] OTHER -> pc
  <2>1. script' = [s \in Attempt |-> [script[s] EXCEPT !.pc = gone(script[s].pc)]]
    BY DEF Die
  <2>2. \A s \in Attempt : script[s] \in Script
    BY <1>0 DEF TypeOK, Captures
  <2>3. \A pc \in Places : gone(pc) \in Places
    BY DEF Places, Waiting
  <2>4. gone("none") = "none"
    OBVIOUS
  <2> HIDE DEF gone
  <2>5. ASSUME NEW r \in Script, NEW pc \in Places
        PROVE  [r EXCEPT !.pc = pc] \in Script /\ [r EXCEPT !.pc = pc].pc = pc
    BY DEF Script, Places
  <2>6. \A r \in Script : r.pc \in Places
    BY DEF Script, Places
  <2>7. \A s \in Attempt : [script[s] EXCEPT !.pc = gone(script[s].pc)] \in Script
                           /\ [script[s] EXCEPT !.pc = gone(script[s].pc)].pc = gone(script[s].pc)
    BY <2>2, <2>3, <2>5, <2>6
  <2> QED BY <2>1, <2>4, <2>7
<1>3. NoStatus \in Status /\ NoStatus.phase = "none" /\ NoStatus.attempt = 0
  BY AttemptNumbers DEF NoStatus, Status, AnyPhase
<1>4. attempts \in Nat /\ 0 \in AnyAttempt
  BY <1>0, AttemptNumbers DEF TypeOK
<1>5. tail' \in Seq(Write) /\ DOMAIN tail' = {}
  BY <1>1
<1>6. TypeOK'
  BY <1>0, <1>1, <1>2, <1>3, <1>4, <1>5 DEF TypeOK, Captures
<1>7. Numbered'
  BY <1>0, <1>1, <1>2, <1>3, <1>4, <1>5 DEF Numbered, Made, Fit, Running
<1>8. Asleep' /\ Scripts'
  BY <1>1 DEF Asleep, Scripts
<1>9. Writes'
  BY <1>5 DEF Writes
<1>10. \A t \in Tab : Owned(t)'
  BY <1>1, <1>3 DEF Owned
<1> QED BY <1>6, <1>7, <1>8, <1>9, <1>10 DEF Inv

\* It comes back: a capture being read gets a deadline, the rest is an error.
LEMMA WakeKeeps ==
  ASSUME Inv, Wake
  PROVE  Inv'
<1> DEFINE lost == {t \in Tab : stored[t].phase \in {"processing", "uploading"}}
           back == [t \in Tab |-> IF t \in lost THEN [stored[t] EXCEPT !.phase = "error"]
                                  ELSE stored[t]]
           write == [tab |-> CHOOSE t \in lost : TRUE, snap |-> back,
                     then |-> "nothing", who |-> 0]
<1>0. TypeOK /\ Numbered /\ Asleep /\ Scripts
  BY DEF Inv
<1>1. /\ ~awake /\ awake' = TRUE /\ stored' = stored /\ home' = home /\ attempts' = attempts
      /\ vanished' = vanished /\ script' = script /\ injecting' = injecting /\ marker' = marker
      /\ bound' = bound /\ transfer' = transfer /\ task' = task
      /\ recovery' = {t \in Tab : stored[t].phase = "capturing"}
  BY DEF Wake, memory, pages
<1>2. status' = back /\ tail' = IF lost = {} THEN <<>> ELSE <<write>>
  BY DEF Wake
<1>3. \A s \in Attempt : bound[s] = 0 /\ transfer[s] = "none" /\ task[s] = "none"
  BY <1>0, <1>1 DEF Asleep
<1>4. \A t \in Tab : marker[t] = 0
  BY <1>0, <1>1 DEF Asleep
<1>5. back \in [Tab -> Status]
      /\ \A t \in Tab : /\ back[t].attempt = stored[t].attempt
                        /\ back[t].phase \notin {"processing", "uploading"}
                        /\ back[t].phase = "capturing" <=> stored[t].phase = "capturing"
  <2>1. \A t \in Tab : stored[t] \in Status
    BY <1>0 DEF TypeOK
  <2>2. ASSUME NEW r \in Status
        PROVE  /\ [r EXCEPT !.phase = "error"] \in Status
               /\ [r EXCEPT !.phase = "error"].phase = "error"
               /\ [r EXCEPT !.phase = "error"].attempt = r.attempt
    BY DEF Status, AnyPhase, Phases
  <2> QED BY <2>1, <2>2
<1> HIDE DEF back
<1>6. lost # {} => write \in Write /\ write.snap = back /\ write.then = "nothing"
  <2>1. lost # {} => (CHOOSE t \in lost : TRUE) \in Tab
    OBVIOUS
  <2> QED BY <1>5, <2>1, AttemptNumbers DEF Write
<1> HIDE DEF lost, write
<1>7. tail' \in Seq(Write) /\ \A k \in DOMAIN tail' : tail'[k].snap = back /\ tail'[k].then = "nothing"
  <2>1. CASE lost = {}
    BY <1>2, <2>1
  <2>2. CASE lost # {}
    BY <1>2, <1>6, <2>2
  <2> QED BY <2>1, <2>2
<1>8. TypeOK'
  BY <1>0, <1>1, <1>2, <1>5, <1>7 DEF TypeOK, Captures
<1>9. Numbered'
  <2>1. Fit(stored)'
    BY <1>0, <1>1 DEF Numbered, Fit
  <2>2. Fit(status)'
    BY <1>0, <1>1, <1>2, <1>5 DEF Numbered, Fit, Running
  <2>3. (\A k \in DOMAIN tail : Fit(tail[k].snap))'
    BY <1>2, <1>7, <2>2 DEF Fit
  <2>4. Made'
    BY <1>0, <1>1 DEF Numbered, Made
  <2> QED BY <2>1, <2>2, <2>3, <2>4 DEF Numbered
<1>10. Asleep' /\ Scripts'
  BY <1>0, <1>1 DEF Asleep, Scripts
<1>11. Writes'
  BY <1>7 DEF Writes
<1>12. ASSUME NEW t \in Tab
       PROVE  Owned(t)'
  <2>1. ASSUME status'[t].phase = "capturing"
        PROVE  Reading(t)'
    <3>1. status'[t].attempt # 0
      BY <1>9, <2>1 DEF Numbered, Fit, Running
    <3>2. t \in recovery'
      BY <1>1, <1>2, <1>5, <2>1
    <3> QED BY <1>1, <1>3, <1>4, <3>1, <3>2 DEF Reading
  <2> QED BY <1>2, <1>5, <2>1 DEF Owned
<1> QED BY <1>8, <1>9, <1>10, <1>11, <1>12 DEF Inv

\* The answer to a message moves only a script that waits for one.
LEMMA ScriptAnswered ==
  ASSUME TypeOK, NEW w \in AnyAttempt, script' = Answered(w)
  PROVE  /\ script' \in [Attempt -> Script]
         /\ \A r \in Attempt :
              \/ script'[r] = script[r]
              \/ script[r].pc \in Waiting /\ script'[r].pc \in {"chunk", "erring", "over"}
<1> DEFINE to(pc) == CASE pc = "meta" -> "chunk"
                       [] pc = "abortWait" -> "erring"
                       [] pc = "chunkWait" -> IF script[w].next > Chunks
                                              THEN "over" ELSE "chunk"
                       [] pc = "errorWait" -> "over"
                       [] OTHER -> pc
<1>1. script \in [Attempt -> Script]
  BY DEF TypeOK, Captures
<1>2. script' = [script EXCEPT ![w].pc = to(script[w].pc)]
  BY Zenon DEF Answered
<1>3. \A pc \in Places : to(pc) \in Places /\ (to(pc) = pc \/ pc \in Waiting)
                         /\ (pc \in Waiting => to(pc) \in {"chunk", "erring", "over"})
  BY DEF Places, Waiting
<1> HIDE DEF to
<1>4. CASE w \in Attempt
  <2>1. script[w] \in Script /\ script[w].pc \in Places
    BY <1>1, <1>4 DEF Script, Places
  <2>2. PICK pc \in Places : pc = to(script[w].pc)
    BY <1>3, <2>1
  <2>3. script' = [script EXCEPT ![w].pc = pc]
    BY <1>2, <2>2
  <2>4. script' \in [Attempt -> Script] /\ script'[w].pc = pc /\ script'[w].next = script[w].next
        /\ \A r \in Attempt : r # w => script'[r] = script[r]
    BY <1>1, <1>4, <2>3 DEF Script, Places
  <2>5. script[w].pc \in Waiting \/ pc = script[w].pc
    BY <1>3, <2>1, <2>2
  <2>6. pc = script[w].pc => script'[w] = script[w]
    BY <1>1, <1>4, <2>3, <2>4 DEF Script
  <2> QED BY <1>3, <2>1, <2>2, <2>4, <2>5, <2>6
<1>5. CASE w \notin Attempt
  <2>1. script' = script
    BY <1>1, <1>2, <1>5
  <2> QED BY <1>1, <2>1
<1> QED BY <1>4, <1>5

\* When a write ends the others move up.
LEMMA TailMoves ==
  ASSUME TypeOK, tail # <<>>, tail' = Tail(tail)
  PROVE  /\ Len(tail) \in Nat /\ Len(tail) >= 1 /\ DOMAIN tail = 1..Len(tail)
         /\ tail' \in Seq(Write) /\ DOMAIN tail' = 1..(Len(tail) - 1)
         /\ \A k \in DOMAIN tail' : tail'[k] = tail[k + 1] /\ k + 1 \in DOMAIN tail /\ k \in Nat
         /\ Head(tail) = tail[1] /\ tail[1] \in Write /\ 1 \in DOMAIN tail
         /\ \A u \in Tab, k \in Nat : k >= 1 => (Last(u, k)' <=> Last(u, k + 1))
         /\ Last(tail[1].tab, 1) <=> \A k \in 2..Len(tail) : tail[k].tab # tail[1].tab
<1>1. tail \in Seq(Write)
  BY DEF TypeOK
<1>2. Len(tail) \in Nat /\ Len(tail) >= 1 /\ DOMAIN tail = 1..Len(tail)
  BY <1>1
<1>3. /\ tail' \in Seq(Write) /\ DOMAIN tail' = 1..(Len(tail) - 1)
      /\ \A k \in 1..(Len(tail) - 1) : tail'[k] = tail[k + 1]
  BY <1>1, <1>2
<1>4. \A k \in DOMAIN tail' : tail'[k] = tail[k + 1] /\ k + 1 \in DOMAIN tail /\ k \in Nat
  BY <1>2, <1>3
<1>5. Head(tail) = tail[1] /\ tail[1] \in Write /\ 1 \in DOMAIN tail
  BY <1>1, <1>2
<1>6. ASSUME NEW u \in Tab, NEW k \in Nat, k >= 1
      PROVE  Last(u, k)' <=> Last(u, k + 1)
  <2> DEFINE LastP == /\ k \in DOMAIN tail' /\ tail'[k].tab = u
                      /\ \A m \in DOMAIN tail' : m > k => tail'[m].tab # u
  <2>1. ASSUME LastP PROVE Last(u, k + 1)
    <3>1. k + 1 \in DOMAIN tail /\ tail[k + 1].tab = u
      BY <1>4, <2>1
    <3>2. ASSUME NEW m \in DOMAIN tail, m > k + 1 PROVE tail[m].tab # u
      <4>1. m - 1 \in DOMAIN tail' /\ m - 1 > k /\ (m - 1) + 1 = m
        BY <1>2, <1>3, <3>2
      <4> QED BY <1>4, <2>1, <4>1
    <3> QED BY <3>1, <3>2 DEF Last
  <2>2. ASSUME Last(u, k + 1) PROVE LastP
    <3>1. k \in DOMAIN tail' /\ tail'[k].tab = u
      BY <1>2, <1>3, <1>6, <2>2 DEF Last
    <3>2. ASSUME NEW m \in DOMAIN tail', m > k PROVE tail'[m].tab # u
      <4>1. m + 1 \in DOMAIN tail /\ m + 1 > k + 1 /\ tail'[m] = tail[m + 1]
        BY <1>2, <1>3, <3>2
      <4> QED BY <2>2, <4>1 DEF Last
    <3> QED BY <3>1, <3>2
  <2>3. Last(u, k)' <=> LastP
    BY DEF Last
  <2> QED BY <2>1, <2>2, <2>3
<1>7. Last(tail[1].tab, 1) <=> \A k \in 2..Len(tail) : tail[k].tab # tail[1].tab
  BY <1>2 DEF Last
<1> QED BY <1>2, <1>3, <1>4, <1>5, <1>6, <1>7

\* The write of a snapshot of statuses ends and its reporter goes on.
LEMMA PersistKeeps ==
  ASSUME Inv, Persist
  PROVE  Inv'
<1>0. TypeOK /\ Numbered /\ Scripts /\ Writes /\ \A u \in Tab : Owned(u)
  BY DEF Inv
<1>1. /\ awake /\ awake' = awake /\ status' = status /\ recovery' = recovery /\ bound' = bound
      /\ injecting' = injecting /\ marker' = marker /\ home' = home /\ attempts' = attempts
      /\ vanished' = vanished /\ tail # <<>> /\ tail' = Tail(tail)
  BY DEF Persist
<1>2. /\ Len(tail) \in Nat /\ Len(tail) >= 1 /\ DOMAIN tail = 1..Len(tail)
      /\ tail' \in Seq(Write) /\ DOMAIN tail' = 1..(Len(tail) - 1)
      /\ \A k \in DOMAIN tail' : tail'[k] = tail[k + 1] /\ k + 1 \in DOMAIN tail /\ k \in Nat
      /\ Head(tail) = tail[1] /\ tail[1] \in Write /\ 1 \in DOMAIN tail
      /\ \A u \in Tab, k \in Nat : k >= 1 => (Last(u, k)' <=> Last(u, k + 1))
      /\ Last(tail[1].tab, 1) <=> \A k \in 2..Len(tail) : tail[k].tab # tail[1].tab
  BY <1>0, <1>1, TailMoves
<1>3. PICK h \in Write : h = tail[1]
  BY <1>2
<1>4. /\ h.tab \in Tab /\ h.snap \in [Tab -> Status] /\ h.who \in AnyAttempt
      /\ h.then \in {"nothing", "meta", "answer", "upload", "finish"}
  BY DEF Write
<1> DEFINE applied == Last(h.tab, 1)
<1>5. /\ stored' = h.snap \/ stored' = stored
      /\ script' = IF h.then \in {"meta", "answer"} THEN Answered(h.who) ELSE script
      /\ transfer' = IF h.then = "meta" /\ applied
                     THEN [transfer EXCEPT ![h.who] = "meta"] ELSE transfer
      /\ task' = CASE h.then = "upload" /\ applied -> [task EXCEPT ![h.who] = "post"]
                   [] h.then = "upload" /\ ~applied -> [task EXCEPT ![h.who] = "none"]
                   [] h.then = "finish" -> [task EXCEPT ![h.who] = "none"]
                   [] OTHER -> task
  <2>1. applied <=> \A k \in 2..Len(tail) : tail[k].tab # Head(tail).tab
    BY <1>2, <1>3
  <2>2. Head(tail) = h
    BY <1>2, <1>3
  <2> QED BY <2>1, <2>2 DEF Persist
<1> HIDE DEF applied
<1>6. /\ script' \in [Attempt -> Script]
      /\ \A r \in Attempt :
           \/ script'[r] = script[r]
           \/ script[r].pc \in Waiting /\ script'[r].pc \in {"chunk", "erring", "over"}
  <2>1. CASE h.then \in {"meta", "answer"}
    BY <1>0, <1>4, <1>5, <2>1, ScriptAnswered
  <2>2. CASE h.then \notin {"meta", "answer"}
    BY <1>0, <1>5, <2>2 DEF TypeOK, Captures
  <2> QED BY <2>1, <2>2
<1>7. h.then = "meta" => h.who \in Attempt /\ home[h.who] = h.tab /\ (applied => bound[h.who] # 0)
  BY <1>0, <1>2, <1>3 DEF Writes, applied
<1>8. h.then \in {"upload", "finish"} =>
        /\ h.who \in Attempt /\ task[h.who] = "reporting"
        /\ \A m \in DOMAIN tail :
             (m # 1 /\ tail[m].then \in {"upload", "finish"}) => tail[m].who # h.who
  BY <1>0, <1>2, <1>3 DEF Writes
<1>9. /\ transfer' \in [Attempt -> {"none", "bare", "meta"}]
      /\ \A r \in Attempt : transfer[r] # "none" => transfer'[r] # "none"
      /\ \A r \in Attempt : transfer'[r] # "none" =>
           transfer[r] # "none" \/ (h.then = "meta" /\ applied /\ r = h.who)
      /\ (h.then = "meta" /\ applied) => transfer'[h.who] = "meta"
  BY <1>0, <1>5, <1>7 DEF TypeOK, Captures
<1>10. /\ task' \in [Attempt -> {"none", "settings", "reporting", "post"}]
       /\ \A r \in Attempt : task'[r] = task[r] \/ (h.then \in {"upload", "finish"} /\ r = h.who)
       /\ (h.then = "upload" /\ applied) => task'[h.who] = "post"
       /\ \A r \in Attempt : task'[r] # task[r] => task[r] = "reporting"
  <2>1. task \in [Attempt -> {"none", "settings", "reporting", "post"}]
    BY <1>0 DEF TypeOK, Captures
  <2>2. CASE h.then = "upload" /\ applied
    BY <1>5, <1>8, <2>1, <2>2
  <2>3. CASE h.then = "upload" /\ ~applied
    BY <1>5, <1>8, <2>1, <2>3
  <2>4. CASE h.then = "finish"
    BY <1>5, <1>8, <2>1, <2>4
  <2>5. CASE h.then \notin {"upload", "finish"}
    BY <1>5, <2>1, <2>5
  <2> QED BY <2>2, <2>3, <2>4, <2>5
<1>11. TypeOK'
  BY <1>0, <1>1, <1>2, <1>4, <1>5, <1>6, <1>9, <1>10 DEF TypeOK, Captures
<1>12. Numbered'
  <2>1. Fit(h.snap) /\ Fit(stored) /\ Fit(status)
    BY <1>0, <1>2, <1>3 DEF Numbered
  <2>2. Fit(stored)' /\ Fit(status)'
    BY <1>1, <1>5, <2>1 DEF Fit
  <2>3. \A k \in DOMAIN tail' : Fit(tail[k + 1].snap) /\ tail'[k] = tail[k + 1]
    BY <1>0, <1>2 DEF Numbered
  <2>4. (\A k \in DOMAIN tail : Fit(tail[k].snap))'
    BY <1>1, <2>3 DEF Fit
  <2>5. Made'
    BY <1>0, <1>1, <1>6 DEF Numbered, Made, Waiting
  <2> QED BY <2>2, <2>4, <2>5 DEF Numbered
<1>13. Asleep'
  BY <1>1 DEF Asleep
<1>14. Scripts'
  <2>1. ASSUME NEW s \in Attempt
        PROVE  /\ s \in injecting => script'[s].pc = "none"
               /\ script'[s].pc \in {"none", "reading"} => bound[s] = 0
               /\ task'[s] # "none" => script'[s].pc = "over"
               /\ transfer'[s] # "none" => bound[s] # 0
    <3>1. /\ s \in injecting => script[s].pc = "none"
          /\ script[s].pc \in {"none", "reading"} => bound[s] = 0
          /\ task[s] # "none" => script[s].pc = "over"
          /\ transfer[s] # "none" => bound[s] # 0
      BY <1>0 DEF Scripts
    <3>2. task'[s] # "none" => task[s] # "none"
      BY <1>10
    <3>3. transfer'[s] # "none" => bound[s] # 0
      BY <1>7, <1>9, <3>1
    <3> QED BY <1>6, <3>1, <3>2, <3>3 DEF Waiting
  <2> QED BY <1>1, <2>1 DEF Scripts
<1>15. Writes'
  <2>1. ASSUME NEW k \in DOMAIN tail', tail'[k].then \in {"upload", "finish"}
        PROVE  /\ tail'[k].who \in Attempt /\ task'[tail'[k].who] = "reporting"
               /\ \A m \in DOMAIN tail' :
                    (m # k /\ tail'[m].then \in {"upload", "finish"}) => tail'[m].who # tail'[k].who
    <3>1. tail'[k] = tail[k + 1] /\ k + 1 \in DOMAIN tail /\ k + 1 # 1
      BY <1>2, <2>1
    <3>2. /\ tail[k + 1].who \in Attempt /\ task[tail[k + 1].who] = "reporting"
          /\ \A m \in DOMAIN tail :
               (m # k + 1 /\ tail[m].then \in {"upload", "finish"}) => tail[m].who # tail[k + 1].who
      BY <1>0, <2>1, <3>1 DEF Writes
    <3>3. task'[tail[k + 1].who] = "reporting"
      BY <1>8, <1>10, <2>1, <3>1, <3>2
    <3>4. ASSUME NEW m \in DOMAIN tail', m # k, tail'[m].then \in {"upload", "finish"}
          PROVE  tail'[m].who # tail[k + 1].who
      <4>1. tail'[m] = tail[m + 1] /\ m + 1 \in DOMAIN tail /\ m + 1 # k + 1
        BY <1>2, <3>4
      <4> QED BY <3>2, <3>4, <4>1
    <3> QED BY <3>1, <3>2, <3>3, <3>4
  <2>2. ASSUME NEW k \in DOMAIN tail', tail'[k].then = "meta"
        PROVE  /\ tail'[k].who \in Attempt /\ home[tail'[k].who] = tail'[k].tab
               /\ (\A m \in DOMAIN tail' : m > k => tail'[m].tab # tail'[k].tab)
                    => bound[tail'[k].who] # 0
    <3>1. tail'[k] = tail[k + 1] /\ k + 1 \in DOMAIN tail /\ k \in Nat /\ k >= 1
      BY <1>2, <2>2
    <3>2. /\ tail[k + 1].who \in Attempt /\ home[tail[k + 1].who] = tail[k + 1].tab
          /\ Last(tail[k + 1].tab, k + 1) => bound[tail[k + 1].who] # 0
      BY <1>0, <2>2, <3>1 DEF Writes
    <3>3. ASSUME \A m \in DOMAIN tail' : m > k => tail'[m].tab # tail'[k].tab
          PROVE  Last(tail[k + 1].tab, k + 1)
      <4>1. PICK u \in Tab : u = tail[k + 1].tab
        <5>1. tail[k + 1] \in Write
          BY <1>0, <3>1 DEF TypeOK
        <5> QED BY <5>1 DEF Write
      <4>2. Last(u, k)'
        BY <3>1, <3>3, <4>1 DEF Last
      <4> QED BY <1>2, <3>1, <4>1, <4>2
    <3> QED BY <3>1, <3>2, <3>3
  <2> QED BY <1>1, <2>1, <2>2 DEF Writes, Last
<1>16. ASSUME NEW u \in Tab
       PROVE  Owned(u)'
  <2>1. ASSUME status[u].phase = "capturing"
        PROVE  Reading(u)'
    <3>1. Reading(u) /\ status[u].attempt \in Attempt
      BY <1>0, <2>1, ReadingNumber DEF Owned
    <3> QED BY <1>1, <1>6, <3>1 DEF Reading, Waiting
  <2>2. ASSUME status[u].phase = "processing"
        PROVE  \E s \in Attempt : Carries(s, u)'
    <3>1. PICK s \in Attempt : Carries(s, u)
      BY <1>0, <2>2 DEF Owned
    <3>2. home'[s] = u /\ bound'[s] = status'[u].attempt
      BY <1>1, <3>1 DEF Carries
    <3>3. CASE transfer[s] # "none" \/ task[s] = "settings"
      <4>1. transfer'[s] # "none" \/ task'[s] = "settings"
        BY <1>9, <1>10, <3>3
      <4> QED BY <3>2, <4>1 DEF Carries
    <3>4. ASSUME NEW k \in DOMAIN tail, Last(u, k), tail[k].then = "meta", tail[k].who = s
          PROVE  Carries(s, u)'
      <4>1. CASE k = 1
        <5>1. h.then = "meta" /\ applied /\ h.who = s
          BY <1>3, <3>4, <4>1 DEF applied, Last
        <5> QED BY <1>9, <3>2, <5>1 DEF Carries
      <4>2. CASE k # 1
        <5>0. k \in 1..Len(tail) /\ Len(tail) \in Nat
          BY <1>2
        <5>1. PICK j \in Nat : j = k - 1 /\ j >= 1 /\ k = j + 1 /\ j \in 1..(Len(tail) - 1)
          BY <4>2, <5>0
        <5>2. Last(u, j)'
          BY <1>2, <3>4, <5>1
        <5>3. j \in DOMAIN tail' /\ tail'[j] = tail[k]
          <6>1. DOMAIN tail' = 1..(Len(tail) - 1) /\ \A m \in DOMAIN tail' : tail'[m] = tail[m + 1]
            BY <1>2
          <6> QED BY <5>1, <6>1
        <5> QED BY <3>2, <3>4, <5>2, <5>3 DEF Carries
      <4> QED BY <4>1, <4>2
    <3> QED BY <3>1, <3>3, <3>4 DEF Carries
  <2>3. ASSUME status[u].phase = "uploading"
        PROVE  \E s \in Attempt : Uploads(s, u)'
    <3>1. PICK s \in Attempt : Uploads(s, u)
      BY <1>0, <2>3 DEF Owned
    <3>2. home'[s] = u /\ bound'[s] = status'[u].attempt
      BY <1>1, <3>1 DEF Uploads
    <3>3. CASE task[s] = "post"
      <4>1. task'[s] = "post"
        BY <1>10, <3>3
      <4> QED BY <3>2, <4>1 DEF Uploads
    <3>4. ASSUME NEW k \in DOMAIN tail, Last(u, k), tail[k].then = "upload", tail[k].who = s,
                 task[s] = "reporting"
          PROVE  Uploads(s, u)'
      <4>1. CASE k = 1
        <5>1. h.then = "upload" /\ applied /\ h.who = s
          BY <1>3, <3>4, <4>1 DEF applied, Last
        <5> QED BY <1>10, <3>2, <5>1 DEF Uploads
      <4>2. CASE k # 1
        <5>0. k \in 1..Len(tail) /\ Len(tail) \in Nat
          BY <1>2
        <5>1. PICK j \in Nat : j = k - 1 /\ j >= 1 /\ k = j + 1 /\ j \in 1..(Len(tail) - 1)
          BY <4>2, <5>0
        <5>2. Last(u, j)'
          BY <1>2, <3>4, <5>1
        <5>3. j \in DOMAIN tail' /\ tail'[j] = tail[k]
          <6>1. DOMAIN tail' = 1..(Len(tail) - 1) /\ \A m \in DOMAIN tail' : tail'[m] = tail[m + 1]
            BY <1>2
          <6> QED BY <5>1, <6>1
        <5>4. task'[s] = "reporting"
          BY <1>8, <1>10, <3>4, <4>2
        <5> QED BY <3>2, <3>4, <5>2, <5>3, <5>4 DEF Uploads
      <4> QED BY <4>1, <4>2
    <3> QED BY <3>1, <3>3, <3>4 DEF Uploads
  <2> QED BY <1>1, <2>1, <2>2, <2>3 DEF Owned
<1> QED BY <1>11, <1>12, <1>13, <1>14, <1>15, <1>16 DEF Inv

-----------------------------------------------------------------------------
(* What the assemblers hold.                                               *)

\* A script that moves has sent what it had sent.
LEMMA SentKept ==
  ASSUME TypeOK, NEW w, NEW pc, script' = [script EXCEPT ![w].pc = pc]
  PROVE  \A r \in Attempt : script'[r].next = script[r].next
<1>1. script \in [Attempt -> Script]
  BY DEF TypeOK, Captures
<1>2. \A r \in Attempt : script[r] \in Script
  BY <1>1
<1> QED BY <1>1, <1>2 DEF Script

\* Assemblers that lose chunks or stay as they are.
LEMMA PartsShrink ==
  ASSUME Chunked, \A s \in Attempt : script'[s].next = script[s].next,
         parts' \in [Attempt -> SUBSET Nat], \A s \in Attempt : parts'[s] \subseteq parts[s]
  PROVE  Chunked'
BY DEF Chunked

\* Every step keeps what is known of the assemblers.
LEMMA ChunkedStep ==
  ASSUME TypeOK, Chunked, [Next]_vars
  PROVE  Chunked'
<1>0. parts \in [Attempt -> SUBSET Nat] /\ script \in [Attempt -> Script]
  BY DEF Chunked, TypeOK, Captures
<1>1. ASSUME parts' = parts, \A s \in Attempt : script'[s].next = script[s].next
      PROVE  Chunked'
  BY <1>0, <1>1, PartsShrink
<1>2. CASE UNCHANGED vars
  <2>1. parts' = parts /\ script' = script
    BY <1>2 DEF vars, memory, pages
  <2> QED BY <1>1, <2>1
<1>3. CASE Persist
  <2>1. parts' = parts
    BY <1>3 DEF Persist
  <2>2. \A s \in Attempt : script'[s].next = script[s].next
    <3> DEFINE w == Head(tail).who
    <3>1. script' = script \/ script' = Answered(w)
      BY <1>3 DEF Persist
    <3>2. CASE script' = Answered(w)
      <4>1. \E pc : script' = [script EXCEPT ![w].pc = pc]
        BY <3>2 DEF Answered
      <4> QED BY <4>1, SentKept
    <3> QED BY <3>1, <3>2
  <2> QED BY <1>1, <2>1, <2>2
<1>4. CASE Die
  <2>1. parts' = [s \in Attempt |-> {}]
    BY <1>4 DEF Die, Forgotten
  <2> QED BY <2>1 DEF Chunked
<1>5. CASE Wake
  <2>1. parts' = parts /\ script' = script
    BY <1>5 DEF Wake, memory, pages
  <2> QED BY <1>1, <2>1
<1>6. ASSUME NEW t \in Tab, Start(t) \/ MarkerExpires(t) \/ Recover(t)
      PROVE  Chunked'
  <2>1. parts' = parts /\ script' = script
    BY <1>6 DEF Start, MarkerExpires, Recover, memory, pages
  <2> QED BY <1>1, <2>1
<1>7. ASSUME NEW t \in Tab, CloseTab(t)
      PROVE  Chunked'
  <2>1. parts' = [s \in Attempt |-> IF home[s] = t THEN {} ELSE parts[s]]
        /\ script' = [s \in Attempt |-> IF home[s] = t /\ script[s].pc # "none"
                                        THEN [script[s] EXCEPT !.pc = "over"]
                                        ELSE script[s]]
    BY <1>7 DEF CloseTab
  <2>2. parts' \in [Attempt -> SUBSET Nat] /\ \A s \in Attempt : parts'[s] \subseteq parts[s]
    BY <1>0, <2>1
  <2>3. \A s \in Attempt : script'[s].next = script[s].next
    BY <1>0, <2>1 DEF Script
  <2> QED BY <2>2, <2>3, PartsShrink
<1>8. ASSUME NEW s \in Attempt, Inject(s) \/ HandleMeta(s) \/ HandleError(s) \/ ScriptFails(s) \/ Vanish(s)
      PROVE  Chunked'
  <2>1. parts' = parts
    BY <1>8 DEF Inject, HandleMeta, HandleError, ScriptFails, Vanish, memory
  <2>2. script' = script \/ \E pc : script' = [script EXCEPT ![s].pc = pc]
    BY <1>8, Zenon DEF Inject, HandleMeta, HandleError, ScriptFails, Vanish
  <2> QED BY <1>1, <2>1, <2>2, SentKept
<1>9. ASSUME NEW s \in Attempt, HandleAbort(s)
      PROVE  Chunked'
  <2>1. parts' = [parts EXCEPT ![s] = {}]
    BY <1>9 DEF HandleAbort
  <2>2. \E pc : script' = [script EXCEPT ![s].pc = pc]
    BY <1>9, Zenon DEF HandleAbort
  <2>3. parts' \in [Attempt -> SUBSET Nat] /\ \A r \in Attempt : parts'[r] \subseteq parts[r]
    BY <1>0, <2>1
  <2> QED BY <2>2, <2>3, SentKept, PartsShrink
<1>10. ASSUME NEW s \in Attempt, Settings(s) \/ \E answer \in {"done", "duplicate", "conflict", "error"} :
                                                  Post(s, answer)
       PROVE  Chunked'
  <2>1. parts' = parts /\ script' = script
    BY <1>10 DEF Settings, Post, pages
  <2> QED BY <1>1, <2>1
<1>11. ASSUME NEW s \in Attempt, Expire(s)
       PROVE  Chunked'
  <2>1. parts' = [parts EXCEPT ![s] = {}] /\ script' = script
    BY <1>11 DEF Expire, pages
  <2>2. parts' \in [Attempt -> SUBSET Nat] /\ \A r \in Attempt : parts'[r] \subseteq parts[r]
    BY <1>0, <2>1
  <2> QED BY <2>1, <2>2, PartsShrink
<1>12. ASSUME NEW s \in Attempt, HandleChunk(s)
       PROVE  Chunked'
  <2>1. \/ script' = Sent(s) /\ \/ parts' = parts
                                \/ parts' = [parts EXCEPT ![s] = parts[s] \cup {script[s].next}]
                                \/ parts' = [parts EXCEPT ![s] = {}]
        \/ /\ script' = [Sent(s) EXCEPT ![s].pc = "chunkWait"]
           /\ parts' = [parts EXCEPT ![s] = {}]
    BY <1>12, Zenon DEF HandleChunk
  <2>2. CASE script' = Sent(s) /\ \/ parts' = parts
                                  \/ parts' = [parts EXCEPT ![s] = parts[s] \cup {script[s].next}]
                                  \/ parts' = [parts EXCEPT ![s] = {}]
    <3>1. script[s] \in Script /\ script[s].next \in Nat
      BY <1>0 DEF Script
    <3>2. /\ \A r \in Attempt : r # s => script'[r] = script[r]
          /\ script'[s].next = script[s].next + 1
      BY <1>0, <2>2, <3>1 DEF Sent, Script
    <3>3. parts' \in [Attempt -> SUBSET Nat]
      BY <1>0, <2>2, <3>1
    <3>4. \A r \in Attempt : r # s => parts'[r] = parts[r]
      BY <1>0, <2>2
    <3>5. \A c \in parts'[s] : c \in Nat /\ (c < script[s].next \/ c = script[s].next)
      BY <1>0, <2>2, <3>1 DEF Chunked
    <3>6. \A c \in parts'[s] : c < script'[s].next
      BY <3>1, <3>2, <3>5
    <3> QED BY <3>2, <3>3, <3>4, <3>6 DEF Chunked
  <2>3. CASE /\ script' = [Sent(s) EXCEPT ![s].pc = "chunkWait"]
             /\ parts' = [parts EXCEPT ![s] = {}]
    <3>1. \A r \in Attempt : r # s => script'[r] = script[r] /\ parts'[r] = parts[r]
      BY <1>0, <2>3, ScriptRests
    <3>2. parts' \in [Attempt -> SUBSET Nat] /\ parts'[s] = {}
      BY <1>0, <2>3
    <3> QED BY <3>1, <3>2 DEF Chunked
  <2> QED BY <2>1, <2>2, <2>3
<1> QED BY <1>2, <1>3, <1>4, <1>5, <1>6, <1>7, <1>8, <1>9, <1>10, <1>11, <1>12 DEF Next

-----------------------------------------------------------------------------
(* Progress has an owner.                                                  *)

\* Init establishes the invariant.
LEMMA InvInit == Init => Inv /\ Chunked
<1> SUFFICES ASSUME Init PROVE Inv /\ Chunked
  OBVIOUS
<1>0. attempts = 0 /\ 0 \in AnyAttempt /\ tail = <<>> /\ DOMAIN tail = {} /\ attempts \in Nat
  BY AttemptNumbers DEF Init
<1>1. NoStatus \in Status /\ NoStatus.phase = "none" /\ NoStatus.attempt = 0
  BY AttemptNumbers DEF NoStatus, Status, AnyPhase
<1>2. [pc |-> "none", next |-> 1] \in Script
  BY DEF Script
<1>3. TypeOK
  BY <1>0, <1>1, <1>2 DEF Init, TypeOK, Captures
<1>4. Numbered /\ Asleep /\ Scripts /\ Writes /\ Chunked
  <2>1. Numbered
    BY <1>0, <1>1 DEF Init, Numbered, Made, Fit, Running
  <2>2. Asleep /\ Scripts /\ Writes
    BY <1>0 DEF Init, Asleep, Scripts, Writes
  <2>3. Chunked
    BY DEF Init, Chunked
  <2> QED BY <2>1, <2>2, <2>3
<1>5. \A t \in Tab : Owned(t)
  BY <1>1 DEF Init, Owned
<1> QED BY <1>3, <1>4, <1>5 DEF Inv

\* Every step of the worker, its scripts and the browser preserves it.
LEMMA InvStep == Inv /\ Chunked /\ [Next]_vars => Inv' /\ Chunked'
<1> SUFFICES ASSUME Inv, Chunked, [Next]_vars PROVE Inv' /\ Chunked'
  OBVIOUS
<1>1. Chunked'
  BY ChunkedStep DEF Inv
<1> SUFFICES Inv'
  BY <1>1
<1>2. CASE UNCHANGED vars
  BY <1>2 DEF vars, shown, memory, pages, Inv, TypeOK, Captures, Numbered, Made, Fit, Asleep,
              Scripts, Writes, Last, Owned, Reading, Carries, Uploads
<1>3. CASE Persist
  BY <1>3, PersistKeeps
<1>4. CASE Die
  BY <1>4, DieKeeps
<1>5. CASE Wake
  BY <1>5, WakeKeeps
<1>6. ASSUME NEW t \in Tab, Start(t) \/ MarkerExpires(t) \/ Recover(t) \/ CloseTab(t)
      PROVE  Inv'
  BY <1>6, StartKeeps, MarkerKeeps, RecoverKeeps, CloseKeeps
<1>7. ASSUME NEW s \in Attempt, Inject(s) \/ HandleMeta(s) \/ HandleChunk(s)
      PROVE  Inv'
  BY <1>7, InjectKeeps, MetaKeeps, ChunkKeeps
<1>8. ASSUME NEW s \in Attempt, HandleAbort(s) \/ HandleError(s) \/ ScriptFails(s) \/ Vanish(s)
      PROVE  Inv'
  BY <1>8, AbortKeeps, ErrorKeeps, ScriptKeeps
<1>9. ASSUME NEW s \in Attempt, Settings(s) \/ Expire(s)
      PROVE  Inv'
  BY <1>9, SettingsKeeps, ExpireKeeps
<1>10. ASSUME NEW s \in Attempt, NEW answer \in {"done", "duplicate", "conflict", "error"},
              Post(s, answer)
       PROVE  Inv'
  BY <1>10, PostKeeps
<1> QED BY <1>2, <1>3, <1>4, <1>5, <1>6, <1>7, <1>8, <1>9, <1>10 DEF Next

\* Who owns the progress of a tab in the invariant will end it.
LEMMA OwnedOwner ==
  ASSUME Inv, NEW t \in Tab
  PROVE  Owner(t)
<1>0. TypeOK /\ Numbered /\ Owned(t)
  BY DEF Inv
<1>1. ASSUME status[t].phase = "capturing"
      PROVE  \/ status[t].attempt \in injecting \/ t \in recovery \cup vanished
             \/ \E s \in {s \in Attempt : home[s] = t} : script[s].pc \notin {"none", "over"}
  <2>1. Reading(t) /\ status[t].attempt \in Attempt /\ home[status[t].attempt] = t
    BY <1>0, <1>1, ReadingNumber DEF Owned, Numbered, Fit
  <2> QED BY <2>1 DEF Reading
<1>2. ASSUME status[t].phase = "processing"
      PROVE  \E s \in {s \in Attempt : home[s] = t} : bound[s] = status[t].attempt
               /\ \/ transfer[s] # "none" \/ task[s] # "none"
                  \/ \E k \in DOMAIN tail : tail[k].then = "meta" /\ tail[k].who = s
  <2>1. PICK s \in Attempt : Carries(s, t)
    BY <1>0, <1>2 DEF Owned
  <2> QED BY <2>1 DEF Carries
<1>3. ASSUME status[t].phase = "uploading"
      PROVE  \E s \in {s \in Attempt : home[s] = t} : bound[s] = status[t].attempt /\ task[s] # "none"
  <2>1. PICK s \in Attempt : Uploads(s, t)
    BY <1>0, <1>3 DEF Owned
  <2> QED BY <2>1 DEF Uploads
<1> QED BY <1>1, <1>2, <1>3 DEF Owner

\* Whatever tabs, scripts, timers and worker deaths do, a tab that shows a
\* capture in progress has something under way that will end it
\* (rehydrateStatuses, onExpire, claimAttempt, processCapture).
THEOREM ProgressIsOwned == Spec => []ProgressHasOwner
<1>1. Init => Inv /\ Chunked
  BY InvInit
<1>2. Inv /\ Chunked /\ [Next]_vars => Inv' /\ Chunked'
  BY InvStep
<1>3. Inv => ProgressHasOwner
  BY OwnedOwner DEF ProgressHasOwner
<1> QED BY <1>1, <1>2, <1>3, PTL DEF Spec
=============================================================================
