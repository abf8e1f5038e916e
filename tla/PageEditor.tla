----------------------------- MODULE PageEditor -----------------------------
(***************************************************************************)
(* The page editor of the web client (usePageEditor).                      *)
(*                                                                         *)
(* Edits are saved after a pause, on leaving the page, when the tab is     *)
(* hidden and when the connection drops; saves are serialised into         *)
(* flights, each request names the revision it replaces, and an edit made  *)
(* during a flight is sent by the next pass of the same flight.            *)
(* A page is left in one of two ways.  TabContent keys the page by its     *)
(* path, so the hook is unmounted and its last flight goes on without an   *)
(* editor.  The hook itself, and its tests, also provide for another path  *)
(* in the same instance: that starts a new lifecycle, and what still       *)
(* answers for the old page must not touch the new one's baseline.         *)
(* Meanwhile the page query refetches, other writers change the page, and  *)
(* a generated change may own the editor.                                  *)
(*                                                                         *)
(* A text is the set of the edits in it.  Title, tags and aliases follow   *)
(* the same generations as the body and are not told apart from it;        *)
(* encrypted pages are not modelled.                                       *)
(*                                                                         *)
(* Source: ui/src/editor/usePageEditor.ts; the server is clep-api's        *)
(* update_page as its revision check shows it.                             *)
(***************************************************************************)
EXTENDS Integers, FiniteSets

CONSTANTS
  Page,         \* paths the tab can show
  Drafts,       \* those that do not exist yet and have an ensure callback
  MaxEdits,     \* bound on the user's edits
  Foreign,      \* edits of other writers
  MaxMoves,     \* bound on page switches
  MaxFaults     \* bound on failed requests

ASSUME PageEditorAssumption ==
  /\ Drafts \subseteq Page
  /\ {MaxEdits, MaxMoves, MaxFaults} \subseteq Nat
  /\ Foreign \cap (1..MaxEdits) = {}

VARIABLES
  server,    \* [Page -> revision (0 when missing) and text]
  cache,     \* [Page -> what the page query last returned]
  path,      \* the page shown
  epoch,     \* lifecycleRef
  text,      \* editorValueRef: what the user sees
  base,      \* savedRef
  rev,       \* revisionRef
  gen,       \* bodyEditGenRef
  savedGen,  \* savedBodyGenRef
  timer,     \* a save is scheduled
  requested, \* saveRequestedRef
  waiting,   \* the lifecycle whose save waits for an older one's flight, or 0
  conflict,  \* conflictRef
  status,    \* saveStatus
  loaded,    \* the page, or the absence of a draft's, is known
  flight,    \* the save in flight
  left,      \* flights of unmounted editors, with the text they send last
  fetch,     \* the page query's request
  session,   \* generatedChangeRef and its stage
  typed,     \* number of edits made so far
  landed,    \* edits a server accepted
  given,     \* edits the user gave up: undone or replaced by a reload
  missed,    \* edits of a page left whose flush failed
  stranded,  \* edits left behind a flight when the page was left
  moves, faults

remote == <<server, cache>>
buffer == <<text, base, rev, gen, savedGen>>
saving == <<timer, requested, waiting, conflict, status, flight>>
ghosts == <<landed, given, missed, stranded>>
vars == <<remote, path, epoch, buffer, saving, left, loaded, fetch, session,
          ghosts, typed, moves, faults>>

\* The user's edits are numbered as they are typed.
Edit == 1..MaxEdits
Nothing == [rev |-> 0, text |-> {}]
Grounded == [stage |-> "none", epoch |-> 0, path |-> path, rev |-> 0,
             text |-> {}, gen |-> 0, made |-> FALSE, found |-> {}]
Idle == [stage |-> "none", page |-> Nothing, reload |-> FALSE]

Dirty == gen > savedGen
Stale == flight.epoch # epoch
Typed == Edit \cap (text \ base)

Fault == faults < MaxFaults /\ faults' = faults + 1

Init ==
  /\ server = [p \in Page |-> IF p \in Drafts THEN Nothing
                              ELSE [rev |-> 1, text |-> {}]]
  /\ cache = [p \in Page |-> Nothing]
  /\ path \in Page /\ epoch = 1
  /\ text = {} /\ base = {} /\ rev = 0 /\ gen = 0 /\ savedGen = 0
  /\ timer = FALSE /\ requested = FALSE /\ waiting = 0 /\ conflict = FALSE
  /\ status = "saved" /\ loaded = FALSE
  /\ flight = Grounded /\ left = {} /\ fetch = [Idle EXCEPT !.stage = "sent"]
  /\ session = "none"
  /\ landed = {} /\ given = {} /\ missed = {} /\ stranded = {}
  /\ typed = 0 /\ moves = 0 /\ faults = 0

----------------------------------------------------------------------------
(* Saving.                                                                 *)

\* The start of a pass: nothing to send is a save, anything else takes off
\* with what the refs hold now.
StartPass ==
  IF Dirty /\ text # base
  THEN /\ status' = "saving" /\ UNCHANGED savedGen
       /\ flight' = [stage |-> IF path \in Drafts /\ rev = 0 THEN "ensure" ELSE "put",
                     epoch |-> epoch, path |-> path, rev |-> rev, text |-> text,
                     gen |-> gen, made |-> FALSE, found |-> {}]
  ELSE /\ status' = "saved" /\ savedGen' = gen
       /\ flight' = Grounded

\* doSave.
DoSave ==
  IF session = "open" THEN UNCHANGED <<saving, savedGen>>
  ELSE /\ timer' = FALSE /\ UNCHANGED conflict
       /\ IF conflict
          THEN status' = "error" /\ UNCHANGED <<requested, waiting, flight, savedGen>>
          ELSE IF flight.stage = "none"
          THEN requested' = FALSE /\ StartPass /\ UNCHANGED waiting
          ELSE /\ IF Stale THEN waiting' = epoch /\ UNCHANGED requested
                           ELSE requested' = TRUE /\ UNCHANGED waiting
               /\ UNCHANGED <<status, flight, savedGen>>

\* onSlateChange, setTitle, setTags, setAliases, setBodyMarkdown with their
\* scheduleSave; a generated change makes the editor read-only.
Edited(t) ==
  /\ loaded /\ session = "none"
  /\ text' = t /\ gen' = gen + 1
  /\ IF conflict THEN status' = "error" /\ timer' = FALSE
                 ELSE status' = "unsaved" /\ timer' = TRUE
  /\ UNCHANGED <<remote, path, epoch, left, base, rev, savedGen, requested, waiting,
                 conflict, flight, loaded, fetch, session, landed,
                 missed, stranded, moves, faults>>

Type ==
  /\ typed < MaxEdits /\ typed' = typed + 1
  /\ Edited(text \cup {typed + 1}) /\ UNCHANGED given

\* The user takes back what is not saved yet.
Undo ==
  /\ ~(Typed \subseteq given) /\ Edited(text \ Typed) /\ given' = given \cup Typed
  /\ UNCHANGED typed

\* The debounce timer, a hidden tab, a blur, a lost connection (the editor is
\* read-only until it is back), the encryption flusher.
Save ==
  /\ loaded
  /\ DoSave
  /\ UNCHANGED <<remote, path, epoch, left, text, base, rev, gen, loaded, fetch,
                 session, ghosts, typed, moves, faults>>

TimerFires == timer /\ Save

\* ensure creates the draft's page, or finds that somebody has.
EnsureReplies(f) ==
  LET at == server[f.path]
      made == [at EXCEPT !.rev = IF @ = 0 THEN 1 ELSE @]
  IN {[page |-> made, fault |-> 0,
       flight |-> [f EXCEPT !.stage = "ensured", !.rev = made.rev,
                            !.made = at.rev = 0, !.found = at.text]],
      [page |-> at, fault |-> 1, flight |-> [f EXCEPT !.stage = "failed"]]}

\* update_page: the revision must be the one the request names.  A request
\* fails before or after the server has acted on it.
PutReplies(f) ==
  LET at == server[f.path]
      accepted == f.rev = at.rev /\ at.rev > 0
      put == IF accepted THEN [rev |-> at.rev + 1, text |-> f.text] ELSE at
  IN {[page |-> put, fault |-> 0,
       flight |-> IF accepted THEN [f EXCEPT !.stage = "ok", !.rev = put.rev]
                              ELSE [f EXCEPT !.stage = "refused"]]}
     \cup {[page |-> p, fault |-> 1, flight |-> [f EXCEPT !.stage = "failed"]] :
             p \in {at, put}}

Replies(f) ==
  CASE f.stage = "ensure" -> EnsureReplies(f)
    [] f.stage = "put"    -> PutReplies(f)
    [] OTHER              -> {}

\* The server acts on the request of flight f, with reply r or without one.
Served(f, r) ==
  /\ faults + r.fault <= MaxFaults /\ faults' = faults + r.fault
  /\ server' = [server EXCEPT ![f.path] = r.page]
  /\ landed' = landed \cup (Edit \cap r.page.text)
  /\ UNCHANGED <<cache, path, epoch, buffer, timer, requested, waiting, conflict,
                 status, loaded, fetch, session, given, missed, stranded, typed,
                 moves>>

ServerReplies ==
  \E r \in Replies(flight) :
    Served(flight, r) /\ flight' = r.flight /\ UNCHANGED left

\* The flight ends; a save of a newer lifecycle that waited for it starts.
Land(failed) ==
  /\ missed' = IF Stale THEN missed \cup (failed \ landed) ELSE missed
  /\ waiting' = 0 /\ requested' = FALSE
  /\ IF waiting = epoch /\ ~conflict
     THEN StartPass /\ timer' = FALSE
     ELSE flight' = Grounded /\ UNCHANGED <<status, savedGen, timer>>

\* A page with content is not overwritten: the conflict flow takes over.
EnsureAnswer ==
  /\ flight.stage = "ensured"
  /\ LET taken == ~flight.made /\ flight.found # {}
     IN \/ /\ taken /\ Stale
           /\ Land(Edit \cap flight.text) /\ UNCHANGED <<base, rev, conflict>>
        \/ /\ taken /\ ~Stale
           /\ conflict' = TRUE /\ status' = "error" /\ flight' = Grounded
           /\ requested' = FALSE /\ timer' = FALSE
           /\ UNCHANGED <<base, rev, savedGen, waiting, missed>>
        \/ /\ ~taken
           /\ flight' = [flight EXCEPT !.stage = "put"]
           /\ IF Stale THEN UNCHANGED <<base, rev>>
                       ELSE base' = flight.found /\ rev' = flight.rev
           /\ UNCHANGED <<savedGen, timer, requested, waiting, conflict, status, missed>>
  /\ UNCHANGED <<remote, path, epoch, left, text, gen, loaded, fetch, session,
                 landed, given, stranded, typed, moves, faults>>

\* Mutant: what was typed during the flight counts as saved.
MutantPutAnswer ==
  /\ flight.stage = "ok"
  /\ rev' = flight.rev /\ base' = flight.text /\ savedGen' = gen
  /\ status' = "saved" /\ requested' = FALSE /\ flight' = Grounded
  /\ UNCHANGED <<remote, path, epoch, left, text, gen, timer, waiting, conflict, loaded,
                 fetch, session, ghosts, typed, moves, faults>>

\* The answer of a page left only lands; otherwise the generation that was
\* sent is saved, the query is invalidated, and a requested pass follows.
PutAnswer ==
  /\ flight.stage = "ok"
  /\ IF Stale
     THEN Land({}) /\ UNCHANGED <<base, rev, fetch>>
     ELSE LET more == requested /\ gen > flight.gen /\ text # flight.text
          IN /\ rev' = flight.rev /\ base' = flight.text
             /\ savedGen' = IF requested /\ ~more THEN gen ELSE flight.gen
             /\ status' = IF more THEN "saving"
                          ELSE IF requested \/ gen = flight.gen THEN "saved"
                          ELSE "unsaved"
             /\ flight' = IF more
                          THEN [flight EXCEPT !.stage = "put", !.text = text, !.gen = gen]
                          ELSE Grounded
             /\ requested' = FALSE
             /\ fetch' = [fetch EXCEPT !.stage = "sent"]
             /\ UNCHANGED <<waiting, timer, missed>>
  /\ UNCHANGED <<remote, path, epoch, left, text, gen, conflict, loaded, session,
                 landed, given, stranded, typed, moves, faults>>

\* Mutant: a failed save only lands.
MutantSaveFails ==
  /\ flight.stage \in {"refused", "failed"}
  /\ Land(Edit \cap flight.text)
  /\ UNCHANGED <<conflict, remote, path, epoch, left, text, base, rev, gen, loaded, fetch,
                 session, landed, given, stranded, typed, moves, faults>>

\* The catch of savePass.
SaveFails ==
  /\ flight.stage \in {"refused", "failed"}
  /\ IF Stale
     THEN Land(Edit \cap flight.text) /\ UNCHANGED conflict
     ELSE /\ timer' = FALSE /\ requested' = FALSE /\ status' = "error"
          /\ conflict' = (flight.stage = "refused")
          /\ flight' = Grounded /\ UNCHANGED <<savedGen, waiting, missed>>
  /\ UNCHANGED <<remote, path, epoch, left, text, base, rev, gen, loaded, fetch,
                 session, landed, given, stranded, typed, moves, faults>>

----------------------------------------------------------------------------
(* Other writers, the page query and the conflict flow.                    *)

Present == UNION {server[p].text : p \in Page}

ForeignWrite(p, x) ==
  /\ x \notin Present
  /\ server' = [server EXCEPT ![p] = [rev |-> @.rev + 1, text |-> @.text \cup {x}]]
  /\ UNCHANGED <<cache, path, epoch, left, buffer, saving, loaded, fetch, session,
                 ghosts, typed, moves, faults>>

\* Focus, reconnection or an event of the server; a query that would bring
\* nothing new is left out.
Refetch ==
  /\ fetch.stage = "none" /\ server[path] # cache[path]
  /\ fetch' = [fetch EXCEPT !.stage = "sent"]
  /\ UNCHANGED <<remote, path, epoch, left, buffer, saving, loaded, session,
                 ghosts, typed, moves, faults>>

ServerGet ==
  /\ fetch.stage = "sent"
  /\ fetch' = [fetch EXCEPT !.stage = "answered", !.page = server[path]]
  /\ UNCHANGED <<remote, path, epoch, left, buffer, saving, loaded, session,
                 ghosts, typed, moves, faults>>

\* The baseline becomes what the server has.
Adopt(p) == base' = p.text /\ text' = p.text /\ rev' = p.rev /\ status' = "saved"

\* The sync effect: a changed page is adopted unless there are local edits,
\* an unresolved conflict or a generated change.
FetchAnswer ==
  /\ fetch.stage = "answered" /\ ~fetch.reload
  /\ cache' = [cache EXCEPT ![path] = fetch.page] /\ loaded' = TRUE /\ fetch' = Idle
  /\ IF /\ fetch.page # cache[path] /\ fetch.page.rev > 0
        /\ ~conflict /\ session = "none" /\ ~Dirty
     THEN Adopt(fetch.page)
     ELSE UNCHANGED <<text, base, rev, status>>
  /\ UNCHANGED <<server, path, epoch, left, gen, savedGen, timer, requested, waiting,
                 conflict, flight, session, ghosts, typed, moves, faults>>

\* An ordinary query that fails is asked again: only a reload's failure shows.
FetchFails ==
  /\ fetch.stage = "sent" /\ fetch.reload /\ Fault
  /\ fetch' = Idle /\ status' = "error"
  /\ UNCHANGED <<remote, path, epoch, left, buffer, timer, requested, waiting, conflict,
                 flight, loaded, session, ghosts, typed, moves>>

\* reloadAfterConflict: the user takes the server's text.
Reload ==
  /\ conflict /\ fetch.stage = "none"
  /\ timer' = FALSE /\ fetch' = [Idle EXCEPT !.stage = "sent", !.reload = TRUE]
  /\ UNCHANGED <<remote, path, epoch, left, buffer, requested, waiting, conflict,
                 status, flight, loaded, session, ghosts, typed, moves, faults>>

ReloadAnswer ==
  /\ fetch.stage = "answered" /\ fetch.reload
  /\ fetch' = Idle /\ cache' = [cache EXCEPT ![path] = fetch.page]
  /\ IF fetch.page.rev = 0
     THEN status' = "error" /\ UNCHANGED <<text, base, rev, savedGen, requested, conflict, given>>
     ELSE /\ Adopt(fetch.page) /\ savedGen' = gen
          /\ requested' = FALSE /\ conflict' = FALSE
          /\ given' = given \cup (Edit \cap (text \ fetch.page.text))
  /\ UNCHANGED <<server, path, epoch, left, gen, timer, waiting, flight, loaded,
                 session, landed, missed, stranded, typed, moves, faults>>

----------------------------------------------------------------------------
(* Leaving a page.                                                         *)

\* The editor of the next page begins with what the query remembers.
Opened(q) ==
  /\ q # path /\ moves < MaxMoves /\ moves' = moves + 1 /\ path' = q
  /\ text' = cache[q].text /\ base' = cache[q].text /\ rev' = cache[q].rev
  /\ gen' = 0 /\ savedGen' = 0 /\ timer' = FALSE
  /\ conflict' = FALSE /\ status' = "saved" /\ session' = "none"
  /\ loaded' = (cache[q].rev > 0)
  /\ fetch' = [Idle EXCEPT !.stage = "sent"]
  /\ UNCHANGED <<remote, landed, given, typed, faults>>

\* Mutant: the scheduled save is dropped with the page.
MutantFlushes == FALSE

\* The cleanup flushes a scheduled save with the refs of the page it was
\* typed on.
Flushes == timer /\ session # "open" /\ ~conflict

Flushed ==
  IF Flushes /\ flight.stage = "none" /\ Dirty /\ text # base
  THEN [stage |-> IF path \in Drafts /\ rev = 0 THEN "ensure" ELSE "put",
        epoch |-> epoch, path |-> path, rev |-> rev,
        text |-> text, gen |-> gen, made |-> FALSE, found |-> {}]
  ELSE flight

\* The user has seen the error of what is not saved.
LeftWithError ==
  missed' = IF status = "error" THEN missed \cup (Typed \ landed) ELSE missed

\* The hook stays and is given another path: a new lifecycle.
Rerender(q) ==
  /\ Opened(q) /\ epoch = moves + 1 /\ epoch' = epoch + 1
  /\ LET free  == flight.stage = "none"
         sent  == IF free \/ Stale THEN {} ELSE flight.text
     IN /\ flight' = Flushed
        /\ requested' = (requested \/ (Flushes /\ ~free /\ ~Stale))
        /\ waiting' = IF Flushes /\ ~free /\ Stale THEN epoch ELSE waiting
        /\ stranded' = IF ~free /\ Dirty /\ status # "error"
                       THEN stranded \cup ((Typed \ sent) \ landed) ELSE stranded
  /\ LeftWithError /\ UNCHANGED left

\* The hook is unmounted: its lifecycle never ends, so its flight goes on to
\* the pass that was requested, with the refs nobody changes any more.
Remount(q) ==
  /\ Opened(q) /\ epoch = 1 /\ UNCHANGED epoch
  /\ left' = IF Flushed.stage = "none" THEN left
             ELSE left \cup {[flight |-> [Flushed EXCEPT !.gen = 0],
                               last |-> IF requested \/ Flushes THEN text
                                        ELSE flight.text]}
  /\ flight' = Grounded /\ requested' = FALSE
  /\ LeftWithError /\ UNCHANGED <<waiting, stranded>>

LeftServed(o) ==
  \E r \in Replies(o.flight) :
    /\ Served(o.flight, r) /\ UNCHANGED flight
    /\ left' = (left \ {o}) \cup {[o EXCEPT !.flight = r.flight]}

\* (The generation an unmounted editor sent is compared with nothing.)
\* A pass that succeeds is followed by the requested one; a refused or
\* failed one ends the flight, and there is no editor to show it.
LeftAnswer(o) ==
  LET f == o.flight
      taken == f.stage = "ensured" /\ ~f.made /\ f.found # {}
  IN /\ f.stage \notin {"ensure", "put"}
     /\ IF taken \/ f.stage \in {"refused", "failed"}
        THEN /\ left' = left \ {o}
             /\ missed' = missed \cup ((Edit \cap (f.text \cup o.last)) \ landed)
        ELSE /\ left' = (left \ {o}) \cup
                        (IF f.stage = "ok" /\ f.text = o.last THEN {}
                         ELSE {[o EXCEPT !.flight = [f EXCEPT !.stage = "put",
                                  !.text = IF f.stage = "ok" THEN o.last ELSE @]]})
             /\ UNCHANGED missed
     /\ UNCHANGED <<remote, path, epoch, buffer, saving, loaded, fetch, session,
                    landed, given, stranded, typed, moves, faults>>

----------------------------------------------------------------------------
(* A generated change: drain, preview, apply or cancel.                    *)

\* (A caller may hand in a body that the drain saves as well: an edit and a
\* drain with no other step between them.)
BeginGeneratedChange ==
  /\ session = "none" /\ loaded
  /\ session' = "draining" /\ DoSave
  /\ UNCHANGED <<remote, path, epoch, left, text, base, rev, gen, loaded, fetch,
                 ghosts, typed, moves, faults>>

\* The drained save ends: the session opens, or the failure cancels it.
Drained ==
  /\ session = "draining" /\ (flight.stage = "none" \/ Stale) /\ waiting = 0
  /\ session' = IF status = "error" \/ conflict \/ rev = 0 THEN "none" ELSE "open"
  /\ UNCHANGED <<remote, path, epoch, left, buffer, saving, loaded, fetch,
                 ghosts, typed, moves, faults>>

\* The write of the session names the drained revision.  A write that fails
\* after the server has acted is another writer's (ForeignWrite) and a session
\* that is given up (CancelGenerated).
ApplyGenerated(x) ==
  /\ session = "open" /\ x \notin Present
  /\ LET at == server[path]
     IN \/ /\ rev = at.rev
           /\ server' = [server EXCEPT ![path] = [rev |-> @.rev + 1, text |-> @.text \cup {x}]]
           /\ text' = at.text \cup {x} /\ base' = at.text \cup {x} /\ rev' = at.rev + 1
           /\ savedGen' = gen /\ requested' = FALSE /\ status' = "saved"
           /\ UNCHANGED <<conflict, faults>>
        \/ /\ rev # at.rev /\ conflict' = TRUE /\ status' = "error"
           /\ UNCHANGED <<server, text, base, rev, savedGen, requested, faults>>
        \/ /\ Fault
           /\ UNCHANGED <<server, text, base, rev, savedGen, requested, conflict, status>>
  /\ session' = "none"
  /\ UNCHANGED <<cache, path, epoch, left, gen, timer, waiting, flight, loaded,
                 fetch, ghosts, typed, moves>>

CancelGenerated ==
  /\ session = "open" /\ session' = "none"
  /\ UNCHANGED <<remote, path, epoch, left, buffer, saving, loaded, fetch,
                 ghosts, typed, moves, faults>>

Next ==
  \/ Type \/ Undo \/ Save \/ ServerReplies \/ EnsureAnswer \/ PutAnswer
  \/ SaveFails \/ Refetch \/ ServerGet \/ FetchAnswer \/ FetchFails \/ Reload
  \/ ReloadAnswer \/ BeginGeneratedChange \/ Drained
  \/ CancelGenerated
  \/ \E q \in Page : Rerender(q) \/ Remount(q)
  \/ \E o \in left : LeftServed(o) \/ LeftAnswer(o)
  \/ \E p \in Page, x \in Foreign : ForeignWrite(p, x)
  \/ \E x \in Foreign : ApplyGenerated(x)

Spec == Init /\ [][Next]_vars

\* Timers fire, and requests are answered or fail.
FairSpec ==
  /\ Spec
  /\ WF_vars(TimerFires) /\ WF_vars(ServerReplies) /\ WF_vars(EnsureAnswer)
  /\ WF_vars(PutAnswer) /\ WF_vars(SaveFails) /\ WF_vars(Drained)

----------------------------------------------------------------------------
(* Properties.                                                             *)

\* What the open page shows and the server does not have is on its way: a
\* scheduled save, a flight that carries it or will be followed by a pass,
\* a save waiting for an older page's flight, or an error the user sees.
\* The status never reads "saved" over it (doSave, savePass, the reset and
\* sync effects).
UnsavedIsPending ==
  Typed # {} =>
    \/ status = "error"
    \/ /\ status # "saved"
       /\ \/ timer
          \/ waiting = epoch /\ flight.stage # "none"
          \/ ~Stale /\ flight.stage # "none" /\ (requested \/ Typed \subseteq flight.text)

\* No edit disappears.  What the user typed is in the editor or in a flight,
\* an unmounted editor's included, until a server has it, the user gives it
\* up, or its page is left with a failed save (or, in the same instance of
\* the hook, with a queued one); what another writer saved stays on the
\* server, so no save, reload or generated change overwrites it.
NoEditIsLost ==
  [][/\ (1..typed)' \subseteq
          (text \cup flight.text \cup landed \cup given \cup missed \cup stranded
             \cup UNION {o.flight.text \cup o.last : o \in left})'
     /\ \A p \in Page : server[p].text \cap Foreign \subseteq server'[p].text]_vars

\* A page with local edits is saved, shows an error, or is left (which
\* resets its generations): neither a rejected save, a flight of the page
\* before nor a generated change leaves it waiting for ever.
EditsSettle == Dirty ~> (~Dirty \/ status = "error")

(***************************************************************************)
(* What docs, comments or tests say and the code does not keep: see        *)
(* "Known divergences" in the README.                                      *)
(***************************************************************************)
\* Giving the mounted hook another path saves the page's last edit (the
\* cleanup of the flush effect, doSave).
NoEditIsStranded == stranded = {}
=============================================================================
