--------------------------- MODULE PageEditorProofs ---------------------------
(***************************************************************************)
(* Proofs about PageEditor, for every set of pages and drafts and any      *)
(* number of edits, moves, faults and other writers: what is not saved is  *)
(* pending, and no edit is lost.                                           *)
(***************************************************************************)
EXTENDS PageEditor, TLAPS

-----------------------------------------------------------------------------
(* The inductive invariant.                                                *)

Content == [rev : Nat, text : SUBSET (Edit \cup Foreign)]
Stages == {"none", "ensure", "ensured", "put", "ok", "refused", "failed"}
Flight == [stage : Stages, epoch : Nat, path : Page, rev : Nat,
           text : SUBSET (Edit \cup Foreign), gen : Nat, made : BOOLEAN,
           found : SUBSET (Edit \cup Foreign)]

TypeOK ==
  /\ server \in [Page -> Content] /\ cache \in [Page -> Content] /\ path \in Page
  /\ epoch \in Nat \ {0} /\ waiting \in Nat /\ waiting <= epoch
  /\ text \in SUBSET (Edit \cup Foreign) /\ base \in SUBSET (Edit \cup Foreign)
  /\ rev \in Nat /\ gen \in Nat /\ savedGen \in Nat /\ savedGen <= gen
  /\ timer \in BOOLEAN /\ requested \in BOOLEAN /\ conflict \in BOOLEAN /\ loaded \in BOOLEAN
  /\ status \in {"saved", "saving", "unsaved", "error"}
  /\ session \in {"none", "draining", "open"}
  /\ flight \in Flight
  /\ fetch \in [stage : {"none", "sent", "answered"}, page : Content, reload : BOOLEAN]
  /\ left \in SUBSET [flight : Flight, last : SUBSET (Edit \cup Foreign)]
  /\ typed \in Nat /\ typed <= MaxEdits

\* The editor's own save is in flight.
Flying == flight.stage # "none" /\ ~Stale

\* A page that does not exist is empty.
Absent(p) == p.rev = 0 => p.text = {}

Absences ==
  /\ \A p \in Page : Absent(server[p]) /\ Absent(cache[p])
  /\ Absent(fetch.page) /\ (rev = 0 => base = {})
  /\ flight.stage \in {"ensured", "ok"} => flight.rev # 0

\* What the generations say of the buffer, and of the save in flight.
Generations ==
  /\ Typed # {} => Dirty
  /\ Flying => /\ savedGen < flight.gen /\ flight.gen <= gen
               /\ flight.gen = gen => text = flight.text
               /\ text # flight.text => timer \/ requested
               /\ flight.stage \in {"ensure", "ensured"} => rev = 0

\* Who may be busy with whom.
Modes ==
  /\ Flying => ~conflict /\ session # "open" /\ status \in {"saving", "unsaved"}
  /\ flight.stage # "none" => flight.epoch <= epoch /\ flight.epoch # 0
  /\ flight.stage = "none" => Stale /\ flight.epoch = 0
  /\ waiting = epoch => flight.stage # "none" /\ Stale
  /\ conflict => status = "error"
  /\ fetch.reload => conflict
  /\ session = "open" => waiting # epoch /\ ~conflict /\ status # "error"
  /\ session # "none" => ~timer

Inv == TypeOK /\ Absences /\ Generations /\ Modes /\ UnsavedIsPending

-----------------------------------------------------------------------------
(* Flights.                                                                *)

Texts == SUBSET (Edit \cup Foreign)

\* The fields of a flight.
LEMMA FlightFields ==
  ASSUME NEW f \in Flight
  PROVE  /\ f.stage \in Stages /\ f.epoch \in Nat /\ f.path \in Page /\ f.rev \in Nat
         /\ f.text \in Texts /\ f.gen \in Nat /\ f.made \in BOOLEAN /\ f.found \in Texts
BY DEF Flight, Texts

\* A flight that goes to another stage.
LEMMA FlightMoves ==
  ASSUME NEW f \in Flight, NEW stage \in Stages
  PROVE  LET g == [f EXCEPT !.stage = stage]
         IN  /\ g \in Flight /\ g.stage = stage /\ g.epoch = f.epoch /\ g.path = f.path
             /\ g.rev = f.rev /\ g.text = f.text /\ g.gen = f.gen /\ g.found = f.found
             /\ g.made = f.made
BY DEF Flight

\* A flight with these fields.
LEMMA FlightIs ==
  ASSUME NEW stage \in Stages, NEW e \in Nat, NEW p \in Page, NEW r \in Nat, NEW t \in Texts,
         NEW g \in Nat, NEW m \in BOOLEAN, NEW d \in Texts
  PROVE  LET f == [stage |-> stage, epoch |-> e, path |-> p, rev |-> r, text |-> t,
                   gen |-> g, made |-> m, found |-> d]
         IN  /\ f \in Flight /\ f.stage = stage /\ f.epoch = e /\ f.path = p
             /\ f.rev = r /\ f.text = t /\ f.gen = g /\ f.made = m /\ f.found = d
BY DEF Flight, Texts

\* No save is in flight.
LEMMA GroundedIs ==
  ASSUME TypeOK
  PROVE  /\ Grounded \in Flight /\ Grounded.stage = "none" /\ Grounded.epoch = 0
         /\ Grounded.text = {} /\ Grounded.found = {}
<1>1. path \in Page /\ {} \in Texts /\ "none" \in Stages
  BY DEF TypeOK, Texts, Stages
<1> QED BY <1>1, FlightIs DEF Grounded

\* A pass takes off with what the refs hold, or there is nothing to save.
LEMMA StartPassIs ==
  ASSUME TypeOK, Generations, StartPass
  PROVE  /\ flight' \in Flight /\ savedGen' \in Nat /\ savedGen' <= gen
         /\ flight'.found = {}
         /\ \/ /\ flight'.stage \in {"ensure", "put"} /\ flight'.epoch = epoch
               /\ flight'.path = path /\ flight'.rev = rev /\ flight'.text = text
               /\ flight'.gen = gen /\ status' = "saving" /\ savedGen' = savedGen
               /\ savedGen < gen /\ (flight'.stage = "ensure" => rev = 0)
            \/ /\ flight'.stage = "none" /\ flight'.epoch = 0 /\ status' = "saved"
               /\ savedGen' = gen /\ Typed = {} /\ flight'.text = {}
<1>0. /\ epoch \in Nat /\ path \in Page /\ rev \in Nat /\ text \in Texts /\ gen \in Nat
      /\ savedGen \in Nat /\ savedGen <= gen /\ {} \in Texts
  BY DEF TypeOK, Texts
<1>1. CASE Dirty /\ text # base
  <2>1. PICK stage \in {"ensure", "put"} : stage = IF path \in Drafts /\ rev = 0 THEN "ensure" ELSE "put"
    OBVIOUS
  <2>2. /\ status' = "saving" /\ savedGen' = savedGen
        /\ flight' = [stage |-> stage, epoch |-> epoch, path |-> path, rev |-> rev, text |-> text,
                      gen |-> gen, made |-> FALSE, found |-> {}]
    BY <1>1, <2>1 DEF StartPass
  <2>3. stage \in Stages /\ FALSE \in BOOLEAN
    BY DEF Stages
  <2>4. /\ flight' \in Flight /\ flight'.stage = stage /\ flight'.epoch = epoch /\ flight'.path = path
        /\ flight'.rev = rev /\ flight'.text = text /\ flight'.gen = gen /\ flight'.found = {}
    BY <1>0, <2>2, <2>3, FlightIs
  <2> QED BY <1>0, <1>1, <2>1, <2>2, <2>4 DEF Dirty
<1>2. CASE ~(Dirty /\ text # base)
  <2>1. status' = "saved" /\ savedGen' = gen /\ flight' = Grounded
    BY <1>2 DEF StartPass
  <2>2. Typed = {}
    BY <1>2 DEF Generations, Typed
  <2> QED BY <1>0, <2>1, <2>2, GroundedIs
<1> QED BY <1>1, <1>2

\* The editor and what it knows of pages are as they were.
Steady ==
  /\ text' = text /\ base' = base /\ rev' = rev /\ gen' = gen /\ epoch' = epoch /\ path' = path
  /\ conflict' = conflict /\ fetch' = fetch /\ server' = server /\ cache' = cache
  /\ loaded' = loaded /\ left' = left /\ typed' = typed

\* A pass that takes off leaves the editor in order.
LEMMA PassKeeps ==
  ASSUME Inv, StartPass, Steady, ~conflict, timer' = FALSE, requested' = FALSE,
         waiting' \in Nat, waiting' < epoch, session' \in {"none", "draining"}
  PROVE  Inv'
<1>0. TypeOK /\ Absences /\ Generations /\ Modes
  BY DEF Inv
<1>1. /\ flight' \in Flight /\ savedGen' \in Nat /\ savedGen' <= gen
      /\ \/ /\ flight'.stage \in {"ensure", "put"} /\ flight'.epoch = epoch
            /\ flight'.path = path /\ flight'.rev = rev /\ flight'.text = text
            /\ flight'.gen = gen /\ status' = "saving" /\ savedGen' = savedGen
            /\ savedGen < gen /\ (flight'.stage = "ensure" => rev = 0)
         \/ /\ flight'.stage = "none" /\ flight'.epoch = 0 /\ status' = "saved"
            /\ savedGen' = gen /\ Typed = {} /\ flight'.text = {}
  BY <1>0, StartPassIs
<1>2. epoch \in Nat \ {0} /\ waiting' # epoch /\ waiting' <= epoch /\ gen \in Nat /\ savedGen \in Nat
  BY <1>0 DEF TypeOK
<1>3. TypeOK'
  BY <1>0, <1>1, <1>2 DEF TypeOK, Steady
<1>4. Absences'
  BY <1>0, <1>1 DEF Absences, Absent, Steady
<1>5. Generations'
  <2>1. Typed' # {} => Dirty'
    BY <1>0, <1>1, <1>2 DEF Generations, Typed, Dirty, Steady
  <2>2. ASSUME Flying'
        PROVE  /\ savedGen' < flight'.gen /\ flight'.gen <= gen' /\ text' = flight'.text
               /\ flight'.stage \in {"ensure", "ensured"} => rev' = 0
    BY <1>1, <1>2, <2>2 DEF Flying, Steady
  <2> QED BY <2>1, <2>2 DEF Generations
<1>6. Modes'
  BY <1>0, <1>1, <1>2 DEF Modes, Flying, Stale, Steady
<1>7. UnsavedIsPending'
  BY <1>1, <1>2 DEF UnsavedIsPending, Typed, Stale, Steady
<1> QED BY <1>3, <1>4, <1>5, <1>6, <1>7 DEF Inv

-----------------------------------------------------------------------------
(* Each step keeps the invariant.                                          *)

\* doSave starts a pass, or leaves word for the flight in progress.
LEMMA DoSaveKeeps ==
  ASSUME Inv, DoSave, Steady,
         session' = session \/ (session = "none" /\ session' = "draining")
  PROVE  Inv'
<1>0. TypeOK /\ Absences /\ Generations /\ Modes /\ UnsavedIsPending
  BY DEF Inv
<1>1. epoch \in Nat \ {0} /\ waiting \in Nat /\ waiting <= epoch
      /\ session \in {"none", "draining", "open"}
  BY <1>0 DEF TypeOK
<1>2. CASE session = "open"
  <2>1. /\ timer' = timer /\ requested' = requested /\ waiting' = waiting /\ status' = status
        /\ flight' = flight /\ savedGen' = savedGen /\ session' = session
    BY <1>2 DEF DoSave, saving
  <2>2. TypeOK'
    BY <1>0, <2>1 DEF TypeOK, Steady
  <2>3. Absences' /\ Generations'
    BY <1>0, <2>1 DEF Absences, Absent, Generations, Flying, Stale, Typed, Dirty, Steady
  <2>4. Modes' /\ UnsavedIsPending'
    BY <1>0, <2>1 DEF Modes, UnsavedIsPending, Flying, Stale, Typed, Steady
  <2> QED BY <2>2, <2>3, <2>4 DEF Inv
<1>3. CASE session # "open" /\ conflict
  <2>1. /\ timer' = FALSE /\ requested' = requested /\ waiting' = waiting /\ status' = "error"
        /\ flight' = flight /\ savedGen' = savedGen
    BY <1>3 DEF DoSave
  <2>2. TypeOK'
    BY <1>0, <1>1, <2>1 DEF TypeOK, Steady
  <2>3. ~Flying /\ ~Flying'
    BY <1>0, <1>3, <2>1 DEF Modes, Flying, Stale, Steady
  <2>4. Absences' /\ Generations'
    BY <1>0, <2>1, <2>3 DEF Absences, Absent, Generations, Typed, Dirty, Steady
  <2>5. Modes'
    BY <1>0, <1>1, <1>3, <2>1, <2>3 DEF Modes, Stale, Steady
  <2>6. UnsavedIsPending'
    BY <2>1 DEF UnsavedIsPending
  <2> QED BY <2>2, <2>4, <2>5, <2>6 DEF Inv
<1>4. CASE session # "open" /\ ~conflict /\ flight.stage = "none"
  <2>1. timer' = FALSE /\ requested' = FALSE /\ StartPass /\ waiting' = waiting
    BY <1>4 DEF DoSave
  <2>2. waiting < epoch
    BY <1>0, <1>1, <1>4 DEF Modes
  <2>3. session' \in {"none", "draining"}
    BY <1>1, <1>4
  <2> QED BY <1>1, <1>4, <2>1, <2>2, <2>3, PassKeeps
<1>5. CASE session # "open" /\ ~conflict /\ flight.stage # "none"
  <2>1. /\ timer' = FALSE /\ status' = status /\ flight' = flight /\ savedGen' = savedGen
        /\ IF Stale THEN waiting' = epoch /\ requested' = requested
                    ELSE requested' = TRUE /\ waiting' = waiting
    BY <1>5 DEF DoSave
  <2>2. TypeOK'
    <3>1. waiting' \in Nat /\ waiting' <= epoch
      BY <1>1, <2>1
    <3>2. requested \in BOOLEAN
      BY <1>0 DEF TypeOK
    <3>3. timer' \in BOOLEAN /\ requested' \in BOOLEAN
      BY <2>1, <3>2, Zenon
    <3> QED BY <1>0, <1>1, <2>1, <3>1, <3>3 DEF TypeOK, Steady
  <2>3. Absences'
    BY <1>0, <2>1 DEF Absences, Absent, Steady
  <2>4. Generations'
    BY <1>0, <2>1 DEF Generations, Flying, Stale, Typed, Dirty, Steady
  <2>5. Modes'
    BY <1>0, <1>1, <1>5, <2>1 DEF Modes, Flying, Stale, Steady
  <2>6. UnsavedIsPending'
    BY <1>0, <1>5, <2>1 DEF UnsavedIsPending, Stale, Typed, Steady
  <2> QED BY <2>2, <2>3, <2>4, <2>5, <2>6 DEF Inv
<1> QED BY <1>2, <1>3, <1>4, <1>5

\* A save, asked for or drained for a generated change.
LEMMA SaveKeeps ==
  ASSUME Inv, Save \/ BeginGeneratedChange
  PROVE  Inv'
<1>1. DoSave /\ Steady
  <2>1. CASE Save
    <3>1. DoSave /\ UNCHANGED <<remote, path, epoch, left, text, base, rev, gen, loaded, fetch, typed>>
      BY <2>1 DEF Save
    <3>2. conflict' = conflict
      BY <3>1 DEF DoSave, saving
    <3> QED BY <3>1, <3>2 DEF Steady, remote
  <2>2. CASE BeginGeneratedChange
    <3>1. DoSave /\ UNCHANGED <<remote, path, epoch, left, text, base, rev, gen, loaded, fetch, typed>>
      BY <2>2 DEF BeginGeneratedChange
    <3>2. conflict' = conflict
      BY <3>1 DEF DoSave, saving
    <3> QED BY <3>1, <3>2 DEF Steady, remote
  <2> QED BY <2>1, <2>2
<1>2. session' = session \/ (session = "none" /\ session' = "draining")
  BY DEF Save, BeginGeneratedChange
<1> QED BY <1>1, <1>2, DoSaveKeeps

\* The user types or takes back: a save is scheduled, or the conflict shown.
LEMMA EditedKeeps ==
  ASSUME Inv, NEW t \in Texts, Edited(t), typed' \in Nat, typed' <= MaxEdits
  PROVE  Inv'
<1>0. TypeOK /\ Absences /\ Generations /\ Modes /\ UnsavedIsPending
  BY DEF Inv
<1>1. /\ session = "none" /\ text' = t /\ gen' = gen + 1
      /\ IF conflict THEN status' = "error" /\ timer' = FALSE
                     ELSE status' = "unsaved" /\ timer' = TRUE
      /\ UNCHANGED remote
      /\ UNCHANGED <<path, epoch, left, base, rev, savedGen, requested, waiting,
                     conflict, flight, loaded, fetch, session>>
  BY DEF Edited
<1>2. server' = server /\ cache' = cache
  BY <1>1 DEF remote
<1>3. gen \in Nat /\ savedGen \in Nat /\ savedGen <= gen /\ flight \in Flight /\ flight.gen \in Nat
  BY <1>0, FlightFields DEF TypeOK
<1>4. TypeOK'
  <2>1. timer' \in BOOLEAN /\ status' \in {"saved", "saving", "unsaved", "error"}
    BY <1>1
  <2>2. gen' \in Nat /\ savedGen <= gen'
    BY <1>1, <1>3
  <2> QED BY <1>0, <1>1, <1>2, <2>1, <2>2 DEF TypeOK, Texts
<1>5. Absences'
  BY <1>0, <1>1, <1>2 DEF Absences, Absent
<1>6. Modes'
  BY <1>0, <1>1 DEF Modes, Flying, Stale
<1>7. Generations'
  <2>1. Dirty'
    BY <1>1, <1>3 DEF Dirty
  <2>2. ASSUME Flying'
        PROVE  /\ savedGen' < flight'.gen /\ flight'.gen < gen' /\ timer'
               /\ flight'.stage \in {"ensure", "ensured"} => rev' = 0
    <3>1. Flying
      BY <1>1, <2>2 DEF Flying, Stale
    <3>2. ~conflict /\ savedGen < flight.gen /\ flight.gen <= gen
      BY <1>0, <3>1 DEF Modes, Generations
    <3> QED BY <1>0, <1>1, <1>3, <3>1, <3>2 DEF Generations
  <2>3. gen' \in Nat /\ flight'.gen \in Nat
    BY <1>1, <1>3
  <2>4. Flying' => /\ savedGen' < flight'.gen /\ flight'.gen <= gen' /\ flight'.gen # gen'
                   /\ timer' /\ (flight'.stage \in {"ensure", "ensured"} => rev' = 0)
    BY <2>2, <2>3
  <2> QED BY <2>1, <2>4 DEF Generations
<1>8. UnsavedIsPending'
  BY <1>1 DEF UnsavedIsPending
<1> QED BY <1>4, <1>5, <1>6, <1>7, <1>8 DEF Inv

\* Typing and undoing.
LEMMA TypeKeeps ==
  ASSUME Inv, Type \/ Undo
  PROVE  Inv'
<1>1. typed \in Nat /\ typed <= MaxEdits /\ text \in Texts /\ MaxEdits \in Nat
  BY PageEditorAssumption DEF Inv, TypeOK, Texts
<1>2. CASE Type
  <2>1. typed' = typed + 1 /\ typed < MaxEdits /\ Edited(text \cup {typed + 1})
    BY <1>2 DEF Type
  <2>2. text \cup {typed + 1} \in Texts /\ typed' \in Nat /\ typed' <= MaxEdits
    BY <1>1, <2>1 DEF Texts, Edit
  <2> QED BY <2>1, <2>2, EditedKeeps
<1>3. CASE Undo
  <2>1. typed' = typed /\ Edited(text \ Typed)
    BY <1>3 DEF Undo
  <2>2. text \ Typed \in Texts
    BY <1>1 DEF Texts
  <2> QED BY <1>1, <2>1, <2>2, EditedKeeps
<1> QED BY <1>2, <1>3

\* What the server may reply to the request of flight f, and do about it.
LEMMA ReplyIs ==
  ASSUME NEW f \in Flight, NEW at \in Content, at = server[f.path], NEW r \in Replies(f)
  PROVE  /\ r.flight \in Flight /\ r.flight.epoch = f.epoch /\ r.flight.path = f.path
         /\ r.flight.text = f.text /\ r.flight.gen = f.gen
         /\ f.stage = "ensure" => r.flight.stage \in {"ensured", "failed"}
         /\ f.stage = "put" => r.flight.stage \in {"ok", "refused", "failed"}
         /\ f.stage \in {"ensure", "put"}
         /\ r.page \in Content /\ r.fault \in {0, 1}
         /\ r.flight.stage \in {"ensured", "ok"} => r.flight.rev # 0 /\ r.flight.rev = r.page.rev
         /\ r.flight.stage = "ensured" => r.flight.found = at.text /\ r.page.text = at.text
         /\ r.flight.stage = "ensured" => (r.flight.made => at.rev = 0)
         /\ r.flight.stage # "ensured" => r.flight.found = f.found
         /\ r.flight.stage = "ok" => r.page.text = f.text
         /\ \/ r.page = at
            \/ f.stage = "ensure" /\ at.rev = 0 /\ r.page.rev = 1 /\ r.page.text = at.text
            \/ f.stage = "put" /\ at.rev # 0 /\ f.rev = at.rev /\ r.page.rev = at.rev + 1
               /\ r.page.text = f.text
<1>0. /\ f.stage \in Stages /\ f.epoch \in Nat /\ f.path \in Page /\ f.rev \in Nat
      /\ f.text \in Texts /\ f.gen \in Nat /\ f.made \in BOOLEAN /\ f.found \in Texts
  BY FlightFields
<1>1. at.rev \in Nat /\ at.text \in Texts
  BY DEF Content, Texts
<1>2. {"ensured", "failed", "ok", "refused"} \subseteq Stages
  BY DEF Stages
<1>3. \A v \in Nat, t \in Texts : [rev |-> v, text |-> t] \in Content
  BY DEF Content, Texts
<1>4. CASE f.stage = "ensure"
  <2>1. r \in EnsureReplies(f)
    BY <1>4 DEF Replies
  <2> DEFINE made == [at EXCEPT !.rev = IF @ = 0 THEN 1 ELSE @]
  <2>2. made \in Content /\ made.rev = (IF at.rev = 0 THEN 1 ELSE at.rev) /\ made.text = at.text
        /\ made.rev # 0 /\ made.rev \in Nat /\ (at.rev # 0 => made = at)
    BY <1>1 DEF Content
  <2>3. \/ r = [page |-> made, fault |-> 0,
                flight |-> [f EXCEPT !.stage = "ensured", !.rev = made.rev,
                                     !.made = at.rev = 0, !.found = at.text]]
        \/ r = [page |-> at, fault |-> 1, flight |-> [f EXCEPT !.stage = "failed"]]
    BY <2>1 DEF EnsureReplies
  <2> HIDE DEF made
  <2>4. CASE r = [page |-> at, fault |-> 1, flight |-> [f EXCEPT !.stage = "failed"]]
    <3>1. r.page = at /\ r.fault = 1 /\ r.flight = [f EXCEPT !.stage = "failed"]
      BY <2>4
    <3> QED BY <1>2, <1>4, <3>1, FlightMoves
  <2>5. CASE r = [page |-> made, fault |-> 0,
                  flight |-> [f EXCEPT !.stage = "ensured", !.rev = made.rev,
                                       !.made = at.rev = 0, !.found = at.text]]
    <3>1. PICK v \in Nat, m \in BOOLEAN, d \in Texts : v = made.rev /\ m = (at.rev = 0) /\ d = at.text
      BY <1>1, <2>2
    <3>2. r.page = made /\ r.fault = 0
          /\ r.flight = [f EXCEPT !.stage = "ensured", !.rev = v, !.made = m, !.found = d]
      BY <2>5, <3>1
    <3>3. LET g == [f EXCEPT !.stage = "ensured", !.rev = v, !.made = m, !.found = d]
          IN  /\ g \in Flight /\ g.stage = "ensured" /\ g.epoch = f.epoch /\ g.path = f.path
              /\ g.rev = v /\ g.text = f.text /\ g.gen = f.gen /\ g.found = d /\ g.made = m
      BY DEF Flight, Stages, Texts
    <3>4. /\ r.flight \in Flight /\ r.flight.stage = "ensured" /\ r.flight.epoch = f.epoch
          /\ r.flight.path = f.path /\ r.flight.rev = v /\ r.flight.text = f.text
          /\ r.flight.gen = f.gen /\ r.flight.found = d /\ r.flight.made = m
      BY <3>2, <3>3, Zenon
    <3>5. r.flight.made => at.rev = 0
      BY <3>1, <3>4
    <3> QED BY <1>1, <1>4, <2>2, <3>1, <3>2, <3>4, <3>5
  <2> QED BY <2>3, <2>4, <2>5
<1>5. CASE f.stage = "put"
  <2>1. r \in PutReplies(f)
    BY <1>5 DEF Replies
  <2> DEFINE accepted == f.rev = at.rev /\ at.rev > 0
             put == IF accepted THEN [rev |-> at.rev + 1, text |-> f.text] ELSE at
  <2>2. put \in Content /\ (accepted => put.rev = at.rev + 1 /\ put.text = f.text)
        /\ (~accepted => put = at)
    <3>1. PICK v \in Nat, t \in Texts : v = at.rev + 1 /\ t = f.text
      BY <1>0, <1>1
    <3>2. [rev |-> v, text |-> t] \in Content
          /\ [rev |-> v, text |-> t].rev = v /\ [rev |-> v, text |-> t].text = t
      BY <1>3
    <3>3. accepted => put = [rev |-> v, text |-> t]
      BY <3>1
    <3>4. ~accepted => put = at
      OBVIOUS
    <3> HIDE DEF accepted, put
    <3> QED BY <3>1, <3>2, <3>3, <3>4
  <2>3. \/ r = [page |-> put, fault |-> 0,
                flight |-> IF accepted THEN [f EXCEPT !.stage = "ok", !.rev = put.rev]
                                       ELSE [f EXCEPT !.stage = "refused"]]
        \/ \E p \in {at, put} : r = [page |-> p, fault |-> 1, flight |-> [f EXCEPT !.stage = "failed"]]
    BY <2>1 DEF PutReplies
  <2>4. accepted => f.rev = at.rev /\ at.rev # 0
    BY <1>1
  <2> HIDE DEF accepted, put
  <2>5. CASE \E p \in {at, put} : r = [page |-> p, fault |-> 1, flight |-> [f EXCEPT !.stage = "failed"]]
    <3>1. PICK p \in {at, put} : r = [page |-> p, fault |-> 1, flight |-> [f EXCEPT !.stage = "failed"]]
      BY <2>5
    <3>2. r.page = p /\ r.fault = 1 /\ r.flight = [f EXCEPT !.stage = "failed"]
      BY <3>1
    <3>3. /\ r.flight \in Flight /\ r.flight.stage = "failed" /\ r.flight.epoch = f.epoch
          /\ r.flight.path = f.path /\ r.flight.text = f.text
          /\ r.flight.gen = f.gen /\ r.flight.found = f.found
      BY <1>2, <3>2, FlightMoves
    <3> QED BY <1>5, <2>2, <2>4, <3>2, <3>3
  <2>6. CASE /\ accepted
             /\ r = [page |-> put, fault |-> 0, flight |-> [f EXCEPT !.stage = "ok", !.rev = put.rev]]
    <3>1. PICK v \in Nat : v = put.rev /\ v = at.rev + 1
      BY <1>1, <2>2, <2>6
    <3>2. r.page = put /\ r.fault = 0 /\ r.flight = [f EXCEPT !.stage = "ok", !.rev = v]
      BY <2>6, <3>1
    <3>3. LET g == [f EXCEPT !.stage = "ok", !.rev = v]
          IN  /\ g \in Flight /\ g.stage = "ok" /\ g.epoch = f.epoch /\ g.path = f.path
              /\ g.rev = v /\ g.text = f.text /\ g.gen = f.gen /\ g.found = f.found
      BY DEF Flight, Stages
    <3>4. /\ r.flight \in Flight /\ r.flight.stage = "ok" /\ r.flight.epoch = f.epoch
          /\ r.flight.path = f.path /\ r.flight.rev = v /\ r.flight.text = f.text
          /\ r.flight.gen = f.gen /\ r.flight.found = f.found
      BY <3>2, <3>3, Zenon
    <3>5. r.page \in Content /\ r.page.rev = v /\ r.page.text = f.text /\ v # 0 /\ r.fault \in {0, 1}
      <4>1. accepted /\ r.page = put /\ r.fault = 0
        BY <2>6, <3>2, Zenon
      <4>2. put \in Content /\ put.text = f.text
        BY <2>2, <4>1, Zenon
      <4>3. put.rev = v
        BY <3>1
      <4>4. v # 0
        BY <1>1, <3>1
      <4> QED BY <4>1, <4>2, <4>3, <4>4
    <3>6. f.rev = at.rev /\ at.rev # 0 /\ r.page.rev = at.rev + 1
      <4>1. accepted
        BY <2>6, Zenon
      <4> QED BY <2>4, <3>1, <3>5, <4>1
    <3> QED BY <1>5, <3>4, <3>5, <3>6
  <2>7. CASE /\ ~accepted
             /\ r = [page |-> put, fault |-> 0, flight |-> [f EXCEPT !.stage = "refused"]]
    <3>1. r.page = at /\ r.fault = 0 /\ r.flight = [f EXCEPT !.stage = "refused"]
      BY <2>2, <2>7
    <3> QED BY <1>2, <1>5, <3>1, FlightMoves
  <2> QED BY <2>3, <2>5, <2>6, <2>7
<1>6. f.stage \in {"ensure", "put"}
  BY DEF Replies
<1> QED BY <1>4, <1>5, <1>6

Pages == [stage : {"none", "sent", "answered"}, page : Content, reload : BOOLEAN]

\* A step beside the editor: only pages, queries and left flights change.
LEMMA AsideKeeps ==
  ASSUME Inv, UNCHANGED <<path, epoch, text, base, rev, gen, savedGen, timer, requested, waiting,
                          conflict, status, flight, session, loaded, typed>>,
         fetch'.reload = fetch.reload, fetch' \in Pages,
         server' \in [Page -> Content], cache' \in [Page -> Content],
         left' \in SUBSET [flight : Flight, last : SUBSET (Edit \cup Foreign)],
         \A p \in Page : /\ server'[p].rev = 0 => server'[p].text = {}
                         /\ cache'[p].rev = 0 => cache'[p].text = {},
         fetch'.page.rev = 0 => fetch'.page.text = {}
  PROVE  Inv'
<1>0. TypeOK /\ Absences /\ Generations /\ Modes /\ UnsavedIsPending
  BY DEF Inv
<1>1. TypeOK'
  BY <1>0 DEF TypeOK, Pages
<1>2. Absences'
  BY <1>0 DEF Absences, Absent
<1>3. Generations'
  BY <1>0 DEF Generations, Flying, Stale, Typed, Dirty
<1>4. Modes' /\ UnsavedIsPending'
  BY <1>0 DEF Modes, UnsavedIsPending, Flying, Stale, Typed
<1> QED BY <1>1, <1>2, <1>3, <1>4 DEF Inv

\* A server that acts on a request leaves pages that are pages.
LEMMA ServedPages ==
  ASSUME Inv, NEW f \in Flight, NEW r \in Replies(f), Served(f, r)
  PROVE  /\ server' \in [Page -> Content] /\ server'[f.path] = r.page
         /\ \A p \in Page : p # f.path => server'[p] = server[p]
         /\ \A p \in Page : server'[p].rev = 0 => server'[p].text = {}
         /\ cache' = cache /\ UNCHANGED <<path, epoch, text, base, rev, gen, savedGen, timer,
              requested, waiting, conflict, status, loaded, fetch, session, typed>>
         /\ server[f.path] \in Content
<1>0. TypeOK /\ Absences
  BY DEF Inv
<1>1. f.path \in Page /\ server[f.path] \in Content
  BY <1>0, FlightFields DEF TypeOK
<1>2. server' = [server EXCEPT ![f.path] = r.page]
      /\ UNCHANGED <<cache, path, epoch, buffer, timer, requested, waiting, conflict,
                     status, loaded, fetch, session, typed>>
  BY DEF Served
<1>3. PICK at \in Content : at = server[f.path]
  BY <1>1
<1>4. r.page \in Content
      /\ \/ r.page = at
         \/ f.stage = "ensure" /\ at.rev = 0 /\ r.page.rev = 1 /\ r.page.text = at.text
         \/ f.stage = "put" /\ at.rev # 0 /\ f.rev = at.rev /\ r.page.rev = at.rev + 1
            /\ r.page.text = f.text
  BY <1>3, ReplyIs
<1>5. at.rev \in Nat /\ (r.page.rev = 0 => r.page.text = {})
  <2>1. at.rev \in Nat
    BY DEF Content
  <2>2. at.rev = 0 => at.text = {}
    BY <1>0, <1>1, <1>3 DEF Absences, Absent
  <2> QED BY <1>4, <2>1, <2>2
<1>6. server' \in [Page -> Content] /\ server'[f.path] = r.page
      /\ \A p \in Page : p # f.path => server'[p] = server[p]
  BY <1>0, <1>1, <1>2, <1>4 DEF TypeOK
<1>7. \A p \in Page : server[p].rev = 0 => server[p].text = {}
  BY <1>0 DEF Absences, Absent
<1>8. \A p \in Page : server'[p].rev = 0 => server'[p].text = {}
  BY <1>5, <1>6, <1>7
<1> QED BY <1>1, <1>2, <1>6, <1>8 DEF buffer

\* The reply to the editor's request.
LEMMA RepliesKeeps ==
  ASSUME Inv, ServerReplies
  PROVE  Inv'
<1>0. TypeOK /\ Absences /\ Generations /\ Modes /\ UnsavedIsPending
  BY DEF Inv
<1>1. PICK r \in Replies(flight) : Served(flight, r) /\ flight' = r.flight /\ left' = left
  BY DEF ServerReplies
<1>2. flight \in Flight
  BY <1>0 DEF TypeOK
<1>3. /\ server' \in [Page -> Content]
      /\ \A p \in Page : server'[p].rev = 0 => server'[p].text = {}
      /\ cache' = cache /\ UNCHANGED <<path, epoch, text, base, rev, gen, savedGen, timer,
           requested, waiting, conflict, status, loaded, fetch, session, typed>>
      /\ server[flight.path] \in Content
  BY <1>1, <1>2, ServedPages
<1>4. /\ flight' \in Flight /\ flight'.epoch = flight.epoch /\ flight'.path = flight.path
      /\ flight'.text = flight.text /\ flight'.gen = flight.gen
      /\ flight'.stage \in {"ensured", "ok", "refused", "failed"}
      /\ flight'.stage \in {"ensured", "ok"} => flight'.rev # 0
      /\ flight'.stage = "ensured" => flight.stage = "ensure"
      /\ flight.stage \in {"ensure", "put"}
  BY <1>1, <1>2, <1>3, ReplyIs
<1>5. TypeOK'
  BY <1>0, <1>1, <1>3, <1>4 DEF TypeOK
<1>6. Absences'
  BY <1>0, <1>3, <1>4 DEF Absences, Absent
<1>7. Generations'
  BY <1>0, <1>3, <1>4 DEF Generations, Flying, Stale, Typed, Dirty
<1>8. Modes'
  BY <1>0, <1>3, <1>4 DEF Modes, Flying, Stale
<1>9. UnsavedIsPending'
  BY <1>0, <1>3, <1>4 DEF UnsavedIsPending, Stale, Typed
<1> QED BY <1>5, <1>6, <1>7, <1>8, <1>9 DEF Inv

\* The flight of a page left lands, and a save that waited for it takes off.
LEMMA LandKeeps ==
  ASSUME Inv, Stale, NEW failed, Land(failed), Steady, session' = session
  PROVE  Inv'
<1>0. TypeOK /\ Absences /\ Generations /\ Modes /\ UnsavedIsPending
  BY DEF Inv
<1>1. epoch \in Nat \ {0} /\ session \in {"none", "draining", "open"}
  BY <1>0 DEF TypeOK
<1>2. waiting' = 0 /\ requested' = FALSE
  BY DEF Land
<1>3. CASE waiting = epoch /\ ~conflict
  <2>1. StartPass /\ timer' = FALSE
    BY <1>3 DEF Land
  <2>2. session \in {"none", "draining"}
    BY <1>0, <1>1, <1>3 DEF Modes
  <2>3. waiting' \in Nat /\ waiting' < epoch
    BY <1>1, <1>2
  <2> QED BY <1>2, <1>3, <2>1, <2>2, <2>3, PassKeeps
<1>4. CASE ~(waiting = epoch /\ ~conflict)
  <2>1. flight' = Grounded /\ status' = status /\ savedGen' = savedGen /\ timer' = timer
    BY <1>4 DEF Land
  <2>2. flight' \in Flight /\ flight'.stage = "none" /\ flight'.epoch = 0 /\ flight'.text = {}
    BY <1>0, <2>1, GroundedIs
  <2>3. TypeOK'
    <3>1. waiting' \in Nat /\ waiting' <= epoch
      BY <1>1, <1>2
    <3>2. requested' \in BOOLEAN
      BY <1>2, Zenon
    <3> QED BY <1>0, <1>1, <2>1, <2>2, <3>1, <3>2 DEF TypeOK, Steady
  <2>4. Absences'
    BY <1>0, <2>2 DEF Absences, Absent, Steady
  <2>5. Generations'
    BY <1>0, <2>1, <2>2 DEF Generations, Flying, Typed, Dirty, Steady
  <2>6. Modes'
    BY <1>0, <1>1, <1>2, <2>1, <2>2 DEF Modes, Flying, Stale, Steady
  <2>7. UnsavedIsPending'
    BY <1>0, <1>4, <2>1 DEF UnsavedIsPending, Modes, Typed, Steady
  <2> QED BY <2>3, <2>4, <2>5, <2>6, <2>7 DEF Inv
<1> QED BY <1>3, <1>4

\* A save that ends with an error the user sees.
LEMMA FailKeeps ==
  ASSUME Inv, Flying, status' = "error", flight' = Grounded, requested' = FALSE,
         savedGen' = savedGen, waiting' = waiting, timer' \in BOOLEAN, timer' => timer, conflict' \in BOOLEAN,
         session' = session, text' = text, base' = base, rev' = rev, gen' = gen,
         epoch' = epoch, path' = path, fetch' = fetch, server' = server, cache' = cache,
         loaded' = loaded, left' = left, typed' = typed
  PROVE  Inv'
<1>0. TypeOK /\ Absences /\ Generations /\ Modes
  BY DEF Inv
<1>1. flight' \in Flight /\ flight'.stage = "none" /\ flight'.epoch = 0
  BY <1>0, GroundedIs
<1>2. epoch \in Nat \ {0}
  BY <1>0 DEF TypeOK
<1>3. ~conflict /\ session # "open" /\ waiting # epoch /\ ~fetch.reload
  BY <1>0 DEF Modes, Flying
<1>4. TypeOK'
  BY <1>0, <1>1, <1>2 DEF TypeOK
<1>5. Absences' /\ Generations'
  BY <1>0, <1>1 DEF Absences, Absent, Generations, Flying, Typed, Dirty
<1>6. Modes'
  BY <1>0, <1>1, <1>2, <1>3 DEF Modes, Flying, Stale
<1>7. UnsavedIsPending'
  BY DEF UnsavedIsPending
<1> QED BY <1>4, <1>5, <1>6, <1>7 DEF Inv

\* The answer to an ensure.
LEMMA EnsureKeeps ==
  ASSUME Inv, EnsureAnswer
  PROVE  Inv'
<1>0. TypeOK /\ Absences /\ Generations /\ Modes /\ UnsavedIsPending
  BY DEF Inv
<1> DEFINE taken == ~flight.made /\ flight.found # {}
<1>1. /\ flight.stage = "ensured" /\ UNCHANGED remote
      /\ UNCHANGED <<path, epoch, left, text, gen, loaded, fetch, session, typed>>
  BY DEF EnsureAnswer
<1>2. server' = server /\ cache' = cache
  BY <1>1 DEF remote
<1>3. flight \in Flight /\ flight.rev \in Nat /\ flight.found \in SUBSET (Edit \cup Foreign)
  BY <1>0, FlightFields DEF TypeOK, Texts
<1>4. CASE taken /\ Stale /\ Land(Edit \cap flight.text) /\ UNCHANGED <<base, rev, conflict>>
  <2>1. Steady
    BY <1>1, <1>2, <1>4 DEF Steady
  <2> QED BY <1>1, <1>4, <2>1, LandKeeps
<1>5. CASE /\ taken /\ ~Stale /\ conflict' = TRUE /\ status' = "error" /\ flight' = Grounded
           /\ requested' = FALSE /\ timer' = FALSE /\ UNCHANGED <<base, rev, savedGen, waiting>>
  <2>1. Flying
    BY <1>1, <1>5 DEF Flying
  <2>2. timer \in BOOLEAN
    BY <1>0 DEF TypeOK
  <2>3. timer' \in BOOLEAN /\ (timer' => timer) /\ conflict' \in BOOLEAN
    BY <1>5, <2>2, Zenon
  <2> QED BY <1>1, <1>2, <1>5, <2>1, <2>3, FailKeeps
<1>6. CASE /\ ~taken /\ flight' = [flight EXCEPT !.stage = "put"]
           /\ IF Stale THEN UNCHANGED <<base, rev>>
                       ELSE base' = flight.found /\ rev' = flight.rev
           /\ UNCHANGED <<savedGen, timer, requested, waiting, conflict, status>>
  <2>1. /\ flight' \in Flight /\ flight'.stage = "put" /\ flight'.epoch = flight.epoch
        /\ flight'.text = flight.text /\ flight'.gen = flight.gen
    BY <1>3, <1>6, FlightMoves DEF Stages
  <2>2. ~Stale => Flying /\ rev = 0 /\ base = {} /\ flight.rev # 0
    BY <1>0, <1>1 DEF Flying, Generations, Absences
  <2>3. Typed' \subseteq Typed
    BY <1>1, <1>6, <2>2 DEF Typed
  <2>4. TypeOK'
    <3>1. base' \in SUBSET (Edit \cup Foreign) /\ rev' \in Nat
      BY <1>0, <1>3, <1>6 DEF TypeOK
    <3>2. savedGen' = savedGen /\ timer' = timer /\ requested' = requested /\ waiting' = waiting
          /\ conflict' = conflict /\ status' = status
      BY <1>6
    <3> QED BY <1>0, <1>1, <1>2, <2>1, <3>1, <3>2 DEF TypeOK
  <2>5. Absences'
    <3>1. rev' = 0 => base' = {}
      BY <1>0, <1>6, <2>2 DEF Absences
    <3> QED BY <1>0, <1>1, <1>2, <2>1, <3>1 DEF Absences, Absent
  <2>6. Generations'
    <3>1. Typed' # {} => Dirty'
      BY <1>0, <1>1, <1>6, <2>3 DEF Generations, Dirty
    <3> QED BY <1>0, <1>1, <1>6, <2>1, <3>1 DEF Generations, Flying, Stale
  <2>7. Modes'
    BY <1>0, <1>1, <1>6, <2>1 DEF Modes, Flying, Stale
  <2>8. UnsavedIsPending'
    <3>1. savedGen' = savedGen /\ timer' = timer /\ requested' = requested /\ waiting' = waiting
          /\ conflict' = conflict /\ status' = status
      BY <1>6
    <3> QED BY <1>0, <1>1, <2>1, <2>3, <3>1 DEF UnsavedIsPending, Stale
  <2> QED BY <2>4, <2>5, <2>6, <2>7, <2>8 DEF Inv
<1> QED BY <1>4, <1>5, <1>6 DEF EnsureAnswer

\* The catch of savePass.
LEMMA FailsKeeps ==
  ASSUME Inv, SaveFails
  PROVE  Inv'
<1>1. /\ flight.stage \in {"refused", "failed"} /\ UNCHANGED remote
      /\ UNCHANGED <<path, epoch, left, text, base, rev, gen, loaded, fetch, session, typed>>
  BY DEF SaveFails
<1>2. server' = server /\ cache' = cache
  BY <1>1 DEF remote
<1>3. CASE Stale
  <2>1. Land(Edit \cap flight.text) /\ conflict' = conflict
    BY <1>3 DEF SaveFails
  <2>2. Steady
    BY <1>1, <1>2, <2>1 DEF Steady
  <2> QED BY <1>1, <1>3, <2>1, <2>2, LandKeeps
<1>4. CASE ~Stale
  <2>1. /\ timer' = FALSE /\ requested' = FALSE /\ status' = "error"
        /\ conflict' = (flight.stage = "refused")
        /\ flight' = Grounded /\ savedGen' = savedGen /\ waiting' = waiting
    BY <1>4 DEF SaveFails
  <2>2. Flying /\ conflict' \in BOOLEAN
    BY <1>1, <1>4, <2>1 DEF Flying
  <2>3. timer' \in BOOLEAN /\ (timer' => timer)
    BY <2>1, Zenon
  <2> QED BY <1>1, <1>2, <2>1, <2>2, <2>3, FailKeeps
<1> QED BY <1>3, <1>4

\* The answer to a put: the generation that was sent is saved.
LEMMA PutKeeps ==
  ASSUME Inv, PutAnswer
  PROVE  Inv'
<1>0. TypeOK /\ Absences /\ Generations /\ Modes /\ UnsavedIsPending
  BY DEF Inv
<1>1. /\ flight.stage = "ok" /\ UNCHANGED remote
      /\ UNCHANGED <<path, epoch, left, text, gen, conflict, loaded, session, typed>>
  BY DEF PutAnswer
<1>2. server' = server /\ cache' = cache
  BY <1>1 DEF remote
<1>3. CASE Stale
  <2>1. Land({}) /\ base' = base /\ rev' = rev /\ fetch' = fetch
    BY <1>3 DEF PutAnswer
  <2>2. Steady
    BY <1>1, <1>2, <2>1 DEF Steady
  <2> QED BY <1>1, <1>3, <2>1, <2>2, LandKeeps
<1>4. CASE ~Stale
  <2> DEFINE more == requested /\ gen > flight.gen /\ text # flight.text
  <2>1. /\ rev' = flight.rev /\ base' = flight.text
        /\ savedGen' = IF requested /\ ~more THEN gen ELSE flight.gen
        /\ status' = IF more THEN "saving"
                     ELSE IF requested \/ gen = flight.gen THEN "saved"
                     ELSE "unsaved"
        /\ flight' = IF more
                     THEN [flight EXCEPT !.stage = "put", !.text = text, !.gen = gen]
                     ELSE Grounded
        /\ requested' = FALSE
        /\ fetch' = [fetch EXCEPT !.stage = "sent"]
        /\ waiting' = waiting /\ timer' = timer
    BY <1>4, Zenon DEF PutAnswer
  <2>2. /\ Flying /\ savedGen < flight.gen /\ flight.gen <= gen
        /\ (flight.gen = gen => text = flight.text) /\ (text # flight.text => timer \/ requested)
    BY <1>0, <1>1, <1>4 DEF Flying, Generations
  <2>3. ~conflict /\ session # "open" /\ waiting # epoch /\ flight.rev # 0
    BY <1>0, <1>1, <2>2 DEF Modes, Flying, Absences
  <2>4. /\ flight \in Flight /\ flight.gen \in Nat /\ flight.rev \in Nat /\ gen \in Nat
        /\ flight.text \in Texts /\ text \in Texts /\ requested \in BOOLEAN /\ savedGen \in Nat
    BY <1>0, FlightFields DEF TypeOK, Texts
  <2>5. fetch' \in Pages /\ fetch'.page = fetch.page /\ fetch'.reload = fetch.reload
    BY <1>0, <2>1 DEF TypeOK, Pages
  <2>6. CASE more
    <3>1. /\ flight' \in Flight /\ flight'.stage = "put" /\ flight'.text = text
          /\ flight'.gen = gen /\ flight'.epoch = flight.epoch
      <4>1. LET f == [flight EXCEPT !.stage = "put", !.text = text, !.gen = gen]
            IN  /\ f \in Flight /\ f.stage = "put" /\ f.text = text /\ f.gen = gen
                /\ f.epoch = flight.epoch
        BY <2>4 DEF Flight, Stages, Texts
      <4> QED BY <2>1, <2>6, <4>1, Zenon
    <3>2. /\ rev' = flight.rev /\ base' = flight.text /\ savedGen' = flight.gen
          /\ status' = "saving" /\ requested' = FALSE /\ waiting' = waiting /\ timer' = timer
      BY <2>1, <2>6, Zenon
    <3>3. flight.gen < gen
      BY <2>6
    <3>4. TypeOK'
      <4>1. /\ rev' \in Nat /\ base' \in SUBSET (Edit \cup Foreign) /\ savedGen' \in Nat
            /\ savedGen' <= gen /\ status' = "saving"
        BY <2>4, <3>2, <3>3 DEF Texts
      <4>2. waiting' = waiting /\ timer' = timer /\ requested' \in BOOLEAN
        BY <3>2, Zenon
      <4> QED BY <1>0, <1>1, <1>2, <2>5, <3>1, <4>1, <4>2 DEF TypeOK, Pages
    <3>5. Absences'
      BY <1>0, <1>2, <2>3, <2>5, <3>1, <3>2 DEF Absences, Absent
    <3>6. Generations'
      <4>1. Dirty'
        BY <1>1, <3>2, <3>3 DEF Dirty
      <4> QED BY <1>1, <2>4, <3>1, <3>2, <3>3, <4>1 DEF Generations
    <3>7. Modes'
      BY <1>0, <1>1, <2>2, <2>3, <2>5, <3>1, <3>2 DEF Modes, Flying, Stale
    <3>8. UnsavedIsPending'
      BY <1>1, <1>4, <3>1, <3>2 DEF UnsavedIsPending, Stale, Typed
    <3> QED BY <3>4, <3>5, <3>6, <3>7, <3>8 DEF Inv
  <2>7. CASE ~more
    <3>1. flight' \in Flight /\ flight'.stage = "none" /\ flight'.epoch = 0
      BY <1>0, <2>1, <2>7, GroundedIs
    <3>2. /\ rev' = flight.rev /\ base' = flight.text
          /\ savedGen' = IF requested THEN gen ELSE flight.gen
          /\ status' = IF requested \/ gen = flight.gen THEN "saved" ELSE "unsaved"
          /\ requested' = FALSE /\ waiting' = waiting /\ timer' = timer
      BY <2>1, <2>7, Zenon
    <3>3. requested \/ gen = flight.gen => text = flight.text
      BY <2>2, <2>4, <2>7
    <3>4. Typed' # {} => timer /\ status' = "unsaved" /\ savedGen' = flight.gen /\ gen # flight.gen
      BY <1>1, <2>2, <3>2, <3>3 DEF Typed
    <3>5. savedGen' \in Nat /\ savedGen' <= gen /\ status' \in {"saved", "unsaved"}
      BY <2>2, <2>4, <3>2
    <3>6. TypeOK'
      BY <1>0, <1>1, <1>2, <2>4, <2>5, <3>1, <3>2, <3>5 DEF TypeOK, Texts, Pages
    <3>7. Absences'
      BY <1>0, <1>2, <2>3, <2>5, <3>1, <3>2 DEF Absences, Absent
    <3>8. Generations'
      <4>1. Typed' # {} => Dirty'
        BY <1>1, <2>2, <2>4, <3>4 DEF Dirty
      <4> QED BY <3>1, <4>1 DEF Generations, Flying
    <3>9. Modes'
      BY <1>0, <1>1, <2>3, <2>5, <3>1, <3>2 DEF Modes, Flying, Stale, TypeOK
    <3>10. UnsavedIsPending'
      BY <3>2, <3>4 DEF UnsavedIsPending
    <3> QED BY <3>6, <3>7, <3>8, <3>9, <3>10 DEF Inv
  <2> QED BY <2>6, <2>7
<1> QED BY <1>3, <1>4

\* Nothing happens.
LEMMA StutterKeeps ==
  ASSUME Inv, UNCHANGED vars
  PROVE  Inv'
<1>1. UNCHANGED <<path, epoch, text, base, rev, gen, savedGen, timer, requested, waiting,
                  conflict, status, flight, session, loaded, typed, fetch, server, cache, left>>
  BY DEF vars, remote, buffer, saving
<1>2. /\ fetch \in Pages /\ server \in [Page -> Content] /\ cache \in [Page -> Content]
      /\ left \in SUBSET [flight : Flight, last : SUBSET (Edit \cup Foreign)]
  BY DEF Inv, TypeOK, Pages
<1>3. /\ \A p \in Page : /\ server[p].rev = 0 => server[p].text = {}
                         /\ cache[p].rev = 0 => cache[p].text = {}
      /\ fetch.page.rev = 0 => fetch.page.text = {}
  BY DEF Inv, Absences, Absent
<1> QED BY <1>1, <1>2, <1>3, AsideKeeps

\* The page query is asked, and answered by the server.
LEMMA QueryKeeps ==
  ASSUME Inv, Refetch \/ ServerGet
  PROVE  Inv'
<1>1. UNCHANGED <<path, epoch, text, base, rev, gen, savedGen, timer, requested, waiting,
                  conflict, status, flight, session, loaded, typed, server, cache, left>>
  BY DEF Refetch, ServerGet, remote, buffer, saving
<1>2. /\ fetch \in Pages /\ server \in [Page -> Content] /\ cache \in [Page -> Content]
      /\ left \in SUBSET [flight : Flight, last : SUBSET (Edit \cup Foreign)] /\ path \in Page
  BY DEF Inv, TypeOK, Pages
<1>3. /\ \A p \in Page : /\ server[p].rev = 0 => server[p].text = {}
                         /\ cache[p].rev = 0 => cache[p].text = {}
      /\ fetch.page.rev = 0 => fetch.page.text = {}
  BY DEF Inv, Absences, Absent
<1>4. fetch' \in Pages /\ fetch'.reload = fetch.reload /\ (fetch'.page = fetch.page \/ fetch'.page = server[path])
  <2>1. CASE Refetch
    <3>1. fetch' = [fetch EXCEPT !.stage = "sent"]
      BY <2>1 DEF Refetch
    <3> QED BY <1>2, <3>1 DEF Pages
  <2>2. CASE ServerGet
    <3>1. fetch' = [fetch EXCEPT !.stage = "answered", !.page = server[path]]
      BY <2>2 DEF ServerGet
    <3>2. PICK p \in Content : p = server[path]
      BY <1>2
    <3>3. LET g == [fetch EXCEPT !.stage = "answered", !.page = p]
          IN  g \in Pages /\ g.reload = fetch.reload /\ g.page = p
      BY <1>2 DEF Pages
    <3> QED BY <3>1, <3>2, <3>3, Zenon
  <2> QED BY <2>1, <2>2
<1>5. fetch'.page.rev = 0 => fetch'.page.text = {}
  BY <1>2, <1>3, <1>4
<1> QED BY <1>1, <1>2, <1>3, <1>4, <1>5, AsideKeeps

\* Somebody else writes a page.
LEMMA ForeignKeeps ==
  ASSUME Inv, NEW q \in Page, NEW x \in Foreign, ForeignWrite(q, x)
  PROVE  Inv'
<1>1. UNCHANGED <<path, epoch, text, base, rev, gen, savedGen, timer, requested, waiting,
                  conflict, status, flight, session, loaded, typed, fetch, cache, left>>
  BY DEF ForeignWrite, buffer, saving
<1>2. /\ fetch \in Pages /\ server \in [Page -> Content] /\ cache \in [Page -> Content]
      /\ left \in SUBSET [flight : Flight, last : SUBSET (Edit \cup Foreign)]
  BY DEF Inv, TypeOK, Pages
<1>3. /\ \A p \in Page : /\ server[p].rev = 0 => server[p].text = {}
                         /\ cache[p].rev = 0 => cache[p].text = {}
      /\ fetch.page.rev = 0 => fetch.page.text = {}
  BY DEF Inv, Absences, Absent
<1>4. PICK v \in Nat, t \in SUBSET (Edit \cup Foreign) :
        v = server[q].rev + 1 /\ t = server[q].text \cup {x} /\ v # 0
  <2>1. PICK at \in Content : at = server[q]
    BY <1>2
  <2>2. at.rev + 1 \in Nat /\ at.rev + 1 # 0
    BY DEF Content
  <2>3. at.text \cup {x} \in SUBSET (Edit \cup Foreign)
    BY DEF Content
  <2> QED BY <2>1, <2>2, <2>3
<1>5. server' = [server EXCEPT ![q] = [rev |-> v, text |-> t]]
  BY <1>4 DEF ForeignWrite
<1>6. [rev |-> v, text |-> t] \in Content /\ [rev |-> v, text |-> t].rev # 0
  BY <1>4 DEF Content
<1>7. server' \in [Page -> Content]
      /\ \A p \in Page : server'[p] = IF p = q THEN [rev |-> v, text |-> t] ELSE server[p]
  BY <1>2, <1>5, <1>6
<1>8. \A p \in Page : server'[p].rev = 0 => server'[p].text = {}
  BY <1>3, <1>6, <1>7
<1> QED BY <1>1, <1>2, <1>3, <1>7, <1>8, AsideKeeps

\* Of an unmounted editor's flight.
Parting == [flight : Flight, last : SUBSET (Edit \cup Foreign)]

\* A flight of an unmounted editor goes on.
LEMMA LeftKeeps ==
  ASSUME Inv, NEW o \in left, LeftServed(o) \/ LeftAnswer(o)
  PROVE  Inv'
<1>0. TypeOK
  BY DEF Inv
<1>1. o \in Parting /\ left \in SUBSET Parting
  BY <1>0 DEF TypeOK, Parting
<1>2. o.flight \in Flight /\ o.last \in Texts
  BY <1>1 DEF Parting, Texts
<1>3. \A f \in Flight : [o EXCEPT !.flight = f] \in Parting
  BY <1>1 DEF Parting
<1>4. fetch \in Pages /\ server \in [Page -> Content] /\ cache \in [Page -> Content]
  BY <1>0 DEF TypeOK, Pages
<1>5. /\ \A p \in Page : /\ server[p].rev = 0 => server[p].text = {}
                         /\ cache[p].rev = 0 => cache[p].text = {}
      /\ fetch.page.rev = 0 => fetch.page.text = {}
  BY DEF Inv, Absences, Absent
<1>6. CASE LeftServed(o)
  <2>1. PICK r \in Replies(o.flight) :
          /\ Served(o.flight, r) /\ flight' = flight
          /\ left' = (left \ {o}) \cup {[o EXCEPT !.flight = r.flight]}
    BY <1>6 DEF LeftServed
  <2>2. PICK f \in Flight : f = o.flight
    BY <1>2
  <2>3. r \in Replies(f) /\ Served(f, r)
    BY <2>1, <2>2
  <2>4. /\ server' \in [Page -> Content] /\ server[f.path] \in Content
        /\ \A p \in Page : server'[p].rev = 0 => server'[p].text = {}
        /\ cache' = cache /\ UNCHANGED <<path, epoch, text, base, rev, gen, savedGen, timer,
             requested, waiting, conflict, status, loaded, fetch, session, typed>>
    BY <2>3, ServedPages
  <2>5. r.flight \in Flight
    BY <2>3, <2>4, ReplyIs
  <2>6. left' \in SUBSET Parting
    BY <1>1, <1>3, <2>1, <2>5
  <2> QED BY <1>4, <1>5, <2>1, <2>4, <2>6, AsideKeeps DEF Parting
<1>7. CASE LeftAnswer(o)
  <2>1. UNCHANGED <<remote, path, epoch, buffer, saving, loaded, fetch, session, typed>>
    BY <1>7 DEF LeftAnswer
  <2>2. UNCHANGED <<path, epoch, text, base, rev, gen, savedGen, timer, requested, waiting,
                    conflict, status, flight, session, loaded, typed, fetch, server, cache>>
    BY <2>1 DEF remote, buffer, saving
  <2>3. PICK t \in Texts : t = IF o.flight.stage = "ok" THEN o.last ELSE o.flight.text
    BY <1>2, FlightFields
  <2> DEFINE g == [o.flight EXCEPT !.stage = "put", !.text = t]
  <2>4. g \in Flight
    BY <1>2 DEF Flight, Stages, Texts
  <2>5. g = [o.flight EXCEPT !.stage = "put", !.text = IF o.flight.stage = "ok" THEN o.last ELSE @]
    BY <1>2, <2>3 DEF Flight
  <2> HIDE DEF g
  <2>6. \/ left' = left \ {o}
        \/ left' = (left \ {o}) \cup {}
        \/ left' = (left \ {o}) \cup {[o EXCEPT !.flight = g]}
    BY <1>7, <2>5, Zenon DEF LeftAnswer
  <2>7. left' \in SUBSET Parting
    BY <1>1, <1>3, <2>4, <2>6
  <2> QED BY <1>4, <1>5, <2>2, <2>7, AsideKeeps DEF Parting
<1> QED BY <1>6, <1>7

\* Nothing is asked of the page query.
LEMMA IdleIs ==
  /\ Idle \in Pages /\ ~Idle.reload /\ Idle.page = Nothing /\ Nothing \in Content
  /\ Nothing.rev = 0 /\ Nothing.text = {}
<1>1. Nothing \in Content /\ Nothing.rev = 0 /\ Nothing.text = {}
  BY DEF Nothing, Content
<1> HIDE DEF Nothing
<1> QED BY <1>1 DEF Idle, Pages

\* The query's answer is taken where nothing local is at stake.
LEMMA FetchKeeps ==
  ASSUME Inv, FetchAnswer
  PROVE  Inv'
<1>0. TypeOK /\ Absences /\ Generations /\ Modes /\ UnsavedIsPending
  BY DEF Inv
<1>1. /\ cache' = [cache EXCEPT ![path] = fetch.page] /\ loaded' = TRUE /\ fetch' = Idle
      /\ UNCHANGED <<server, path, epoch, left, gen, savedGen, timer, requested, waiting,
                     conflict, flight, session, typed>>
  BY DEF FetchAnswer
<1>2. fetch \in Pages /\ path \in Page /\ cache \in [Page -> Content]
  BY <1>0 DEF TypeOK, Pages
<1>3. PICK p \in Content : p = fetch.page
  BY <1>2 DEF Pages
<1>4. p.rev \in Nat /\ p.text \in Texts /\ (p.rev = 0 => p.text = {})
  BY <1>0, <1>3 DEF Content, Texts, Absences, Absent
<1>5. /\ cache' \in [Page -> Content] /\ \A q \in Page : cache'[q] = p \/ cache'[q] = cache[q]
  BY <1>1, <1>2, <1>3
<1>6. /\ fetch' \in Pages /\ ~fetch'.reload /\ fetch'.page = Nothing
      /\ Nothing.rev = 0 /\ Nothing.text = {}
  BY <1>1, IdleIs
<1>7. loaded' \in BOOLEAN
  BY <1>1, Zenon
<1>8. CASE ~Dirty /\ ~conflict /\ Adopt(fetch.page)
  <2>1. base' = p.text /\ text' = p.text /\ rev' = p.rev /\ status' = "saved"
    BY <1>3, <1>8 DEF Adopt
  <2>2. ~Flying
    <3>1. gen \in Nat /\ savedGen \in Nat /\ flight.gen \in Nat
      BY <1>0, FlightFields DEF TypeOK
    <3> QED BY <1>0, <1>8, <3>1 DEF Generations, Dirty
  <2>3. Typed' = {}
    BY <2>1 DEF Typed
  <2>4. TypeOK'
    BY <1>0, <1>1, <1>4, <1>5, <1>6, <1>7, <2>1 DEF TypeOK, Pages, Texts
  <2>5. Absences'
    BY <1>0, <1>1, <1>4, <1>5, <1>6, <2>1 DEF Absences, Absent
  <2>6. ~Flying'
    BY <1>1, <2>2 DEF Flying, Stale
  <2>7. Generations' /\ UnsavedIsPending'
    BY <2>3, <2>6 DEF Generations, UnsavedIsPending
  <2>8. Modes'
    BY <1>0, <1>1, <1>6, <1>8, <2>1, <2>6 DEF Modes, Stale
  <2> QED BY <2>4, <2>5, <2>7, <2>8 DEF Inv
<1>9. CASE UNCHANGED <<text, base, rev, status>>
  <2>1. TypeOK'
    BY <1>0, <1>1, <1>5, <1>6, <1>7, <1>9 DEF TypeOK, Pages
  <2>2. Absences'
    BY <1>0, <1>1, <1>4, <1>5, <1>6, <1>9 DEF Absences, Absent
  <2>3. Generations'
    BY <1>0, <1>1, <1>9 DEF Generations, Flying, Stale, Typed, Dirty
  <2>4. Modes'
    BY <1>0, <1>1, <1>6, <1>9 DEF Modes, Flying, Stale
  <2>5. UnsavedIsPending'
    BY <1>0, <1>1, <1>9 DEF UnsavedIsPending, Stale, Typed
  <2> QED BY <2>1, <2>2, <2>3, <2>4, <2>5 DEF Inv
<1> QED BY <1>8, <1>9 DEF FetchAnswer

\* A reload that fails shows it.
LEMMA FetchFailsKeeps ==
  ASSUME Inv, FetchFails
  PROVE  Inv'
<1>0. TypeOK /\ Absences /\ Generations /\ Modes /\ UnsavedIsPending
  BY DEF Inv
<1>1. /\ fetch.reload /\ fetch' = Idle /\ status' = "error" /\ UNCHANGED <<remote, buffer>>
      /\ UNCHANGED <<path, epoch, left, timer, requested, waiting, conflict,
                     flight, loaded, session, typed>>
  BY DEF FetchFails
<1>2. UNCHANGED <<server, cache, text, base, rev, gen, savedGen>>
  BY <1>1 DEF remote, buffer
<1>3. /\ fetch' \in Pages /\ ~fetch'.reload /\ fetch'.page = Nothing
      /\ Nothing.rev = 0 /\ Nothing.text = {}
  BY <1>1, IdleIs
<1>4. ~Flying /\ ~Flying'
  BY <1>0, <1>1 DEF Modes, Flying, Stale
<1>5. TypeOK'
  BY <1>0, <1>1, <1>2, <1>3 DEF TypeOK, Pages
<1>6. Absences'
  BY <1>0, <1>1, <1>2, <1>3 DEF Absences, Absent
<1>7. Generations'
  BY <1>0, <1>2, <1>4 DEF Generations, Typed, Dirty
<1>8. Modes'
  BY <1>0, <1>1, <1>3, <1>4 DEF Modes, Stale
<1>9. UnsavedIsPending'
  BY <1>1 DEF UnsavedIsPending
<1> QED BY <1>5, <1>6, <1>7, <1>8, <1>9 DEF Inv

\* The user asks for the server's text.
LEMMA ReloadKeeps ==
  ASSUME Inv, Reload
  PROVE  Inv'
<1>0. TypeOK /\ Absences /\ Generations /\ Modes /\ UnsavedIsPending
  BY DEF Inv
<1>1. /\ conflict /\ timer' = FALSE /\ fetch' = [Idle EXCEPT !.stage = "sent", !.reload = TRUE]
      /\ UNCHANGED <<remote, buffer>>
      /\ UNCHANGED <<path, epoch, left, requested, waiting, conflict, status,
                     flight, loaded, session, typed>>
  BY DEF Reload
<1>2. UNCHANGED <<server, cache, text, base, rev, gen, savedGen>>
  BY <1>1 DEF remote, buffer
<1>3. /\ fetch' \in Pages /\ fetch'.page = Nothing /\ Nothing.rev = 0 /\ Nothing.text = {}
  <2>1. LET g == [Idle EXCEPT !.stage = "sent", !.reload = TRUE]
        IN  g \in Pages /\ g.page = Idle.page
    <3> HIDE DEF Idle
    <3> QED BY IdleIs DEF Pages
  <2> QED BY <1>1, <2>1, IdleIs
<1>4. ~Flying /\ ~Flying' /\ status = "error"
  BY <1>0, <1>1 DEF Modes, Flying, Stale
<1>5. timer' \in BOOLEAN /\ ~timer'
  BY <1>1, Zenon
<1>6. TypeOK'
  BY <1>0, <1>1, <1>2, <1>3, <1>5 DEF TypeOK, Pages
<1>7. Absences'
  BY <1>0, <1>1, <1>2, <1>3 DEF Absences, Absent
<1>8. Generations'
  BY <1>0, <1>2, <1>4 DEF Generations, Typed, Dirty
<1>9. Modes'
  BY <1>0, <1>1, <1>4, <1>5 DEF Modes, Stale
<1>10. UnsavedIsPending'
  BY <1>1, <1>4 DEF UnsavedIsPending
<1> QED BY <1>6, <1>7, <1>8, <1>9, <1>10 DEF Inv

\* The server's text replaces what the user had.
LEMMA ReloadAnswerKeeps ==
  ASSUME Inv, ReloadAnswer
  PROVE  Inv'
<1>0. TypeOK /\ Absences /\ Generations /\ Modes /\ UnsavedIsPending
  BY DEF Inv
<1>1. /\ fetch.reload /\ fetch' = Idle /\ cache' = [cache EXCEPT ![path] = fetch.page]
      /\ UNCHANGED <<server, path, epoch, left, gen, timer, waiting, flight, loaded,
                     session, typed>>
  BY DEF ReloadAnswer
<1>2. fetch \in Pages /\ path \in Page /\ cache \in [Page -> Content] /\ gen \in Nat
  BY <1>0 DEF TypeOK, Pages
<1>3. PICK p \in Content : p = fetch.page
  BY <1>2 DEF Pages
<1>4. p.rev \in Nat /\ p.text \in Texts /\ (p.rev = 0 => p.text = {})
  BY <1>0, <1>3 DEF Content, Texts, Absences, Absent
<1>5. /\ cache' \in [Page -> Content] /\ \A q \in Page : cache'[q] = p \/ cache'[q] = cache[q]
  BY <1>1, <1>2, <1>3
<1>6. /\ fetch' \in Pages /\ ~fetch'.reload /\ fetch'.page = Nothing
      /\ Nothing.rev = 0 /\ Nothing.text = {}
  BY <1>1, IdleIs
<1>7. conflict /\ ~Flying /\ ~Flying'
  BY <1>0, <1>1 DEF Modes, Flying, Stale
<1>8. CASE status' = "error" /\ UNCHANGED <<text, base, rev, savedGen, requested, conflict>>
  <2>1. TypeOK'
    BY <1>0, <1>1, <1>5, <1>6, <1>8 DEF TypeOK, Pages
  <2>2. Absences'
    BY <1>0, <1>1, <1>4, <1>5, <1>6, <1>8 DEF Absences, Absent
  <2>3. Generations'
    BY <1>0, <1>1, <1>7, <1>8 DEF Generations, Typed, Dirty
  <2>4. Modes'
    BY <1>0, <1>1, <1>6, <1>7, <1>8 DEF Modes, Stale
  <2>5. UnsavedIsPending'
    BY <1>8 DEF UnsavedIsPending
  <2> QED BY <2>1, <2>2, <2>3, <2>4, <2>5 DEF Inv
<1>9. CASE Adopt(fetch.page) /\ savedGen' = gen /\ requested' = FALSE /\ conflict' = FALSE
  <2>1. base' = p.text /\ text' = p.text /\ rev' = p.rev /\ status' = "saved"
    BY <1>3, <1>9 DEF Adopt
  <2>2. Typed' = {}
    BY <2>1 DEF Typed
  <2>3. requested' \in BOOLEAN /\ conflict' \in BOOLEAN /\ ~conflict'
    BY <1>9, Zenon
  <2>4. savedGen' \in Nat /\ savedGen' <= gen
    BY <1>2, <1>9
  <2>5. TypeOK'
    BY <1>0, <1>1, <1>4, <1>5, <1>6, <2>1, <2>3, <2>4 DEF TypeOK, Pages, Texts
  <2>6. Absences'
    BY <1>0, <1>1, <1>4, <1>5, <1>6, <2>1 DEF Absences, Absent
  <2>7. Generations' /\ UnsavedIsPending'
    BY <1>7, <2>2 DEF Generations, UnsavedIsPending
  <2>8. Modes'
    BY <1>0, <1>1, <1>6, <1>7, <2>3 DEF Modes, Stale
  <2> QED BY <2>5, <2>6, <2>7, <2>8 DEF Inv
<1> QED BY <1>8, <1>9 DEF ReloadAnswer

\* A generated change opens, or is given up.
LEMMA SessionKeeps ==
  ASSUME Inv, Drained \/ CancelGenerated
  PROVE  Inv'
<1>0. TypeOK /\ Absences /\ Generations /\ Modes /\ UnsavedIsPending
  BY DEF Inv
<1>1. UNCHANGED <<path, epoch, text, base, rev, gen, savedGen, timer, requested, waiting,
                  conflict, status, flight, loaded, typed, fetch, server, cache, left>>
  BY DEF Drained, CancelGenerated, remote, buffer, saving
<1>2. epoch \in Nat \ {0}
  BY <1>0 DEF TypeOK
<1>3. \/ session' = "none"
      \/ /\ session' = "open" /\ session # "none" /\ ~conflict /\ waiting = 0 /\ status # "error"
         /\ flight.stage = "none" \/ Stale
  BY DEF Drained, CancelGenerated
<1>4. TypeOK'
  BY <1>0, <1>1, <1>3 DEF TypeOK
<1>5. Absences' /\ Generations'
  BY <1>0, <1>1 DEF Absences, Absent, Generations, Flying, Stale, Typed, Dirty
<1>6. Modes'
  BY <1>0, <1>1, <1>2, <1>3 DEF Modes, Flying, Stale
<1>7. UnsavedIsPending'
  BY <1>0, <1>1 DEF UnsavedIsPending, Stale, Typed
<1> QED BY <1>4, <1>5, <1>6, <1>7 DEF Inv

\* A generated change is applied, refused or lost.
LEMMA ApplyKeeps ==
  ASSUME Inv, NEW x \in Foreign, ApplyGenerated(x)
  PROVE  Inv'
<1>0. TypeOK /\ Absences /\ Generations /\ Modes /\ UnsavedIsPending
  BY DEF Inv
<1>1. /\ session = "open" /\ session' = "none"
      /\ UNCHANGED <<cache, path, epoch, left, gen, timer, waiting, flight, loaded,
                     fetch, typed>>
  BY DEF ApplyGenerated
<1>2. ~Flying /\ ~Flying' /\ ~conflict /\ ~timer /\ waiting # epoch /\ ~fetch.reload
  BY <1>0, <1>1 DEF Modes, Flying, Stale
<1>3. path \in Page /\ server \in [Page -> Content] /\ gen \in Nat
  BY <1>0 DEF TypeOK
<1>4. PICK at \in Content : at = server[path]
  BY <1>3
<1>5. PICK v \in Nat, t \in SUBSET (Edit \cup Foreign) : v = at.rev + 1 /\ t = at.text \cup {x} /\ v # 0
  <2>1. at.rev + 1 \in Nat /\ at.rev + 1 # 0
    BY DEF Content
  <2>2. at.text \cup {x} \in SUBSET (Edit \cup Foreign)
    BY DEF Content
  <2> QED BY <2>1, <2>2
<1>6. CASE /\ server' = [server EXCEPT ![path] = [rev |-> v, text |-> t]]
           /\ text' = t /\ base' = t /\ rev' = v
           /\ savedGen' = gen /\ requested' = FALSE /\ status' = "saved"
           /\ conflict' = conflict
  <2>1. [rev |-> v, text |-> t] \in Content /\ [rev |-> v, text |-> t].rev # 0
    BY <1>5 DEF Content
  <2>2. server' \in [Page -> Content]
        /\ \A p \in Page : server'[p] = IF p = path THEN [rev |-> v, text |-> t] ELSE server[p]
    BY <1>3, <1>6, <2>1
  <2>3. \A p \in Page : Absent(server'[p])
    BY <1>0, <2>1, <2>2 DEF Absences, Absent
  <2>4. requested' \in BOOLEAN
    BY <1>6, Zenon
  <2>5. savedGen' \in Nat /\ savedGen' <= gen
    BY <1>3, <1>6
  <2>6. Typed' = {}
    BY <1>6 DEF Typed
  <2>7. TypeOK'
    BY <1>0, <1>1, <1>6, <2>2, <2>4, <2>5 DEF TypeOK
  <2>8. Absences'
    BY <1>0, <1>1, <1>5, <1>6, <2>3 DEF Absences, Absent
  <2>9. Generations' /\ UnsavedIsPending'
    BY <1>2, <2>6 DEF Generations, UnsavedIsPending
  <2>10. Modes'
    BY <1>0, <1>1, <1>2, <1>6 DEF Modes, Stale
  <2> QED BY <2>7, <2>8, <2>9, <2>10 DEF Inv
<1>7. CASE conflict' = TRUE /\ status' = "error" /\ UNCHANGED <<server, text, base, rev, savedGen, requested>>
  <2>1. conflict' \in BOOLEAN
    BY <1>7, Zenon
  <2>2. TypeOK'
    BY <1>0, <1>1, <1>7, <2>1 DEF TypeOK
  <2>3. Absences' /\ Generations'
    BY <1>0, <1>1, <1>2, <1>7 DEF Absences, Absent, Generations, Typed, Dirty
  <2>4. Modes'
    BY <1>0, <1>1, <1>2, <1>7 DEF Modes, Stale
  <2>5. UnsavedIsPending'
    BY <1>7 DEF UnsavedIsPending
  <2> QED BY <2>2, <2>3, <2>4, <2>5 DEF Inv
<1>8. CASE UNCHANGED <<server, text, base, rev, savedGen, requested, conflict, status>>
  <2>1. TypeOK'
    BY <1>0, <1>1, <1>8 DEF TypeOK
  <2>2. Absences' /\ Generations'
    BY <1>0, <1>1, <1>2, <1>8 DEF Absences, Absent, Generations, Typed, Dirty
  <2>3. Modes'
    BY <1>0, <1>1, <1>2, <1>8 DEF Modes, Stale
  <2>4. UnsavedIsPending'
    BY <1>0, <1>1, <1>8 DEF UnsavedIsPending, Stale, Typed
  <2> QED BY <2>1, <2>2, <2>3, <2>4 DEF Inv
<1>9. \/ /\ server' = [server EXCEPT ![path] = [rev |-> v, text |-> t]]
         /\ text' = t /\ base' = t /\ rev' = v
         /\ savedGen' = gen /\ requested' = FALSE /\ status' = "saved"
         /\ conflict' = conflict
      \/ conflict' = TRUE /\ status' = "error" /\ UNCHANGED <<server, text, base, rev, savedGen, requested>>
      \/ UNCHANGED <<server, text, base, rev, savedGen, requested, conflict, status>>
  BY <1>4, <1>5 DEF ApplyGenerated
<1> QED BY <1>6, <1>7, <1>8, <1>9

\* What the cleanup of a page leaves in flight.
LEMMA FlushedIs ==
  ASSUME TypeOK
  PROVE  /\ Flushed \in Flight
         /\ \/ Flushed = flight
            \/ /\ flight.stage = "none" /\ Flushes /\ Dirty /\ text # base
               /\ Flushed.stage \in {"ensure", "put"} /\ Flushed.epoch = epoch
               /\ Flushed.path = path /\ Flushed.rev = rev /\ Flushed.text = text
               /\ Flushed.gen = gen /\ Flushed.found = {}
               /\ Flushed.stage = "ensure" => rev = 0
<1>0. /\ epoch \in Nat /\ path \in Page /\ rev \in Nat /\ text \in Texts /\ gen \in Nat
      /\ {} \in Texts /\ flight \in Flight /\ FALSE \in BOOLEAN
  BY DEF TypeOK, Texts
<1>1. PICK stage \in {"ensure", "put"} : stage = IF path \in Drafts /\ rev = 0 THEN "ensure" ELSE "put"
  OBVIOUS
<1>2. CASE Flushes /\ flight.stage = "none" /\ Dirty /\ text # base
  <2>1. Flushed = [stage |-> stage, epoch |-> epoch, path |-> path, rev |-> rev, text |-> text,
                   gen |-> gen, made |-> FALSE, found |-> {}]
    BY <1>1, <1>2 DEF Flushed
  <2>2. stage \in Stages
    BY DEF Stages
  <2>3. /\ Flushed \in Flight /\ Flushed.stage = stage /\ Flushed.epoch = epoch /\ Flushed.path = path
        /\ Flushed.rev = rev /\ Flushed.text = text /\ Flushed.gen = gen /\ Flushed.found = {}
    BY <1>0, <2>1, <2>2, FlightIs
  <2> QED BY <1>1, <1>2, <2>3
<1>3. CASE ~(Flushes /\ flight.stage = "none" /\ Dirty /\ text # base)
  BY <1>0, <1>3 DEF Flushed
<1> QED BY <1>2, <1>3

\* Another page is opened while no flight is the editor's own.
LEMMA OpenedKeeps ==
  ASSUME Inv, NEW q \in Page, Opened(q), epoch' \in Nat \ {0}, flight' \in Flight, ~Flying',
         flight'.stage # "none" => flight'.epoch <= epoch' /\ flight'.epoch # 0,
         flight'.stage = "none" => flight'.epoch = 0,
         flight'.stage \in {"ensured", "ok"} => flight'.rev # 0,
         waiting' \in Nat, waiting' < epoch', requested' \in BOOLEAN, left' \in SUBSET Parting
  PROVE  Inv'
<1>0. TypeOK /\ Absences
  BY DEF Inv
<1>1. /\ path' = q /\ text' = cache[q].text /\ base' = cache[q].text /\ rev' = cache[q].rev
      /\ gen' = 0 /\ savedGen' = 0 /\ status' = "saved" /\ session' = "none"
      /\ fetch' = [Idle EXCEPT !.stage = "sent"] /\ UNCHANGED remote /\ typed' = typed
  BY DEF Opened
<1>2. timer' = FALSE /\ conflict' = FALSE /\ loaded' = (cache[q].rev > 0)
  BY DEF Opened
<1>3. timer' \in BOOLEAN /\ conflict' \in BOOLEAN /\ loaded' \in BOOLEAN
  <2>1. timer' \in BOOLEAN /\ conflict' \in BOOLEAN
    BY <1>2, Zenon
  <2>2. loaded' \in BOOLEAN
    BY <1>2
  <2> QED BY <2>1, <2>2
<1>4. PICK p \in Content : p = cache[q]
  BY <1>0 DEF TypeOK
<1>5. p.rev \in Nat /\ p.text \in Texts /\ (p.rev = 0 => p.text = {})
  BY <1>0, <1>4 DEF Content, Texts, Absences, Absent
<1>6. server' = server /\ cache' = cache
  BY <1>1 DEF remote
<1>7. /\ fetch' \in Pages /\ ~fetch'.reload /\ fetch'.page = Nothing
      /\ Nothing.rev = 0 /\ Nothing.text = {}
  <2>1. LET g == [Idle EXCEPT !.stage = "sent"]
        IN  g \in Pages /\ g.page = Idle.page /\ g.reload = Idle.reload
    <3> HIDE DEF Idle
    <3> QED BY IdleIs DEF Pages
  <2> QED BY <1>1, <2>1, IdleIs
<1>8. Typed' = {}
  BY <1>1 DEF Typed
<1>9. waiting' <= epoch' /\ waiting' # epoch'
  OBVIOUS
<1>10. TypeOK'
  BY <1>0, <1>1, <1>3, <1>4, <1>5, <1>6, <1>7, <1>9 DEF TypeOK, Pages, Texts, Parting
<1>11. Absences'
  BY <1>0, <1>1, <1>4, <1>5, <1>6, <1>7 DEF Absences, Absent
<1>12. Generations' /\ UnsavedIsPending'
  BY <1>8 DEF Generations, UnsavedIsPending
<1>13. Modes'
  BY <1>1, <1>2, <1>7, <1>9 DEF Modes, Stale
<1> QED BY <1>10, <1>11, <1>12, <1>13 DEF Inv

\* The hook is given another page.
LEMMA RerenderKeeps ==
  ASSUME Inv, NEW q \in Page, Rerender(q)
  PROVE  Inv'
<1>0. TypeOK /\ Absences /\ Modes
  BY DEF Inv
<1>1. /\ Opened(q) /\ epoch' = epoch + 1 /\ flight' = Flushed /\ left' = left
      /\ requested' = (requested \/ (Flushes /\ ~(flight.stage = "none") /\ ~Stale))
      /\ waiting' = IF Flushes /\ ~(flight.stage = "none") /\ Stale THEN epoch ELSE waiting
  BY Zenon DEF Rerender
<1>2. epoch \in Nat \ {0} /\ waiting \in Nat /\ waiting <= epoch /\ flight \in Flight
      /\ left \in SUBSET Parting
  BY <1>0 DEF TypeOK, Parting
<1>3. waiting' \in Nat /\ waiting' <= epoch
  BY <1>1, <1>2
<1>4. requested' \in BOOLEAN
  BY <1>1
<1>5. flight.epoch \in Nat
  BY <1>2, FlightFields
<1>6. /\ flight' \in Flight /\ flight'.epoch \in Nat /\ flight'.epoch <= epoch
      /\ flight'.stage # "none" => flight'.epoch # 0
      /\ flight'.stage = "none" => flight'.epoch = 0
      /\ flight'.stage \in {"ensured", "ok"} => flight'.rev # 0
  <2>1. flight' \in Flight /\ flight'.epoch \in Nat
    BY <1>0, <1>1, FlushedIs, FlightFields
  <2>2. CASE Flushed = flight
    <3>1. flight.stage = "none" => flight.epoch <= epoch
      BY <1>0, <1>2 DEF Modes
    <3> QED BY <1>0, <1>1, <1>2, <2>1, <2>2, <3>1 DEF Modes, Absences
  <2>3. CASE Flushed.stage \in {"ensure", "put"} /\ Flushed.epoch = epoch
    BY <1>1, <1>2, <2>1, <2>3
  <2> QED BY <1>0, <2>2, <2>3, FlushedIs
<1>7. epoch' \in Nat \ {0} /\ waiting' < epoch' /\ flight'.epoch <= epoch' /\ flight'.epoch # epoch'
  BY <1>1, <1>2, <1>3, <1>6
<1>8. ~Flying'
  BY <1>7 DEF Flying, Stale
<1> QED BY <1>1, <1>2, <1>3, <1>4, <1>6, <1>7, <1>8, OpenedKeeps

\* The hook is unmounted, and its flight goes on alone.
LEMMA RemountKeeps ==
  ASSUME Inv, NEW q \in Page, Remount(q)
  PROVE  Inv'
<1>0. TypeOK /\ Modes
  BY DEF Inv
<1> DEFINE last == IF requested \/ Flushes THEN text ELSE flight.text
<1>1. /\ Opened(q) /\ epoch = 1 /\ epoch' = epoch /\ flight' = Grounded /\ waiting' = waiting
      /\ left' = IF Flushed.stage = "none" THEN left
                 ELSE left \cup {[flight |-> [Flushed EXCEPT !.gen = 0], last |-> last]}
  BY DEF Remount
<1>2. requested' \in BOOLEAN
  BY Zenon DEF Remount
<1>3. flight' \in Flight /\ flight'.stage = "none" /\ flight'.epoch = 0
  BY <1>0, <1>1, GroundedIs
<1>4. waiting' \in Nat /\ waiting' < epoch'
  <2>1. waiting \in Nat /\ waiting <= epoch /\ flight.epoch \in Nat
    BY <1>0, FlightFields DEF TypeOK
  <2>2. waiting # epoch
    BY <1>0, <1>1, <2>1 DEF Modes, Stale
  <2> QED BY <1>1, <2>1, <2>2
<1>5. left' \in SUBSET Parting
  <2>1. left \in SUBSET Parting /\ Flushed \in Flight /\ last \in Texts
    BY <1>0, FlushedIs, FlightFields DEF TypeOK, Parting, Texts
  <2> HIDE DEF last
  <2>2. PICK f \in Flight, t \in Texts : f = Flushed /\ t = last
    BY <2>1
  <2>3. [f EXCEPT !.gen = 0] \in Flight
    BY DEF Flight
  <2>4. [flight |-> [f EXCEPT !.gen = 0], last |-> t] \in Parting
    BY <2>3 DEF Parting, Texts
  <2> QED BY <1>1, <2>1, <2>2, <2>4
<1>6. ~Flying' /\ epoch' \in Nat \ {0} /\ flight'.epoch # epoch'
  BY <1>1, <1>3 DEF Flying
<1> QED BY <1>1, <1>2, <1>3, <1>4, <1>5, <1>6, OpenedKeeps

-----------------------------------------------------------------------------
(* What is not saved is pending.                                           *)

\* The editor of the first page begins in order.
LEMMA EditorBegins ==
  ASSUME Init
  PROVE  Inv
<1>1. \A p \in Page : /\ server[p] \in Content /\ cache[p] \in Content
                      /\ Absent(server[p]) /\ cache[p] = Nothing
  <2>1. [rev |-> 1, text |-> {}] \in Content /\ [rev |-> 1, text |-> {}].text = {}
    BY DEF Content
  <2> QED BY <2>1, IdleIs DEF Init, Absent
<1>2. server \in [Page -> Content] /\ cache \in [Page -> Content]
  BY <1>1 DEF Init
<1>3. /\ fetch \in Pages /\ ~fetch.reload /\ fetch.page = Nothing
      /\ Nothing.rev = 0 /\ Nothing.text = {}
  <2>1. LET g == [Idle EXCEPT !.stage = "sent"]
        IN  g \in Pages /\ g.page = Idle.page /\ g.reload = Idle.reload
    BY IdleIs DEF Pages
  <2> QED BY <2>1, IdleIs DEF Init
<1>4. Grounded \in Flight /\ Grounded.stage = "none" /\ Grounded.epoch = 0
  <2>1. path \in Page /\ {} \in Texts /\ "none" \in Stages
    BY DEF Init, Texts, Stages
  <2> QED BY <2>1, FlightIs DEF Grounded
<1>5. flight \in Flight /\ flight.stage = "none" /\ flight.epoch = 0
  BY <1>4 DEF Init
<1>6. MaxEdits \in Nat
  BY PageEditorAssumption
<1>7. TypeOK
  <2>1. timer \in BOOLEAN /\ requested \in BOOLEAN /\ conflict \in BOOLEAN /\ loaded \in BOOLEAN
    BY Zenon DEF Init
  <2>2. /\ path \in Page /\ epoch = 1 /\ waiting = 0 /\ text = {} /\ base = {} /\ rev = 0 /\ gen = 0
        /\ savedGen = 0 /\ status = "saved" /\ session = "none" /\ left = {} /\ typed = 0
    BY DEF Init
  <2> QED BY <1>2, <1>3, <1>5, <1>6, <2>1, <2>2 DEF TypeOK, Pages
<1>8. Absences
  BY <1>1, <1>3, <1>5 DEF Init, Absences, Absent
<1>9. Generations /\ UnsavedIsPending
  BY <1>5 DEF Init, Generations, UnsavedIsPending, Typed, Flying
<1>10. Modes
  BY <1>3, <1>5 DEF Init, Modes, Flying, Stale
<1> QED BY <1>7, <1>8, <1>9, <1>10 DEF Inv

\* Every step keeps the invariant.
LEMMA InvKeeps ==
  ASSUME Inv, [Next]_vars
  PROVE  Inv'
<1>1. CASE Next
  <2>1. CASE \E q \in Page : Rerender(q) \/ Remount(q)
    BY <2>1, RerenderKeeps, RemountKeeps
  <2>2. CASE \E o \in left : LeftServed(o) \/ LeftAnswer(o)
    BY <2>2, LeftKeeps
  <2>3. CASE \E p \in Page, x \in Foreign : ForeignWrite(p, x)
    BY <2>3, ForeignKeeps
  <2>4. CASE \E x \in Foreign : ApplyGenerated(x)
    BY <2>4, ApplyKeeps
  <2> QED BY <1>1, <2>1, <2>2, <2>3, <2>4, TypeKeeps, SaveKeeps, RepliesKeeps, EnsureKeeps,
             PutKeeps, FailsKeeps, QueryKeeps, FetchKeeps, FetchFailsKeeps, ReloadKeeps,
             ReloadAnswerKeeps, SessionKeeps DEF Next
<1> QED BY <1>1, StutterKeeps

\* The invariant holds of every behaviour.
LEMMA EditorInvariant == Spec => []Inv
<1>1. Init => Inv
  BY EditorBegins
<1>2. Inv /\ [Next]_vars => Inv'
  BY InvKeeps
<1> QED BY <1>1, <1>2, PTL DEF Spec

\* Whatever the page, the network and the other writers do, what the open page
\* shows and the server does not have is scheduled, in flight, waiting for an
\* older page's flight, or shown as an error; it never reads "saved" (doSave,
\* savePass, the reset and sync effects).
THEOREM EditsArePending == Spec => []UnsavedIsPending
<1>1. Inv => UnsavedIsPending
  BY DEF Inv
<1> QED BY <1>1, EditorInvariant, PTL

-----------------------------------------------------------------------------
(* Where the user's edits are.                                             *)

\* What a server has accepted: whatever anybody read from it, and the text of
\* a put it has answered.
Accepted ==
  /\ \A p \in Page : Edit \cap (server[p].text \cup cache[p].text) \subseteq landed
  /\ Edit \cap (fetch.page.text \cup base \cup flight.found) \subseteq landed
  /\ flight.stage = "ok" => Edit \cap flight.text \subseteq landed
  /\ \A o \in left : /\ o.flight.stage = "ok" => Edit \cap o.flight.text \subseteq landed
                     /\ Edit \cap o.flight.found \subseteq landed

\* What the save in flight carries is in the editor, given up or accepted.
Carried ==
  /\ flight.stage = "none" => flight.text = {}
  /\ Flying => Edit \cap flight.text \subseteq text \cup given \cup landed

\* What the editors left behind still have to send.
Parted == UNION {o.flight.text \cup o.last : o \in left}

Kept == 1..typed \subseteq text \cup flight.text \cup landed \cup given \cup missed \cup stranded \cup Parted

Held == Accepted /\ Carried /\ Kept

-----------------------------------------------------------------------------
(* Who names a revision knows what others wrote in it.                     *)

\* Of the page as it is, a reader of revision r with text t.
Known(at, r, t) ==
  /\ r <= at.rev
  /\ r = at.rev /\ r # 0 => at.text \cap Foreign \subseteq t

\* A flight that names a revision.
Sound(pages, f) ==
  /\ f.stage \in {"put", "ok"} => Known(pages[f.path], f.rev, f.text)
  /\ f.stage = "ensured" => Known(pages[f.path], f.rev, f.found) /\ (f.made => f.found = {})

\* The flight of an unmounted editor, and the text it sends last.
Follows(pages, o) ==
  /\ Sound(pages, o.flight) /\ o.flight.stage # "none"
  /\ o.flight.text \cap Foreign \subseteq o.last

Informs(pages) ==
  /\ \A p \in Page : Known(pages[p], cache[p].rev, cache[p].text)
  /\ Known(pages[path], rev, text)
  /\ fetch.stage = "answered" => Known(pages[path], fetch.page.rev, fetch.page.text)
  /\ Sound(pages, flight)
  /\ Flying => flight.path = path /\ flight.text \cap Foreign \subseteq text
  /\ \A o \in left : Follows(pages, o)

Informed == Informs(server)

-----------------------------------------------------------------------------
(* Each step leaves every edit somewhere.                                  *)

\* What is typed is an edit.
LEMMA TypedAreEdits ==
  ASSUME TypeOK
  PROVE  1..typed \subseteq Edit
BY PageEditorAssumption DEF TypeOK, Edit

\* A step of the buffer and of the query, beside every flight: an edit that
\* goes out of the text is accepted or given up.
LEMMA BufferHolds ==
  ASSUME Held, TypeOK, UNCHANGED <<flight, epoch, left, missed, stranded, landed>>,
         given \subseteq given', 1..typed' \subseteq (1..typed) \cup text',
         Edit \cap text \subseteq text' \cup landed \cup given',
         \A p \in Page : Edit \cap (server'[p].text \cup cache'[p].text) \subseteq landed,
         Edit \cap (fetch'.page.text \cup base') \subseteq landed
  PROVE  Held'
<1>1. Accepted'
  BY DEF Held, Accepted
<1>2. Carried'
  BY DEF Held, Carried, Flying, Stale
<1>3. Parted' = Parted
  BY DEF Parted
<1>4. Kept'
  BY <1>3, TypedAreEdits DEF Held, Kept
<1> QED BY <1>1, <1>2, <1>4 DEF Held

\* The same where the pages and the baseline stay.
LEMMA PagesHold ==
  ASSUME Held
  PROVE  /\ \A p \in Page : Edit \cap (server[p].text \cup cache[p].text) \subseteq landed
         /\ Edit \cap (fetch.page.text \cup base) \subseteq landed
BY DEF Held, Accepted

\* Typing and undoing.
LEMMA TypeHolds ==
  ASSUME Inv, Held, Type \/ Undo
  PROVE  Held'
<1>0. TypeOK
  BY DEF Inv
<1>1. /\ UNCHANGED <<remote, epoch, left, base, flight, fetch, landed, missed, stranded>>
      /\ given \subseteq given' /\ Edit \cap text \subseteq text' \cup given'
  BY DEF Type, Undo, Edited, Typed
<1>2. server' = server /\ cache' = cache
  BY <1>1 DEF remote
<1>3. 1..typed' \subseteq (1..typed) \cup text'
  <2>1. typed \in Nat
    BY <1>0 DEF TypeOK
  <2>2. (typed' = typed + 1 /\ typed + 1 \in text') \/ typed' = typed
    BY DEF Type, Undo, Edited
  <2> QED BY <2>1, <2>2
<1> QED BY <1>0, <1>1, <1>2, <1>3, PagesHold, BufferHolds

\* Nothing but sessions, queries and what others write changes.
LEMMA AsideHolds ==
  ASSUME Inv, Held,
         UNCHANGED vars \/ Refetch \/ ServerGet \/ FetchFails \/ Reload \/ Drained \/ CancelGenerated
  PROVE  Held'
<1>0. TypeOK
  BY DEF Inv
<1>1. UNCHANGED <<text, base, flight, epoch, left, typed, missed, stranded, landed, given, server, cache>>
  BY DEF vars, Refetch, ServerGet, FetchFails, Reload, Drained, CancelGenerated, remote, buffer,
         saving, ghosts
<1>2. \A p \in Page : Edit \cap (server[p].text \cup cache[p].text) \subseteq landed
  BY PagesHold
<1>3. Edit \cap (fetch.page.text \cup base) \subseteq landed
  BY PagesHold
<1>4. fetch \in Pages /\ path \in Page
  BY <1>0 DEF TypeOK, Pages
<1>5. fetch'.page = fetch.page \/ fetch'.page = server[path] \/ fetch'.page = Nothing
  <2>1. CASE UNCHANGED vars \/ Drained \/ CancelGenerated
    BY <2>1 DEF vars, Drained, CancelGenerated
  <2>2. CASE Refetch
    BY <1>4, <2>2 DEF Refetch, Pages
  <2>3. CASE ServerGet
    BY <1>4, <2>3 DEF ServerGet, Pages
  <2>4. CASE FetchFails
    BY <2>4, IdleIs DEF FetchFails
  <2>5. CASE Reload
    <3>1. [Idle EXCEPT !.stage = "sent", !.reload = TRUE].page = Idle.page
      BY DEF Idle
    <3> QED BY <2>5, <3>1, IdleIs DEF Reload
  <2> QED BY <2>1, <2>2, <2>3, <2>4, <2>5
<1>6. Edit \cap (fetch'.page.text \cup base') \subseteq landed
  BY <1>1, <1>2, <1>3, <1>4, <1>5, IdleIs
<1> QED BY <1>0, <1>1, <1>2, <1>6, BufferHolds

\* The edits of others are not the user's.
LEMMA ForeignHolds ==
  ASSUME Inv, Held, NEW q \in Page, NEW x \in Foreign, ForeignWrite(q, x)
  PROVE  Held'
<1>0. TypeOK /\ x \notin Edit
  BY PageEditorAssumption DEF Inv, Edit
<1>1. UNCHANGED <<text, base, flight, epoch, left, typed, missed, stranded, landed, given, cache, fetch>>
  BY DEF ForeignWrite, buffer, saving, ghosts
<1>2. server \in [Page -> Content]
  BY <1>0 DEF TypeOK
<1>3. server' = [server EXCEPT ![q] = [rev |-> server[q].rev + 1, text |-> server[q].text \cup {x}]]
  BY DEF ForeignWrite
<1>4. \A p \in Page : server'[p].text = server[p].text \/ server'[p].text = server[p].text \cup {x}
  BY <1>2, <1>3
<1> QED BY <1>0, <1>1, <1>4, PagesHold, BufferHolds

\* The query's answer replaces a text that is all accepted.
LEMMA FetchHolds ==
  ASSUME Inv, Held, FetchAnswer
  PROVE  Held'
<1>0. TypeOK /\ Generations
  BY DEF Inv
<1>1. /\ cache' = [cache EXCEPT ![path] = fetch.page] /\ fetch' = Idle
      /\ UNCHANGED <<server, flight, epoch, left, typed, missed, stranded, landed, given>>
  BY DEF FetchAnswer, ghosts
<1>2. cache \in [Page -> Content] /\ path \in Page
  BY <1>0 DEF TypeOK
<1>3. \A p \in Page : cache'[p] = cache[p] \/ cache'[p] = fetch.page
  BY <1>1, <1>2
<1>4. \A p \in Page : Edit \cap (server'[p].text \cup cache'[p].text) \subseteq landed
  BY <1>1, <1>3, PagesHold
<1>5. fetch'.page.text = {}
  BY <1>1, IdleIs
<1>6. \/ ~Dirty /\ base' = fetch.page.text /\ text' = fetch.page.text
      \/ base' = base /\ text' = text
  BY DEF FetchAnswer, Adopt
<1>7. Edit \cap base' \subseteq landed
  BY <1>6, PagesHold
<1>8. Edit \cap text \subseteq text' \cup landed
  BY <1>0, <1>6, PagesHold DEF Generations, Typed
<1> QED BY <1>0, <1>1, <1>4, <1>5, <1>7, <1>8, BufferHolds

\* A reload gives up what the server does not have.
LEMMA ReloadHolds ==
  ASSUME Inv, Held, ReloadAnswer
  PROVE  Held'
<1>0. TypeOK
  BY DEF Inv
<1>1. /\ cache' = [cache EXCEPT ![path] = fetch.page] /\ fetch' = Idle
      /\ UNCHANGED <<server, flight, epoch, left, typed, missed, stranded, landed>>
  BY DEF ReloadAnswer
<1>2. cache \in [Page -> Content] /\ path \in Page
  BY <1>0 DEF TypeOK
<1>3. \A p \in Page : cache'[p] = cache[p] \/ cache'[p] = fetch.page
  BY <1>1, <1>2
<1>4. \A p \in Page : Edit \cap (server'[p].text \cup cache'[p].text) \subseteq landed
  BY <1>1, <1>3, PagesHold
<1>5. fetch'.page.text = {}
  BY <1>1, IdleIs
<1>6. \/ base' = base /\ text' = text /\ given' = given
      \/ /\ base' = fetch.page.text /\ text' = fetch.page.text
         /\ given' = given \cup (Edit \cap (text \ fetch.page.text))
  BY DEF ReloadAnswer, Adopt
<1>7. Edit \cap base' \subseteq landed
  BY <1>6, PagesHold
<1>8. Edit \cap text \subseteq text' \cup landed \cup given' /\ given \subseteq given'
  BY <1>6
<1> QED BY <1>0, <1>1, <1>4, <1>5, <1>7, <1>8, BufferHolds

\* A generated change replaces a text that is all accepted.
LEMMA ApplyHolds ==
  ASSUME Inv, Held, NEW x \in Foreign, ApplyGenerated(x)
  PROVE  Held'
<1>0. TypeOK /\ Modes /\ UnsavedIsPending /\ x \notin Edit
  BY PageEditorAssumption DEF Inv, Edit
<1>1. /\ session = "open"
      /\ UNCHANGED <<flight, epoch, left, typed, cache, fetch, landed, given, missed, stranded>>
  BY DEF ApplyGenerated, ghosts
<1>2. Typed = {}
  BY <1>0, <1>1 DEF Modes, UnsavedIsPending, Flying
<1>3. server \in [Page -> Content] /\ path \in Page
  BY <1>0 DEF TypeOK
<1>4. \/ /\ server' = [server EXCEPT ![path] = [rev |-> server[path].rev + 1, text |-> server[path].text \cup {x}]]
         /\ base' = server[path].text \cup {x}
      \/ UNCHANGED <<server, text, base>>
  BY DEF ApplyGenerated
<1>5. \A p \in Page : server'[p].text = server[p].text \/ server'[p].text = server[p].text \cup {x}
  BY <1>3, <1>4
<1>6. base' = server[path].text \cup {x} \/ base' = base
  BY <1>4
<1>7. Edit \cap text \subseteq landed
  BY <1>2, PagesHold DEF Typed
<1>8. Edit \cap (fetch'.page.text \cup base') \subseteq landed
  BY <1>0, <1>1, <1>3, <1>6, PagesHold
<1>9. \A p \in Page : Edit \cap (server'[p].text \cup cache'[p].text) \subseteq landed
  BY <1>0, <1>1, <1>5, PagesHold
<1> QED BY <1>0, <1>1, <1>7, <1>8, <1>9, BufferHolds

\* A step of the flight beside the buffer and the pages: what it no longer
\* carries is elsewhere.
LEMMA FlightHolds ==
  ASSUME Held, TypeOK,
         UNCHANGED <<server, cache, text, left, given, stranded, landed, typed>>,
         missed \subseteq missed', Edit \cap flight.text \subseteq text \cup given \cup landed \cup missed' \cup flight'.text,
         Edit \cap (fetch'.page.text \cup base' \cup flight'.found) \subseteq landed,
         flight'.stage = "ok" => Edit \cap flight'.text \subseteq landed,
         flight'.stage = "none" => flight'.text = {},
         Flying' => Edit \cap flight'.text \subseteq text \cup given \cup landed
  PROVE  Held'
<1>1. Accepted'
  BY DEF Held, Accepted
<1>2. Carried'
  BY DEF Carried
<1>3. Parted' = Parted
  BY DEF Parted
<1>4. Kept'
  BY <1>3, TypedAreEdits DEF Held, Kept
<1> QED BY <1>1, <1>2, <1>4 DEF Held

\* A pass that takes off carries the text.
LEMMA PassHolds ==
  ASSUME Inv, Held, StartPass,
         UNCHANGED <<server, cache, text, left, given, stranded, landed, typed, fetch, base>>,
         missed \subseteq missed', Edit \cap flight.text \subseteq text \cup given \cup landed \cup missed'
  PROVE  Held'
<1>0. TypeOK /\ Generations
  BY DEF Inv
<1>1. /\ flight'.found = {}
      /\ \/ flight'.stage \in {"ensure", "put"} /\ flight'.text = text
         \/ flight'.stage = "none" /\ flight'.text = {}
  BY <1>0, StartPassIs
<1> QED BY <1>0, <1>1, FlightHolds, PagesHold

\* doSave.
LEMMA SaveHolds ==
  ASSUME Inv, Held, Save \/ BeginGeneratedChange
  PROVE  Held'
<1>0. TypeOK
  BY DEF Inv
<1>1. DoSave /\ UNCHANGED <<remote, path, epoch, left, text, base, fetch, ghosts, typed>>
  BY DEF Save, BeginGeneratedChange
<1>2. UNCHANGED <<server, cache, landed, given, missed, stranded>>
  BY <1>1 DEF remote, ghosts
<1>3. CASE flight' = flight
  <2>1. \A p \in Page : Edit \cap (server[p].text \cup cache[p].text) \subseteq landed
    BY PagesHold
  <2>2. Edit \cap (fetch.page.text \cup base) \subseteq landed
    BY PagesHold
  <2> QED BY <1>0, <1>1, <1>2, <1>3, <2>1, <2>2, BufferHolds
<1>4. CASE flight.stage = "none" /\ StartPass
  <2>1. flight.text = {}
    BY <1>4 DEF Held, Carried
  <2> QED BY <1>1, <1>2, <1>4, <2>1, PassHolds
<1> QED BY <1>1, <1>3, <1>4 DEF DoSave, saving

\* Both ways a flight lands.
LEMMA LandHolds ==
  ASSUME Inv, Held, Stale, NEW failed, Land(failed), Edit \cap flight.text \subseteq failed \cup landed,
         UNCHANGED <<server, cache, text, left, given, stranded, landed, typed, fetch, base, path>>
  PROVE  Held'
<1>0. TypeOK
  BY DEF Inv
<1>1. missed' = missed \cup (failed \ landed)
  BY DEF Land
<1>2. missed \subseteq missed' /\ Edit \cap flight.text \subseteq landed \cup missed'
  BY <1>1
<1>3. CASE StartPass
  BY <1>2, <1>3, PassHolds
<1>4. CASE flight' = Grounded
  <2>1. flight'.stage = "none" /\ flight'.text = {} /\ flight'.found = {}
    BY <1>0, <1>4, GroundedIs
  <2> QED BY <1>0, <1>2, <2>1, FlightHolds, PagesHold
<1> QED BY <1>3, <1>4 DEF Land

\* The answer to an ensure.
LEMMA EnsureHolds ==
  ASSUME Inv, Held, EnsureAnswer
  PROVE  Held'
<1>0. TypeOK
  BY DEF Inv
<1>1. /\ flight.stage = "ensured"
      /\ UNCHANGED <<remote, path, epoch, left, text, fetch, landed, given, stranded, typed>>
  BY DEF EnsureAnswer
<1>2. server' = server /\ cache' = cache
  BY <1>1 DEF remote
<1>3. Edit \cap (fetch.page.text \cup base \cup flight.found) \subseteq landed
  BY DEF Held, Accepted
<1>4. ~Stale => Edit \cap flight.text \subseteq text \cup given \cup landed
  BY <1>1 DEF Held, Carried, Flying
<1>5. CASE Stale /\ Land(Edit \cap flight.text) /\ UNCHANGED base
  <2>1. Edit \cap flight.text \subseteq (Edit \cap flight.text) \cup landed
    OBVIOUS
  <2> QED BY <1>1, <1>2, <1>5, <2>1, LandHolds
<1>6. CASE ~Stale /\ flight' = Grounded /\ UNCHANGED <<base, missed>>
  <2>1. flight'.stage = "none" /\ flight'.text = {} /\ flight'.found = {}
    BY <1>0, <1>6, GroundedIs
  <2> QED BY <1>0, <1>1, <1>2, <1>3, <1>4, <1>6, <2>1, FlightHolds
<1>7. CASE /\ flight' = [flight EXCEPT !.stage = "put"] /\ missed' = missed
           /\ IF Stale THEN base' = base ELSE base' = flight.found
  <2>1. flight'.stage = "put" /\ flight'.text = flight.text /\ flight'.found = flight.found
        /\ flight'.epoch = flight.epoch
    BY <1>0, <1>7, FlightMoves DEF TypeOK, Stages
  <2>2. Flying' => ~Stale
    BY <1>1, <2>1 DEF Flying, Stale
  <2>3. Edit \cap base' \subseteq landed
    BY <1>3, <1>7
  <2> QED BY <1>0, <1>1, <1>2, <1>3, <1>4, <1>7, <2>1, <2>2, <2>3, FlightHolds
<1> QED BY <1>5, <1>6, <1>7 DEF EnsureAnswer

\* The answer to a put.
LEMMA PutHolds ==
  ASSUME Inv, Held, PutAnswer
  PROVE  Held'
<1>0. TypeOK
  BY DEF Inv
<1>1. /\ flight.stage = "ok"
      /\ UNCHANGED <<remote, path, epoch, left, text, landed, given, stranded, typed>>
  BY DEF PutAnswer
<1>2. server' = server /\ cache' = cache
  BY <1>1 DEF remote
<1>3. Edit \cap (fetch.page.text \cup base \cup flight.found) \subseteq landed
  BY DEF Held, Accepted
<1>4. Edit \cap flight.text \subseteq landed
  BY <1>1 DEF Held, Accepted
<1>5. CASE Stale
  <2>1. Land({}) /\ base' = base /\ fetch' = fetch
    BY <1>5 DEF PutAnswer
  <2>2. Edit \cap flight.text \subseteq {} \cup landed
    BY <1>4
  <2> QED BY <1>1, <1>2, <1>5, <2>1, <2>2, LandHolds
<1>6. CASE ~Stale
  <2>1. /\ base' = flight.text /\ missed' = missed /\ fetch' = [fetch EXCEPT !.stage = "sent"]
        /\ \/ flight' = [flight EXCEPT !.stage = "put", !.text = text, !.gen = gen]
           \/ flight' = Grounded
    BY <1>6, Zenon DEF PutAnswer
  <2>2. fetch'.page = fetch.page
    BY <1>0, <2>1 DEF TypeOK
  <2>3. CASE flight' = [flight EXCEPT !.stage = "put", !.text = text, !.gen = gen]
    <3>1. flight'.stage = "put" /\ flight'.text = text /\ flight'.found = flight.found
      BY <1>0, <2>3 DEF TypeOK, Flight
    <3> QED BY <1>0, <1>1, <1>2, <1>3, <1>4, <2>1, <2>2, <3>1, FlightHolds
  <2>4. CASE flight' = Grounded
    <3>1. flight'.stage = "none" /\ flight'.text = {} /\ flight'.found = {}
      BY <1>0, <2>4, GroundedIs
    <3> QED BY <1>0, <1>1, <1>2, <1>3, <1>4, <2>1, <2>2, <3>1, FlightHolds
  <2> QED BY <2>1, <2>3, <2>4
<1> QED BY <1>5, <1>6

\* The catch of savePass: the text stays, or the page was left with the error.
LEMMA FailsHolds ==
  ASSUME Inv, Held, SaveFails
  PROVE  Held'
<1>0. TypeOK
  BY DEF Inv
<1>1. /\ flight.stage \in {"refused", "failed"}
      /\ UNCHANGED <<remote, path, epoch, left, text, base, fetch, landed, given, stranded, typed>>
  BY DEF SaveFails
<1>2. server' = server /\ cache' = cache
  BY <1>1 DEF remote
<1>3. CASE Stale
  <2>1. Land(Edit \cap flight.text)
    BY <1>3 DEF SaveFails
  <2>2. Edit \cap flight.text \subseteq (Edit \cap flight.text) \cup landed
    OBVIOUS
  <2> QED BY <1>1, <1>2, <1>3, <2>1, <2>2, LandHolds
<1>4. CASE ~Stale
  <2>1. flight' = Grounded /\ missed' = missed
    BY <1>4 DEF SaveFails
  <2>2. flight'.stage = "none" /\ flight'.text = {} /\ flight'.found = {}
    BY <1>0, <2>1, GroundedIs
  <2>3. Edit \cap flight.text \subseteq text \cup given \cup landed
    BY <1>1, <1>4 DEF Held, Carried, Flying
  <2> QED BY <1>0, <1>1, <1>2, <2>1, <2>2, <2>3, FlightHolds, PagesHold
<1> QED BY <1>3, <1>4

\* What the server takes is accepted.
LEMMA ServedHolds ==
  ASSUME Inv, Held, NEW f \in Flight, NEW r \in Replies(f), Served(f, r), Edit \cap f.found \subseteq landed
  PROVE  /\ landed \subseteq landed' /\ UNCHANGED <<text, base, fetch, cache, epoch, given, missed, stranded, typed>>
         /\ \A p \in Page : Edit \cap (server'[p].text \cup cache'[p].text) \subseteq landed'
         /\ r.flight \in Flight /\ r.flight.text = f.text /\ r.flight.epoch = f.epoch
         /\ Edit \cap r.flight.found \subseteq landed' /\ r.flight.stage # "none"
         /\ r.flight.stage = "ok" => Edit \cap r.flight.text \subseteq landed'
<1>1. /\ landed' = landed \cup (Edit \cap r.page.text)
      /\ UNCHANGED <<buffer, epoch, fetch, cache, given, missed, stranded, typed>>
  BY DEF Served
<1>2. /\ server'[f.path] = r.page /\ server[f.path] \in Content
      /\ \A p \in Page : p # f.path => server'[p] = server[p]
  BY ServedPages
<1>3. f.path \in Page /\ Edit \cap server[f.path].text \subseteq landed
  BY FlightFields, PagesHold
<1>4. /\ r.flight \in Flight /\ r.flight.text = f.text /\ r.flight.epoch = f.epoch
      /\ f.stage = "ensure" => r.flight.stage \in {"ensured", "failed"}
      /\ f.stage = "put" => r.flight.stage \in {"ok", "refused", "failed"}
      /\ f.stage \in {"ensure", "put"}
      /\ r.flight.stage = "ensured" => r.flight.found = server[f.path].text
      /\ r.flight.stage # "ensured" => r.flight.found = f.found
      /\ r.flight.stage = "ok" => r.page.text = f.text
  BY <1>2, ReplyIs
<1>5. \A p \in Page : Edit \cap (server'[p].text \cup cache'[p].text) \subseteq landed'
  BY <1>1, <1>2, PagesHold
<1>6. Edit \cap r.flight.found \subseteq landed' /\ r.flight.stage # "none"
  BY <1>1, <1>3, <1>4
<1>7. r.flight.stage = "ok" => Edit \cap r.flight.text \subseteq landed'
  BY <1>1, <1>4
<1> QED BY <1>1, <1>4, <1>5, <1>6, <1>7 DEF buffer

\* The reply to the editor's request.
LEMMA RepliesHold ==
  ASSUME Inv, Held, ServerReplies
  PROVE  Held'
<1>0. flight \in Flight /\ Edit \cap flight.found \subseteq landed
  BY DEF Inv, TypeOK, Held, Accepted
<1>1. PICK r \in Replies(flight) : Served(flight, r) /\ flight' = r.flight /\ left' = left
  BY DEF ServerReplies
<1>2. /\ landed \subseteq landed' /\ UNCHANGED <<text, base, fetch, cache, epoch, given, missed, stranded, typed>>
      /\ \A p \in Page : Edit \cap (server'[p].text \cup cache'[p].text) \subseteq landed'
      /\ flight'.text = flight.text /\ flight'.epoch = flight.epoch
      /\ Edit \cap flight'.found \subseteq landed' /\ flight'.stage # "none"
      /\ flight'.stage = "ok" => Edit \cap flight'.text \subseteq landed'
  BY <1>0, <1>1, ServedHolds
<1>3. flight.stage # "none"
  BY <1>1 DEF Replies
<1>4. Accepted'
  BY <1>1, <1>2 DEF Held, Accepted
<1>5. Carried'
  BY <1>2, <1>3 DEF Held, Carried, Flying, Stale
<1>6. Parted' = Parted
  BY <1>1 DEF Parted
<1>7. Kept'
  BY <1>2, <1>6 DEF Held, Kept
<1> QED BY <1>4, <1>5, <1>7 DEF Held

\* The editors left behind, where one of them changes: what it no longer
\* carries is elsewhere.
LEMMA LeftHolds ==
  ASSUME Held, TypeOK, NEW o \in left, NEW N, left' = (left \ {o}) \cup N,
         UNCHANGED <<text, base, fetch, cache, epoch, flight, given, stranded, typed>>,
         \A p \in Page : Edit \cap (server'[p].text \cup cache'[p].text) \subseteq landed',
         landed \subseteq landed', missed \subseteq missed',
         \A n \in N : /\ n.flight.stage = "ok" => Edit \cap n.flight.text \subseteq landed'
                      /\ Edit \cap n.flight.found \subseteq landed',
         \A e \in Edit : e \in o.flight.text \cup o.last =>
           e \in landed' \cup missed' \/ \E n \in N : e \in n.flight.text \cup n.last
  PROVE  Held'
<1>1. Accepted'
  BY DEF Held, Accepted
<1>2. Carried'
  BY DEF Held, Carried, Flying, Stale
<1>3. \A e \in Edit : e \in Parted => e \in landed' \cup missed' \cup Parted'
  <2> TAKE e \in Edit
  <2> HAVE e \in Parted
  <2>1. PICK m \in left : e \in m.flight.text \cup m.last
    BY DEF Parted
  <2>2. CASE m = o
    BY <2>1, <2>2 DEF Parted
  <2>3. CASE m # o
    <3>1. m \in left'
      BY <2>3
    <3> QED BY <2>1, <3>1 DEF Parted
  <2> QED BY <2>2, <2>3
<1>4. Kept'
  BY <1>3, TypedAreEdits DEF Held, Kept
<1> QED BY <1>1, <1>2, <1>4 DEF Held

\* The server takes the request of an editor left behind.
LEMMA LeftServedHolds ==
  ASSUME Inv, Held, NEW o \in left, LeftServed(o)
  PROVE  Held'
<1>0. TypeOK /\ o \in Parting
  BY DEF Inv, TypeOK, Parting
<1>1. PICK f \in Flight : f = o.flight
  BY <1>0 DEF Parting
<1>2. PICK r \in Replies(f) : /\ Served(f, r) /\ flight' = flight
                              /\ left' = (left \ {o}) \cup {[o EXCEPT !.flight = r.flight]}
  BY <1>1 DEF LeftServed
<1>3. Edit \cap f.found \subseteq landed
  BY <1>1 DEF Held, Accepted
<1>4. /\ landed \subseteq landed' /\ UNCHANGED <<text, base, fetch, cache, epoch, given, missed, stranded, typed>>
      /\ \A p \in Page : Edit \cap (server'[p].text \cup cache'[p].text) \subseteq landed'
      /\ r.flight \in Flight /\ r.flight.text = f.text
      /\ Edit \cap r.flight.found \subseteq landed'
      /\ r.flight.stage = "ok" => Edit \cap r.flight.text \subseteq landed'
  BY <1>2, <1>3, ServedHolds
<1>5. PICK n : n = [o EXCEPT !.flight = r.flight]
  OBVIOUS
<1>6. n.flight = r.flight /\ n.last = o.last
  BY <1>0, <1>5 DEF Parting
<1>7. PICK N : N = {n}
  OBVIOUS
<1>8. left' = (left \ {o}) \cup N
  BY <1>2, <1>5, <1>7
<1>9. \A m \in N : /\ m.flight.stage = "ok" => Edit \cap m.flight.text \subseteq landed'
                   /\ Edit \cap m.flight.found \subseteq landed'
  BY <1>4, <1>6, <1>7
<1>10. \A e \in Edit : e \in o.flight.text \cup o.last => \E m \in N : e \in m.flight.text \cup m.last
  BY <1>1, <1>4, <1>6, <1>7
<1> QED BY <1>0, <1>2, <1>4, <1>8, <1>9, <1>10, LeftHolds

\* An editor left behind goes on to its last pass, or ends.
LEMMA LeftAnswerHolds ==
  ASSUME Inv, Held, NEW o \in left, LeftAnswer(o)
  PROVE  Held'
<1>0. TypeOK /\ o \in Parting
  BY DEF Inv, TypeOK, Parting
<1>1. PICK f \in Flight : f = o.flight
  BY <1>0 DEF Parting
<1>2. /\ f.stage = "ok" => Edit \cap f.text \subseteq landed
      /\ Edit \cap f.found \subseteq landed
  BY <1>1 DEF Held, Accepted
<1>3. UNCHANGED <<remote, epoch, buffer, saving, fetch, landed, given, stranded, typed>>
  BY DEF LeftAnswer
<1>4. UNCHANGED <<text, base, fetch, server, cache, epoch, flight, landed, given, stranded, typed>>
  BY <1>3 DEF remote, buffer, saving
<1>5. \A p \in Page : Edit \cap (server'[p].text \cup cache'[p].text) \subseteq landed'
  BY <1>4, PagesHold
<1>6. CASE left' = left \ {o} /\ missed' = missed \cup ((Edit \cap (f.text \cup o.last)) \ landed)
  <2>1. PICK N : N = {}
    OBVIOUS
  <2>2. left' = (left \ {o}) \cup N /\ missed \subseteq missed'
    BY <1>6, <2>1
  <2>3. \A e \in Edit : e \in o.flight.text \cup o.last =>
          e \in landed' \cup missed' \/ \E n \in N : e \in n.flight.text \cup n.last
    BY <1>1, <1>4, <1>6
  <2>4. \A n \in N : /\ n.flight.stage = "ok" => Edit \cap n.flight.text \subseteq landed'
                     /\ Edit \cap n.flight.found \subseteq landed'
    BY <2>1
  <2>5. landed \subseteq landed'
    BY <1>4
  <2> QED BY <1>0, <1>4, <1>5, <2>2, <2>3, <2>4, <2>5, LeftHolds
<1>7. CASE left' = (left \ {o}) \cup {} /\ f.stage = "ok" /\ f.text = o.last /\ missed' = missed
  <2>1. PICK N : N = {}
    OBVIOUS
  <2>2. left' = (left \ {o}) \cup N /\ missed \subseteq missed'
    BY <1>7, <2>1
  <2>3. \A e \in Edit : e \in o.flight.text \cup o.last =>
          e \in landed' \cup missed' \/ \E n \in N : e \in n.flight.text \cup n.last
    BY <1>1, <1>2, <1>4, <1>7
  <2>4. \A n \in N : /\ n.flight.stage = "ok" => Edit \cap n.flight.text \subseteq landed'
                     /\ Edit \cap n.flight.found \subseteq landed'
    BY <2>1
  <2>5. landed \subseteq landed'
    BY <1>4
  <2> QED BY <1>0, <1>4, <1>5, <2>2, <2>3, <2>4, <2>5, LeftHolds
<1>8. ASSUME NEW t, t = (IF f.stage = "ok" THEN o.last ELSE f.text),
             left' = (left \ {o}) \cup {[o EXCEPT !.flight = [f EXCEPT !.stage = "put", !.text = t]]},
             missed' = missed
      PROVE  Held'
  <2>1. PICK g : g = [f EXCEPT !.stage = "put", !.text = t]
    OBVIOUS
  <2>2. g.stage = "put" /\ g.text = t /\ g.found = f.found
    BY <2>1 DEF Flight
  <2>3. PICK n : n = [o EXCEPT !.flight = g]
    OBVIOUS
  <2>4. n.flight = g /\ n.last = o.last
    BY <1>0, <2>3 DEF Parting
  <2>5. left' = (left \ {o}) \cup {n}
    BY <1>8, <2>1, <2>3
  <2>6. \A e \in Edit : e \in o.flight.text \cup o.last => e \in landed' \/ e \in n.flight.text \cup n.last
    BY <1>1, <1>2, <1>4, <1>8, <2>2, <2>4
  <2> QED BY <1>0, <1>2, <1>4, <1>5, <1>8, <2>2, <2>4, <2>5, <2>6, LeftHolds
<1>9. PICK t : t = IF f.stage = "ok" THEN o.last ELSE f.text
  OBVIOUS
<1>10. [f EXCEPT !.stage = "put", !.text = t]
       = [f EXCEPT !.stage = "put", !.text = IF f.stage = "ok" THEN o.last ELSE @]
  BY <1>9 DEF Flight
<1>11. \/ left' = left \ {o} /\ missed' = missed \cup ((Edit \cap (f.text \cup o.last)) \ landed)
       \/ left' = (left \ {o}) \cup {} /\ f.stage = "ok" /\ f.text = o.last /\ missed' = missed
       \/ /\ left' = (left \ {o}) \cup {[o EXCEPT !.flight = [f EXCEPT !.stage = "put", !.text = t]]}
          /\ missed' = missed
  BY <1>1, <1>10, Zenon DEF LeftAnswer
<1> QED BY <1>6, <1>7, <1>8, <1>9, <1>11

\* What is typed on a page that is left is accepted, or its error was seen;
\* otherwise the cleanup flushes it, or a flight goes on that it follows.
LEMMA LeavingTyped ==
  ASSUME Inv, Held, LeftWithError
  PROVE  /\ missed \subseteq missed' /\ Edit \cap text \subseteq Typed \cup landed
         /\ \/ Typed \subseteq landed \cup missed'
            \/ /\ Dirty /\ status # "error" /\ flight.stage = "none" /\ Flushes /\ Flushed.text = text
            \/ /\ Dirty /\ status # "error" /\ flight.stage # "none"
               /\ \/ Flushes
                  \/ waiting = epoch /\ Stale
                  \/ ~Stale /\ (requested \/ Typed \subseteq flight.text)
<1>0. TypeOK /\ Generations /\ Modes /\ UnsavedIsPending
  BY DEF Inv
<1>1. missed \subseteq missed' /\ (status = "error" => Typed \subseteq landed \cup missed')
  BY DEF LeftWithError
<1>2. Edit \cap text \subseteq Typed \cup landed
  BY PagesHold DEF Typed
<1>3. CASE Typed = {} \/ status = "error"
  BY <1>1, <1>2, <1>3
<1>4. CASE Typed # {} /\ status # "error"
  <2>1. Dirty /\ text # base
    BY <1>0, <1>4 DEF Generations, Typed
  <2>2. \/ timer
        \/ waiting = epoch /\ flight.stage # "none"
        \/ ~Stale /\ flight.stage # "none" /\ (requested \/ Typed \subseteq flight.text)
    BY <1>0, <1>4 DEF UnsavedIsPending
  <2>3. timer => Flushes
    BY <1>0, <1>4 DEF Flushes, Modes
  <2>4. waiting = epoch => Stale
    BY <1>0 DEF Modes
  <2>5. flight.stage = "none" /\ Flushes => Flushed.text = text
    <3>1. ASSUME flight.stage = "none", Flushes
          PROVE  Flushed.text = text
      BY <2>1, <3>1 DEF Flushed
    <3> QED BY <3>1
  <2> QED BY <1>1, <1>2, <1>4, <2>1, <2>2, <2>3, <2>4, <2>5
<1> QED BY <1>3, <1>4

\* What opens a page shows is accepted.
LEMMA OpenedHolds ==
  ASSUME Inv, Held, NEW q \in Page, Opened(q)
  PROVE  /\ Edit \cap (fetch'.page.text \cup base') \subseteq landed
         /\ \A p \in Page : Edit \cap (server'[p].text \cup cache'[p].text) \subseteq landed
         /\ landed' = landed /\ given' = given /\ typed' = typed
<1>1. /\ base' = cache[q].text /\ fetch' = [Idle EXCEPT !.stage = "sent"]
      /\ UNCHANGED <<remote, landed, given, typed>>
  BY DEF Opened
<1>2. server' = server /\ cache' = cache
  BY <1>1 DEF remote
<1>3. fetch'.page.text = {}
  <2>1. [Idle EXCEPT !.stage = "sent"].page = Idle.page
    BY DEF Idle
  <2> QED BY <1>1, <2>1, IdleIs
<1> QED BY <1>1, <1>2, <1>3, PagesHold

\* To the next lifecycle, whatever is in flight is an older one's.
LEMMA OlderFlight ==
  ASSUME Inv, epoch' = epoch + 1, flight' = Flushed
  PROVE  ~Flying'
<1>0. TypeOK /\ Modes /\ flight \in Flight /\ epoch \in Nat
  BY DEF Inv, TypeOK
<1>1. flight.stage # "none" => flight.epoch \in Nat /\ flight.epoch <= epoch
  BY <1>0, FlightFields DEF Modes
<1>2. flight'.stage # "none" => flight'.epoch \in Nat /\ flight'.epoch <= epoch
  BY <1>0, <1>1, FlushedIs
<1> QED BY <1>0, <1>2 DEF Flying, Stale

\* The hook is given another page.
LEMMA RerenderHolds ==
  ASSUME Inv, Held, NEW q \in Page, Rerender(q)
  PROVE  Held'
<1>0. TypeOK /\ Modes /\ flight \in Flight /\ epoch \in Nat
  BY DEF Inv, TypeOK
<1>1. /\ Opened(q) /\ epoch' = epoch + 1 /\ flight' = Flushed /\ left' = left /\ LeftWithError
      /\ stranded' = IF flight.stage # "none" /\ Dirty /\ status # "error"
                     THEN stranded \cup ((Typed \ (IF flight.stage = "none" \/ Stale THEN {} ELSE flight.text)) \ landed)
                     ELSE stranded
  BY Zenon DEF Rerender
<1>2. /\ Edit \cap (fetch'.page.text \cup base') \subseteq landed
      /\ \A p \in Page : Edit \cap (server'[p].text \cup cache'[p].text) \subseteq landed
      /\ landed' = landed /\ given' = given /\ typed' = typed
  BY <1>1, OpenedHolds
<1>3. \/ flight' = flight
      \/ /\ flight.stage = "none" /\ flight'.stage \in {"ensure", "put"} /\ flight'.text = text
         /\ flight'.found = {}
  BY <1>0, <1>1, FlushedIs
<1>4. flight.stage = "none" => flight.text = {}
  BY DEF Held, Carried
<1>5. ~Flying'
  BY <1>1, OlderFlight
<1>6. Accepted'
  BY <1>1, <1>2, <1>3 DEF Held, Accepted
<1>7. Carried'
  BY <1>3, <1>4, <1>5 DEF Carried
<1>8. stranded \subseteq stranded' /\ missed \subseteq missed'
  BY <1>1, LeavingTyped
<1>9. Edit \cap text \subseteq flight'.text \cup landed \cup missed' \cup stranded'
  <2>1. CASE Typed \subseteq landed \cup missed'
    BY <1>1, <2>1, LeavingTyped
  <2>2. CASE Dirty /\ status # "error" /\ flight.stage = "none" /\ Flushes /\ Flushed.text = text
    BY <1>1, <2>2
  <2>3. CASE Dirty /\ status # "error" /\ flight.stage # "none"
    <3>1. stranded' = stranded \cup ((Typed \ (IF Stale THEN {} ELSE flight.text)) \ landed)
      BY <1>1, <2>3
    <3>2. flight'.text = flight.text
      BY <1>3, <2>3
    <3>3. Typed \subseteq flight'.text \cup landed \cup stranded'
      BY <3>1, <3>2
    <3> QED BY <1>1, <3>3, LeavingTyped
  <2> QED BY <1>1, <2>1, <2>2, <2>3, LeavingTyped
<1>10. flight.text \subseteq flight'.text
  BY <1>3, <1>4
<1>11. Parted' = Parted
  BY <1>1 DEF Parted
<1>12. Kept'
  BY <1>0, <1>2, <1>8, <1>9, <1>10, <1>11, TypedAreEdits DEF Held, Kept
<1> QED BY <1>6, <1>7, <1>12 DEF Held

\* The hook is unmounted: what it had goes on in its flight.
LEMMA RemountHolds ==
  ASSUME Inv, Held, NEW q \in Page, Remount(q)
  PROVE  Held'
<1>0. TypeOK /\ Modes /\ flight \in Flight /\ epoch \in Nat /\ flight.epoch \in Nat
  BY FlightFields DEF Inv, TypeOK
<1>1. PICK last : last = IF requested \/ Flushes THEN text ELSE flight.text
  OBVIOUS
<1>2. /\ Opened(q) /\ epoch = 1 /\ flight' = Grounded /\ stranded' = stranded /\ LeftWithError
      /\ left' = IF Flushed.stage = "none" THEN left
                 ELSE left \cup {[flight |-> [Flushed EXCEPT !.gen = 0], last |-> last]}
  BY <1>1 DEF Remount
<1>3. flight.stage # "none" => ~Stale
  BY <1>0, <1>2 DEF Modes, Stale
<1>4. /\ Edit \cap (fetch'.page.text \cup base') \subseteq landed
      /\ \A p \in Page : Edit \cap (server'[p].text \cup cache'[p].text) \subseteq landed
      /\ landed' = landed /\ given' = given /\ typed' = typed
  BY <1>2, OpenedHolds
<1>5. flight'.stage = "none" /\ flight'.text = {} /\ flight'.found = {}
  BY <1>0, <1>2, GroundedIs
<1>6. PICK f \in Flight : f = Flushed
  BY <1>0, FlushedIs
<1>7. \/ f = flight
      \/ /\ flight.stage = "none" /\ f.stage \in {"ensure", "put"} /\ f.text = text /\ f.found = {}
         /\ Flushes
  BY <1>0, <1>6, FlushedIs
<1>8. PICK n : n = [flight |-> [f EXCEPT !.gen = 0], last |-> last]
  OBVIOUS
<1>9. n.flight.stage = f.stage /\ n.flight.text = f.text /\ n.flight.found = f.found /\ n.last = last
  BY <1>8 DEF Flight
<1>10. left' = IF f.stage = "none" THEN left ELSE left \cup {n}
  BY <1>2, <1>6, <1>8
<1>11. Accepted'
  <2>1. f.stage = "ok" => Edit \cap f.text \subseteq landed
    BY <1>7 DEF Held, Accepted
  <2>2. Edit \cap f.found \subseteq landed
    BY <1>7 DEF Held, Accepted
  <2> QED BY <1>4, <1>5, <1>9, <1>10, <2>1, <2>2 DEF Held, Accepted
<1>12. Carried'
  BY <1>5 DEF Carried, Flying
<1>13. flight.stage = "none" => flight.text = {}
  BY DEF Held, Carried
<1>14. Parted \subseteq Parted' /\ (f.stage # "none" => f.text \cup last \subseteq Parted')
  BY <1>9, <1>10 DEF Parted
<1>15. flight.text \subseteq Parted'
  BY <1>7, <1>13, <1>14
<1>16. Edit \cap text \subseteq landed \cup missed' \cup Parted'
  <2>1. CASE Typed \subseteq landed \cup missed'
    BY <1>2, <2>1, LeavingTyped
  <2>2. CASE Dirty /\ status # "error" /\ flight.stage = "none" /\ Flushes /\ Flushed.text = text
    <3>1. last = text
      BY <1>1, <2>2
    <3>2. f.stage # "none" \/ text = {}
      BY <1>6, <1>7, <1>13, <2>2
    <3> QED BY <1>14, <3>1, <3>2
  <2>3. CASE /\ flight.stage # "none"
             /\ \/ Flushes
                \/ waiting = epoch /\ Stale
                \/ ~Stale /\ (requested \/ Typed \subseteq flight.text)
    <3>1. f.stage # "none" /\ f = flight
      BY <1>7, <2>3
    <3>2. last = text \/ Typed \subseteq flight.text
      BY <1>1, <1>3, <2>3
    <3>3. Typed \subseteq Parted'
      BY <1>14, <1>15, <3>1, <3>2 DEF Typed
    <3> QED BY <1>2, <3>3, LeavingTyped
  <2> QED BY <1>2, <2>1, <2>2, <2>3, LeavingTyped
<1>17. missed \subseteq missed'
  BY <1>2, LeavingTyped
<1>18. Kept'
  BY <1>0, <1>2, <1>4, <1>14, <1>15, <1>16, <1>17, TypedAreEdits DEF Held, Kept
<1> QED BY <1>11, <1>12, <1>18 DEF Held

\* Nothing is typed at first.
LEMMA HeldBegins ==
  ASSUME Init
  PROVE  Held
<1>1. Nothing.text = {} /\ fetch.page = Nothing
  <2>1. [Idle EXCEPT !.stage = "sent"].page = Idle.page
    BY DEF Idle
  <2> QED BY <2>1, IdleIs DEF Init
<1>2. flight.stage = "none" /\ flight.text = {} /\ flight.found = {}
  BY DEF Init, Grounded
<1>3. \A p \in Page : server[p].text = {} /\ cache[p].text = {}
  BY <1>1 DEF Init
<1>4. text = {} /\ base = {} /\ landed = {} /\ left = {} /\ typed = 0
  BY DEF Init
<1>5. Accepted
  BY <1>1, <1>2, <1>3, <1>4 DEF Accepted
<1>6. Carried
  BY <1>2 DEF Carried, Flying
<1>7. Kept
  BY <1>4 DEF Kept
<1> QED BY <1>5, <1>6, <1>7 DEF Held

\* Every step leaves every edit somewhere.
LEMMA HeldKeeps ==
  ASSUME Inv, Held, [Next]_vars
  PROVE  Held'
<1>1. CASE Next
  <2>1. CASE \E q \in Page : Rerender(q) \/ Remount(q)
    BY <2>1, RerenderHolds, RemountHolds
  <2>2. CASE \E o \in left : LeftServed(o) \/ LeftAnswer(o)
    BY <2>2, LeftServedHolds, LeftAnswerHolds
  <2>3. CASE \E p \in Page, x \in Foreign : ForeignWrite(p, x)
    BY <2>3, ForeignHolds
  <2>4. CASE \E x \in Foreign : ApplyGenerated(x)
    BY <2>4, ApplyHolds
  <2> QED BY <1>1, <2>1, <2>2, <2>3, <2>4, TypeHolds, SaveHolds, RepliesHold, EnsureHolds,
             PutHolds, FailsHolds, AsideHolds, FetchHolds, ReloadHolds DEF Next
<1> QED BY <1>1, AsideHolds

-----------------------------------------------------------------------------
(* Each step leaves whoever names a revision informed.                     *)

\* A page changes with its revision.
Advances == \A p \in Page : server'[p] = server[p] \/ server[p].rev < server'[p].rev

\* What is known of a page stays known.
LEMMA KnownStays ==
  ASSUME NEW at \in Content, NEW next \in Content, next = at \/ at.rev < next.rev,
         NEW r \in Nat, NEW t, Known(at, r, t)
  PROVE  Known(next, r, t)
<1>1. at.rev \in Nat /\ next.rev \in Nat
  BY DEF Content
<1> QED BY <1>1 DEF Known

\* A flight that knows what it names still does.
LEMMA SoundStays ==
  ASSUME NEW pages \in [Page -> Content], NEW next \in [Page -> Content],
         \A p \in Page : next[p] = pages[p] \/ pages[p].rev < next[p].rev,
         NEW f \in Flight, Sound(pages, f)
  PROVE  Sound(next, f)
<1>1. f.path \in Page /\ f.rev \in Nat
  BY FlightFields
<1>2. pages[f.path] \in Content /\ next[f.path] \in Content
  BY <1>1
<1>3. \A t : Known(pages[f.path], f.rev, t) => Known(next[f.path], f.rev, t)
  BY <1>1, <1>2, KnownStays
<1> QED BY <1>3 DEF Sound

\* Everybody's knowledge outlives a step of the server.
LEMMA InformsStays ==
  ASSUME TypeOK, Informed, NEW next \in [Page -> Content],
         \A p \in Page : next[p] = server[p] \/ server[p].rev < next[p].rev
  PROVE  Informs(next)
<1>1. \A p \in Page : server[p] \in Content /\ next[p] \in Content /\ cache[p] \in Content
  BY DEF TypeOK
<1>2. \A p \in Page, r \in Nat : \A t : Known(server[p], r, t) => Known(next[p], r, t)
  BY <1>1, KnownStays
<1>3. \A p \in Page : cache[p].rev \in Nat
  BY <1>1 DEF Content
<1>4. path \in Page /\ rev \in Nat /\ fetch.page.rev \in Nat
  BY DEF TypeOK, Content
<1>5. server \in [Page -> Content]
  BY DEF TypeOK
<1>6. \A f \in Flight : Sound(server, f) => Sound(next, f)
  BY <1>5, SoundStays
<1>7. flight \in Flight /\ \A o \in left : o.flight \in Flight
  BY DEF TypeOK
<1>8. \A p \in Page : Known(next[p], cache[p].rev, cache[p].text)
  BY <1>2, <1>3 DEF Informed, Informs
<1>9. Known(next[path], rev, text)
      /\ (fetch.stage = "answered" => Known(next[path], fetch.page.rev, fetch.page.text))
  BY <1>2, <1>4 DEF Informed, Informs
<1>10. Sound(next, flight) /\ \A o \in left : Follows(next, o)
  BY <1>6, <1>7 DEF Informed, Informs, Follows
<1> QED BY <1>8, <1>9, <1>10 DEF Informed, Informs

\* The server acts on a sound request: the page keeps what others wrote, its
\* revision tells it from what it was, and the reply knows it.
LEMMA ServedAdvances ==
  ASSUME Inv, NEW f \in Flight, Sound(server, f), NEW r \in Replies(f), Served(f, r)
  PROVE  /\ server' \in [Page -> Content] /\ Advances
         /\ \A p \in Page : server[p].text \cap Foreign \subseteq server'[p].text
         /\ Sound(server', r.flight)
<1>1. /\ server' \in [Page -> Content] /\ server'[f.path] = r.page
      /\ \A p \in Page : p # f.path => server'[p] = server[p]
      /\ server[f.path] \in Content
  BY ServedPages
<1>2. PICK at \in Content : at = server[f.path]
  BY <1>1
<1>3. at.rev \in Nat /\ f.path \in Page /\ f.rev \in Nat /\ (at.rev = 0 => at.text = {})
  BY <1>2, FlightFields DEF Content, Inv, Absences, Absent
<1>4. /\ r.flight \in Flight /\ r.flight.path = f.path /\ r.flight.text = f.text
      /\ f.stage = "ensure" => r.flight.stage \in {"ensured", "failed"}
      /\ f.stage = "put" => r.flight.stage \in {"ok", "refused", "failed"}
      /\ f.stage \in {"ensure", "put"}
      /\ r.page \in Content
      /\ r.flight.stage \in {"ensured", "ok"} => r.flight.rev = r.page.rev
      /\ r.flight.stage = "ensured" => r.flight.found = at.text /\ r.page.text = at.text
      /\ r.flight.stage = "ensured" => (r.flight.made => at.rev = 0)
      /\ r.flight.stage = "ok" => r.page.text = f.text
  BY <1>2, ReplyIs
<1>5. \/ r.page = at
      \/ f.stage = "ensure" /\ at.rev = 0 /\ r.page.rev = 1 /\ r.page.text = at.text
      \/ f.stage = "put" /\ at.rev # 0 /\ f.rev = at.rev /\ r.page.rev = at.rev + 1
         /\ r.page.text = f.text
  BY <1>2, ReplyIs
<1>6. f.stage = "put" => Known(at, f.rev, f.text)
  BY <1>2 DEF Sound
<1>7. (r.page = at \/ at.rev < r.page.rev) /\ at.text \cap Foreign \subseteq r.page.text
  BY <1>3, <1>5, <1>6 DEF Known
<1>8. Advances /\ \A p \in Page : server[p].text \cap Foreign \subseteq server'[p].text
  BY <1>1, <1>2, <1>7 DEF Advances
<1>9. r.page.rev \in Nat
  BY <1>4 DEF Content
<1>10. Sound(server', r.flight)
  BY <1>1, <1>3, <1>4, <1>9 DEF Sound, Known
<1> QED BY <1>1, <1>8, <1>10

\* A foreign edit joins a page.
LEMMA JoinAdvances ==
  ASSUME TypeOK, NEW q \in Page, NEW x \in Foreign,
         server' = [server EXCEPT ![q] = [rev |-> server[q].rev + 1, text |-> server[q].text \cup {x}]]
  PROVE  /\ server' \in [Page -> Content] /\ Advances
         /\ \A p \in Page : server[p].text \cap Foreign \subseteq server'[p].text
         /\ server'[q].rev = server[q].rev + 1 /\ server'[q].text = server[q].text \cup {x}
<1>1. PICK at \in Content : at = server[q]
  BY DEF TypeOK
<1>2. PICK v \in Nat, t \in SUBSET (Edit \cup Foreign) : v = at.rev + 1 /\ t = at.text \cup {x} /\ at.rev < v
  <2>1. at.rev + 1 \in Nat /\ at.rev < at.rev + 1
    BY DEF Content
  <2>2. at.text \cup {x} \in SUBSET (Edit \cup Foreign)
    BY DEF Content
  <2> QED BY <2>1, <2>2
<1>3. PICK n \in Content : n = [rev |-> v, text |-> t] /\ n.rev = v /\ n.text = t
  <2>1. /\ [rev |-> v, text |-> t] \in Content
        /\ [rev |-> v, text |-> t].rev = v /\ [rev |-> v, text |-> t].text = t
    BY DEF Content
  <2> QED BY <2>1
<1>4. server' = [server EXCEPT ![q] = n]
  BY <1>1, <1>2, <1>3
<1>5. server' \in [Page -> Content] /\ server'[q] = n /\ \A p \in Page : p # q => server'[p] = server[p]
  BY <1>4 DEF TypeOK
<1> QED BY <1>1, <1>2, <1>3, <1>5 DEF Advances

\* Every step of a server keeps what others wrote.
LEMMA ServerAdvances ==
  ASSUME Inv, Informed, [Next]_vars
  PROVE  /\ server' \in [Page -> Content] /\ Advances
         /\ \A p \in Page : server[p].text \cap Foreign \subseteq server'[p].text
<1>0. TypeOK /\ server \in [Page -> Content]
  BY DEF Inv, TypeOK
<1>1. CASE server' = server
  BY <1>0, <1>1 DEF Advances
<1>2. CASE ServerReplies
  <2>1. PICK r \in Replies(flight) : Served(flight, r)
    BY <1>2 DEF ServerReplies
  <2>2. flight \in Flight /\ Sound(server, flight)
    BY <1>0 DEF TypeOK, Informed, Informs
  <2> QED BY <2>1, <2>2, ServedAdvances
<1>3. CASE \E o \in left : LeftServed(o)
  <2>1. PICK o \in left : LeftServed(o)
    BY <1>3
  <2>2. PICK f \in Flight : f = o.flight
    BY <1>0 DEF TypeOK
  <2>3. PICK r \in Replies(f) : Served(f, r)
    BY <2>1, <2>2 DEF LeftServed
  <2>4. Sound(server, f)
    BY <2>2 DEF Informed, Informs, Follows
  <2> QED BY <2>3, <2>4, ServedAdvances
<1>4. CASE \E p \in Page, x \in Foreign : ForeignWrite(p, x)
  <2>1. PICK q \in Page, x \in Foreign : ForeignWrite(q, x)
    BY <1>4
  <2>2. server' = [server EXCEPT ![q] = [rev |-> server[q].rev + 1, text |-> server[q].text \cup {x}]]
    BY <2>1 DEF ForeignWrite
  <2> QED BY <1>0, <2>2, JoinAdvances
<1>5. CASE \E x \in Foreign : ApplyGenerated(x)
  <2>1. PICK x \in Foreign : ApplyGenerated(x)
    BY <1>5
  <2>2. PICK q \in Page : q = path
    BY <1>0 DEF TypeOK
  <2>3. \/ server' = [server EXCEPT ![q] = [rev |-> server[q].rev + 1, text |-> server[q].text \cup {x}]]
        \/ server' = server
    BY <2>1, <2>2 DEF ApplyGenerated
  <2> QED BY <1>0, <1>1, <2>3, JoinAdvances
<1>6. CASE \E q \in Page : Rerender(q) \/ Remount(q)
  <2>1. server' = server
    BY <1>6 DEF Rerender, Remount, Opened, remote
  <2> QED BY <1>1, <2>1
<1>7. CASE \E o \in left : LeftAnswer(o)
  <2>1. server' = server
    BY <1>7 DEF LeftAnswer, remote
  <2> QED BY <1>1, <2>1
<1>8. CASE Type \/ Undo \/ Save \/ BeginGeneratedChange \/ EnsureAnswer \/ PutAnswer \/ SaveFails
  <2>1. server' = server
    BY <1>8 DEF Type, Undo, Edited, Save, BeginGeneratedChange, EnsureAnswer, PutAnswer, SaveFails, remote
  <2> QED BY <1>1, <2>1
<1>9. CASE Refetch \/ ServerGet \/ FetchAnswer \/ FetchFails \/ Reload \/ ReloadAnswer \/ Drained \/ CancelGenerated
  <2>1. server' = server
    BY <1>9 DEF Refetch, ServerGet, FetchAnswer, FetchFails, Reload, ReloadAnswer, Drained,
                CancelGenerated, remote
  <2> QED BY <1>1, <2>1
<1>10. CASE UNCHANGED vars
  <2>1. server' = server
    BY <1>10 DEF vars, remote
  <2> QED BY <1>1, <2>1
<1> QED BY <1>2, <1>3, <1>4, <1>5, <1>6, <1>7, <1>8, <1>9, <1>10 DEF Next

\* A step of the buffer and of the query, beside every flight.
LEMMA BufferInforms ==
  ASSUME NEW pages, pages = server', Informs(pages), UNCHANGED <<epoch, path, flight, left>>,
         \A p \in Page : \/ cache'[p] = cache[p]
                         \/ cache'[p] = fetch.page /\ p = path /\ fetch.stage = "answered",
         fetch'.stage = "answered" => fetch' = fetch \/ fetch'.page = pages[path],
         Known(pages[path], rev', text'),
         Flying => flight.text \cap Foreign \subseteq text',
         pages[path].rev \in Nat
  PROVE  Informed'
<1>1. \A p \in Page : Known(pages[p], cache'[p].rev, cache'[p].text)
  BY DEF Informs
<1>2. Known(pages[path], pages[path].rev, pages[path].text)
  BY DEF Known
<1>3. fetch'.stage = "answered" => Known(pages[path], fetch'.page.rev, fetch'.page.text)
  BY <1>2 DEF Informs
<1>4. Sound(pages, flight) /\ (Flying => flight.path = path)
      /\ \A o \in left : Follows(pages, o)
  BY DEF Informs
<1>5. Flying' => Flying
  BY DEF Flying, Stale
<1> QED BY <1>1, <1>3, <1>4, <1>5 DEF Informed, Informs

\* The steps that change no flight.
LEMMA QuietInforms ==
  ASSUME Inv, NEW pages \in [Page -> Content], pages = server', Informs(pages),
         \/ UNCHANGED vars \/ Type \/ Undo \/ Refetch \/ ServerGet \/ FetchFails \/ Reload
         \/ Drained \/ CancelGenerated \/ \E p \in Page, x \in Foreign : ForeignWrite(p, x)
  PROVE  Informed'
<1>0. TypeOK /\ path \in Page /\ pages[path].rev \in Nat /\ fetch \in Pages
  BY DEF Inv, TypeOK, Content, Pages
<1>1. UNCHANGED <<epoch, path, flight, left, cache, rev>>
  BY DEF vars, Type, Undo, Edited, Refetch, ServerGet, FetchFails, Reload, Drained, CancelGenerated,
         ForeignWrite, remote, buffer, saving
<1>2. text \cap Foreign \subseteq text'
  <2>1. CASE Type \/ Undo
    BY <2>1, PageEditorAssumption DEF Type, Undo, Edited, Typed, Edit
  <2>2. CASE ~(Type \/ Undo)
    <3>1. text' = text
      BY <2>2 DEF vars, Refetch, ServerGet, FetchFails, Reload, Drained, CancelGenerated,
                  ForeignWrite, buffer
    <3> QED BY <3>1
  <2> QED BY <2>1, <2>2
<1>3. fetch'.stage = "answered" => fetch' = fetch \/ fetch'.page = pages[path]
  <2>1. CASE ServerGet
    <3>1. pages = server
      BY <2>1 DEF ServerGet, remote
    <3> QED BY <1>0, <2>1, <3>1 DEF ServerGet, Pages
  <2>2. CASE Refetch
    BY <1>0, <2>2 DEF Refetch, Pages
  <2>3. CASE FetchFails
    BY <2>3 DEF FetchFails, Idle
  <2>4. CASE Reload
    BY <2>4 DEF Reload, Idle
  <2>5. CASE \/ UNCHANGED vars \/ Type \/ Undo \/ Drained \/ CancelGenerated
             \/ \E p \in Page, x \in Foreign : ForeignWrite(p, x)
    BY <2>5 DEF vars, Type, Undo, Edited, Drained, CancelGenerated, ForeignWrite
  <2> QED BY <2>1, <2>2, <2>3, <2>4, <2>5
<1>4. Known(pages[path], rev', text')
  BY <1>1, <1>2 DEF Informs, Known
<1>5. Flying => flight.text \cap Foreign \subseteq text'
  BY <1>2 DEF Informs
<1> QED BY <1>0, <1>1, <1>3, <1>4, <1>5, BufferInforms

\* The steps that replace the text: by what the query answered, or by what a
\* generated change has made of the page.
LEMMA AdoptInforms ==
  ASSUME Inv, NEW pages \in [Page -> Content], pages = server', Informs(pages),
         FetchAnswer \/ ReloadAnswer \/ \E x \in Foreign : ApplyGenerated(x)
  PROVE  Informed'
<1>0. TypeOK /\ Modes /\ Generations /\ path \in Page /\ pages[path].rev \in Nat /\ cache \in [Page -> Content]
  BY DEF Inv, TypeOK, Content
<1>1. UNCHANGED <<epoch, path, flight, left>>
  BY DEF FetchAnswer, ReloadAnswer, ApplyGenerated
<1>2. CASE FetchAnswer \/ ReloadAnswer
  <2>1. fetch.stage = "answered" /\ cache' = [cache EXCEPT ![path] = fetch.page] /\ fetch' = Idle
    BY <1>2 DEF FetchAnswer, ReloadAnswer
  <2>2. \A p \in Page : \/ cache'[p] = cache[p]
                        \/ cache'[p] = fetch.page /\ p = path /\ fetch.stage = "answered"
    BY <1>0, <2>1
  <2>3. fetch'.stage # "answered"
    BY <2>1 DEF Idle
  <2>4. \/ text' = text /\ rev' = rev
        \/ text' = fetch.page.text /\ rev' = fetch.page.rev /\ (~Dirty \/ fetch.reload)
    BY <1>2 DEF FetchAnswer, ReloadAnswer, Adopt
  <2>5. Known(pages[path], rev', text')
    BY <2>1, <2>4 DEF Informs
  <2>6. ~Dirty \/ fetch.reload => ~Flying
    <3>1. gen \in Nat /\ savedGen \in Nat /\ flight.gen \in Nat
      BY <1>0, FlightFields DEF TypeOK
    <3>2. ~Dirty => ~Flying
      BY <1>0, <3>1 DEF Generations, Dirty
    <3> QED BY <1>0, <3>2 DEF Modes
  <2>7. Flying => flight.text \cap Foreign \subseteq text'
    BY <2>4, <2>6 DEF Informs
  <2> QED BY <1>0, <1>1, <2>2, <2>3, <2>5, <2>7, BufferInforms
<1>3. CASE \E x \in Foreign : ApplyGenerated(x)
  <2>1. PICK x \in Foreign : ApplyGenerated(x)
    BY <1>3
  <2>2. session = "open" /\ cache' = cache /\ fetch' = fetch
    BY <2>1 DEF ApplyGenerated
  <2>3. ~Flying
    BY <1>0, <2>2 DEF Modes
  <2>4. PICK q \in Page : q = path
    BY <1>0
  <2>5. CASE text' = text /\ rev' = rev
    BY <1>0, <1>1, <2>2, <2>3, <2>5, BufferInforms DEF Informs
  <2>6. CASE /\ server' = [server EXCEPT ![q] = [rev |-> server[q].rev + 1, text |-> server[q].text \cup {x}]]
             /\ text' = server[q].text \cup {x} /\ rev' = server[q].rev + 1
    <3>1. pages[q].rev = rev' /\ pages[q].text = text'
      BY <1>0, <2>6, JoinAdvances
    <3>2. Known(pages[path], rev', text')
      BY <1>0, <2>4, <3>1 DEF Known
    <3> QED BY <1>0, <1>1, <2>2, <2>3, <3>2, BufferInforms
  <2> QED BY <2>1, <2>4, <2>5, <2>6 DEF ApplyGenerated
<1> QED BY <1>2, <1>3

\* A step of the flight, beside the text and the pages.
LEMMA FlightInforms ==
  ASSUME NEW pages, pages = server', Informs(pages), UNCHANGED <<epoch, path, text, left, cache>>,
         fetch' = fetch \/ fetch'.stage # "answered",
         Known(pages[path], rev', text), Sound(pages, flight'),
         Flying' => flight'.path = path /\ flight'.text \cap Foreign \subseteq text
  PROVE  Informed'
<1>1. /\ \A p \in Page : Known(pages[p], cache[p].rev, cache[p].text)
      /\ fetch.stage = "answered" => Known(pages[path], fetch.page.rev, fetch.page.text)
      /\ \A o \in left : Follows(pages, o)
  BY DEF Informs
<1> QED BY <1>1 DEF Informed, Informs

\* A pass that takes off names what it knows.
LEMMA PassInforms ==
  ASSUME Inv, NEW pages, pages = server', Informs(pages), StartPass,
         UNCHANGED <<epoch, path, text, left, cache, fetch, rev>>
  PROVE  Informed'
<1>0. TypeOK /\ Generations
  BY DEF Inv
<1>1. \/ /\ flight'.stage \in {"ensure", "put"} /\ flight'.path = path /\ flight'.rev = rev
         /\ flight'.text = text
      \/ flight'.stage = "none"
  BY <1>0, StartPassIs
<1>2. Known(pages[path], rev, text)
  BY DEF Informs
<1>3. Sound(pages, flight')
  BY <1>1, <1>2 DEF Sound
<1>4. Flying' => flight'.path = path /\ flight'.text \cap Foreign \subseteq text
  BY <1>1 DEF Flying
<1> QED BY <1>2, <1>3, <1>4, FlightInforms

\* doSave.
LEMMA SaveInforms ==
  ASSUME Inv, NEW pages, pages = server', Informs(pages), Save \/ BeginGeneratedChange
  PROVE  Informed'
<1>1. DoSave /\ UNCHANGED <<remote, path, epoch, left, text, rev, fetch>>
  BY DEF Save, BeginGeneratedChange
<1>2. cache' = cache
  BY <1>1 DEF remote
<1>3. CASE flight' = flight
  <2>1. Flying' => Flying
    BY <1>1, <1>3 DEF Flying, Stale
  <2> QED BY <1>1, <1>2, <1>3, <2>1, FlightInforms DEF Informs
<1>4. CASE StartPass
  BY <1>1, <1>2, <1>4, PassInforms
<1> QED BY <1>1, <1>3, <1>4 DEF DoSave, saving

\* The flight ends, or a save that waited takes off.
LEMMA LandInforms ==
  ASSUME Inv, NEW pages, pages = server', Informs(pages), flight' = Grounded \/ StartPass,
         UNCHANGED <<epoch, path, text, left, cache, fetch, rev>>
  PROVE  Informed'
<1>0. TypeOK
  BY DEF Inv
<1>1. CASE flight' = Grounded
  <2>1. flight'.stage = "none"
    BY <1>0, <1>1, GroundedIs
  <2>2. Sound(pages, flight') /\ ~Flying'
    BY <2>1 DEF Sound, Flying
  <2> QED BY <2>2, FlightInforms DEF Informs
<1> QED BY <1>1, PassInforms

\* The answers that a flight gets.
LEMMA AnswerInforms ==
  ASSUME Inv, NEW pages, pages = server', Informs(pages), EnsureAnswer \/ PutAnswer \/ SaveFails
  PROVE  Informed'
<1>0. TypeOK /\ Modes /\ flight \in Flight
  BY DEF Inv, TypeOK
<1>1. UNCHANGED <<remote, path, epoch, left, text>>
  BY DEF EnsureAnswer, PutAnswer, SaveFails
<1>2. cache' = cache
  BY <1>1 DEF remote
<1>3. CASE fetch' = fetch /\ rev' = rev /\ (flight' = Grounded \/ StartPass)
  BY <1>1, <1>2, <1>3, LandInforms
<1>4. CASE /\ flight.stage = "ensured" /\ ~(~flight.made /\ flight.found # {}) /\ fetch' = fetch
           /\ flight' = [flight EXCEPT !.stage = "put"]
           /\ rev' = IF Stale THEN rev ELSE flight.rev
  <2>1. /\ flight'.stage = "put" /\ flight'.epoch = flight.epoch /\ flight'.path = flight.path
        /\ flight'.rev = flight.rev /\ flight'.text = flight.text
    BY <1>0, <1>4, FlightMoves DEF Stages
  <2>2. Known(pages[flight.path], flight.rev, flight.found) /\ flight.found = {}
    BY <1>4 DEF Informs, Sound
  <2>3. \A t : Known(pages[flight.path], flight.rev, t)
    BY <2>2 DEF Known
  <2>4. Sound(pages, flight')
    BY <2>1, <2>3 DEF Sound
  <2>5. Flying' => Flying
    BY <1>1, <1>4, <2>1 DEF Flying, Stale
  <2>6. Flying' => flight'.path = path /\ flight'.text \cap Foreign \subseteq text
    BY <2>1, <2>5 DEF Informs
  <2>7. Known(pages[path], rev', text)
    <3>1. CASE Stale
      BY <1>4, <3>1 DEF Informs
    <3>2. CASE ~Stale
      <4>1. Flying
        BY <1>4, <3>2 DEF Flying
      <4>2. flight.path = path
        BY <4>1 DEF Informs
      <4> QED BY <1>4, <2>3, <3>2, <4>2
    <3> QED BY <3>1, <3>2
  <2> QED BY <1>1, <1>2, <1>4, <2>4, <2>6, <2>7, FlightInforms
<1>5. CASE /\ flight.stage = "ok" /\ ~Stale /\ rev' = flight.rev /\ fetch' = [fetch EXCEPT !.stage = "sent"]
           /\ \/ flight' = [flight EXCEPT !.stage = "put", !.text = text, !.gen = gen]
              \/ flight' = Grounded
  <2>1. fetch'.stage # "answered"
    BY <1>0, <1>5 DEF TypeOK
  <2>2. /\ flight.path = path /\ flight.text \cap Foreign \subseteq text
        /\ Known(pages[path], flight.rev, flight.text)
    BY <1>5 DEF Informs, Flying, Sound
  <2>3. Known(pages[path], rev', text)
    BY <1>5, <2>2 DEF Known
  <2>4. CASE flight' = Grounded
    <3>1. flight'.stage = "none"
      BY <1>0, <2>4, GroundedIs
    <3>2. Sound(pages, flight') /\ ~Flying'
      BY <3>1 DEF Sound, Flying
    <3> QED BY <1>1, <1>2, <2>1, <2>3, <3>2, FlightInforms
  <2>5. CASE flight' = [flight EXCEPT !.stage = "put", !.text = text, !.gen = gen]
    <3>1. flight'.stage = "put" /\ flight'.path = path /\ flight'.text = text /\ flight'.rev = rev'
      BY <1>0, <1>5, <2>2, <2>5 DEF Flight
    <3>2. Sound(pages, flight')
      BY <2>3, <3>1 DEF Sound
    <3> QED BY <1>1, <1>2, <2>1, <2>3, <3>1, <3>2, FlightInforms
  <2> QED BY <1>5, <2>4, <2>5
<1>6. CASE EnsureAnswer
  BY <1>3, <1>4, <1>6 DEF EnsureAnswer, Land
<1>7. CASE PutAnswer
  <2>1. CASE Stale
    BY <1>3, <1>7, <2>1 DEF PutAnswer, Land
  <2>2. CASE ~Stale
    <3>1. /\ flight.stage = "ok" /\ rev' = flight.rev /\ fetch' = [fetch EXCEPT !.stage = "sent"]
          /\ \/ flight' = [flight EXCEPT !.stage = "put", !.text = text, !.gen = gen]
             \/ flight' = Grounded
      BY <1>7, <2>2, Zenon DEF PutAnswer
    <3> QED BY <1>5, <2>2, <3>1
  <2> QED BY <2>1, <2>2
<1>8. CASE SaveFails
  <2>1. fetch' = fetch /\ rev' = rev /\ (flight' = Grounded \/ StartPass)
    BY <1>8 DEF SaveFails, Land
  <2> QED BY <1>3, <2>1
<1> QED BY <1>6, <1>7, <1>8

\* The reply to the editor's request.
LEMMA RepliesInform ==
  ASSUME Inv, Informed, NEW pages, pages = server', Informs(pages), ServerReplies
  PROVE  Informed'
<1>1. PICK r \in Replies(flight) : Served(flight, r) /\ flight' = r.flight /\ left' = left
  BY DEF ServerReplies
<1>2. flight \in Flight /\ Sound(server, flight)
  BY DEF Inv, TypeOK, Informed, Informs
<1>3. Sound(pages, flight')
  BY <1>1, <1>2, ServedAdvances
<1>4. /\ UNCHANGED <<path, epoch, text, rev, cache, fetch>> /\ server[flight.path] \in Content
  BY <1>1, <1>2, ServedPages
<1>5. /\ flight'.epoch = flight.epoch /\ flight'.path = flight.path /\ flight'.text = flight.text
      /\ flight.stage \in {"ensure", "put"}
  BY <1>1, <1>2, <1>4, ReplyIs
<1>6. Flying' => Flying
  BY <1>4, <1>5 DEF Flying, Stale
<1>7. Flying' => flight'.path = path /\ flight'.text \cap Foreign \subseteq text
  BY <1>5, <1>6 DEF Informs
<1>8. Known(pages[path], rev', text)
  BY <1>4 DEF Informs
<1> QED BY <1>1, <1>3, <1>4, <1>7, <1>8, FlightInforms

\* A step of the editors left behind.
LEMMA LeftInforms ==
  ASSUME NEW pages, pages = server', Informs(pages),
         UNCHANGED <<epoch, path, text, rev, cache, fetch, flight>>,
         \A n \in left' : n \in left \/ Follows(pages, n)
  PROVE  Informed'
<1>1. \A n \in left' : Follows(pages, n)
  BY DEF Informs
<1>2. Flying' => Flying
  BY DEF Flying, Stale
<1> QED BY <1>1, <1>2 DEF Informed, Informs

\* The server takes the request of an editor left behind.
LEMMA LeftServedInforms ==
  ASSUME Inv, Informed, NEW pages, pages = server', Informs(pages), NEW o \in left, LeftServed(o)
  PROVE  Informed'
<1>0. o \in Parting
  BY DEF Inv, TypeOK, Parting
<1>1. PICK f \in Flight : f = o.flight
  BY <1>0 DEF Parting
<1>2. PICK r \in Replies(f) : /\ Served(f, r) /\ flight' = flight
                              /\ left' = (left \ {o}) \cup {[o EXCEPT !.flight = r.flight]}
  BY <1>1 DEF LeftServed
<1>3. Sound(server, f) /\ f.text \cap Foreign \subseteq o.last
  BY <1>1 DEF Informed, Informs, Follows
<1>4. Sound(pages, r.flight)
  BY <1>2, <1>3, ServedAdvances
<1>5. /\ UNCHANGED <<path, epoch, text, rev, cache, fetch>> /\ server[f.path] \in Content
  BY <1>2, ServedPages
<1>6. r.flight.text = f.text /\ r.flight.stage # "none"
  BY <1>5, ReplyIs
<1>7. PICK n : n = [o EXCEPT !.flight = r.flight]
  OBVIOUS
<1>8. n.flight = r.flight /\ n.last = o.last
  BY <1>0, <1>7 DEF Parting
<1>9. \A m \in left' : m \in left \/ m = n
  BY <1>2, <1>7
<1>10. Follows(pages, n)
  BY <1>3, <1>4, <1>6, <1>8 DEF Follows
<1> QED BY <1>2, <1>5, <1>9, <1>10, LeftInforms

\* An editor left behind goes on to its last pass, or ends.
LEMMA LeftAnswerInforms ==
  ASSUME Inv, NEW pages, pages = server', Informs(pages), NEW o \in left, LeftAnswer(o)
  PROVE  Informed'
<1>0. o \in Parting
  BY DEF Inv, TypeOK, Parting
<1>1. PICK f \in Flight : f = o.flight
  BY <1>0 DEF Parting
<1>2. UNCHANGED <<remote, path, epoch, buffer, saving, fetch>>
  BY DEF LeftAnswer
<1>3. UNCHANGED <<epoch, path, text, rev, cache, fetch, flight>>
  BY <1>2 DEF remote, buffer, saving
<1>4. Sound(pages, f) /\ f.text \cap Foreign \subseteq o.last /\ f.stage # "none"
  BY <1>1 DEF Informs, Follows
<1>5. PICK t : t = IF f.stage = "ok" THEN o.last ELSE f.text
  OBVIOUS
<1>6. PICK g : g = [f EXCEPT !.stage = "put", !.text = t]
  OBVIOUS
<1>7. g = [f EXCEPT !.stage = "put", !.text = IF f.stage = "ok" THEN o.last ELSE @]
  BY <1>5, <1>6 DEF Flight
<1>8. PICK n : n = [o EXCEPT !.flight = g]
  OBVIOUS
<1>9. /\ n.flight = g /\ n.last = o.last /\ g.stage = "put" /\ g.text = t /\ g.path = f.path
      /\ g.rev = f.rev
  BY <1>0, <1>6, <1>8 DEF Parting, Flight
<1>10. \/ left' = left \ {o}
       \/ left' = (left \ {o}) \cup {}
       \/ left' = (left \ {o}) \cup {n} /\ f.stage \in {"ok", "ensured"}
          /\ (f.stage = "ensured" => f.made \/ f.found = {})
  <2>1. f.stage \in Stages
    BY FlightFields
  <2>2. f.stage \notin {"ensure", "put"}
    BY <1>1 DEF LeftAnswer
  <2>3. \/ left' = left \ {o}
        \/ left' = (left \ {o}) \cup {}
        \/ left' = (left \ {o}) \cup {n} /\ f.stage \notin {"refused", "failed"}
           /\ ~(f.stage = "ensured" /\ ~f.made /\ f.found # {})
    BY <1>1, <1>7, <1>8, Zenon DEF LeftAnswer
  <2> QED BY <1>4, <2>1, <2>2, <2>3 DEF Stages
<1>11. CASE left' = (left \ {o}) \cup {n} /\ f.stage \in {"ok", "ensured"}
            /\ (f.stage = "ensured" => f.made \/ f.found = {})
  <2>1. Known(pages[f.path], f.rev, t) /\ t \cap Foreign \subseteq o.last
    <3>1. CASE f.stage = "ok"
      <4>1. Known(pages[f.path], f.rev, f.text) /\ t = o.last
        BY <1>4, <1>5, <3>1 DEF Sound
      <4> QED BY <1>4, <4>1 DEF Known
    <3>2. CASE f.stage = "ensured"
      <4>1. Known(pages[f.path], f.rev, {}) /\ t = f.text
        BY <1>4, <1>5, <1>11, <3>2 DEF Sound
      <4> QED BY <1>4, <4>1 DEF Known
    <3> QED BY <1>11, <3>1, <3>2
  <2>2. Follows(pages, n)
    BY <1>9, <2>1 DEF Sound, Follows
  <2>3. \A m \in left' : m \in left \/ m = n
    BY <1>11
  <2> QED BY <1>3, <2>2, <2>3, LeftInforms
<1>12. CASE left' = left \ {o} \/ left' = (left \ {o}) \cup {}
  <2>1. \A m \in left' : m \in left
    BY <1>12
  <2> QED BY <1>3, <2>1, LeftInforms
<1> QED BY <1>10, <1>11, <1>12

\* The editor of the next page knows what the query remembers.
LEMMA OpenedInforms ==
  ASSUME NEW pages, pages = server', Informs(pages), NEW q \in Page, Opened(q), ~Flying',
         Sound(pages, flight'), \A n \in left' : n \in left \/ Follows(pages, n)
  PROVE  Informed'
<1>1. /\ path' = q /\ text' = cache[q].text /\ rev' = cache[q].rev
      /\ fetch' = [Idle EXCEPT !.stage = "sent"] /\ UNCHANGED remote
  BY DEF Opened
<1>2. cache' = cache /\ fetch'.stage # "answered"
  BY <1>1 DEF remote, Idle
<1>3. \A n \in left' : Follows(pages, n)
  BY DEF Informs
<1> QED BY <1>1, <1>2, <1>3 DEF Informed, Informs

\* What the cleanup puts in flight names what the editor knows.
LEMMA FlushedSound ==
  ASSUME TypeOK, NEW pages, Informs(pages)
  PROVE  Sound(pages, Flushed)
<1>1. CASE Flushed = flight
  BY <1>1 DEF Informs
<1>2. CASE /\ Flushed.stage \in {"ensure", "put"} /\ Flushed.path = path /\ Flushed.rev = rev
           /\ Flushed.text = text
  BY <1>2 DEF Informs, Sound
<1> QED BY <1>1, <1>2, FlushedIs

\* A page is left, in either way.
LEMMA LeavingInforms ==
  ASSUME Inv, NEW pages, pages = server', Informs(pages), NEW q \in Page, Rerender(q) \/ Remount(q)
  PROVE  Informed'
<1>0. TypeOK /\ Modes
  BY DEF Inv
<1>1. CASE Rerender(q)
  <2>1. Opened(q) /\ epoch' = epoch + 1 /\ flight' = Flushed /\ left' = left
    BY <1>1, Zenon DEF Rerender
  <2>2. ~Flying'
    BY <2>1, OlderFlight
  <2>3. Sound(pages, flight')
    BY <1>0, <2>1, FlushedSound
  <2> QED BY <2>1, <2>2, <2>3, OpenedInforms
<1>2. CASE Remount(q)
  <2>1. PICK last : last = IF requested \/ Flushes THEN text ELSE flight.text
    OBVIOUS
  <2>2. PICK f \in Flight : f = Flushed
    BY <1>0, FlushedIs
  <2>3. PICK n : n = [flight |-> [f EXCEPT !.gen = 0], last |-> last]
    OBVIOUS
  <2>4. /\ Opened(q) /\ epoch = 1 /\ flight' = Grounded
        /\ left' = IF f.stage = "none" THEN left ELSE left \cup {n}
    BY <1>2, <2>1, <2>2, <2>3 DEF Remount
  <2>5. flight'.stage = "none"
    BY <1>0, <2>4, GroundedIs
  <2>6. ~Flying' /\ Sound(pages, flight')
    BY <2>5 DEF Flying, Sound
  <2>7. n.flight.stage = f.stage /\ n.flight.text = f.text /\ n.flight.path = f.path
        /\ n.flight.rev = f.rev /\ n.flight.found = f.found /\ n.flight.made = f.made /\ n.last = last
    BY <2>3 DEF Flight
  <2>8. Sound(pages, f)
    BY <1>0, <2>2, FlushedSound
  <2>9. Sound(pages, n.flight)
    BY <2>7, <2>8 DEF Sound
  <2>10. f.stage # "none" => f.text \cap Foreign \subseteq last
    <3>1. CASE f = flight /\ f.stage # "none"
      <4>1. flight.epoch \in Nat
        BY <1>0, FlightFields DEF TypeOK
      <4>2. Flying
        BY <1>0, <2>4, <3>1, <4>1 DEF Modes, Flying, Stale
      <4> QED BY <2>1, <3>1, <4>2 DEF Informs
    <3>2. CASE Flushes /\ f.text = text
      BY <2>1, <3>2
    <3> QED BY <1>0, <2>2, <3>1, <3>2, FlushedIs
  <2>11. f.stage # "none" => Follows(pages, n)
    BY <2>7, <2>9, <2>10 DEF Follows
  <2>12. \A m \in left' : m \in left \/ Follows(pages, m)
    BY <2>4, <2>11
  <2> QED BY <2>4, <2>6, <2>12, OpenedInforms
<1> QED BY <1>1, <1>2

\* Nobody knows anything at first, and nobody has written.
LEMMA InformedBegins ==
  ASSUME Init
  PROVE  Informed
<1>1. \A p \in Page : cache[p].rev = 0 /\ server[p].rev \in Nat
  BY DEF Init, Nothing
<1>2. path \in Page /\ rev = 0 /\ left = {}
  BY DEF Init
<1>3. flight.stage = "none" /\ fetch.stage = "sent"
  BY DEF Init, Grounded, Idle
<1> QED BY <1>1, <1>2, <1>3 DEF Informed, Informs, Known, Sound, Flying

\* Every step leaves whoever names a revision informed.
LEMMA InformedKeeps ==
  ASSUME Inv, Informed, [Next]_vars
  PROVE  Informed'
<1>1. server' \in [Page -> Content] /\ Advances
  BY ServerAdvances
<1>2. PICK pages \in [Page -> Content] : pages = server'
  BY <1>1
<1>3. Informs(pages)
  <2>1. \A p \in Page : pages[p] = server[p] \/ server[p].rev < pages[p].rev
    BY <1>1, <1>2 DEF Advances
  <2> QED BY <2>1, InformsStays DEF Inv
<1>4. CASE \E q \in Page : Rerender(q) \/ Remount(q)
  BY <1>2, <1>3, <1>4, LeavingInforms
<1>5. CASE \E o \in left : LeftServed(o) \/ LeftAnswer(o)
  BY <1>2, <1>3, <1>5, LeftServedInforms, LeftAnswerInforms
<1>6. CASE \/ UNCHANGED vars \/ Type \/ Undo \/ Refetch \/ ServerGet \/ FetchFails \/ Reload
           \/ Drained \/ CancelGenerated \/ \E p \in Page, x \in Foreign : ForeignWrite(p, x)
  BY <1>2, <1>3, <1>6, QuietInforms
<1>7. CASE FetchAnswer \/ ReloadAnswer \/ \E x \in Foreign : ApplyGenerated(x)
  BY <1>2, <1>3, <1>7, AdoptInforms
<1>8. CASE Save \/ BeginGeneratedChange
  BY <1>2, <1>3, <1>8, SaveInforms
<1>9. CASE ServerReplies
  BY <1>2, <1>3, <1>9, RepliesInform
<1>10. CASE EnsureAnswer \/ PutAnswer \/ SaveFails
  BY <1>2, <1>3, <1>10, AnswerInforms
<1> QED BY <1>4, <1>5, <1>6, <1>7, <1>8, <1>9, <1>10 DEF Next

-----------------------------------------------------------------------------
(* No edit is lost.                                                        *)

\* Whatever is typed, answered, lost, reloaded, generated or left in whatever
\* order, an edit of the user is in an editor or a flight until a server has
\* it, the user gives it up or its page is left with a failed or queued save;
\* and what another writer saved is never overwritten (doSave, savePass, the
\* flush and sync effects, update_page's revision check).
THEOREM EditsAreKept == Spec => NoEditIsLost
<1> DEFINE All == Inv /\ Held /\ Informed
<1>1. Init => All
  BY EditorBegins, HeldBegins, InformedBegins
<1>2. All /\ [Next]_vars => All'
  BY InvKeeps, HeldKeeps, InformedKeeps
<1>3. ASSUME All, [Next]_vars
      PROVE  /\ (1..typed)' \subseteq
                  (text \cup flight.text \cup landed \cup given \cup missed \cup stranded
                     \cup UNION {o.flight.text \cup o.last : o \in left})'
             /\ \A p \in Page : server[p].text \cap Foreign \subseteq server'[p].text
  <2>1. Kept'
    BY <1>3, HeldKeeps DEF Held
  <2>2. \A p \in Page : server[p].text \cap Foreign \subseteq server'[p].text
    BY <1>3, ServerAdvances
  <2> QED BY <2>1, <2>2 DEF Kept, Parted
<1>4. All /\ [Next]_vars =>
        [/\ (1..typed)' \subseteq
              (text \cup flight.text \cup landed \cup given \cup missed \cup stranded
                 \cup UNION {o.flight.text \cup o.last : o \in left})'
         /\ \A p \in Page : server[p].text \cap Foreign \subseteq server'[p].text]_vars
  BY <1>3
<1> QED BY <1>1, <1>2, <1>4, PTL DEF Spec, NoEditIsLost
=============================================================================
