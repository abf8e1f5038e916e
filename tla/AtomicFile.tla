----------------------------- MODULE AtomicFile -----------------------------
(***************************************************************************)
(* Durable publication of one file (clep-vault/src/atomic_file.rs):        *)
(* atomic_create, atomic_replace and atomic_replace_if_unchanged, called   *)
(* by programs that do not share a lock (a server and a command line, two  *)
(* servers), while an editor saves, overwrites or deletes the same file.   *)
(* Any call into the filesystem may fail, a program may die between any    *)
(* two calls and the machine may lose power.                               *)
(*                                                                         *)
(* A file is an inode: a number, which the filesystem hands out again once *)
(* no name and no open handle refers to it, and its content.  "gen" tells  *)
(* two files apart that got the same number; no action reads it.  Renames  *)
(* and removals reach the disk in the order in which they were made, at    *)
(* the latest when the directory is flushed.                               *)
(***************************************************************************)
EXTENDS Naturals, FiniteSets

CONSTANTS
    Writer,     \* calls, each made once by a program of its own
    Text,       \* contents
    Inode,      \* the numbers the filesystem gives to files
    None,       \* no file
    MaxEdits,   \* how often the editor touches the file
    MaxFaults   \* how many filesystem calls fail

ASSUME NoneAssumption == None \notin Inode

VARIABLES
    dir,     \* the directory: [at: name -> inode, pub: the calls that published]
    past,    \* its states since it was last flushed
    file,    \* the content and the generation of every inode
    call,    \* call[w]: kind, expected content, program counter, answer
    seen,    \* seen[w]: the number of the file w compared (observed_identity)
    held,    \* held[w]: the inode whose handle w holds open ("observed")
    found,   \* found[w]: generation of that file, for the properties
    used,    \* generations handed out so far
    edits, faults,
    deleted  \* the editor removed the file at some point

vars == <<dir, past, file, call, seen, held, found, used, edits, faults, deleted>>

Page == <<"page">>
Claim(w) == <<"claim", w>>
Temp(w) == <<"tmp", w>>
Names == {Page} \cup {Claim(w) : w \in Writer} \cup {Temp(w) : w \in Writer}

Kinds == {"create", "replace", "replace_if_unchanged"}
Answers == {"none", "ok", "stale", "notPublished", "notDurable"}
Places == {"idle", "observe", "claim", "verify", "restore", "restoreFlush", "write",
           "clean", "publish", "flush", "unclaim", "dropClaim", "lastFlush", "end"}

TypeOK ==
    /\ dir \in [at : [Names -> Inode \cup {None}], pub : SUBSET Writer]
    /\ past \in SUBSET [at : [Names -> Inode \cup {None}], pub : SUBSET Writer]
    /\ file \in [Inode -> [text : Text, gen : Nat]]
    /\ call \in [Writer -> [kind : Kinds, expected : Text, new : Text,
                            pc : Places, reply : Answers, answer : Answers]]
    /\ seen \in [Writer -> Inode \cup {None}]
    /\ held \in [Writer -> Inode \cup {None}]
    /\ found \in [Writer -> Nat]
    /\ used \in Nat /\ edits \in 0..MaxEdits /\ faults \in 0..MaxFaults
    /\ deleted \in BOOLEAN
    \* a number is handed out again only when nothing refers to the file
    /\ \A m, n \in Names : dir.at[m] = dir.at[n] /\ dir.at[m] # None => m = n

-----------------------------------------------------------------------------
(* The filesystem.                                                         *)

\* An inode that no name, now or after a power loss, and no handle refers to.
Free(i) ==
    /\ \A n \in Names : \A d \in past \cup {dir} : d.at[n] # i
    /\ \A w \in Writer : held[w] # i

PageIs(text) == dir.at[Page] # None /\ file[dir.at[Page]].text = text

\* rename(from, to), replacing what is there.
Renamed(from, to) == [dir EXCEPT !.at[to] = dir.at[from], !.at[from] = None]

\* The name refers to the given file, or to none.
Entry(name, i) == [dir EXCEPT !.at[name] = i]

SetDir(d) ==
    /\ dir' = d
    /\ past' = past \cup {dir}

\* The filesystem call fails and changes nothing.
Fault ==
    /\ faults < MaxFaults
    /\ faults' = faults + 1

At(w, place) == call[w].pc = place

Go(w, place) == call' = [call EXCEPT ![w].pc = place]

\* The function returns: the handle "observed" is closed with it.
Answer(w, reply) ==
    /\ call' = [call EXCEPT ![w].pc = "end", ![w].answer = reply]
    /\ seen' = [seen EXCEPT ![w] = None]
    /\ held' = [held EXCEPT ![w] = None]

\* Clean up at the given place first, then return the reply.
Unwind(w, place, reply) == call' = [call EXCEPT ![w].pc = place, ![w].reply = reply]

-----------------------------------------------------------------------------
(* The calls.                                                              *)

\* Mutant: the observed file is closed, so its inode number may be
\* handed out again.
MutantObserveClosed(w) ==
    /\ At(w, "observe")
    /\ \/ /\ PageIs(call[w].expected)
          /\ seen' = [seen EXCEPT ![w] = dir.at[Page]]
          /\ held' = [held EXCEPT ![w] = None]
          /\ found' = [found EXCEPT ![w] = file[dir.at[Page]].gen]
          /\ Go(w, "claim")
          /\ UNCHANGED faults
       \/ /\ ~PageIs(call[w].expected)
          /\ Answer(w, "stale")
          /\ UNCHANGED <<found, faults>>
    /\ UNCHANGED <<dir, past, file, used, edits, deleted>>

\* A manifest is created when the caller expects none and replaced only if
\* unchanged otherwise; templates and plain pages call the functions directly.
\* The permissions that atomic_replace reads must be there.
Begin(w) ==
    /\ At(w, "idle")
    /\ \E kind \in Kinds, expected, new \in Text :
         LET missing == kind = "replace" /\ dir.at[Page] = None IN
         call' = [call EXCEPT ![w] =
                   [kind |-> kind, expected |-> expected, new |-> new,
                    pc |-> CASE kind = "replace_if_unchanged" -> "observe"
                             [] missing -> "end"
                             [] OTHER -> "write",
                    reply |-> "none",
                    answer |-> IF missing THEN "notPublished" ELSE "none"]]
    /\ UNCHANGED <<dir, past, file, seen, held, found, used, edits, faults, deleted>>

\* Open the page, note which file it is and compare its bytes.
Observe(w) ==
    /\ At(w, "observe")
    /\ \/ /\ PageIs(call[w].expected)
          /\ seen' = [seen EXCEPT ![w] = dir.at[Page]]
          /\ held' = [held EXCEPT ![w] = dir.at[Page]]
          /\ found' = [found EXCEPT ![w] = file[dir.at[Page]].gen]
          /\ Go(w, "claim")
          /\ UNCHANGED faults
       \/ /\ ~PageIs(call[w].expected)
          /\ Answer(w, "stale")
          /\ UNCHANGED <<found, faults>>
       \/ /\ Fault
          /\ Answer(w, "notPublished")
          /\ UNCHANGED found
    /\ UNCHANGED <<dir, past, file, used, edits, deleted>>

\* claim_destination: move the page to a name of this call's own.
ClaimDestination(w) ==
    /\ At(w, "claim")
    /\ \/ /\ dir.at[Page] # None
          /\ SetDir(Renamed(Page, Claim(w)))
          /\ Go(w, "verify")
          /\ UNCHANGED <<seen, held, faults>>
       \/ /\ dir.at[Page] = None
          /\ Answer(w, "stale")
          /\ UNCHANGED <<dir, past, faults>>
       \/ /\ Fault
          /\ Answer(w, "notPublished")
          /\ UNCHANGED <<dir, past>>
    /\ UNCHANGED <<file, found, used, edits, deleted>>

\* Mutant: a claim that is not the observed file is left where it is.
MutantVerifyNoRestore(w) ==
    /\ At(w, "verify")
    /\ LET claimed == dir.at[Claim(w)] IN
       \/ /\ claimed = seen[w] /\ file[claimed].text = call[w].expected
          /\ Go(w, "write")
          /\ UNCHANGED <<seen, held>>
       \/ /\ claimed # seen[w] \/ file[claimed].text # call[w].expected
          /\ Answer(w, "stale")
    /\ UNCHANGED <<dir, past, file, found, used, edits, faults, deleted>>

\* The claimed file must be the observed one, with the observed bytes.
Verify(w) ==
    /\ At(w, "verify")
    /\ LET claimed == dir.at[Claim(w)] IN
       \/ /\ claimed = seen[w] /\ file[claimed].text = call[w].expected
          /\ Go(w, "write")
          /\ UNCHANGED faults
       \/ /\ claimed # seen[w] \/ file[claimed].text # call[w].expected
          /\ Unwind(w, "restore", "stale")
          /\ UNCHANGED faults
       \/ /\ Fault
          /\ Unwind(w, "restore", "notPublished")
    /\ UNCHANGED <<dir, past, file, seen, held, found, used, edits, deleted>>

\* Mutant: the claim is moved back over a page that exists again.
MutantRestoreClaim(w) ==
    /\ At(w, "restore")
    /\ SetDir(Renamed(Claim(w), Page))
    /\ Go(w, "restoreFlush")
    /\ UNCHANGED <<file, seen, held, found, used, edits, faults, deleted>>

\* restore_claim: move the claim back unless the page exists again.  Its error
\* is the call's answer when the call was stale and is ignored otherwise.
RestoreClaim(w) ==
    /\ At(w, "restore")
    /\ LET failed == IF call[w].reply = "stale" THEN "notPublished" ELSE call[w].reply IN
       \/ /\ dir.at[Page] = None
          /\ SetDir(Renamed(Claim(w), Page))
          /\ Go(w, "restoreFlush")
          /\ UNCHANGED <<seen, held, faults>>
       \/ /\ dir.at[Page] # None
          /\ Answer(w, failed)
          /\ UNCHANGED <<dir, past, faults>>
       \/ /\ Fault
          /\ Answer(w, failed)
          /\ UNCHANGED <<dir, past>>
    /\ UNCHANGED <<file, found, used, edits, deleted>>

RestoreFlush(w) ==
    /\ At(w, "restoreFlush")
    /\ \/ /\ past' = {}
          /\ Answer(w, call[w].reply)
          /\ UNCHANGED faults
       \/ /\ Fault
          /\ Answer(w, IF call[w].reply = "stale" THEN "notDurable" ELSE call[w].reply)
          /\ UNCHANGED past
    /\ UNCHANGED <<dir, file, found, used, edits, deleted>>

\* Where a call goes whose new content was not published: the claim is put
\* back, or the call returns.
GiveUp(w, place) ==
    IF place = "end"
    THEN Answer(w, "notPublished")
    ELSE Unwind(w, place, "notPublished") /\ UNCHANGED <<seen, held>>

Undo(w) == IF call[w].kind = "replace_if_unchanged" THEN "restore" ELSE "end"

\* create_temporary_file and write_and_sync: the bytes are on the disk before
\* the name is.  After an error the temporary file is removed, if it can be.
WriteTemporary(w) ==
    /\ At(w, "write")
    /\ \/ /\ \E i \in Inode :
               /\ Free(i)
               /\ file' = [file EXCEPT ![i] = [text |-> call[w].new, gen |-> used + 1]]
               /\ used' = used + 1
               /\ SetDir(Entry(Temp(w), i))
          /\ Go(w, "publish")
          /\ UNCHANGED <<seen, held, faults>>
       \/ /\ Fault
          /\ GiveUp(w, Undo(w))
          /\ UNCHANGED <<dir, past, file, used>>
    /\ UNCHANGED <<found, edits, deleted>>

\* The temporary file under the page's name, published by the call.
Published(w) == [Renamed(Temp(w), Page) EXCEPT !.pub = @ \cup {w}]

\* Publish: install_noreplace, or replace for atomic_replace.  reply "stale"
\* stands for AlreadyExists until the temporary file is gone.
Publish(w) ==
    /\ At(w, "publish")
    /\ \/ /\ call[w].kind = "replace" \/ dir.at[Page] = None
          /\ SetDir(Published(w))
          /\ Go(w, "flush")
          /\ UNCHANGED faults
       \/ /\ call[w].kind # "replace" /\ dir.at[Page] # None
          /\ Unwind(w, "clean", "stale")
          /\ UNCHANGED <<dir, past, faults>>
       \/ /\ Fault
          /\ Unwind(w, "clean", "notPublished")
          /\ UNCHANGED <<dir, past>>
    /\ UNCHANGED <<file, seen, held, found, used, edits, deleted>>

\* cleanup_error: remove the temporary file; it stays when that fails too.
RemoveTemporary(w) ==
    /\ At(w, "clean")
    /\ \/ /\ SetDir(Entry(Temp(w), None))
          /\ UNCHANGED faults
       \/ /\ Fault
          /\ UNCHANGED <<dir, past>>
    /\ IF call[w].reply = "stale" /\ call[w].kind = "replace_if_unchanged"
       THEN Go(w, "dropClaim") /\ UNCHANGED <<seen, held>>
       ELSE GiveUp(w, Undo(w))
    /\ UNCHANGED <<file, found, used, edits, deleted>>

\* Somebody created the page in the meantime: the claimed one is dropped.
DropClaim(w) ==
    /\ At(w, "dropClaim")
    /\ \/ /\ SetDir(Entry(Claim(w), None))
          /\ UNCHANGED faults
       \/ /\ Fault
          /\ UNCHANGED <<dir, past>>
    /\ Answer(w, "stale")
    /\ UNCHANGED <<file, found, used, edits, deleted>>

\* Mutant: success is answered without flushing the directory.
MutantFlush(w) ==
    /\ At(w, "flush")
    /\ IF call[w].kind = "replace_if_unchanged"
       THEN Go(w, "unclaim") /\ UNCHANGED <<seen, held>>
       ELSE Answer(w, "ok")
    /\ UNCHANGED <<dir, past, file, found, used, edits, faults, deleted>>

\* sync_parent after the rename.
Flush(w) ==
    /\ At(w, "flush")
    /\ \/ /\ past' = {}
          /\ IF call[w].kind = "replace_if_unchanged"
             THEN Go(w, "unclaim") /\ UNCHANGED <<seen, held>>
             ELSE Answer(w, "ok")
          /\ UNCHANGED faults
       \/ /\ Fault
          /\ IF call[w].kind = "replace_if_unchanged"
             THEN Unwind(w, "restore", "notDurable") /\ UNCHANGED <<seen, held>>
             ELSE Answer(w, "notDurable")
          /\ UNCHANGED past
    /\ UNCHANGED <<dir, file, found, used, edits, deleted>>

\* The new content is durable: the claimed file is removed.
RemoveClaim(w) ==
    /\ At(w, "unclaim")
    /\ \/ /\ SetDir(Entry(Claim(w), None))
          /\ Go(w, "lastFlush")
          /\ UNCHANGED <<seen, held, faults>>
       \/ /\ Fault
          /\ Answer(w, "notDurable")
          /\ UNCHANGED <<dir, past>>
    /\ UNCHANGED <<file, found, used, edits, deleted>>

LastFlush(w) ==
    /\ At(w, "lastFlush")
    /\ \/ /\ past' = {}
          /\ Answer(w, "ok")
          /\ UNCHANGED faults
       \/ /\ Fault
          /\ Answer(w, "notDurable")
          /\ UNCHANGED past
    /\ UNCHANGED <<dir, file, found, used, edits, deleted>>

-----------------------------------------------------------------------------
(* The editor, and the end of programs.                                    *)

Edit == edits < MaxEdits /\ edits' = edits + 1

\* Most editors write a new file and rename it over the page.
SaveByRename ==
    /\ Edit
    /\ \E i \in Inode, text \in Text :
         /\ Free(i)
         /\ file' = [file EXCEPT ![i] = [text |-> text, gen |-> used + 1]]
         /\ SetDir(Entry(Page, i))
    /\ used' = used + 1
    /\ UNCHANGED <<call, seen, held, found, faults, deleted>>

SaveInPlace ==
    /\ Edit
    /\ dir.at[Page] # None
    /\ \E text \in Text : file' = [file EXCEPT ![dir.at[Page]].text = text]
    /\ UNCHANGED <<dir, past, call, seen, held, found, used, faults, deleted>>

Delete ==
    /\ Edit
    /\ dir.at[Page] # None
    /\ SetDir(Entry(Page, None))
    /\ deleted' = TRUE
    /\ UNCHANGED <<file, call, seen, held, found, used, faults>>

\* The program that made the call dies.  Nothing looks for what it left.
Crash(w) ==
    /\ call[w].pc \notin {"idle", "end"}
    /\ Fault
    /\ Answer(w, "none")
    /\ UNCHANGED <<dir, past, file, found, used, edits, deleted>>

\* The kernel writes the directory back on its own.
WriteBack ==
    /\ past # {}
    /\ past' = {}
    /\ UNCHANGED <<dir, file, call, seen, held, found, used, edits, faults, deleted>>

\* The machine stops: the directory is in a state it had since the last flush.
PowerLoss ==
    /\ Fault
    /\ dir' \in past \cup {dir}
    /\ past' = {}
    /\ call' = [w \in Writer |-> IF call[w].pc = "end" THEN call[w]
                                 ELSE [call[w] EXCEPT !.pc = "end"]]
    /\ seen' = [w \in Writer |-> None]
    /\ held' = [w \in Writer |-> None]
    /\ UNCHANGED <<file, found, used, edits, deleted>>

-----------------------------------------------------------------------------
Init ==
    \E i \in Inode, text \in Text :
       /\ dir = [at |-> [n \in Names |-> IF n = Page THEN i ELSE None], pub |-> {}]
       /\ past = {}
       /\ file = [j \in Inode |-> [text |-> text, gen |-> 0]]
       /\ call = [w \in Writer |-> [kind |-> "create", expected |-> text, new |-> text,
                                    pc |-> "idle", reply |-> "none", answer |-> "none"]]
       /\ seen = [w \in Writer |-> None]
       /\ held = [w \in Writer |-> None]
       /\ found = [w \in Writer |-> 0]
       /\ used = 0 /\ edits = 0 /\ faults = 0 /\ deleted = FALSE

Step(w) ==
    \/ Begin(w) \/ Observe(w) \/ ClaimDestination(w) \/ Verify(w)
    \/ RestoreClaim(w) \/ RestoreFlush(w) \/ WriteTemporary(w) \/ Publish(w)
    \/ RemoveTemporary(w) \/ DropClaim(w) \/ Flush(w) \/ RemoveClaim(w) \/ LastFlush(w)

Next ==
    \/ \E w \in Writer : Step(w) \/ Crash(w)
    \/ SaveByRename \/ SaveInPlace \/ Delete
    \/ WriteBack \/ PowerLoss

Spec == Init /\ [][Next]_vars

-----------------------------------------------------------------------------
\* A conditional call that answers ok replaced the very file it had compared,
\* not one that another program put there meanwhile, whatever number that file
\* has and even with the same bytes (the ABA window of the comment above
\* atomic_replace_if_unchanged).
ReplacedWhatItSaw ==
    [][\A w \in Writer :
         /\ call[w].kind = "replace_if_unchanged"
         /\ w \notin dir.pub /\ w \in dir'.pub
         => file[dir.at[Claim(w)]].gen = found[w]]_vars

\* The files some name of the directory refers to.
Linked(d) == {d.at[n] : n \in Names} \ {None}

\* A conditional call or a create unlinks no file but its own temporary file
\* and the one it had compared: an entry that somebody else put there, before
\* or after the claim, stays reachable.
OthersAreKept ==
    [][\A i \in Linked(dir) \ Linked(dir') :
         \A w \in Writer :
           /\ call'[w] # call[w] /\ call[w].kind # "replace"
           /\ call[w].pc # "idle" /\ faults' = faults
           => i = dir.at[Temp(w)] \/ (i = dir.at[Claim(w)] /\ file[i].gen = found[w])]_vars

\* Whatever dies or fails and whenever, in the directory as it is and as a
\* power loss would leave it some version of the page exists, under its name or
\* under a claim, unless the editor deleted it.
SomeVersionExists ==
    ~deleted => \A d \in past \cup {dir} :
                   \E n \in {Page} \cup {Claim(w) : w \in Writer} : d.at[n] # None

\* When no filesystem call failed and every call has returned, the page is
\* there under its own name: a call that loses a race puts back what it took.
PageIsBack ==
    /\ faults = 0 /\ ~deleted
    /\ \A w \in Writer : call[w].pc \in {"idle", "end"}
    => dir.at[Page] # None

\* The page is never gone: in the middle of a call some version of it is there
\* to be found, and after the calls it is where it belongs
\* (atomic_replace_if_unchanged, restore_claim).
PageIsThere == SomeVersionExists /\ PageIsBack

\* A call that answered ok has published, and no power loss takes that back or
\* brings its claim file back.
OkIsDurable ==
    \A w \in Writer : call[w].answer = "ok" =>
       \A d \in past \cup {dir} : w \in d.pub /\ d.at[Claim(w)] = None

\* A call that answered Stale or NotPublished has published nothing.
RefusedIsNotPublished ==
    \A w \in Writer : call[w].answer \in {"stale", "notPublished"} => w \notin dir.pub

\* The caller can act on the answer: ok is for good, Stale and NotPublished mean
\* that the page was left alone (AtomicWriteError, ReplaceIfUnchangedError).
AnswerIsTrue == OkIsDurable /\ RefusedIsNotPublished

(***************************************************************************)
(* What docs, comments or tests say and the code does not keep: see        *)
(* "Known divergences" in the README.                                      *)
(***************************************************************************)
\* "PublishedButNotDurable: the destination already contains the requested
\* bytes even though the parent directory flush failed" (atomic_file.rs:54).
NotDurableIsPublished ==
    \A w \in Writer : call[w].answer = "notDurable" => w \in dir.pub
=============================================================================
