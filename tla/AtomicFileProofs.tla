-------------------------- MODULE AtomicFileProofs --------------------------
(***************************************************************************)
(* Proofs about AtomicFile, for any number of calls, contents and inodes   *)
(* and for any number of edits and faults.  What a call relies on is its   *)
(* own: its claim and its temporary file have names that no other program  *)
(* touches, and the handle it keeps open pins the number of the file it    *)
(* compared (Sound).  That the page is never gone is about all calls       *)
(* together: a call gives up its claim only while another version is       *)
(* beyond its reach (Versions, Back).                                      *)
(***************************************************************************)
EXTENDS AtomicFile, TLAPS

Dirs == past \cup {dir}

Directory == [at : [Names -> Inode \cup {None}], pub : SUBSET Writer]

Calls == [Writer -> [kind : Kinds, expected : Text, new : Text,
                     pc : Places, reply : Answers, answer : Answers]]

\* The types the argument depends on.
Types ==
    /\ dir \in Directory
    /\ past \in SUBSET Directory
    /\ file \in [Inode -> [text : Text, gen : Nat]]
    /\ call \in Calls
    /\ seen \in [Writer -> Inode \cup {None}]
    /\ held \in [Writer -> Inode \cup {None}]
    /\ found \in [Writer -> Nat]
    /\ used \in Nat /\ faults \in Nat

Conditional(w) == call[w].kind = "replace_if_unchanged"

\* A claim exists only between the renames of a conditional call.
ClaimIsMade(w) ==
    /\ (~Conditional(w) \/ call[w].pc \in {"idle", "observe", "claim"})
          => \A d \in Dirs : d.at[Claim(w)] = None
    /\ call[w].pc \in {"observe", "claim", "verify", "restore", "restoreFlush",
                       "unclaim", "dropClaim", "lastFlush"} => Conditional(w)
    /\ call[w].pc = "lastFlush" => dir.at[Claim(w)] = None

\* What has been published, by the place the call is at and by its answer.
AnswerFits(w) ==
    /\ call[w].answer # "none" => call[w].pc = "end"
    /\ call[w].answer = "ok" => \A d \in Dirs : w \in d.pub /\ d.at[Claim(w)] = None
    /\ call[w].pc = "flush" => w \in dir.pub
    /\ call[w].pc \in {"unclaim", "lastFlush"} => \A d \in Dirs : w \in d.pub
    /\ call[w].pc \in {"restore", "restoreFlush"}
          => call[w].reply \in {"stale", "notPublished", "notDurable"}
    /\ \/ call[w].pc \in {"idle", "observe", "claim", "verify", "write", "publish",
                          "clean", "dropClaim"}
       \/ call[w].pc \in {"restore", "restoreFlush"} /\ call[w].reply # "notDurable"
       \/ call[w].answer \in {"stale", "notPublished"}
       => \A d \in Dirs : w \notin d.pub

\* The open handle pins the compared file, and the verified claim is that file.
ClaimIsSeen(w) ==
    /\ held[w] # None => file[held[w]].gen = found[w]
    /\ call[w].pc \in {"claim", "verify"} => held[w] # None /\ held[w] = seen[w]
    /\ Conditional(w) /\ call[w].pc \in {"write", "publish", "clean", "flush", "unclaim",
                                         "dropClaim"}
          => held[w] # None /\ dir.at[Claim(w)] = held[w]
    /\ call[w].pc = "publish" => dir.at[Temp(w)] # None

Sound(w) == ClaimIsMade(w) /\ AnswerFits(w) /\ ClaimIsSeen(w)

\* A call on its way to drop its claim.
Doomed(w) ==
    /\ Conditional(w)
    /\ \/ call[w].pc \in {"flush", "unclaim", "dropClaim"}
       \/ call[w].pc = "clean" /\ call[w].reply = "stale"

HasVersion(d) == \E n \in {Page} \cup {Claim(w) : w \in Writer} : d.at[n] # None

\* Some version is neither gone nor in the claim of a call that will drop it.
Spare ==
    \/ dir.at[Page] # None
    \/ \E w \in Writer : ~Doomed(w) /\ dir.at[Claim(w)] # None

Versions == ~deleted => (\A d \in past : HasVersion(d)) /\ Spare

\* A call that will put the page, or its new content, back.
Keeper(w) ==
    /\ Conditional(w)
    /\ call[w].pc \in {"verify", "write", "publish", "restore"}
    /\ dir.at[Claim(w)] # None

\* Without faults a missing page is in the hands of such a call.
Back == (faults = 0 /\ ~deleted) => dir.at[Page] # None \/ \E w \in Writer : Keeper(w)

\* A call that has published has published in every later state of the directory.
PubGrows == \A d \in past : d.pub \subseteq dir.pub

Inv == Types /\ (\A w \in Writer : Sound(w)) /\ Versions /\ Back /\ PubGrows

-----------------------------------------------------------------------------
\* The page, the claims and the temporary files have names of their own.
LEMMA NamesDiffer ==
  ASSUME NEW w \in Writer, NEW u \in Writer
  PROVE  /\ Page # Claim(w) /\ Page # Temp(w) /\ Claim(w) # Temp(u)
         /\ Claim(w) = Claim(u) => w = u
         /\ Temp(w) = Temp(u) => w = u
         /\ Page \in Names /\ Claim(w) \in Names /\ Temp(w) \in Names
BY DEF Page, Claim, Temp, Names

\* What the changes of the directory do to it.
LEMMA RenameEffect ==
  ASSUME Types, NEW from \in Names, NEW to \in Names, from # to, SetDir(Renamed(from, to))
  PROVE  /\ dir' \in Directory /\ past' = Dirs
         /\ dir'.pub = dir.pub
         /\ dir'.at[to] = dir.at[from]
         /\ dir'.at[from] = None
         /\ \A n \in Names \ {from, to} : dir'.at[n] = dir.at[n]
BY DEF Types, Directory, Renamed, SetDir, Dirs

\* What setting one name to a file or to nothing does to the directory.
LEMMA EntryEffect ==
  ASSUME Types, NEW name \in Names, NEW i \in Inode \cup {None}, SetDir(Entry(name, i))
  PROVE  /\ dir' \in Directory /\ past' = Dirs
         /\ dir'.pub = dir.pub
         /\ dir'.at[name] = i
         /\ \A n \in Names \ {name} : dir'.at[n] = dir.at[n]
BY DEF Types, Directory, Entry, SetDir, Dirs

\* What publishing the temporary file of a call under the page's name does.
LEMMA PublishedEffect ==
  ASSUME Types, NEW w \in Writer, SetDir(Published(w))
  PROVE  /\ dir' \in Directory /\ past' = Dirs
         /\ dir'.pub = dir.pub \cup {w}
         /\ dir'.at[Page] = dir.at[Temp(w)]
         /\ dir'.at[Temp(w)] = None
         /\ \A n \in Names \ {Page, Temp(w)} : dir'.at[n] = dir.at[n]
BY NamesDiffer DEF Types, Directory, Renamed, Published, SetDir, Dirs

\* What moving on, unwinding and answering do to the calls.
LEMMA GoEffect ==
  ASSUME Types, NEW w \in Writer, NEW place \in Places, Go(w, place)
  PROVE  /\ call' \in Calls
         /\ call'[w].pc = place /\ call'[w].reply = call[w].reply
         /\ call'[w].answer = call[w].answer /\ call'[w].kind = call[w].kind
         /\ \A u \in Writer \ {w} : call'[u] = call[u]
BY DEF Types, Go, Calls

\* Unwinding goes to a cleanup step and remembers the reply to give after it.
LEMMA UnwindEffect ==
  ASSUME Types, NEW w \in Writer, NEW place \in Places, NEW reply \in Answers,
         Unwind(w, place, reply)
  PROVE  /\ call' \in Calls
         /\ call'[w].pc = place /\ call'[w].reply = reply
         /\ call'[w].answer = call[w].answer /\ call'[w].kind = call[w].kind
         /\ \A u \in Writer \ {w} : call'[u] = call[u]
BY DEF Types, Unwind, Calls

\* An answer ends the call and closes the files it had open.
LEMMA AnswerEffect ==
  ASSUME Types, NEW w \in Writer, NEW reply \in Answers, Answer(w, reply)
  PROVE  /\ call' \in Calls
         /\ call'[w].pc = "end" /\ call'[w].reply = call[w].reply
         /\ call'[w].answer = reply /\ call'[w].kind = call[w].kind
         /\ seen' \in [Writer -> Inode \cup {None}] /\ seen'[w] = None
         /\ held' \in [Writer -> Inode \cup {None}] /\ held'[w] = None
         /\ \A u \in Writer \ {w} : call'[u] = call[u] /\ seen'[u] = seen[u] /\ held'[u] = held[u]
BY DEF Types, Answer, Calls, Places

\* Where a call begins.
LEMMA BeginEffect ==
  ASSUME Types, NEW w \in Writer, Begin(w)
  PROVE  /\ call[w].pc = "idle" /\ call' \in Calls
         /\ call'[w].pc = "observe" \/ call'[w].pc \in {"write", "end"}
         /\ call'[w].pc = "observe" <=> call'[w].kind = "replace_if_unchanged"
         /\ call'[w].answer \in {"none", "notPublished"}
         /\ call'[w].answer # "none" => call'[w].pc = "end"
         /\ \A u \in Writer \ {w} : call'[u] = call[u]
         /\ UNCHANGED <<dir, past, file, seen, held, found, used, edits, faults, deleted>>
BY DEF Begin, At, Types, Calls, Kinds, Places, Answers

\* A step of one call changes no other call and keeps the types.
CallFrame(w) ==
    /\ call' \in Calls
    /\ seen' \in [Writer -> Inode \cup {None}]
    /\ held' \in [Writer -> Inode \cup {None}]
    /\ found' \in [Writer -> Nat]
    /\ \A u \in Writer \ {w} : /\ call'[u] = call[u] /\ seen'[u] = seen[u]
                               /\ held'[u] = held[u] /\ found'[u] = found[u]

\* No step of a call, and no crash of its process, touches the record of another
\* call.
LEMMA CallStep ==
  ASSUME Types, NEW w \in Writer, Step(w) \/ Crash(w)
  PROVE  CallFrame(w)
<1>0. /\ call \in Calls
      /\ seen \in [Writer -> Inode \cup {None}]
      /\ held \in [Writer -> Inode \cup {None}]
      /\ found \in [Writer -> Nat]
      /\ call[w].reply \in Answers
  BY DEF Types, Calls
<1>1. CASE Begin(w)
  BY <1>0, <1>1, BeginEffect DEF CallFrame
<1> USE <1>0, GoEffect, UnwindEffect, AnswerEffect DEF Answers, Places, CallFrame
<1>2. CASE Observe(w)
  <2>1. CASE (Answer(w, "stale") \/ Answer(w, "notPublished")) /\ UNCHANGED found
    BY <2>1
  <2>2. CASE /\ PageIs(call[w].expected)
             /\ seen' = [seen EXCEPT ![w] = dir.at[Page]]
             /\ held' = [held EXCEPT ![w] = dir.at[Page]]
             /\ found' = [found EXCEPT ![w] = file[dir.at[Page]].gen]
             /\ Go(w, "claim")
    <3>1. dir.at[Page] \in Inode
      BY <2>2, NamesDiffer DEF PageIs, Types, Directory
    <3>2. file[dir.at[Page]].gen \in Nat
      BY <3>1 DEF Types
    <3>3. QED
      BY <2>2, <3>1, <3>2
  <2>3. QED
    BY <1>2, <2>1, <2>2 DEF Observe
<1>3. CASE ClaimDestination(w)
  BY <1>3 DEF ClaimDestination
<1>4. CASE Verify(w)
  BY <1>4 DEF Verify
<1>5. CASE RestoreClaim(w)
  BY <1>5 DEF RestoreClaim
<1>6. CASE RestoreFlush(w)
  BY <1>6 DEF RestoreFlush
<1>7. CASE WriteTemporary(w)
  BY <1>7 DEF WriteTemporary, GiveUp, Undo
<1>8. CASE Publish(w)
  BY <1>8 DEF Publish
<1>9. CASE RemoveTemporary(w)
  BY <1>9 DEF RemoveTemporary, GiveUp, Undo
<1>10. CASE DropClaim(w)
  BY <1>10 DEF DropClaim
<1>11. CASE Flush(w)
  BY <1>11 DEF Flush
<1>12. CASE RemoveClaim(w)
  BY <1>12 DEF RemoveClaim
<1>13. CASE LastFlush(w)
  BY <1>13 DEF LastFlush
<1>14. CASE Crash(w)
  BY <1>14 DEF Crash
<1>15. QED
  BY <1>1, <1>2, <1>3, <1>4, <1>5, <1>6, <1>7, <1>8, <1>9, <1>10, <1>11, <1>12, <1>13, <1>14 DEF Step

\* It changes no other call's names and publications; the files others hold
\* open keep their generation, because a new file gets a free number.
DirFrame(w) ==
    /\ dir' \in Directory /\ past' \subseteq Dirs
    /\ dir.pub \subseteq dir'.pub /\ deleted' = deleted
    /\ \A u \in Writer \ {w} : /\ dir'.at[Claim(u)] = dir.at[Claim(u)]
                               /\ dir'.at[Temp(u)] = dir.at[Temp(u)]
                               /\ u \in dir'.pub => u \in dir.pub

FileFrame ==
    /\ file' \in [Inode -> [text : Text, gen : Nat]]
    /\ used' \in Nat /\ faults' \in Nat
    /\ \A u \in Writer : held[u] # None => file'[held[u]].gen = file[held[u]].gen

\* A step of a call touches only the page and the call's own two names.
LEMMA DirStep ==
  ASSUME Types, NEW w \in Writer, Step(w) \/ Crash(w)
  PROVE  DirFrame(w)
<1>0. dir \in Directory
  BY DEF Types
<1> USE <1>0, NamesDiffer DEF DirFrame, Dirs
<1>1. CASE Begin(w)
  BY <1>1 DEF Begin
<1>2. CASE Observe(w)
  BY <1>2 DEF Observe
<1>3. CASE ClaimDestination(w)
  BY <1>3, RenameEffect DEF ClaimDestination
<1>4. CASE Verify(w)
  BY <1>4 DEF Verify
<1>5. CASE RestoreClaim(w)
  BY <1>5, RenameEffect DEF RestoreClaim
<1>6. CASE RestoreFlush(w)
  BY <1>6 DEF RestoreFlush
<1>7. CASE WriteTemporary(w)
  BY <1>7, EntryEffect DEF WriteTemporary
<1>8. CASE Publish(w)
  BY <1>8, PublishedEffect DEF Publish
<1>9. CASE RemoveTemporary(w)
  BY <1>9, EntryEffect DEF RemoveTemporary
<1>10. CASE DropClaim(w)
  BY <1>10, EntryEffect DEF DropClaim
<1>11. CASE Flush(w)
  BY <1>11 DEF Flush
<1>12. CASE RemoveClaim(w)
  BY <1>12, EntryEffect DEF RemoveClaim
<1>13. CASE LastFlush(w)
  BY <1>13 DEF LastFlush
<1>14. CASE Crash(w)
  BY <1>14 DEF Crash
<1>15. QED
  BY <1>1, <1>2, <1>3, <1>4, <1>5, <1>6, <1>7, <1>8, <1>9, <1>10, <1>11, <1>12, <1>13, <1>14 DEF Step

\* A step of a call writes no file that some call holds open: a new file is made
\* from an unused inode.
LEMMA FileStep ==
  ASSUME Types, NEW w \in Writer, Step(w) \/ Crash(w)
  PROVE  FileFrame
<1>2. ASSUME NEW i \in Inode, Free(i), UNCHANGED faults, used' = used + 1,
             file' = [file EXCEPT ![i] = [text |-> call[w].new, gen |-> used + 1]]
      PROVE  FileFrame
  <2>1. call[w].new \in Text /\ used + 1 \in Nat
    BY DEF Types, Calls
  <2>2. file' \in [Inode -> [text : Text, gen : Nat]]
    BY <1>2, <2>1 DEF Types
  <2>3. ASSUME NEW u \in Writer, held[u] # None PROVE file'[held[u]] = file[held[u]]
    BY <1>2, <2>3 DEF Types, Free
  <2>4. QED
    BY <1>2, <2>1, <2>2, <2>3 DEF FileFrame, Types
<1>3. CASE UNCHANGED <<file, used>> /\ (Fault \/ UNCHANGED faults)
  BY <1>3 DEF FileFrame, Types, Fault
<1>4. CASE Begin(w)
  BY <1>4, <1>3 DEF Begin
<1>5. CASE Observe(w)
  BY <1>5, <1>3 DEF Observe
<1>6. CASE ClaimDestination(w)
  BY <1>6, <1>3 DEF ClaimDestination
<1>7. CASE Verify(w)
  BY <1>7, <1>3 DEF Verify
<1>8. CASE RestoreClaim(w)
  BY <1>8, <1>3 DEF RestoreClaim
<1>9. CASE RestoreFlush(w)
  BY <1>9, <1>3 DEF RestoreFlush
<1>10. CASE WriteTemporary(w)
  BY <1>10, <1>2, <1>3 DEF WriteTemporary
<1>11. CASE Publish(w)
  BY <1>11, <1>3 DEF Publish
<1>12. CASE RemoveTemporary(w)
  BY <1>12, <1>3 DEF RemoveTemporary
<1>13. CASE DropClaim(w)
  BY <1>13, <1>3 DEF DropClaim
<1>14. CASE Flush(w)
  BY <1>14, <1>3 DEF Flush
<1>15. CASE RemoveClaim(w)
  BY <1>15, <1>3 DEF RemoveClaim
<1>16. CASE LastFlush(w)
  BY <1>16, <1>3 DEF LastFlush
<1>17. CASE Crash(w)
  BY <1>17, <1>3 DEF Crash
<1>18. QED
  BY <1>4, <1>5, <1>6, <1>7, <1>8, <1>9, <1>10, <1>11, <1>12, <1>13, <1>14, <1>15, <1>16, <1>17 DEF Step

\* Nothing that call u relies on changes.
Untouched(u) ==
    /\ call'[u] = call[u] /\ seen'[u] = seen[u] /\ held'[u] = held[u] /\ found'[u] = found[u]
    /\ dir'.at[Claim(u)] = dir.at[Claim(u)] /\ dir'.at[Temp(u)] = dir.at[Temp(u)]
    /\ u \in dir'.pub <=> u \in dir.pub
    /\ past' \subseteq Dirs
    /\ held[u] # None => file'[held[u]].gen = file[held[u]].gen

\* What a call relies on survives every step that leaves it untouched.
LEMMA UntouchedIsSound ==
  ASSUME NEW u \in Writer, Sound(u), Untouched(u)
  PROVE  Sound(u)'
<1>1. \A d \in Dirs' : d \in Dirs \/ d = dir'
  BY DEF Dirs, Untouched
<1>2. ClaimIsMade(u)'
  BY <1>1 DEF Sound, ClaimIsMade, Conditional, Dirs, Untouched
<1>3. AnswerFits(u)'
  BY <1>1 DEF Sound, AnswerFits, Dirs, Untouched
<1>4. ClaimIsSeen(u)'
  BY DEF Sound, ClaimIsSeen, Conditional, Untouched
<1>5. QED
  BY <1>2, <1>3, <1>4 DEF Sound

\* What a call relies on survives the steps of others.
LEMMA OthersAreSound ==
  ASSUME Types, NEW w \in Writer, Step(w) \/ Crash(w), NEW u \in Writer \ {w}, Sound(u)
  PROVE  Sound(u)'
<1>1. Untouched(u)
  BY CallStep, DirStep, FileStep DEF CallFrame, DirFrame, FileFrame, Untouched
<1>2. QED
  BY <1>1, UntouchedIsSound

\* A call's own steps keep ClaimIsMade.
LEMMA ClaimIsMadeStep ==
  ASSUME Types, NEW w \in Writer, Step(w) \/ Crash(w), Sound(w)
  PROVE  ClaimIsMade(w)'
<1>0. dir \in Directory /\ call[w].reply \in Answers
  BY DEF Types, Calls
<1> USE <1>0, NamesDiffer, GoEffect, UnwindEffect, AnswerEffect
<1> USE DEF Sound, ClaimIsMade, Conditional, Dirs, At, Answers, Places
<1>1. CASE Begin(w)
  BY <1>1, BeginEffect
<1>2. CASE Observe(w)
  BY <1>2 DEF Observe
<1>3. CASE ClaimDestination(w)
  BY <1>3, RenameEffect DEF ClaimDestination
<1>4. CASE Verify(w)
  BY <1>4 DEF Verify
<1>5. CASE RestoreClaim(w)
  BY <1>5, RenameEffect DEF RestoreClaim
<1>6. CASE RestoreFlush(w)
  BY <1>6 DEF RestoreFlush
<1>7. CASE WriteTemporary(w)
  BY <1>7, EntryEffect DEF WriteTemporary, GiveUp, Undo
<1>8. CASE Publish(w)
  BY <1>8, PublishedEffect DEF Publish
<1>9. CASE RemoveTemporary(w)
  BY <1>9, EntryEffect DEF RemoveTemporary, GiveUp, Undo
<1>10. CASE DropClaim(w)
  BY <1>10, EntryEffect DEF DropClaim
<1>11. CASE Flush(w)
  BY <1>11 DEF Flush
<1>12. CASE RemoveClaim(w)
  BY <1>12, EntryEffect DEF RemoveClaim
<1>13. CASE LastFlush(w)
  BY <1>13 DEF LastFlush
<1>14. CASE Crash(w)
  BY <1>14 DEF Crash
<1>15. QED
  BY <1>1, <1>2, <1>3, <1>4, <1>5, <1>6, <1>7, <1>8, <1>9, <1>10, <1>11, <1>12, <1>13, <1>14 DEF Step

\* A call's own steps keep AnswerFits.
LEMMA AnswerFitsStep ==
  ASSUME Types, NEW w \in Writer, Step(w) \/ Crash(w), Sound(w)
  PROVE  AnswerFits(w)'
<1>0. dir \in Directory /\ call[w].reply \in Answers
  BY DEF Types, Calls
<1> USE <1>0, NamesDiffer, GoEffect, UnwindEffect, AnswerEffect
<1> USE DEF Sound, AnswerFits, ClaimIsMade, Conditional, Dirs, At, Answers, Places
<1>1. CASE Begin(w)
  BY <1>1, BeginEffect
<1>2. CASE Observe(w)
  BY <1>2 DEF Observe
<1>3. CASE ClaimDestination(w)
  BY <1>3, RenameEffect DEF ClaimDestination
<1>4. CASE Verify(w)
  BY <1>4 DEF Verify
<1>5. CASE RestoreClaim(w)
  BY <1>5, RenameEffect DEF RestoreClaim
<1>6. CASE RestoreFlush(w)
  BY <1>6 DEF RestoreFlush
<1>7. CASE WriteTemporary(w)
  BY <1>7, EntryEffect DEF WriteTemporary, GiveUp, Undo
<1>8. CASE Publish(w)
  BY <1>8, PublishedEffect DEF Publish
<1>9. CASE RemoveTemporary(w)
  BY <1>9, EntryEffect DEF RemoveTemporary, GiveUp, Undo
<1>10. CASE DropClaim(w)
  BY <1>10, EntryEffect DEF DropClaim
<1>11. CASE Flush(w)
  BY <1>11 DEF Flush
<1>12. CASE RemoveClaim(w)
  BY <1>12, EntryEffect DEF RemoveClaim
<1>13. CASE LastFlush(w)
  BY <1>13 DEF LastFlush
<1>14. CASE Crash(w)
  BY <1>14 DEF Crash
<1>15. QED
  BY <1>1, <1>2, <1>3, <1>4, <1>5, <1>6, <1>7, <1>8, <1>9, <1>10, <1>11, <1>12, <1>13, <1>14 DEF Step

\* A call's own steps keep ClaimIsSeen.
LEMMA ClaimIsSeenStep ==
  ASSUME Types, NEW w \in Writer, Step(w) \/ Crash(w), Sound(w)
  PROVE  ClaimIsSeen(w)'
<1>0. dir \in Directory /\ call[w].reply \in Answers
  BY DEF Types, Calls
<1> USE <1>0, NamesDiffer, GoEffect, UnwindEffect, AnswerEffect
<1> USE DEF Sound, ClaimIsSeen, Conditional, Dirs, At, Answers, Places
<1>1. CASE Begin(w)
  BY <1>1, BeginEffect
<1>2. CASE Observe(w)
  <2>1. CASE /\ PageIs(call[w].expected)
             /\ held' = [held EXCEPT ![w] = dir.at[Page]]
             /\ seen' = [seen EXCEPT ![w] = dir.at[Page]]
             /\ found' = [found EXCEPT ![w] = file[dir.at[Page]].gen]
             /\ file' = file
             /\ Go(w, "claim")
    <3>1. /\ held'[w] = dir.at[Page] /\ seen'[w] = dir.at[Page] /\ dir.at[Page] # None
          /\ found'[w] = file[dir.at[Page]].gen
      BY <2>1 DEF PageIs, Types
    <3>2. QED
      BY <2>1, <3>1
  <2>2. CASE Answer(w, "stale") \/ Answer(w, "notPublished")
    BY <2>2
  <2>3. QED
    BY <1>2, <2>1, <2>2 DEF Observe
<1>3. CASE ClaimDestination(w)
  BY <1>3, RenameEffect DEF ClaimDestination
<1>4. CASE Verify(w)
  BY <1>4 DEF Verify
<1>5. CASE RestoreClaim(w)
  BY <1>5, RenameEffect DEF RestoreClaim
<1>6. CASE RestoreFlush(w)
  BY <1>6 DEF RestoreFlush
<1>7. CASE WriteTemporary(w)
  <2>1. FileFrame
    BY <1>7, FileStep
  <2>2. CASE /\ Go(w, "publish")
             /\ UNCHANGED <<seen, held, found>>
             /\ \E i \in Inode : SetDir(Entry(Temp(w), i))
    BY <1>7, <2>1, <2>2, EntryEffect, NoneAssumption DEF FileFrame, WriteTemporary
  <2>3. CASE GiveUp(w, Undo(w)) /\ UNCHANGED <<dir, past, file, found>>
    BY <1>7, <2>3 DEF GiveUp, Undo, WriteTemporary
  <2>4. QED
    BY <1>7, <2>2, <2>3 DEF WriteTemporary
<1>8. CASE Publish(w)
  BY <1>8, PublishedEffect DEF Publish
<1>9. CASE RemoveTemporary(w)
  BY <1>9, EntryEffect DEF RemoveTemporary, GiveUp, Undo
<1>10. CASE DropClaim(w)
  BY <1>10, EntryEffect DEF DropClaim
<1>11. CASE Flush(w)
  BY <1>11 DEF Flush
<1>12. CASE RemoveClaim(w)
  BY <1>12, EntryEffect DEF RemoveClaim
<1>13. CASE LastFlush(w)
  BY <1>13 DEF LastFlush
<1>14. CASE Crash(w)
  BY <1>14 DEF Crash
<1>15. QED
  BY <1>1, <1>2, <1>3, <1>4, <1>5, <1>6, <1>7, <1>8, <1>9, <1>10, <1>11, <1>12, <1>13, <1>14 DEF Step

-----------------------------------------------------------------------------
(* The editor and the kernel.                                              *)

\* They change the page's name and nothing that a call relies on.
Outside == SaveByRename \/ SaveInPlace \/ Delete \/ WriteBack

\* What a save or deletion by another program and the kernel's write-back do.
LEMMA OutsideEffect ==
  ASSUME Types, Outside
  PROVE  /\ dir' \in Directory /\ past' \subseteq Dirs
         /\ dir'.pub = dir.pub
         /\ \A n \in Names \ {Page} : dir'.at[n] = dir.at[n]
         /\ UNCHANGED <<call, seen, held, found, faults>>
         /\ FileFrame
         /\ ~deleted' => ~deleted /\ (dir.at[Page] # None => dir'.at[Page] # None)
<1>0. dir \in Directory /\ past \subseteq Directory /\ Page \in Names
  BY DEF Types, Names
<1>1. CASE SaveByRename
  <2>1. PICK i \in Inode, text \in Text :
           /\ Free(i)
           /\ file' = [file EXCEPT ![i] = [text |-> text, gen |-> used + 1]]
           /\ SetDir(Entry(Page, i))
    BY <1>1 DEF SaveByRename
  <2>2. used' = used + 1 /\ used' \in Nat /\ UNCHANGED <<call, seen, held, found, faults, deleted>>
    BY <1>1 DEF SaveByRename, Types
  <2>3. file' \in [Inode -> [text : Text, gen : Nat]]
    BY <2>1, <2>2 DEF Types
  <2>4. ASSUME NEW u \in Writer, held[u] # None PROVE file'[held[u]] = file[held[u]]
    BY <2>1, <2>4 DEF Types, Free
  <2>5. FileFrame
    BY <2>2, <2>3, <2>4 DEF FileFrame, Types
  <2>6. QED
    BY <1>0, <2>1, <2>2, <2>5, EntryEffect, NoneAssumption
<1>2. CASE SaveInPlace
  <2>1. PICK text \in Text : file' = [file EXCEPT ![dir.at[Page]].text = text]
    BY <1>2 DEF SaveInPlace
  <2>2. dir.at[Page] \in Inode
    BY <1>0, <1>2 DEF SaveInPlace, Directory
  <2>3. file' \in [Inode -> [text : Text, gen : Nat]] /\ \A i \in Inode : file'[i].gen = file[i].gen
    BY <2>1, <2>2 DEF Types
  <2>4. FileFrame
    BY <1>2, <2>3 DEF FileFrame, Types, SaveInPlace
  <2>5. QED
    BY <1>0, <1>2, <2>4 DEF SaveInPlace, Dirs
<1>3. CASE Delete
  <2>1. FileFrame
    BY <1>3 DEF Delete, FileFrame, Types
  <2>2. QED
    BY <1>0, <1>3, <2>1, EntryEffect DEF Delete
<1>4. CASE WriteBack
  <2>1. FileFrame
    BY <1>4 DEF WriteBack, FileFrame, Types
  <2>2. QED
    BY <1>0, <1>4, <2>1 DEF WriteBack
<1>5. QED
  BY <1>1, <1>2, <1>3, <1>4 DEF Outside

\* A power loss ends every call in a directory that it had before.
LEMMA PowerLossEffect ==
  ASSUME Types, PowerLoss
  PROVE  /\ dir' \in Dirs /\ past' = {}
         /\ call' \in Calls
         /\ \A w \in Writer : /\ call'[w].pc = "end" /\ call'[w].kind = call[w].kind
                              /\ call'[w].answer = call[w].answer
         /\ \A w \in Writer : seen'[w] = None /\ held'[w] = None
         /\ seen' \in [Writer -> Inode \cup {None}] /\ held' \in [Writer -> Inode \cup {None}]
         /\ faults' = faults + 1 /\ UNCHANGED <<file, found, used, deleted>>
<1>1. /\ call' = [w \in Writer |-> IF call[w].pc = "end" THEN call[w]
                                 ELSE [call[w] EXCEPT !.pc = "end"]]
      /\ seen' = [w \in Writer |-> None] /\ held' = [w \in Writer |-> None]
      /\ dir' \in past \cup {dir} /\ past' = {}
      /\ faults' = faults + 1 /\ UNCHANGED <<file, found, used, deleted>>
  BY DEF PowerLoss, Fault
<1>2. call' \in Calls /\ \A w \in Writer : /\ call'[w].pc = "end" /\ call'[w].kind = call[w].kind
                                           /\ call'[w].answer = call[w].answer
  BY <1>1 DEF Types, Calls, Places
<1>3. QED
  BY <1>1, <1>2 DEF Dirs

\* Every step keeps the types.
LEMMA TypesStep ==
  ASSUME Types, [Next]_vars
  PROVE  Types'
<1>1. ASSUME NEW w \in Writer, Step(w) \/ Crash(w) PROVE Types'
  BY <1>1, CallStep, DirStep, FileStep DEF CallFrame, DirFrame, FileFrame, Types, Dirs
<1>2. CASE Outside
  BY <1>2, OutsideEffect DEF FileFrame, Types, Dirs
<1>3. CASE PowerLoss
  BY <1>3, PowerLossEffect DEF Types, Dirs
<1>4. CASE UNCHANGED vars
  BY <1>4 DEF vars, Types
<1>5. QED
  BY <1>1, <1>2, <1>3, <1>4 DEF Next, Outside

\* Every step keeps what every call relies on.
LEMMA SoundStep ==
  ASSUME Types, [Next]_vars, \A w \in Writer : Sound(w)
  PROVE  \A w \in Writer : Sound(w)'
<1>1. ASSUME NEW w \in Writer, Step(w) \/ Crash(w), NEW u \in Writer PROVE Sound(u)'
  BY <1>1, OthersAreSound, ClaimIsMadeStep, AnswerFitsStep, ClaimIsSeenStep DEF Sound
<1>2. CASE Outside
  <2>1. \A u \in Writer : Untouched(u)
    BY <1>2, OutsideEffect, NamesDiffer DEF Untouched, FileFrame
  <2>2. QED
    BY <2>1, UntouchedIsSound
<1>3. ASSUME PowerLoss, NEW w \in Writer PROVE Sound(w)'
  BY <1>3, PowerLossEffect DEF Sound, ClaimIsMade, AnswerFits, ClaimIsSeen, Conditional, Dirs
<1>4. ASSUME UNCHANGED vars, NEW w \in Writer PROVE Sound(w)'
  BY <1>4 DEF vars, Sound, ClaimIsMade, AnswerFits, ClaimIsSeen, Conditional, Dirs
<1>5. QED
  BY <1>1, <1>2, <1>3, <1>4 DEF Next, Outside

-----------------------------------------------------------------------------
(* The page is never gone.                                                 *)

\* A call's claim becomes doomed only while the page is there under its name,
\* and a version moves only into a claim that is not.
LEMMA SpareStep ==
  ASSUME Types, NEW w \in Writer, Step(w) \/ Crash(w), Sound(w), Spare
  PROVE  Spare'
<1>0. dir \in Directory /\ call[w].reply \in Answers
  BY DEF Types, Calls
<1>a. ASSUME NEW u \in Writer \ {w}, ~Doomed(u), dir.at[Claim(u)] # None
      PROVE  ~Doomed(u)' /\ dir'.at[Claim(u)] # None
  BY <1>a, CallStep, DirStep DEF CallFrame, DirFrame, Doomed, Conditional
<1> DEFINE Mine == dir.at[Page] # None \/ (~Doomed(w) /\ dir.at[Claim(w)] # None)
<1>b. ASSUME Mine => Mine' PROVE Spare'
  BY <1>a, <1>b DEF Spare
<1> USE <1>0, NamesDiffer, GoEffect, UnwindEffect, AnswerEffect
<1> USE DEF Sound, AnswerFits, ClaimIsMade, ClaimIsSeen, Conditional, Doomed, At, Answers, Places
<1>1. CASE Begin(w)
  <2>1. Mine => Mine'
    BY <1>1, BeginEffect DEF Begin
  <2>2. QED
    BY <1>b, <2>1
<1>2. CASE Observe(w)
  <2>1. Mine => Mine'
    BY <1>2 DEF Observe
  <2>2. QED
    BY <1>b, <2>1
<1>3. CASE ClaimDestination(w)
  <2>1. Mine => Mine'
    BY <1>3, RenameEffect DEF ClaimDestination
  <2>2. QED
    BY <1>b, <2>1
<1>4. CASE Verify(w)
  <2>1. Mine => Mine'
    BY <1>4 DEF Verify
  <2>2. QED
    BY <1>b, <2>1
<1>5. CASE RestoreClaim(w)
  <2>1. Mine => Mine'
    BY <1>5, RenameEffect DEF RestoreClaim
  <2>2. QED
    BY <1>b, <2>1
<1>6. CASE RestoreFlush(w)
  <2>1. Mine => Mine'
    BY <1>6 DEF RestoreFlush
  <2>2. QED
    BY <1>b, <2>1
<1>7. CASE WriteTemporary(w)
  <2>1. Mine => Mine'
    BY <1>7, EntryEffect DEF WriteTemporary, GiveUp, Undo
  <2>2. QED
    BY <1>b, <2>1
<1>8. CASE Publish(w)
  <2>1. Mine => Mine'
    BY <1>8, PublishedEffect DEF Publish
  <2>2. QED
    BY <1>b, <2>1
<1>9. CASE RemoveTemporary(w)
  <2>1. Mine => Mine'
    BY <1>9, EntryEffect DEF RemoveTemporary, GiveUp, Undo
  <2>2. QED
    BY <1>b, <2>1
<1>10. CASE DropClaim(w)
  <2>1. Mine => Mine'
    BY <1>10, EntryEffect DEF DropClaim
  <2>2. QED
    BY <1>b, <2>1
<1>11. CASE Flush(w)
  <2>1. Mine => Mine'
    BY <1>11 DEF Flush
  <2>2. QED
    BY <1>b, <2>1
<1>12. CASE RemoveClaim(w)
  <2>1. Mine => Mine'
    BY <1>12, EntryEffect DEF RemoveClaim
  <2>2. QED
    BY <1>b, <2>1
<1>13. CASE LastFlush(w)
  <2>1. Mine => Mine'
    BY <1>13 DEF LastFlush
  <2>2. QED
    BY <1>b, <2>1
<1>14. CASE Crash(w)
  <2>1. Mine => Mine'
    BY <1>14 DEF Crash
  <2>2. QED
    BY <1>b, <2>1
<1>15. QED
  BY <1>1, <1>2, <1>3, <1>4, <1>5, <1>6, <1>7, <1>8, <1>9, <1>10, <1>11, <1>12, <1>13, <1>14 DEF Step

\* Every step keeps some version, in every directory a power loss may leave.
LEMMA VersionsStep ==
  ASSUME Types, [Next]_vars, \A w \in Writer : Sound(w), Versions
  PROVE  Versions'
<1>1. ~deleted => \A d \in Dirs : HasVersion(d)
  BY DEF Versions, Spare, HasVersion, Dirs
<1>2. ASSUME NEW w \in Writer, Step(w) \/ Crash(w) PROVE Versions'
  BY <1>1, <1>2, SpareStep, DirStep DEF DirFrame, Versions
<1>3. CASE Outside
  <2>1. ASSUME ~deleted' PROVE Spare'
    <3>1. \A w \in Writer : Doomed(w)' <=> Doomed(w)
      BY <1>3, OutsideEffect DEF Doomed, Conditional
    <3>2. \A w \in Writer : dir'.at[Claim(w)] = dir.at[Claim(w)]
      BY <1>3, OutsideEffect, NamesDiffer
    <3>3. Spare /\ (dir.at[Page] # None => dir'.at[Page] # None)
      BY <1>3, <2>1, OutsideEffect DEF Versions
    <3>4. QED
      BY <3>1, <3>2, <3>3 DEF Spare
  <2>2. QED
    BY <1>1, <1>3, <2>1, OutsideEffect DEF Versions
<1>4. CASE PowerLoss
  <2>1. \A w \in Writer : ~Doomed(w)'
    BY <1>4, PowerLossEffect DEF Doomed
  <2>2. QED
    BY <1>1, <1>4, <2>1, PowerLossEffect DEF Versions, Spare, HasVersion
<1>5. CASE UNCHANGED vars
  BY <1>5 DEF vars, Versions, Spare, Doomed, Conditional
<1>6. QED
  BY <1>2, <1>3, <1>4, <1>5 DEF Next, Outside

\* A call that meets no fault leaves the page there or keeps it in hand.
LEMMA KeeperStep ==
  ASSUME Types, NEW w \in Writer, Step(w) \/ Crash(w), Sound(w), faults' = faults,
         dir.at[Page] # None \/ Keeper(w)
  PROVE  dir'.at[Page] # None \/ Keeper(w)'
<1>0. dir \in Directory /\ call[w].reply \in Answers /\ faults' # faults + 1
  BY DEF Types, Calls
<1> USE <1>0, NamesDiffer, GoEffect, UnwindEffect, AnswerEffect
<1> USE DEF Sound, ClaimIsMade, ClaimIsSeen, Keeper, Conditional, At, Answers, Places, Fault
<1>1. CASE Begin(w)
  BY <1>1, BeginEffect DEF Begin
<1>2. CASE Observe(w)
  BY <1>2 DEF Observe
<1>3. CASE ClaimDestination(w)
  BY <1>3, RenameEffect DEF ClaimDestination
<1>4. CASE Verify(w)
  BY <1>4 DEF Verify
<1>5. CASE RestoreClaim(w)
  BY <1>5, RenameEffect DEF RestoreClaim
<1>6. CASE RestoreFlush(w)
  BY <1>6 DEF RestoreFlush
<1>7. CASE WriteTemporary(w)
  BY <1>7, EntryEffect DEF WriteTemporary, GiveUp, Undo
<1>8. CASE Publish(w)
  BY <1>8, PublishedEffect DEF Publish
<1>9. CASE RemoveTemporary(w)
  BY <1>9, EntryEffect DEF RemoveTemporary, GiveUp, Undo
<1>10. CASE DropClaim(w)
  BY <1>10, EntryEffect DEF DropClaim
<1>11. CASE Flush(w)
  BY <1>11 DEF Flush
<1>12. CASE RemoveClaim(w)
  BY <1>12, EntryEffect DEF RemoveClaim
<1>13. CASE LastFlush(w)
  BY <1>13 DEF LastFlush
<1>14. CASE Crash(w)
  BY <1>14 DEF Crash
<1>15. QED
  BY <1>1, <1>2, <1>3, <1>4, <1>5, <1>6, <1>7, <1>8, <1>9, <1>10, <1>11, <1>12, <1>13, <1>14 DEF Step

\* Without faults and deletions the page is there or a call is bound to put it
\* back (claim, restore and publish of replace_if_unchanged).
LEMMA BackStep ==
  ASSUME Types, [Next]_vars, \A w \in Writer : Sound(w), Back
  PROVE  Back'
<1>1. ASSUME NEW w \in Writer, Step(w) \/ Crash(w) PROVE Back'
  <2> SUFFICES ASSUME faults' = 0, ~deleted'
               PROVE  dir'.at[Page] # None \/ \E u \in Writer : Keeper(u)'
    BY DEF Back
  <2>1. faults' = faults \/ faults' = faults + 1
    BY <1>1 DEF Step, Begin, Observe, ClaimDestination, Verify, RestoreClaim, RestoreFlush,
                WriteTemporary, Publish, RemoveTemporary, DropClaim, Flush, RemoveClaim,
                LastFlush, Crash, Fault
  <2>2. faults = 0 /\ faults' = faults /\ ~deleted
    BY <1>1, <2>1, DirStep DEF Types, DirFrame
  <2>3. dir.at[Page] # None \/ \E u \in Writer : Keeper(u)
    BY <2>2 DEF Back
  <2>4. ASSUME NEW u \in Writer \ {w}, Keeper(u) PROVE Keeper(u)'
    BY <1>1, <2>4, CallStep, DirStep DEF CallFrame, DirFrame, Keeper, Conditional
  <2>5. QED
    BY <1>1, <2>2, <2>3, <2>4, KeeperStep
<1>2. CASE Outside
  <2>1. \A u \in Writer : Keeper(u) => Keeper(u)'
    BY <1>2, OutsideEffect, NamesDiffer DEF Keeper, Conditional
  <2>2. QED
    BY <1>2, <2>1, OutsideEffect DEF Back
<1>3. CASE PowerLoss
  <2>1. faults' # 0
    BY <1>3, PowerLossEffect DEF Types
  <2>2. QED
    BY <2>1 DEF Back
<1>4. CASE UNCHANGED vars
  BY <1>4 DEF vars, Back, Keeper, Conditional
<1>5. QED
  BY <1>1, <1>2, <1>3, <1>4 DEF Next, Outside

\* A publication is never taken back but by a power loss, which forgets.
LEMMA PubGrowsStep ==
  ASSUME Types, [Next]_vars, PubGrows
  PROVE  PubGrows'
<1>1. ASSUME NEW w \in Writer, Step(w) \/ Crash(w) PROVE PubGrows'
  BY <1>1, DirStep DEF DirFrame, PubGrows, Dirs
<1>2. CASE Outside
  BY <1>2, OutsideEffect DEF PubGrows, Dirs
<1>3. CASE PowerLoss
  BY <1>3, PowerLossEffect DEF PubGrows
<1>4. CASE UNCHANGED vars
  BY <1>4 DEF vars, PubGrows
<1>5. QED
  BY <1>1, <1>2, <1>3, <1>4 DEF Next, Outside

-----------------------------------------------------------------------------
\* The invariant holds in every reachable state.
THEOREM Safe == Spec => []Inv
<1>1. Init => Inv
  <2> SUFFICES ASSUME Init PROVE Inv
    OBVIOUS
  <2>1. PICK i \in Inode, text \in Text :
       /\ dir = [at |-> [n \in Names |-> IF n = Page THEN i ELSE None], pub |-> {}]
       /\ file = [j \in Inode |-> [text |-> text, gen |-> 0]]
       /\ call = [w \in Writer |-> [kind |-> "create", expected |-> text, new |-> text,
                                    pc |-> "idle", reply |-> "none", answer |-> "none"]]
    BY DEF Init
  <2>2. /\ past = {} /\ seen = [w \in Writer |-> None] /\ held = [w \in Writer |-> None]
        /\ found = [w \in Writer |-> 0] /\ used = 0 /\ faults = 0
    BY DEF Init
  <2>3. Page \in Names
    BY DEF Names
  <2>4. dir \in Directory /\ dir.pub = {} /\ dir.at[Page] = i /\ i # None
    BY <2>1, <2>3, NoneAssumption DEF Directory
  <2>5. \A w \in Writer : dir.at[Claim(w)] = None
    BY <2>1, NamesDiffer
  <2>6. call \in Calls
    BY <2>1 DEF Calls, Kinds, Places, Answers
  <2>7. \A w \in Writer : /\ call[w].kind = "create" /\ call[w].pc = "idle"
                          /\ call[w].answer = "none" /\ held[w] = None
    BY <2>1, <2>2
  <2>8. Types
    BY <2>1, <2>2, <2>4, <2>6 DEF Types
  <2>9. \A w \in Writer : Sound(w)
    BY <2>2, <2>4, <2>5, <2>7
       DEF Sound, ClaimIsMade, AnswerFits, ClaimIsSeen, Conditional, Dirs
  <2>10. Versions /\ Back /\ PubGrows
    BY <2>2, <2>4 DEF Versions, Spare, Back, PubGrows
  <2>11. QED
    BY <2>8, <2>9, <2>10 DEF Inv
<1>2. Inv /\ [Next]_vars => Inv'
  BY TypesStep, SoundStep, VersionsStep, BackStep, PubGrowsStep DEF Inv
<1>3. QED
  BY <1>1, <1>2, PTL DEF Spec

\* Whatever fails and whenever: some version of the page exists, now and after
\* a power loss, and without faults it is back under its name once the calls
\* have returned (atomic_replace_if_unchanged, restore_claim).
THEOREM PageStays == Spec => []PageIsThere
<1>1. ASSUME Inv PROVE SomeVersionExists
  BY <1>1 DEF Inv, Versions, Spare, HasVersion, SomeVersionExists
<1>2. ASSUME Inv PROVE PageIsBack
  BY <1>2 DEF Inv, Back, Keeper, PageIsBack
<1>3. QED
  BY <1>1, <1>2, Safe, PTL DEF PageIsThere

\* ok is for good, and a refused call has published nothing
\* (AtomicWriteError, ReplaceIfUnchangedError).
THEOREM AnswersAreTrue == Spec => []AnswerIsTrue
<1>1. Inv => AnswerIsTrue
  BY DEF Inv, Sound, AnswerFits, Dirs, AnswerIsTrue, OkIsDurable, RefusedIsNotPublished
<1>2. QED
  BY <1>1, Safe, PTL

\* A conditional call publishes only over the very file that it compared: the
\* handle it holds open keeps the number of that file from being handed out
\* again (atomic_replace_if_unchanged).
THEOREM SeenIsReplaced == Spec => ReplacedWhatItSaw
<1> DEFINE A == \A w \in Writer :
                  /\ call[w].kind = "replace_if_unchanged"
                  /\ w \notin dir.pub /\ w \in dir'.pub
                  => file[dir.at[Claim(w)]].gen = found[w]
<1>1. ASSUME Inv, [Next]_vars PROVE A \/ UNCHANGED vars
  <2>1. ASSUME NEW w \in Writer, Step(w) \/ Crash(w), NEW u \in Writer, Conditional(u),
               u \notin dir.pub, u \in dir'.pub
        PROVE  file[dir.at[Claim(u)]].gen = found[u]
    <3>1. u = w
      BY <1>1, <2>1, DirStep DEF Inv, DirFrame
    <3>2. ASSUME ~(dir'.pub = dir.pub) PROVE Publish(w)
      BY <1>1, <2>1, <3>2, RenameEffect, EntryEffect, NamesDiffer
         DEF Inv, Step, Begin, Observe, ClaimDestination, Verify, RestoreClaim, RestoreFlush,
             WriteTemporary, RemoveTemporary, DropClaim, Flush, RemoveClaim, LastFlush, Crash
    <3>3. Publish(w)
      BY <2>1, <3>1, <3>2
    <3>4. QED
      BY <1>1, <2>1, <3>1, <3>3 DEF Inv, Sound, ClaimIsSeen, Publish, At
  <2>2. CASE Outside
    BY <1>1, <2>2, OutsideEffect DEF Inv
  <2>3. CASE PowerLoss
    BY <1>1, <2>3, PowerLossEffect DEF Inv, PubGrows, Dirs
  <2>4. QED
    BY <1>1, <2>1, <2>2, <2>3 DEF Next, Outside, Conditional
<1>2. Inv /\ [Next]_vars => [A]_vars
  BY <1>1
<1>3. QED
  BY <1>2, Safe, PTL DEF Spec, ReplacedWhatItSaw

\* A conditional call or a create unlinks only its own temporary file and the
\* file that it compared (atomic_create, atomic_replace_if_unchanged).
THEOREM OthersStay == Spec => OthersAreKept
<1> DEFINE A == \A i \in Linked(dir) \ Linked(dir') :
                  \A w \in Writer :
                    /\ call'[w] # call[w] /\ call[w].kind # "replace"
                    /\ call[w].pc # "idle" /\ faults' = faults
                    => i = dir.at[Temp(w)] \/ (i = dir.at[Claim(w)] /\ file[i].gen = found[w])
<1>1. ASSUME Inv, [Next]_vars PROVE A \/ UNCHANGED vars
  <2>1. ASSUME NEW v \in Writer, Step(v) \/ Crash(v),
               NEW i \in Linked(dir) \ Linked(dir'), NEW w \in Writer,
               call'[w] # call[w], call[w].kind # "replace", call[w].pc # "idle", faults' = faults
        PROVE  i = dir.at[Temp(w)] \/ (i = dir.at[Claim(w)] /\ file[i].gen = found[w])
    <3>1. v = w
      BY <1>1, <2>1, CallStep DEF Inv, CallFrame
    <3>2. PICK n \in Names : i = dir.at[n] /\ i # None
      BY <2>1 DEF Linked
    <3>3. \A m \in Names : dir'.at[m] # i
      BY <2>1, <3>2 DEF Linked
    <3>4. Types /\ Sound(w) /\ faults' # faults + 1
      BY <1>1, <2>1 DEF Inv, Types
    <3> USE <3>2, <3>3, <3>4, NamesDiffer DEF Fault, At
    <3>5. CASE ClaimDestination(w)
      BY <3>5, <2>1, RenameEffect DEF ClaimDestination, Sound, ClaimIsMade, Dirs
    <3>6. CASE RestoreClaim(w)
      BY <3>6, <2>1, RenameEffect DEF RestoreClaim
    <3>7. CASE WriteTemporary(w)
      BY <3>7, <2>1, EntryEffect DEF WriteTemporary
    <3>8. CASE Publish(w)
      BY <3>8, <2>1, PublishedEffect DEF Publish
    <3>9. CASE RemoveTemporary(w)
      BY <3>9, <2>1, EntryEffect DEF RemoveTemporary
    <3>10. CASE DropClaim(w)
      BY <3>10, <2>1, EntryEffect DEF DropClaim, Sound, ClaimIsSeen, ClaimIsMade
    <3>11. CASE RemoveClaim(w)
      BY <3>11, <2>1, EntryEffect DEF RemoveClaim, Sound, ClaimIsSeen, ClaimIsMade
    <3>12. CASE UNCHANGED dir
      BY <3>12
    <3>13. QED
      BY <2>1, <3>1, <3>5, <3>6, <3>7, <3>8, <3>9, <3>10, <3>11, <3>12
         DEF Step, Begin, Observe, Verify, RestoreFlush, Flush, LastFlush, Crash
  <2>2. CASE Outside
    BY <1>1, <2>2, OutsideEffect DEF Inv
  <2>3. CASE PowerLoss
    BY <1>1, <2>3, PowerLossEffect DEF Inv, Types
  <2>4. QED
    BY <1>1, <2>1, <2>2, <2>3 DEF Next, Outside
<1>2. Inv /\ [Next]_vars => [A]_vars
  BY <1>1
<1>3. QED
  BY <1>2, Safe, PTL DEF Spec, OthersAreKept

=============================================================================
