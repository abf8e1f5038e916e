------------------------ MODULE ArchiveStoreProofs ------------------------
(***************************************************************************)
(* Proofs about ArchiveStore, for any captures, blobs, rubbish items and   *)
(* requests, and any number of crashes, failures and rebuilds.             *)
(***************************************************************************)
EXTENDS ArchiveStore, FiniteSetTheorems, TLAPS

PurgePc == {"lock", "read", "release", "take", "remove", "clean"}
BatchPc == {"unlink", "withdraw", "commit", "rollback"}
Ats == {"none", "staged", "store", "txn", "tomb", "gone", "restored", "undone"}
Ops == {"none", "purge", "archive", "restore"}
ItemType == [page : Pages \cup {Nobody}, at : Ats]
IngestType == [pc : {"idle", "store", "write", "undo"}, todo : SUBSET Blobs,
               stored : SUBSET Blobs, blob : Blobs \cup {Nobody}]
RequestType == [op : Ops, pc : {"idle", "publish"} \cup PurgePc \cup BatchPc,
                item : Items \cup {Nobody}, todo : SUBSET Items]
BatchType == [op : {"archive", "restore"}, item : Items, phase : {"committing", "committed"}]

\* The types the argument depends on.
VaultTypes ==
    /\ live \subseteq Pages /\ catalog \subseteq Items /\ ledger \subseteq Items
    /\ item \in [Items -> ItemType]
    /\ request \in [Requests -> RequestType]
    /\ lock \in [Items \cup Pages -> Requests \cup {Nobody}]
    /\ batches \subseteq BatchType
    /\ overtaken \subseteq Pages

StoreTypes ==
    /\ up \in BOOLEAN
    /\ rows \subseteq Blobs /\ files \subseteq Blobs
    /\ torn \subseteq Blobs /\ unsure \subseteq Blobs
    /\ refs \in [Blobs -> Int]
    /\ ingest \in [Pages -> IngestType]
    /\ hooks \in [Pages -> SUBSET Blobs]
    /\ pruning \in Blobs \cup {Nobody}

Types == VaultTypes /\ StoreTypes

-----------------------------------------------------------------------------
(* The vault, the rubbish and the requests.                                *)

\* The item has its page's content, or had it when it was purged.
Holds(i) == item[i].at \in {"staged", "store", "txn", "tomb", "gone"}

Listed(i) == i \in catalog <=> item[i].at = "store"

\* Request r has begun to change item i and its page, or may begin to.
Working(r, i) ==
    /\ request[r].item = i
    /\ \/ request[r].op = "archive"
       \/ request[r].op = "restore" /\ request[r].pc # "lock"

\* Request r is in the middle of the transaction of item i.
Moving(r, i) == Working(r, i) /\ (request[r].op = "restore" => request[r].pc # "publish")

\* Item i is in a transaction that the next start has to roll back.
Batched(i) == \E b \in batches : b.item = i /\ b.phase = "committing"

InBatch(i) == (\E r \in Requests : Moving(r, i)) \/ Batched(i)

\* A purge holds its item, which changes only by its own hand.
PurgeFits(r) ==
    LET i == request[r].item IN
    /\ request[r].pc \in PurgePc
    /\ request[r].pc = "lock" => i = Nobody
    /\ request[r].pc # "lock" =>
         /\ i \in Items /\ lock[i] = r
         /\ request[r].pc \in {"release", "take", "remove"} => item[i].at = "store"
         /\ request[r].pc \in {"take", "remove", "clean"} => i \in ledger
         /\ request[r].pc = "clean" => item[i].at = "tomb"
         /\ i \notin blurred =>
              /\ request[r].pc \in {"read", "release", "take"} => Listed(i)
              /\ request[r].pc \in {"remove", "clean"} => i \notin catalog

\* An archive holds its page and its new item, which nobody knows of.
ArchiveFits(r) ==
    LET i == request[r].item
        p == item[i].page IN
    /\ i \in Items /\ p \in Pages /\ lock[i] = r /\ lock[p] = r
    /\ i \notin ledger /\ (i \notin blurred => i \notin catalog)
    /\ request[r].pc \in {"publish", "unlink", "commit", "rollback"}
    /\ item[i].at \in {"staged", "store"}
    /\ request[r].pc = "publish" => item[i].at = "staged" /\ p \in live
    /\ request[r].pc = "unlink" => item[i].at = "store" /\ p \in live
    /\ request[r].pc = "commit" => item[i].at = "store" /\ p \notin live

\* A restore knows an item; once it has the locks, the item is not released.
RestoreFits(r) ==
    LET i == request[r].item
        p == item[i].page IN
    /\ i \in Items /\ p \in Pages
    /\ request[r].pc \in {"lock", "publish", "withdraw", "commit", "rollback"}
    /\ request[r].pc = "lock" => lock[i] # r
    /\ request[r].pc # "lock" =>
         /\ lock[i] = r /\ lock[p] = r /\ i \notin ledger
         /\ request[r].pc = "publish" /\ i \notin blurred => Listed(i)
         /\ request[r].pc # "publish" =>
              item[i].at \in {"store", "txn"} /\ (i \notin blurred => i \in catalog)
         /\ request[r].pc = "withdraw" => item[i].at = "store" /\ p \in live
         /\ request[r].pc = "commit" => item[i].at = "txn" /\ p \in live

Fits(r) ==
    /\ request[r].op = "none" => request[r] = NoRequest
    /\ request[r].op = "purge" => PurgeFits(r)
    /\ request[r].op = "archive" => ArchiveFits(r)
    /\ request[r].op = "restore" => RestoreFits(r)

\* Only the request that works on an item has it locked.
Owner(r) == \A i \in Items : lock[i] = r => i = request[r].item

\* An item outside a transaction has its content in the store, and its page is
\* not in the vault, unless the page was overtaken; it is listed exactly when it
\* is in the store, unless it is blurred.
ItemFits(i) ==
    /\ item[i].at = "none" => item[i] = NoItem
    /\ item[i].at # "none" => item[i].page \in Pages
    /\ i \in ledger => item[i].at # "none"
    /\ item[i].page \notin overtaken =>
         /\ item[i].at \in {"staged", "txn"} => InBatch(i)
         /\ Holds(i) /\ item[i].page \in live => InBatch(i)
    /\ up /\ lock[i] = Nobody /\ i \notin blurred => Listed(i)

\* Two items never have the same page's content.
Unique ==
    \A i, j \in Items :
      i # j /\ Holds(i) /\ Holds(j) /\ item[i].page \notin overtaken =>
        item[i].page # item[j].page

\* A batch that was left behind has its item, which is not released, and nobody
\* works on its page.
Waits(b) ==
    /\ item[b.item].at \in {"staged", "store", "txn"} /\ b.item \notin ledger
    /\ \A c \in batches : c.phase = "committing" /\ c.item = b.item => c = b
    /\ \A r \in Requests, i \in Items :
         Working(r, i) => item[i].page # item[b.item].page

BatchFits(b) ==
    /\ item[b.item].at # "none"
    /\ b.phase = "committing" /\ item[b.item].page \notin overtaken => Waits(b)
    /\ b.phase = "committed" /\ b.op = "restore" => item[b.item].at = "restored"

\* A stopped server does nothing.
Quiet ==
    ~up => /\ \A r \in Requests : request[r] = NoRequest
           /\ \A x \in Items \cup Pages : lock[x] = Nobody
           /\ \A p \in Pages : ingest[p] = NoIngest /\ hooks[p] = {}
           /\ pruning = Nobody

\* Nothing is left of an earlier page of the capture.
Fresh(p) == p \notin live /\ hooks[p] = {} /\ \A i \in Items : item[i].page # p

\* A capture is ingested once, and the blobs of a deleted page are given back
\* once.
PageFits(p) ==
    /\ ingest[p].pc # "idle" => Fresh(p) \/ (ingest[p].pc = "undo" /\ Refs[p] \subseteq unsure)
    /\ ingest[p].pc = "idle" => ingest[p] = NoIngest
    /\ ingest[p].pc = "store" => ingest[p].stored \cup ingest[p].todo = Refs[p]
    /\ ingest[p].pc = "write" =>
         /\ ingest[p].blob \in Blobs \ (ingest[p].stored \cup ingest[p].todo)
         /\ ingest[p].stored \cup ingest[p].todo \cup {ingest[p].blob} = Refs[p]
    /\ ingest[p].stored \subseteq Refs[p] /\ ingest[p].todo \subseteq Refs[p]
    /\ ingest[p].stored \cap ingest[p].todo = {}
    /\ hooks[p] \subseteq Refs[p]
    /\ hooks[p] # {} /\ p \notin overtaken =>
         p \notin live /\ \A i \in Items : Holds(i) => item[i].page # p

VaultInv ==
    /\ \A r \in Requests : Fits(r) /\ Owner(r)
    /\ \A i \in Items : ItemFits(i)
    /\ \A p \in Pages : PageFits(p)
    /\ \A b \in batches : BatchFits(b)
    /\ Unique /\ Quiet

-----------------------------------------------------------------------------
(* The content store.                                                      *)

\* The item's blobs are still to be given back.
Counting(i) == item[i].at \in {"staged", "txn"} \/ (item[i].at = "store" /\ i \notin ledger)

\* The page is in the vault, or can come back to it.
Named(p) == p \in live \/ \E i \in Items : item[i].page = p /\ Counting(i)

Writes(p, h) == ingest[p].pc = "write" /\ ingest[p].blob = h

\* Whoever has a reference to h, the capture that writes its file included.
Due(h) == {p \in Pages : /\ h \in Refs[p]
                         /\ \/ Named(p) \/ h \in ingest[p].stored \/ h \in hooks[p]
                            \/ Writes(p, h)}

\* The count of a blob covers who has a reference, while the first row of a blob
\* is written nobody else has one, and a blob that is pruned is nobody's.
BlobFits(h) ==
    h \notin Excused =>
      /\ refs[h] >= Cardinality(Due(h))
      /\ Due(h) # {} => h \in rows
      /\ \A p \in Pages : Writes(p, h) => Due(h) \subseteq {p}
      /\ pruning = h => Due(h) = {}

\* A row has its file, unless one of the two is being made or removed or a
\* crash or an error kept it from being so.
RowFits(h) ==
    h \in rows => \/ h \in files \cup torn
                  \/ pruning = h
                  \/ \E p \in Pages : Writes(p, h)

StoreInv == \A h \in Blobs : BlobFits(h) /\ RowFits(h)

Inv == Types /\ VaultInv /\ StoreInv
-----------------------------------------------------------------------------
(* Steps of a request or of the recovery.                                  *)

\* Request r works on item i and page p: other requests, other items and what
\* somebody else has locked stay as they are.  Nobody as r is the recovery.
Works(r, i, p) ==
    /\ UNCHANGED <<up, ingest, hooks, unsure>>
    /\ overtaken \subseteq overtaken'
    /\ \A u \in Requests \ {r} : request'[u] = request[u]
    /\ \A j \in Items : r \in Requests /\ Moving(r, j) => j = i
    /\ \A j \in Items \ {i} :
         /\ item'[j] = item[j] /\ lock'[j] = lock[j]
         /\ j \in catalog' <=> j \in catalog
         /\ j \in ledger' <=> j \in ledger
         /\ j \in blurred' <=> j \in blurred
         /\ Batched(j) => Batched(j)'
    /\ i \in Items => lock[i] \in {r, Nobody} /\ lock'[i] \in {r, Nobody}
    /\ \A q \in Pages : lock[q] \notin {r, Nobody} => lock'[q] = lock[q]
    /\ p \in Pages => lock[p] \in {r, Nobody}
    /\ \A q \in Pages \ {p} : q \in live' <=> q \in live

\* A page comes into the vault only from its item, and an item into the store
\* only from the vault.
Local(i, p) ==
    /\ p \in live' /\ p \notin live => i \in Items /\ Counting(i) /\ item[i].page = p
    /\ i \in Items =>
         /\ \/ item'[i].page = item[i].page
            \/ item[i].page = Nobody /\ item'[i].page \in live
         /\ item'[i].page \notin overtaken' =>
              /\ Holds(i)' => \/ Holds(i)
                              \/ /\ item'[i].page \in live
                                 /\ \A j \in Items \ {i} :
                                      Holds(j) => item[j].page # item'[i].page
              /\ Counting(i)' => Counting(i) \/ item'[i].page \in live
         /\ ItemFits(i)'

\* The step spares the batches that wait for a restart: it changes none of their
\* items and takes up none of their pages, or the page is overtaken.
Spares(r, i) ==
    /\ \A b \in batches : b.phase = "committing" /\ item[b.item].page \notin overtaken' =>
         /\ b.item = i /\ b \in batches' =>
              item'[i].at \in {"staged", "store", "txn"} /\ i \notin ledger'
         /\ r \in Requests =>
              \A j \in Items : Working(r, j)' => item'[j].page # item[b.item].page
    /\ i \in Items =>
         /\ item'[i].at = "none" => item[i].at = "none"
         /\ item[i].at = "restored" => item'[i].at = "restored"
    /\ \A b \in batches' \ batches : BatchFits(b)'

WorkStep(r, i, p) ==
    /\ Works(r, i, p) /\ Local(i, p) /\ Spares(r, i)
    /\ r \in Requests => Fits(r)' /\ Owner(r)'

\* What another request relies on survives.
LEMMA OthersFit ==
  ASSUME Types, VaultInv, NEW r \in Requests \cup {Nobody}, NEW i \in Items \cup {Nobody},
         NEW p \in Pages \cup {Nobody}, Works(r, i, p), Local(i, p), NEW u \in Requests \ {r}
  PROVE  Fits(u)' /\ Owner(u)'
<1>1. Fits(u) /\ Owner(u) /\ request'[u] = request[u] /\ request[u] \in RequestType
  BY DEF VaultInv, Works, Types, VaultTypes
<1>2. u # Nobody /\ u # r
  BY ArchiveAssumption
<1>3. Owner(u)'
  BY <1>1, <1>2 DEF Owner, Works
<1>4. \A j \in Items : lock[j] = u =>
         /\ item'[j] = item[j] /\ lock'[j] = u
         /\ j \in catalog' <=> j \in catalog
         /\ j \in ledger' <=> j \in ledger
         /\ j \in blurred' <=> j \in blurred
  BY <1>2 DEF Works
<1>5. \A q \in Pages : lock[q] = u => lock'[q] = u /\ (q \in live' <=> q \in live)
  BY <1>2 DEF Works
<1>6. \A j \in Items : /\ item[j].page \in Pages => item'[j].page = item[j].page
                       /\ lock[j] # u => lock'[j] # u
  BY <1>2, ArchiveAssumption DEF Works, Local
<1>7. ASSUME request[u].op = "purge" PROVE PurgeFits(u)'
  BY <1>1, <1>4, <1>7 DEF Fits, PurgeFits, Listed, PurgePc
<1>8. ASSUME request[u].op = "archive" PROVE ArchiveFits(u)'
  BY <1>1, <1>4, <1>5, <1>8 DEF Fits, ArchiveFits
<1>9. ASSUME request[u].op = "restore" PROVE RestoreFits(u)'
  <2>1. RestoreFits(u)
    BY <1>1, <1>9 DEF Fits
  <2>2. CASE request[u].pc = "lock"
    BY <1>1, <1>6, <2>1, <2>2 DEF RestoreFits
  <2>3. CASE request[u].pc # "lock"
    BY <1>1, <1>4, <1>5, <2>1, <2>3 DEF RestoreFits, Listed
  <2>4. QED
    BY <2>2, <2>3
<1>10. QED
  BY <1>1, <1>3, <1>7, <1>8, <1>9 DEF Fits

\* Other items keep their place.
LEMMA OtherItems ==
  ASSUME Types, VaultInv, NEW r \in Requests \cup {Nobody}, NEW i \in Items \cup {Nobody},
         NEW p \in Pages \cup {Nobody}, Works(r, i, p), Local(i, p), NEW j \in Items \ {i}
  PROVE  ItemFits(j)'
<1>1. ItemFits(j) /\ item'[j] = item[j] /\ lock'[j] = lock[j] /\ up' = up
      /\ (j \in catalog' <=> j \in catalog) /\ (j \in ledger' <=> j \in ledger)
      /\ (j \in blurred' <=> j \in blurred) /\ overtaken \subseteq overtaken'
  BY DEF VaultInv, Works
<1>2. InBatch(j) => InBatch(j)'
  <2>1. ASSUME NEW u \in Requests, Moving(u, j) PROVE Moving(u, j)'
    BY <2>1 DEF Works, Moving, Working
  <2>2. QED
    BY <2>1 DEF InBatch, Works
<1>3. ASSUME Holds(j), item[j].page \in live', item[j].page \notin overtaken PROVE InBatch(j)
  <2>1. item[j].page \in Pages
    BY <1>1, <1>3 DEF ItemFits, Holds
  <2>2. CASE item[j].page \in live
    BY <1>1, <1>3, <2>2 DEF ItemFits
  <2>3. CASE item[j].page \notin live
    <3>1. item[j].page = p
      BY <1>3, <2>1, <2>3 DEF Works
    <3>2. i \in Items /\ Holds(i) /\ item[i].page = p
      BY <1>3, <2>3, <3>1 DEF Local, Counting, Holds
    <3>3. QED
      BY <1>3, <3>1, <3>2 DEF VaultInv, Unique
  <2>4. QED
    BY <2>2, <2>3
<1>4. QED
  BY <1>1, <1>2, <1>3 DEF ItemFits, Holds, Listed

\* Items stay unique.
LEMMA UniqueStep ==
  ASSUME Types, VaultInv, NEW r \in Requests \cup {Nobody}, NEW i \in Items \cup {Nobody},
         NEW p \in Pages \cup {Nobody}, Works(r, i, p), Local(i, p)
  PROVE  Unique'
<1> SUFFICES ASSUME NEW j \in Items, NEW k \in Items, j # k, Holds(j)', Holds(k)',
                    item'[j].page \notin overtaken', item'[j].page = item'[k].page
             PROVE  FALSE
  BY DEF Unique
<1>1. \A x \in Items : Holds(x) => item[x].page \in Pages
  BY DEF VaultInv, ItemFits, Holds
<1>2. /\ \A x \in Items \ {i} : item'[x] = item[x] /\ (Holds(x)' <=> Holds(x))
      /\ overtaken \subseteq overtaken'
  BY DEF Works, Holds
<1>3. ASSUME NEW x \in Items, x # i, i \in Items, Holds(x), Holds(i)', item'[i].page \notin overtaken'
      PROVE  item[x].page # item'[i].page
  <2>1. CASE Holds(i)
    <3>1. item'[i].page = item[i].page
      BY <1>1, <1>3, <2>1, ArchiveAssumption DEF Local
    <3>2. QED
      BY <1>2, <1>3, <2>1, <3>1 DEF VaultInv, Unique
  <2>2. CASE ~Holds(i)
    BY <1>3, <2>2 DEF Local
  <2>3. QED
    BY <2>1, <2>2
<1>4. CASE j # i /\ k # i
  BY <1>2, <1>4 DEF VaultInv, Unique
<1>5. CASE j = i
  BY <1>2, <1>3, <1>5
<1>6. CASE k = i
  BY <1>2, <1>3, <1>6
<1>7. QED
  BY <1>4, <1>5, <1>6

\* Captures under way and hooks keep their place.
LEMMA PagesStep ==
  ASSUME Types, VaultInv, NEW r \in Requests \cup {Nobody}, NEW i \in Items \cup {Nobody},
         NEW p \in Pages \cup {Nobody}, Works(r, i, p), Local(i, p), NEW q \in Pages
  PROVE  PageFits(q)'
<1>1. PageFits(q) /\ ingest' = ingest /\ hooks' = hooks /\ unsure' = unsure
      /\ overtaken \subseteq overtaken'
  BY DEF VaultInv, Works
<1>2. q \in live' => \/ q \in live
                     \/ i \in Items /\ Holds(i) /\ item[i].page = q
  BY DEF Works, Local, Counting, Holds
<1>3. ASSUME NEW j \in Items, item'[j].page = q PROVE item[j].page = q \/ q \in live
  BY <1>3 DEF Works, Local
<1>4. ASSUME NEW j \in Items, Holds(j)', item'[j].page = q, q \notin overtaken'
      PROVE  q \in live \/ (Holds(j) /\ item[j].page = q)
  BY <1>3, <1>4 DEF Works, Local, Holds
<1>5. Fresh(q) => Fresh(q)'
  BY <1>1, <1>2, <1>3 DEF Fresh
<1>6. hooks[q] # {} /\ q \notin overtaken' =>
        q \notin live' /\ \A j \in Items : Holds(j)' => item'[j].page # q
  BY <1>1, <1>2, <1>4 DEF PageFits
<1>7. QED
  BY <1>1, <1>5, <1>6 DEF PageFits

\* Batches that were left behind keep their place.
LEMMA BatchesStep ==
  ASSUME Types, VaultInv, NEW r \in Requests \cup {Nobody}, NEW i \in Items \cup {Nobody},
         NEW p \in Pages \cup {Nobody}, Works(r, i, p), Local(i, p), Spares(r, i),
         NEW b \in batches'
  PROVE  BatchFits(b)'
<1> SUFFICES ASSUME b \in batches PROVE BatchFits(b)'
  BY DEF Spares
<1>1. /\ b.item \in Items /\ BatchFits(b) /\ item[b.item].page \in Pages
      /\ item'[b.item].page = item[b.item].page
  <2>1. b.item \in Items /\ BatchFits(b)
    BY DEF VaultInv, Types, VaultTypes, BatchType
  <2>2. item[b.item].page \in Pages
    BY <2>1 DEF BatchFits, VaultInv, ItemFits
  <2>3. QED
    BY <2>1, <2>2, ArchiveAssumption DEF Works, Local
<1>2. item'[b.item].at # "none"
  BY <1>1 DEF BatchFits, Works, Spares
<1>3. b.phase = "committed" /\ b.op = "restore" => item'[b.item].at = "restored"
  BY <1>1 DEF BatchFits, Works, Spares
<1>4. ASSUME b.phase = "committing", item'[b.item].page \notin overtaken'
      PROVE  Waits(b)'
  <2>1. item[b.item].page \notin overtaken' /\ Waits(b)
    BY <1>1, <1>4 DEF BatchFits, Works
  <2>2. item'[b.item].at \in {"staged", "store", "txn"} /\ b.item \notin ledger'
    BY <1>1, <1>4, <2>1 DEF Works, Spares, Waits
  <2>3. ASSUME NEW c \in batches', c.phase = "committing", c.item = b.item PROVE c = b
    <3>1. CASE c \in batches
      BY <2>1, <2>3, <3>1 DEF Waits
    <3>2. CASE c \notin batches
      <4>1. BatchFits(c)'
        BY <3>2 DEF Spares
      <4>2. Waits(c)'
        BY <1>4, <2>3, <4>1 DEF BatchFits
      <4>3. QED
        BY <1>4, <2>3, <4>2 DEF Waits
    <3>3. QED
      BY <3>1, <3>2
  <2>4. ASSUME NEW u \in Requests, NEW j \in Items, Working(u, j)'
        PROVE  item'[j].page # item'[b.item].page
    <3>1. CASE u = r
      BY <1>1, <1>4, <2>1, <2>4, <3>1 DEF Spares
    <3>2. CASE u # r
      <4>1. Working(u, j) /\ Fits(u)
        BY <2>4, <3>2 DEF Works, Working, VaultInv
      <4>2. item[j].page \in Pages
        BY <4>1 DEF Working, Fits, ArchiveFits, RestoreFits
      <4>3. item'[j].page = item[j].page
        BY <4>2, ArchiveAssumption DEF Works, Local
      <4>4. QED
        BY <1>1, <2>1, <4>1, <4>3 DEF Waits
    <3>3. QED
      BY <3>1, <3>2
  <2>5. QED
    BY <2>2, <2>3, <2>4 DEF Waits
<1>5. QED
  BY <1>2, <1>3, <1>4 DEF BatchFits

\* Together.
LEMMA VaultStep ==
  ASSUME Types, VaultInv, NEW r \in Requests \cup {Nobody}, NEW i \in Items \cup {Nobody},
         NEW p \in Pages \cup {Nobody}, WorkStep(r, i, p), Quiet'
  PROVE  VaultInv'
<1>1. ASSUME NEW u \in Requests PROVE Fits(u)' /\ Owner(u)'
  BY OthersFit DEF WorkStep
<1>2. ASSUME NEW j \in Items PROVE ItemFits(j)'
  BY OtherItems DEF WorkStep, Local
<1>3. ASSUME NEW q \in Pages PROVE PageFits(q)'
  BY PagesStep DEF WorkStep
<1>4. Unique'
  BY UniqueStep DEF WorkStep
<1>5. ASSUME NEW b \in batches' PROVE BatchFits(b)'
  BY BatchesStep DEF WorkStep
<1>6. QED
  BY <1>1, <1>2, <1>3, <1>4, <1>5 DEF VaultInv

\* No page gains a claim, unless it is overtaken.
LEMMA NamedStep ==
  ASSUME Types, NEW r \in Requests \cup {Nobody}, NEW i \in Items \cup {Nobody},
         NEW p \in Pages \cup {Nobody}, WorkStep(r, i, p), VaultInv,
         NEW q \in Pages \ overtaken', Named(q)'
  PROVE  Named(q)
<1>1. CASE q \in live'
  BY <1>1 DEF WorkStep, Works, Local, Named
<1>2. CASE q \notin live'
  <2>1. PICK j \in Items : item'[j].page = q /\ Counting(j)'
    BY <1>2 DEF Named
  <2>2. CASE j # i
    BY <2>1, <2>2 DEF WorkStep, Works, Named, Counting
  <2>3. CASE j = i
    <3>1. Counting(i) => item[i].page # Nobody
      BY <2>3, ArchiveAssumption DEF VaultInv, ItemFits, Counting
    <3>2. QED
      BY <2>1, <2>3, <3>1 DEF WorkStep, Local, Named
  <2>4. QED
    BY <2>2, <2>3
<1>3. QED
  BY <1>1, <1>2

\* The vault, the rubbish and the requests stay in order, and no page gains a
\* claim.
Goes ==
    /\ VaultTypes' /\ VaultInv' /\ overtaken \subseteq overtaken'
    /\ \A q \in Pages \ overtaken' : Named(q)' => Named(q)

\* A step of a running server's request.
LEMMA Advance ==
  ASSUME Types, VaultInv, up, NEW r \in Requests, NEW i \in Items \cup {Nobody},
         NEW p \in Pages \cup {Nobody}, WorkStep(r, i, p), VaultTypes'
  PROVE  Goes
<1>1. up' /\ overtaken \subseteq overtaken'
  BY DEF WorkStep, Works
<1>2. Quiet'
  BY <1>1 DEF Quiet
<1>3. QED
  BY <1>1, <1>2, VaultStep, NamedStep DEF Goes

-----------------------------------------------------------------------------
(* What the parts of an action do.                                         *)

Pcs == {"idle", "publish"} \cup PurgePc \cup BatchPc

\* Moving on changes where a request is and nothing else of it.
LEMMA GotoEffect ==
  ASSUME Types, NEW r \in Requests, NEW pc \in Pcs, Goto(r, pc)
  PROVE  /\ request' \in [Requests -> RequestType]
         /\ request'[r].op = request[r].op /\ request'[r].item = request[r].item
         /\ request'[r].todo = request[r].todo /\ request'[r].pc = pc
         /\ \A u \in Requests \ {r} : request'[u] = request[u]
BY DEF Types, VaultTypes, Goto, RequestType, Pcs

\* A request is begun or goes on as the given record.
LEMMA BecomesEffect ==
  ASSUME Types, NEW r \in Requests, NEW q \in RequestType, request' = [request EXCEPT ![r] = q]
  PROVE  /\ request' \in [Requests -> RequestType] /\ request'[r] = q
         /\ \A u \in Requests \ {r} : request'[u] = request[u]
BY DEF Types, VaultTypes

\* The empty request is one.
LEMMA EmptyRequest ==
  NoRequest \in RequestType /\ NoRequest.op = "none" /\ NoRequest.item = Nobody
BY DEF NoRequest, RequestType, Ops, PurgePc, BatchPc

\* The locks of a request are dropped, and nobody else's.
LEMMA DropEffect ==
  ASSUME Types, NEW r \in Requests, Drop(r)
  PROVE  /\ lock' \in [Items \cup Pages -> Requests \cup {Nobody}]
         /\ \A x \in Items \cup Pages :
              lock'[x] = IF lock[x] = r THEN Nobody ELSE lock[x]
BY DEF Types, VaultTypes, Drop

\* Locks are taken that nobody has.
LEMMA TakeEffect ==
  ASSUME Types, NEW r \in Requests, NEW S \in SUBSET (Items \cup Pages), Take(r, S)
  PROVE  /\ lock' \in [Items \cup Pages -> Requests \cup {Nobody}]
         /\ \A x \in S : lock[x] = Nobody
         /\ \A x \in Items \cup Pages : lock'[x] = IF x \in S THEN r ELSE lock[x]
BY DEF Types, VaultTypes, Take

\* An answered request holds nothing.
LEMMA AnswerEffect ==
  ASSUME Types, NEW r \in Requests, Answer(r)
  PROVE  /\ lock' \in [Items \cup Pages -> Requests \cup {Nobody}]
         /\ \A x \in Items \cup Pages :
              lock'[x] = IF lock[x] = r THEN Nobody ELSE lock[x]
         /\ request' \in [Requests -> RequestType] /\ request'[r] = NoRequest
         /\ \A u \in Requests \ {r} : request'[u] = request[u]
BY DropEffect, BecomesEffect, EmptyRequest DEF Answer

\* A purge that is done with an item holds nothing.
LEMMA NextItemEffect ==
  ASSUME Types, NEW r \in Requests, NextItem(r), request[r].op = "purge"
  PROVE  /\ lock' \in [Items \cup Pages -> Requests \cup {Nobody}]
         /\ \A x \in Items \cup Pages :
              lock'[x] = IF lock[x] = r THEN Nobody ELSE lock[x]
         /\ request' \in [Requests -> RequestType]
         /\ \/ request'[r] = NoRequest
            \/ /\ request'[r].op = "purge" /\ request'[r].pc = "lock"
               /\ request'[r].todo = request[r].todo /\ request'[r].item = Nobody
         /\ \A u \in Requests \ {r} : request'[u] = request[u]
<1> DEFINE q == IF request[r].todo = {} THEN NoRequest
                ELSE [request[r] EXCEPT !.pc = "lock", !.item = Nobody]
<1>1. request[r] \in RequestType
  BY DEF Types, VaultTypes
<1>2. /\ q \in RequestType
      /\ q = NoRequest \/ (q.op = "purge" /\ q.pc = "lock" /\ q.todo = request[r].todo /\ q.item = Nobody)
  BY <1>1, EmptyRequest DEF RequestType, PurgePc
<1>3. request' = [request EXCEPT ![r] = q]
  BY DEF NextItem
<1> HIDE DEF q
<1>4. QED
  BY <1>2, <1>3, DropEffect, BecomesEffect DEF NextItem

\* A change of where an item's directory is.
LEMMA PlaceEffect ==
  ASSUME Types, NEW i \in Items, NEW at \in Ats, item' = [item EXCEPT ![i].at = at]
  PROVE  /\ item' \in [Items -> ItemType]
         /\ item'[i].page = item[i].page /\ item'[i].at = at
         /\ \A j \in Items \ {i} : item'[j] = item[j]
BY DEF Types, VaultTypes, ItemType
\* The pages that an operation takes up are overtaken where a batch waits for
\* them.
LEMMA OvertakeEffect ==
  ASSUME Types, NEW S \in SUBSET Pages, Overtake(S)
  PROVE  /\ overtaken \subseteq overtaken' /\ overtaken' \subseteq Pages
         /\ \A b \in batches :
              b.phase = "committing" /\ item[b.item].page \in S => item[b.item].page \in overtaken'
BY DEF Overtake, Pending, Types, VaultTypes

-----------------------------------------------------------------------------
(* Requests, one lemma for each of their steps.                            *)

\* What is known of a request that takes a step.
LEMMA KnownRequest ==
  ASSUME Types, VaultInv, NEW r \in Requests
  PROVE  /\ request[r] \in RequestType /\ Fits(r) /\ Owner(r)
         /\ r # Nobody
         /\ request[r].op = "none" => request[r] = NoRequest /\ \A j \in Items : lock[j] # r
         /\ request[r].op = "purge" => PurgeFits(r)
         /\ request[r].op = "archive" => ArchiveFits(r)
         /\ request[r].op = "restore" => RestoreFits(r)
<1>1. request[r] \in RequestType /\ Fits(r) /\ Owner(r) /\ r # Nobody
  BY ArchiveAssumption DEF Types, VaultTypes, VaultInv
<1>2. QED
  BY <1>1, EmptyRequest, ArchiveAssumption DEF Fits, Owner

\* Whoever works on an item holds it and its page.
LEMMA WorkingHolds ==
  ASSUME Types, VaultInv, NEW r \in Requests, NEW i \in Items, Working(r, i)
  PROVE  /\ lock[i] = r /\ item[i].page \in Pages /\ lock[item[i].page] = r
         /\ i \notin ledger
         /\ Moving(r, i) => item[i].at \in {"staged", "store", "txn"} /\ Counting(i)
BY KnownRequest DEF Working, Moving, ArchiveFits, RestoreFits, Counting

\* An item that its lock's holder is not moving is in a batch that waits, or in
\* none.
LEMMA NotMoving ==
  ASSUME Types, VaultInv, NEW r \in Requests, NEW i \in Items, lock[i] \in {r, Nobody},
         ~Moving(r, i)
  PROVE  InBatch(i) => Batched(i)
BY WorkingHolds, KnownRequest DEF InBatch, Moving

\* A request that works on its item leaves the waiting batches alone.
LEMMA WorkingSpares ==
  ASSUME Types, VaultInv, NEW r \in Requests, NEW i \in Items, Working(r, i),
         overtaken \subseteq overtaken', item'[i].page = item[i].page,
         \A j \in Items : Working(r, j)' => j = i,
         item[i].at # "restored", item'[i].at # "none",
         \A b \in batches' \ batches : BatchFits(b)'
  PROVE  Spares(r, i)
<1>1. ASSUME NEW b \in batches, b.phase = "committing", item[b.item].page \notin overtaken'
      PROVE  item[i].page # item[b.item].page
  <2>1. Waits(b)
    BY <1>1 DEF VaultInv, BatchFits
  <2>2. QED
    BY <2>1 DEF Waits
<1>2. QED
  BY <1>1 DEF Spares

\* A request that works on no item leaves them alone as well.
LEMMA IdleSpares ==
  ASSUME Types, VaultInv, NEW r \in Requests,
         \A j \in Items : ~Working(r, j)',
         UNCHANGED batches
  PROVE  Spares(r, Nobody)
BY ArchiveAssumption DEF Spares, Types, VaultTypes, BatchType

\* A request begins with a record and no lock, or ends before it has one.
LEMMA BeginGoes ==
  ASSUME Types, VaultInv, NEW r \in Requests, up, NEW q \in RequestType,
         request[r] = NoRequest \/ request[r].pc = "lock",
         request' = [request EXCEPT ![r] = q],
         \/ q.op = "purge" /\ q.pc = "lock" /\ q.item = Nobody
         \/ q.op = "restore" /\ q.pc = "lock" /\ q.item \in Items /\ item[q.item].page \in Pages
         \/ q = NoRequest,
         lock' = lock \/ Drop(r),
         UNCHANGED <<up, live, item, catalog, ledger, unsure, ingest, retained, hooks>>
  PROVE  Goes
<1>1. /\ request' \in [Requests -> RequestType] /\ request'[r] = q
      /\ \A u \in Requests \ {r} : request'[u] = request[u]
  BY BecomesEffect
<1>2. /\ \A j \in Items : lock[j] # r
      /\ \A j \in Items : ~Moving(r, j)
  <2>1. CASE request[r] = NoRequest
    BY <2>1, KnownRequest, EmptyRequest DEF Moving, Working
  <2>2. CASE request[r].pc = "lock"
    <3>1. request[r].op \in {"purge", "restore"}
      BY <2>2, KnownRequest DEF NoRequest, ArchiveFits, RequestType, Ops
    <3>2. QED
      BY <2>2, <3>1, KnownRequest, ArchiveAssumption
         DEF PurgeFits, RestoreFits, Owner, Moving, Working
  <2>3. QED
    BY <2>1, <2>2
<1>3. /\ lock' \in [Items \cup Pages -> Requests \cup {Nobody}]
      /\ \A j \in Items : lock'[j] = lock[j]
      /\ \A p \in Pages : lock[p] # r => lock'[p] = lock[p]
  BY <1>2, DropEffect DEF Types, VaultTypes
<1>4. Works(r, Nobody, Nobody)
  BY <1>1, <1>2, <1>3, ArchiveAssumption DEF Works, Batched, retained
<1>5. Local(Nobody, Nobody)
  BY ArchiveAssumption DEF Local
<1>6. Fits(r)' /\ Owner(r)'
  BY <1>1, <1>2, <1>3, EmptyRequest, KnownRequest DEF Fits, Owner, PurgeFits, PurgePc, RestoreFits
<1>7. Spares(r, Nobody)
  <2>1. \A j \in Items : ~Working(r, j)'
    BY <1>1, EmptyRequest DEF Working
  <2>2. QED
    BY <2>1, IdleSpares DEF retained
<1>8. VaultTypes'
  BY <1>1, <1>3 DEF Types, VaultTypes, retained
<1>9. QED
  BY <1>4, <1>5, <1>6, <1>7, <1>8, Advance DEF WorkStep

\* The steps that begin a request without a lock.
LEMMA BeginsGo ==
  ASSUME Types, VaultInv, NEW r \in Requests,
         BeginEmpty(r) \/ \E i \in Items : BeginRestore(r, i)
  PROVE  Goes
<1>1. CASE BeginEmpty(r)
  <2> DEFINE q == [op |-> "purge", pc |-> "lock", item |-> Nobody,
                   todo |-> {i \in Items : item[i].at = "store"}]
  <2>1. q \in RequestType /\ q.op = "purge" /\ q.pc = "lock" /\ q.item = Nobody
    BY DEF RequestType, Ops, PurgePc
  <2>2. /\ up /\ request[r] = NoRequest /\ request' = [request EXCEPT ![r] = q]
        /\ UNCHANGED <<up, live, item, catalog, ledger, unsure, ingest, lock, retained, hooks>>
    BY <1>1 DEF BeginEmpty, store, vault, Idle
  <2> HIDE DEF q
  <2>3. QED
    BY <2>1, <2>2, BeginGoes
<1>2. ASSUME NEW i \in Items, BeginRestore(r, i) PROVE Goes
  <2> DEFINE q == [op |-> "restore", pc |-> "lock", item |-> i, todo |-> {}]
  <2>1. q \in RequestType /\ q.op = "restore" /\ q.pc = "lock" /\ q.item = i
    BY DEF RequestType, Ops, PurgePc
  <2>2. /\ up /\ request[r] = NoRequest /\ request' = [request EXCEPT ![r] = q]
        /\ item[i].at = "store"
        /\ UNCHANGED <<up, live, item, catalog, ledger, unsure, ingest, lock, retained, hooks>>
    BY <1>2 DEF BeginRestore, store, vault, Idle
  <2>3. item[i].page \in Pages
    BY <2>2 DEF VaultInv, ItemFits
  <2> HIDE DEF q
  <2>4. QED
    BY <2>1, <2>2, <2>3, BeginGoes
<1>3. QED
  BY <1>1, <1>2

\* A purge takes its item, at once or when it comes to it.
LEMMA LockItemGoes ==
  ASSUME Types, VaultInv, NEW r \in Requests, NEW i \in Items,
         BeginPurge(r, i) \/ LockItem(r, i)
  PROVE  Goes
<1>1. /\ up /\ \A j \in Items : ~Moving(r, j) /\ lock[j] # r
      /\ UNCHANGED <<up, live, item, catalog, ledger, unsure, ingest, retained, hooks>>
  <2>1. CASE BeginPurge(r, i)
    BY <2>1, KnownRequest, EmptyRequest DEF BeginPurge, Idle, Moving, Working, store, vault
  <2>2. CASE LockItem(r, i)
    BY <2>2, KnownRequest, ArchiveAssumption
       DEF LockItem, At, PurgeFits, Owner, Moving, Working, store, vault
  <2>3. QED
    BY <2>1, <2>2
<1>2. /\ lock' \in [Items \cup Pages -> Requests \cup {Nobody}] /\ lock[i] = Nobody
      /\ \A x \in Items \cup Pages : lock'[x] = IF x = i THEN r ELSE lock[x]
  <2>1. {i} \in SUBSET (Items \cup Pages) /\ Take(r, {i})
    BY DEF LockItem, BeginPurge
  <2>2. QED
    BY <2>1, TakeEffect
<1>3. /\ request' \in [Requests -> RequestType]
      /\ request'[r].op = "purge" /\ request'[r].pc = "read" /\ request'[r].item = i
      /\ \A u \in Requests \ {r} : request'[u] = request[u]
  BY DEF LockItem, BeginPurge, At, Types, VaultTypes, RequestType, PurgePc, Ops
<1>4. Works(r, i, Nobody)
  BY <1>1, <1>2, <1>3, ArchiveAssumption DEF Works, Batched, retained
<1>5. ItemFits(i) /\ (i \notin blurred => Listed(i))
  BY <1>1, <1>2 DEF VaultInv, ItemFits
<1>6. InBatch(i) => InBatch(i)'
  <2>1. ASSUME NEW u \in Requests, Moving(u, i) PROVE Moving(u, i)'
    BY <1>1, <1>3, <2>1 DEF Moving, Working
  <2>2. QED
    BY <1>1, <2>1 DEF InBatch, Batched, retained
<1>7. ItemFits(i)'
  BY <1>1, <1>2, <1>5, <1>6, KnownRequest DEF ItemFits, Holds, Listed, retained
<1>8. Local(i, Nobody)
  BY <1>1, <1>7, ArchiveAssumption DEF Local, Holds, Counting, Types, VaultTypes
<1>9. Fits(r)' /\ Owner(r)'
  BY <1>1, <1>2, <1>3, <1>5, KnownRequest, ArchiveAssumption
     DEF Fits, Owner, PurgeFits, PurgePc, Listed, retained
<1>10. Spares(r, i)
  <2>1. \A j \in Items : ~Working(r, j)'
    BY <1>3 DEF Working
  <2>2. \A b \in batches : BatchFits(b)
    BY DEF VaultInv
  <2>3. QED
    BY <1>1, <2>1, <2>2 DEF Spares, BatchFits, Waits, retained
<1>11. VaultTypes'
  BY <1>1, <1>2, <1>3 DEF Types, VaultTypes, retained
<1>12. QED
  BY <1>1, <1>4, <1>8, <1>9, <1>10, <1>11, Advance DEF WorkStep
\* What a purge leaves of its request when it is done with its item, or given up.
Leaves(r) ==
    /\ Drop(r) /\ request' \in [Requests -> RequestType]
    /\ \/ request'[r] = NoRequest
       \/ request'[r].op = "purge" /\ request'[r].pc = "lock" /\ request'[r].item = Nobody
    /\ \A u \in Requests \ {r} : request'[u] = request[u]

LEMMA LeavesEffect ==
  ASSUME Types, NEW r \in Requests, request[r].op = "purge", NextItem(r) \/ Answer(r)
  PROVE  Leaves(r) /\ Fits(r)'
<1>1. Leaves(r)
  BY NextItemEffect, AnswerEffect DEF Leaves, NextItem, Answer
<1>2. QED
  BY <1>1, EmptyRequest DEF Leaves, Fits, PurgeFits, PurgePc

\* A purge that has its item changes nothing else.
LEMMA PurgeGoes ==
  ASSUME Types, VaultInv, NEW r \in Requests, NEW i \in Items, up,
         request[r].op = "purge", request[r].pc # "lock", request[r].item = i,
         item' \in [Items -> ItemType], item'[i].page = item[i].page,
         \A j \in Items \ {i} : item'[j] = item[j],
         \/ item'[i].at = item[i].at
         \/ item[i].at = "store" /\ i \in ledger /\ item'[i].at = "tomb"
         \/ item[i].at = "tomb" /\ item'[i].at = "gone",
         ledger' \in {ledger, ledger \cup {i}}, i \in ledger' => item[i].at # "none",
         catalog' \subseteq Items, \A j \in Items \ {i} : j \in catalog' <=> j \in catalog,
         blurred' \in {blurred, blurred \cup {i}},
         overtaken \subseteq overtaken', overtaken' \subseteq Pages,
         \A b \in batches : b.phase = "committing" /\ b.item = i =>
                              item[i].page \in overtaken' \/ ledger' = ledger,
         UNCHANGED <<up, live, unsure, ingest, batches, hooks>>,
         \/ UNCHANGED lock /\ request'[r].item = i /\ request'[r].op = "purge"
         \/ Leaves(r) /\ (i \notin blurred' => Listed(i)'),
         request' \in [Requests -> RequestType], Fits(r)',
         \A u \in Requests \ {r} : request'[u] = request[u]
  PROVE  Goes
<1>1. lock[i] = r /\ r # Nobody
  BY KnownRequest DEF PurgeFits
<1>2. /\ lock' \in [Items \cup Pages -> Requests \cup {Nobody}]
      /\ \A j \in Items \ {i} : lock'[j] = lock[j]
      /\ \A q \in Pages : lock[q] # r => lock'[q] = lock[q]
      /\ lock'[i] = r \/ (lock'[i] = Nobody /\ (i \notin blurred' => Listed(i)'))
      /\ Owner(r)' /\ \A j \in Items : ~Working(r, j)'
  <2>1. CASE UNCHANGED lock /\ request'[r].item = i /\ request'[r].op = "purge"
    BY <1>1, <2>1, KnownRequest DEF Owner, Types, VaultTypes, Working
  <2>2. CASE Leaves(r) /\ (i \notin blurred' => Listed(i)')
    <3>1. /\ lock' \in [Items \cup Pages -> Requests \cup {Nobody}]
          /\ \A x \in Items \cup Pages : lock'[x] = IF lock[x] = r THEN Nobody ELSE lock[x]
      BY <2>2, DropEffect DEF Leaves
    <3>2. \A j \in Items : lock[j] = r => j = i
      BY KnownRequest DEF Owner
    <3>3. \A j \in Items : ~Working(r, j)'
      BY <2>2, EmptyRequest DEF Leaves, Working
    <3>4. QED
      BY <1>1, <2>2, <3>1, <3>2, <3>3 DEF Owner
  <2>3. QED
    BY <2>1, <2>2
<1>3. \A j \in Items : ~Moving(r, j) /\ ~Moving(r, j)'
  BY <1>2 DEF Moving, Working
<1>4. \A j \in Items : InBatch(j)' <=> InBatch(j)
  <2>1. \A u \in Requests, j \in Items : Moving(u, j)' <=> Moving(u, j)
    BY <1>3 DEF Moving, Working
  <2>2. QED
    BY <2>1 DEF InBatch, Batched
<1>5. Works(r, i, Nobody)
  BY <1>1, <1>2, <1>3, ArchiveAssumption DEF Works, Batched
<1>6. ItemFits(i) /\ (Holds(i)' => Holds(i)) /\ (item'[i].at = "none" => item[i].at = "none")
  BY DEF Holds, VaultInv
<1>7. ItemFits(i)'
  <2>1. item'[i].at = "none" => item'[i] = NoItem
    <3>1. item'[i] \in ItemType /\ item[i] \in ItemType
      BY DEF Types, VaultTypes
    <3>2. item'[i].at = "none" => item'[i].page = Nobody
      BY <1>6 DEF ItemFits, NoItem
    <3>3. QED
      BY <3>1, <3>2 DEF ItemType, NoItem
  <2>2. item'[i].at # "none" => item'[i].page \in Pages
    BY <1>6 DEF ItemFits
  <2>3. item'[i].page \notin overtaken' =>
          /\ item'[i].at \in {"staged", "txn"} => InBatch(i)'
          /\ Holds(i)' /\ item'[i].page \in live' => InBatch(i)'
    BY <1>4, <1>6 DEF ItemFits
  <2>4. QED
    BY <1>1, <1>2, <1>6, <2>1, <2>2, <2>3 DEF ItemFits
<1>8. Local(i, Nobody)
  <2>1. Nobody \notin live /\ Nobody \notin live'
    BY ArchiveAssumption DEF Types, VaultTypes
  <2>2. Counting(i)' => Counting(i)
    BY DEF Counting
  <2>3. QED
    BY <1>6, <1>7, <2>1, <2>2 DEF Local
<1>9. Spares(r, i)
  <2>1. \A b \in batches : BatchFits(b)
    BY DEF VaultInv
  <2>2. ASSUME NEW b \in batches, b.phase = "committing", b.item = i, item[i].page \notin overtaken'
        PROVE  item'[i].at \in {"staged", "store", "txn"} /\ i \notin ledger'
    BY <2>1, <2>2 DEF BatchFits, Waits
  <2>3. QED
    BY <1>2, <1>6, <2>2 DEF Spares
<1>10. VaultTypes'
  BY <1>2 DEF Types, VaultTypes
<1>11. QED
  BY <1>2, <1>5, <1>8, <1>9, <1>10, Advance DEF WorkStep

\* The purge reads its item, or finishes an interrupted purge of it.
LEMMA PreparePurgeGoes ==
  ASSUME Types, VaultInv, NEW r \in Requests, PreparePurge(r)
  PROVE  Goes
<1> SUFFICES ASSUME NEW i, i = request[r].item PROVE Goes
  OBVIOUS
<1> DEFINE at == IF item[i].at = "tomb" THEN "gone" ELSE item[i].at
<1>1. /\ up /\ request[r].op = "purge" /\ request[r].pc = "read" /\ i \in Items
      /\ i \notin blurred => Listed(i)
      /\ item' = [item EXCEPT ![i].at = at]
      /\ UNCHANGED <<up, live, ledger, unsure, ingest, retained, hooks>>
  BY KnownRequest DEF PreparePurge, At, PurgeFits, store
<1>2. at \in Ats /\ at \in {item[i].at, "gone"} /\ (at # item[i].at => item[i].at = "tomb")
  BY <1>1 DEF Types, VaultTypes, ItemType, Ats
<1> HIDE DEF at
<1>3. /\ item' \in [Items -> ItemType]
      /\ item'[i].page = item[i].page /\ item'[i].at = at
      /\ \A j \in Items \ {i} : item'[j] = item[j]
  BY <1>1, <1>2, PlaceEffect
<1>4. /\ i \in ledger => item[i].at # "none"
      /\ overtaken' = overtaken /\ overtaken \subseteq Pages
      /\ blurred' = blurred /\ batches' = batches
  BY <1>1 DEF VaultInv, ItemFits, retained, Types, VaultTypes
<1>5. CASE item[i].at = "store" /\ Goto(r, "release") /\ UNCHANGED <<lock, catalog>>
  <2>1. /\ request' \in [Requests -> RequestType]
        /\ request'[r].op = "purge" /\ request'[r].item = i /\ request'[r].pc = "release"
        /\ \A u \in Requests \ {r} : request'[u] = request[u]
    BY <1>1, <1>5, GotoEffect DEF Pcs, PurgePc
  <2>2. Fits(r)'
    BY <1>1, <1>2, <1>3, <1>4, <1>5, <2>1, KnownRequest DEF Fits, PurgeFits, PurgePc, Listed
  <2>3. catalog' \subseteq Items
    BY <1>5 DEF Types, VaultTypes
  <2>4. QED
    BY <1>1, <1>2, <1>3, <1>4, <1>5, <2>1, <2>2, <2>3, PurgeGoes
<1>6. CASE /\ item[i].at # "store" /\ NextItem(r)
           /\ catalog' = IF item[i].at = "tomb" THEN catalog \ {i} ELSE catalog
  <2>1. Leaves(r) /\ Fits(r)'
    BY <1>1, <1>6, LeavesEffect
  <2>2. catalog' \subseteq Items /\ \A j \in Items \ {i} : j \in catalog' <=> j \in catalog
    BY <1>6 DEF Types, VaultTypes
  <2>3. i \notin blurred' => Listed(i)'
    BY <1>1, <1>2, <1>3, <1>4, <1>6 DEF Listed
  <2>4. QED
    BY <1>1, <1>2, <1>3, <1>4, <2>1, <2>2, <2>3, PurgeGoes DEF Leaves
<1>7. QED
  BY <1>5, <1>6 DEF PreparePurge

\* The release, its ledger and the entry of the catalogue.
LEMMA ReleaseGoes ==
  ASSUME Types, VaultInv, NEW r \in Requests, ReleaseRefs(r) \/ TakeEntry(r)
  PROVE  Goes
<1> SUFFICES ASSUME NEW i, i = request[r].item PROVE Goes
  OBVIOUS
<1>1. /\ up /\ request[r].op = "purge" /\ request[r].pc \in {"release", "take"} /\ i \in Items
      /\ request[r].pc = "take" => i \in ledger
      /\ item[i].at = "store" /\ (i \notin blurred => i \in catalog) /\ lock[i] = r
      /\ UNCHANGED <<up, live, item, unsure, ingest, batches, blurred, hooks>>
  BY KnownRequest DEF ReleaseRefs, TakeEntry, At, PurgeFits, Listed, store, vault, retained
<1>2. item' \in [Items -> ItemType] /\ i \notin {Nobody} /\ item[i].page \in Pages
      /\ overtaken \subseteq Pages
  BY <1>1, ArchiveAssumption DEF Types, VaultTypes, VaultInv, ItemFits
<1>3. CASE /\ Goto(r, "take") /\ UNCHANGED <<lock, catalog>>
           /\ \/ i \in ledger /\ UNCHANGED <<ledger, overtaken>>
              \/ ledger' = ledger \cup {i} /\ Overtake({item[i].page})
  <2>1. /\ request' \in [Requests -> RequestType]
        /\ request'[r].op = "purge" /\ request'[r].item = i /\ request'[r].pc = "take"
        /\ \A u \in Requests \ {r} : request'[u] = request[u]
    BY <1>1, <1>3, GotoEffect DEF Pcs, PurgePc
  <2>2. Fits(r)'
    BY <1>1, <1>3, <2>1 DEF Fits, PurgeFits, PurgePc, Listed
  <2>3. catalog' \subseteq Items
    BY <1>3 DEF Types, VaultTypes
  <2>4. /\ overtaken \subseteq overtaken' /\ overtaken' \subseteq Pages
        /\ \A b \in batches : b.phase = "committing" /\ b.item = i =>
                                item[i].page \in overtaken' \/ ledger' = ledger
    <3>1. {item[i].page} \in SUBSET Pages
      BY <1>2
    <3>2. CASE UNCHANGED <<ledger, overtaken>>
      BY <1>2, <3>2
    <3>3. CASE Overtake({item[i].page})
      BY <3>1, <3>3, OvertakeEffect
    <3>4. QED
      BY <1>3, <3>2, <3>3
  <2>5. QED
    BY <1>1, <1>2, <1>3, <2>1, <2>2, <2>3, <2>4, PurgeGoes
<1>4. CASE NextItem(r) /\ UNCHANGED <<catalog, ledger, overtaken>>
  <2>1. Leaves(r) /\ Fits(r)'
    BY <1>1, <1>4, LeavesEffect
  <2>2. catalog' \subseteq Items
    BY <1>4 DEF Types, VaultTypes
  <2>3. i \notin blurred' => Listed(i)'
    BY <1>1, <1>4 DEF Listed
  <2>4. QED
    BY <1>1, <1>2, <1>4, <2>1, <2>2, <2>3, PurgeGoes DEF Leaves
<1>5. CASE TakeEntry(r)
  <2>1. /\ request' \in [Requests -> RequestType]
        /\ request'[r].op = "purge" /\ request'[r].item = i /\ request'[r].pc = "remove"
        /\ \A u \in Requests \ {r} : request'[u] = request[u]
    BY <1>1, <1>5, GotoEffect DEF Pcs, PurgePc, TakeEntry
  <2>2. catalog' = catalog \ {i} /\ UNCHANGED <<lock, ledger, overtaken>> /\ request[r].pc = "take"
    BY <1>5 DEF TakeEntry, At, store, retained
  <2>3. Fits(r)'
    BY <1>1, <2>1, <2>2 DEF Fits, PurgeFits, PurgePc
  <2>4. catalog' \subseteq Items /\ \A j \in Items \ {i} : j \in catalog' <=> j \in catalog
    BY <2>2 DEF Types, VaultTypes
  <2>5. QED
    BY <1>1, <1>2, <2>1, <2>2, <2>3, <2>4, PurgeGoes
<1>6. QED
  BY <1>3, <1>4, <1>5 DEF ReleaseRefs, vault

\* The removal of the item and of its tombstone.
LEMMA RemoveGoes ==
  ASSUME Types, VaultInv, NEW r \in Requests, RemoveItem(r) \/ FinishTombstone(r)
  PROVE  Goes
<1> SUFFICES ASSUME NEW i, i = request[r].item PROVE Goes
  OBVIOUS
<1>1. /\ up /\ request[r].op = "purge" /\ request[r].pc \in {"remove", "clean"} /\ i \in Items
      /\ item[i].at \in {"store", "tomb"} /\ i \in ledger
      /\ i \notin blurred => i \notin catalog
      /\ lock[i] = r
      /\ request[r].pc = "remove" => item[i].at = "store"
      /\ request[r].pc = "clean" => item[i].at = "tomb"
      /\ UNCHANGED <<up, live, ledger, unsure, ingest, batches, overtaken, hooks>>
  BY KnownRequest DEF RemoveItem, FinishTombstone, At, PurgeFits, store, retained
<1>2. catalog \subseteq Items /\ item \in [Items -> ItemType] /\ overtaken \subseteq Pages
  BY DEF Types, VaultTypes
<1>3. CASE /\ item[i].at = "store" /\ item' = [item EXCEPT ![i].at = "tomb"]
           /\ Goto(r, "clean") /\ UNCHANGED <<lock, catalog, blurred>>
  <2>1. /\ request' \in [Requests -> RequestType]
        /\ request'[r].op = "purge" /\ request'[r].item = i /\ request'[r].pc = "clean"
        /\ \A u \in Requests \ {r} : request'[u] = request[u]
    BY <1>1, <1>3, GotoEffect DEF Pcs, PurgePc
  <2>2. /\ item' \in [Items -> ItemType]
        /\ item'[i].page = item[i].page /\ item'[i].at = "tomb"
        /\ \A j \in Items \ {i} : item'[j] = item[j]
    BY <1>1, <1>3, PlaceEffect DEF Ats
  <2>3. Fits(r)'
    BY <1>1, <1>3, <2>1, <2>2 DEF Fits, PurgeFits, PurgePc
  <2>4. QED
    BY <1>1, <1>2, <1>3, <2>1, <2>2, <2>3, PurgeGoes
<1>4. ASSUME NextItem(r) \/ Answer(r), item' \in [Items -> ItemType],
             item'[i].page = item[i].page, \A j \in Items \ {i} : item'[j] = item[j],
             item'[i].at = item[i].at \/ (item[i].at = "tomb" /\ item'[i].at = "gone"),
             catalog' \subseteq Items, \A j \in Items \ {i} : j \in catalog' <=> j \in catalog,
             blurred' \in {blurred, blurred \cup {i}}, i \notin blurred' => Listed(i)'
      PROVE  Goes
  <2>1. Leaves(r) /\ Fits(r)'
    BY <1>1, <1>4, LeavesEffect
  <2>2. QED
    BY <1>1, <1>2, <1>4, <2>1, PurgeGoes DEF Leaves
<1>5. CASE /\ NextItem(r) /\ catalog' = catalog \cup {i} /\ UNCHANGED <<item, blurred>>
           /\ item[i].at = "store"
  BY <1>1, <1>2, <1>4, <1>5 DEF Listed
<1>6. CASE /\ NextItem(r) \/ Answer(r)
           /\ blurred' = blurred \cup {i} /\ UNCHANGED <<item, catalog>>
  BY <1>1, <1>2, <1>4, <1>6
<1>7. CASE /\ NextItem(r) /\ item[i].at = "tomb" /\ item' = [item EXCEPT ![i].at = "gone"]
           /\ UNCHANGED <<catalog, blurred>>
  <2>1. /\ item' \in [Items -> ItemType]
        /\ item'[i].page = item[i].page /\ item'[i].at = "gone"
        /\ \A j \in Items \ {i} : item'[j] = item[j]
    BY <1>1, <1>7, PlaceEffect DEF Ats
  <2>2. i \notin blurred' => Listed(i)'
    BY <1>1, <1>7, <2>1 DEF Listed
  <2>3. QED
    BY <1>1, <1>2, <1>4, <1>7, <2>1, <2>2
<1>8. CASE /\ NextItem(r) /\ catalog' = catalog \ {i} /\ UNCHANGED <<item, blurred>>
           /\ item[i].at = "tomb"
  BY <1>1, <1>2, <1>4, <1>8 DEF Listed
<1>9. CASE RemoveItem(r)
  BY <1>1, <1>3, <1>5, <1>6, <1>9 DEF RemoveItem, At
<1>10. CASE FinishTombstone(r)
  BY <1>1, <1>7, <1>8, <1>10 DEF FinishTombstone, At, retained
<1>11. QED
  BY <1>9, <1>10

\* A purge or a restore that is given up.
LEMMA AbandonGoes ==
  ASSUME Types, VaultInv, NEW r \in Requests, Abandon(r)
  PROVE  Goes
<1> SUFFICES ASSUME NEW i, i = request[r].item PROVE Goes
  OBVIOUS
<1>1. /\ up /\ UNCHANGED <<up, live, item, ledger, unsure, ingest, batches, overtaken, hooks>>
  BY DEF Abandon, store
<1>2. CASE request[r].pc = "lock" /\ Answer(r) /\ UNCHANGED <<catalog, blurred>>
  <2>1. request' = [request EXCEPT ![r] = NoRequest] /\ Drop(r)
    BY <1>2 DEF Answer
  <2>2. QED
    BY <1>1, <1>2, <2>1, EmptyRequest, BeginGoes DEF retained
<1>3. ASSUME request[r].op = "purge", request[r].pc \in {"read", "release", "take"},
             NextItem(r) \/ Answer(r),
             \/ UNCHANGED <<catalog, blurred>>
             \/ catalog' = catalog \ {i} /\ blurred' = blurred \cup {i}
      PROVE  Goes
  <2>1. Leaves(r) /\ Fits(r)'
    BY <1>3, LeavesEffect
  <2>2. i \in Items /\ (i \notin blurred => Listed(i)) /\ (i \in ledger => item[i].at # "none")
    BY <1>3, KnownRequest DEF PurgeFits, VaultInv, ItemFits
  <2>3. /\ catalog' \subseteq Items /\ \A j \in Items \ {i} : j \in catalog' <=> j \in catalog
        /\ item' \in [Items -> ItemType] /\ overtaken' \subseteq Pages
        /\ blurred' \in {blurred, blurred \cup {i}}
    BY <1>1, <1>3 DEF Types, VaultTypes
  <2>4. i \notin blurred' => Listed(i)'
    BY <1>1, <1>3, <2>2 DEF Listed
  <2>5. QED
    BY <1>1, <1>3, <2>1, <2>2, <2>3, <2>4, PurgeGoes DEF Leaves
<1>4. QED
  BY <1>2, <1>3 DEF Abandon, At

\* What a transaction may do to the locks.
TakesBoth(r, i, p) == Take(r, {i, p}) /\ request'[r].item = i
KeepsBoth(r, i, p) == UNCHANGED lock /\ lock[i] = r /\ lock[p] = r /\ request'[r].item = i
DropsBoth(r, i, p) == Drop(r) /\ lock[i] \in {r, Nobody} /\ lock[p] \in {r, Nobody}

\* In each case other requests keep theirs.
LEMMA LocksWork ==
  ASSUME Types, VaultInv, NEW r \in Requests, NEW i \in Items, NEW p \in Pages,
         request[r].item = i \/ request[r] = NoRequest,
         TakesBoth(r, i, p) \/ KeepsBoth(r, i, p) \/ DropsBoth(r, i, p)
  PROVE  /\ lock' \in [Items \cup Pages -> Requests \cup {Nobody}]
         /\ \A j \in Items \ {i} : lock'[j] = lock[j]
         /\ lock[i] \in {r, Nobody} /\ lock[p] \in {r, Nobody}
         /\ \A q \in Pages : lock[q] \notin {r, Nobody} => lock'[q] = lock[q]
         /\ Owner(r)'
         /\ ~DropsBoth(r, i, p) => lock'[i] = r /\ lock'[p] = r
         /\ DropsBoth(r, i, p) => lock'[i] = Nobody
<1>1. r # Nobody /\ i \notin Pages /\ p \notin Items
  BY KnownRequest, ArchiveAssumption
<1>2. \A j \in Items : lock[j] = r => j = i
  BY KnownRequest, EmptyRequest DEF Owner
<1>3. CASE TakesBoth(r, i, p)
  <2>1. {i, p} \in SUBSET (Items \cup Pages)
    OBVIOUS
  <2>2. /\ lock' \in [Items \cup Pages -> Requests \cup {Nobody}]
        /\ \A x \in {i, p} : lock[x] = Nobody
        /\ \A x \in Items \cup Pages : lock'[x] = IF x \in {i, p} THEN r ELSE lock[x]
    BY <1>3, <2>1, TakeEffect DEF TakesBoth
  <2>3. ~DropsBoth(r, i, p)
    BY <1>1, <2>2, DropEffect DEF DropsBoth
  <2>4. QED
    BY <1>1, <1>2, <1>3, <2>2, <2>3 DEF Owner, TakesBoth
<1>4. CASE KeepsBoth(r, i, p)
  <2>1. ~DropsBoth(r, i, p)
    BY <1>1, <1>4, DropEffect DEF DropsBoth, KeepsBoth
  <2>2. QED
    BY <1>1, <1>2, <1>4, <2>1 DEF Owner, KeepsBoth, Types, VaultTypes
<1>5. CASE DropsBoth(r, i, p)
  <2>1. /\ lock' \in [Items \cup Pages -> Requests \cup {Nobody}]
        /\ \A x \in Items \cup Pages : lock'[x] = IF lock[x] = r THEN Nobody ELSE lock[x]
    BY <1>5, DropEffect DEF DropsBoth
  <2>2. Owner(r)'
    BY <1>1, <2>1 DEF Owner
  <2>3. QED
    BY <1>1, <1>2, <1>5, <2>1, <2>2 DEF DropsBoth
<1>6. QED
  BY <1>3, <1>4, <1>5

\* A transaction changes its item and its page and nothing else.
LEMMA BatchGoes ==
  ASSUME Types, VaultInv, NEW r \in Requests, NEW i \in Items, NEW p \in Pages, up,
         request[r].item = i \/ request[r] = NoRequest,
         TakesBoth(r, i, p) \/ KeepsBoth(r, i, p) \/ DropsBoth(r, i, p),
         item' \in [Items -> ItemType], \A j \in Items \ {i} : item'[j] = item[j],
         catalog' \in {catalog, catalog \cup {i}, catalog \ {i}},
         live' \in {live, live \cup {p}, live \ {p}},
         batches \subseteq batches', batches' \subseteq BatchType,
         blurred' \in {blurred, blurred \cup {i}},
         overtaken \subseteq overtaken', overtaken' \subseteq Pages,
         UNCHANGED <<up, ledger, unsure, ingest, hooks>>,
         request' \in [Requests -> RequestType], Fits(r)', Local(i, p), Spares(r, i),
         \A u \in Requests \ {r} : request'[u] = request[u]
  PROVE  Goes
<1>1. Works(r, i, p) /\ Owner(r)'
  <2>1. \A j \in Items : Moving(r, j) => j = i
    BY EmptyRequest DEF Moving, Working
  <2>2. \A j \in Items : Batched(j) => Batched(j)'
    BY DEF Batched
  <2>3. QED
    BY <2>1, <2>2, LocksWork DEF Works
<1>2. VaultTypes'
  BY LocksWork DEF Types, VaultTypes
<1>3. QED
  BY <1>1, <1>2, Advance DEF WorkStep

\* A batch that is left behind by its request fits.
LEMMA RetainedFits ==
  ASSUME Types, VaultInv, NEW r \in Requests, NEW i \in Items, Moving(r, i),
         NEW b \in BatchType, b.item = i, batches' \subseteq batches \cup {b},
         \A u \in Requests \ {r} : request'[u] = request[u], request'[r] = NoRequest,
         \A j \in Items \ {i} : item'[j] = item[j], item'[i].page = item[i].page,
         UNCHANGED <<ledger, overtaken>>, item'[i].at # "none",
         b.phase = "committing" => item'[i].at \in {"staged", "store", "txn"},
         b.phase = "committed" /\ b.op = "restore" => item'[i].at = "restored"
  PROVE  BatchFits(b)'
<1>1. /\ lock[i] = r /\ item[i].page \in Pages /\ lock[item[i].page] = r /\ i \notin ledger
      /\ Working(r, i)
  BY WorkingHolds DEF Moving
<1>2. ASSUME b.phase = "committing", item[i].page \notin overtaken PROVE Waits(b)'
  <2>1. ASSUME NEW c \in batches', c.phase = "committing", c.item = i PROVE c = b
    <3>1. CASE c \in batches
      BY <1>1, <1>2, <2>1, <3>1 DEF VaultInv, BatchFits, Waits
    <3>2. QED
      BY <2>1, <3>1
  <2>2. ASSUME NEW u \in Requests, NEW j \in Items, Working(u, j)'
        PROVE  item'[j].page # item'[i].page
    <3>1. u # r /\ Working(u, j)
      BY <2>2, EmptyRequest DEF Working
    <3>2. QED
      BY <1>1, <3>1, WorkingHolds
  <2>3. QED
    BY <1>1, <1>2, <2>1, <2>2 DEF Waits
<1>3. QED
  BY <1>2 DEF BatchFits

\* An archive begins with a free page and an unused item, prepared in the batch.
LEMMA BeginArchiveGoes ==
  ASSUME Types, VaultInv, NEW r \in Requests, NEW p \in Pages, NEW i \in Items,
         BeginArchive(r, p, i)
  PROVE  Goes
<1> DEFINE q == [op |-> "archive", pc |-> "publish", item |-> i, todo |-> {}]
<1>1. q \in RequestType /\ q.op = "archive" /\ q.pc = "publish" /\ q.item = i
  BY DEF RequestType, Ops
<1>2. /\ up /\ request[r] = NoRequest /\ p \in live /\ item[i] = NoItem
      /\ request' = [request EXCEPT ![r] = q] /\ Take(r, {i, p}) /\ Overtake({p})
      /\ item' = [item EXCEPT ![i] = [page |-> p, at |-> "staged"]]
      /\ UNCHANGED <<up, live, catalog, ledger, unsure, ingest, batches, blurred, hooks>>
  <2>1. {p, i} = {i, p}
    OBVIOUS
  <2>2. QED
    BY <2>1 DEF BeginArchive, Idle, store
<1> HIDE DEF q
<1>3. /\ request' \in [Requests -> RequestType] /\ request'[r] = q
      /\ \A u \in Requests \ {r} : request'[u] = request[u]
  BY <1>1, <1>2, BecomesEffect
<1>4. TakesBoth(r, i, p)
  BY <1>1, <1>2, <1>3 DEF TakesBoth
<1>5. lock'[i] = r /\ lock'[p] = r /\ lock[i] = Nobody /\ lock[p] = Nobody /\ r # Nobody
  BY <1>2, <1>4, TakeEffect, KnownRequest DEF TakesBoth
<1>6. (i \notin blurred => i \notin catalog) /\ i \notin ledger
  BY <1>2, <1>5 DEF VaultInv, ItemFits, Listed, NoItem
<1>7. /\ item' \in [Items -> ItemType] /\ item'[i].page = p /\ item'[i].at = "staged"
      /\ \A j \in Items \ {i} : item'[j] = item[j]
  BY <1>2 DEF Types, VaultTypes, ItemType, Ats
<1>8. /\ overtaken \subseteq overtaken' /\ overtaken' \subseteq Pages
      /\ \A b \in batches : b.phase = "committing" /\ item[b.item].page = p => p \in overtaken'
  <2>1. {p} \in SUBSET Pages
    OBVIOUS
  <2>2. QED
    BY <1>2, <2>1, OvertakeEffect
<1>9. Fits(r)'
  BY <1>1, <1>2, <1>3, <1>5, <1>6, <1>7 DEF Fits, ArchiveFits
<1>10. ASSUME NEW j \in Items \ {i}, Holds(j), item[j].page = p, p \notin overtaken'
       PROVE  FALSE
  <2>1. InBatch(j)
    BY <1>2, <1>8, <1>10 DEF VaultInv, ItemFits
  <2>2. ~Batched(j)
    BY <1>8, <1>10 DEF Batched
  <2>3. PICK u \in Requests : Moving(u, j)
    BY <2>1, <2>2 DEF InBatch
  <2>4. lock[p] = u /\ u # Nobody
    BY <1>10, <2>3, WorkingHolds, KnownRequest DEF Moving
  <2>5. QED
    BY <1>5, <2>4
<1>11. InBatch(i)'
  BY <1>1, <1>3 DEF InBatch, Moving, Working
<1>12. Local(i, p)
  BY <1>2, <1>5, <1>6, <1>7, <1>10, <1>11 DEF Local, Holds, Counting, ItemFits, NoItem
<1>13. Spares(r, i)
  <2>1. ASSUME NEW b \in batches PROVE b.item # i
    BY <1>2 DEF VaultInv, BatchFits, NoItem
  <2>2. \A j \in Items : Working(r, j)' => j = i
    BY <1>1, <1>3 DEF Working
  <2>3. QED
    BY <1>2, <1>7, <1>8, <2>1, <2>2 DEF Spares, NoItem
<1>14. batches \subseteq batches' /\ batches' \subseteq BatchType
  BY <1>2 DEF Types, VaultTypes
<1>15. QED
  BY <1>2, <1>3, <1>4, <1>7, <1>8, <1>9, <1>12, <1>13, <1>14, BatchGoes

\* The item is published while its page is still in the vault, then the page goes.
LEMMA ArchiveGoes ==
  ASSUME Types, VaultInv, NEW r \in Requests, PublishItem(r) \/ UnlinkPage(r)
  PROVE  Goes
<1> SUFFICES ASSUME NEW i, i = request[r].item, NEW p, p = item[i].page PROVE Goes
  OBVIOUS
<1>1. /\ up /\ request[r].op = "archive" /\ request[r].pc \in {"publish", "unlink"}
      /\ ArchiveFits(r) /\ r # Nobody
      /\ UNCHANGED <<up, catalog, ledger, unsure, ingest, lock, retained, hooks>>
  BY KnownRequest DEF PublishItem, UnlinkPage, At, store
<1>2. /\ i \in Items /\ p \in Pages /\ lock[i] = r /\ lock[p] = r
      /\ (i \notin blurred => i \notin catalog) /\ i \notin ledger
      /\ item[i].at \in {"staged", "store"} /\ p \in live
      /\ request[r].pc = "unlink" => item[i].at = "store"
      /\ Working(r, i)
  BY <1>1 DEF ArchiveFits, Working
<1>3. CASE PublishItem(r)
  <2>1. item' = [item EXCEPT ![i].at = "store"] /\ UNCHANGED live /\ Goto(r, "unlink")
    BY <1>3 DEF PublishItem
  <2>2. /\ item' \in [Items -> ItemType] /\ item'[i].page = p /\ item'[i].at = "store"
        /\ \A j \in Items \ {i} : item'[j] = item[j]
    BY <1>2, <2>1, PlaceEffect DEF Ats
  <2>3. /\ request' \in [Requests -> RequestType]
        /\ request'[r].op = "archive" /\ request'[r].item = i /\ request'[r].pc = "unlink"
        /\ \A u \in Requests \ {r} : request'[u] = request[u]
    BY <1>1, <2>1, GotoEffect DEF Pcs, BatchPc
  <2>4. Fits(r)'
    BY <1>1, <1>2, <2>1, <2>2, <2>3 DEF Fits, ArchiveFits, retained
  <2>5. InBatch(i)' /\ \A j \in Items : Working(r, j)' => j = i
    BY <2>3 DEF InBatch, Moving, Working
  <2>6. Local(i, p)
    BY <1>1, <1>2, <2>1, <2>2, <2>5 DEF Local, Holds, Counting, ItemFits
  <2>7. Spares(r, i)
    BY <1>1, <1>2, <2>2, <2>5, WorkingSpares DEF retained
  <2>8. KeepsBoth(r, i, p)
    BY <1>1, <1>2, <2>3 DEF KeepsBoth
  <2>9. batches' \subseteq BatchType /\ overtaken' \subseteq Pages
    BY <1>1 DEF Types, VaultTypes, retained
  <2>10. QED
    BY <1>1, <1>2, <2>1, <2>2, <2>3, <2>4, <2>6, <2>7, <2>8, <2>9, BatchGoes DEF retained
<1>4. CASE UnlinkPage(r)
  <2>1. live' = live \ {p} /\ UNCHANGED item /\ Goto(r, "commit") /\ item[i].at = "store"
    BY <1>2, <1>4 DEF UnlinkPage, At
  <2>2. /\ request' \in [Requests -> RequestType]
        /\ request'[r].op = "archive" /\ request'[r].item = i /\ request'[r].pc = "commit"
        /\ \A u \in Requests \ {r} : request'[u] = request[u]
    BY <1>1, <2>1, GotoEffect DEF Pcs, BatchPc
  <2>3. Fits(r)'
    BY <1>1, <1>2, <2>1, <2>2 DEF Fits, ArchiveFits, retained
  <2>4. InBatch(i)' /\ \A j \in Items : Working(r, j)' => j = i
    BY <2>2 DEF InBatch, Moving, Working
  <2>5. Local(i, p)
    BY <1>1, <1>2, <2>1, <2>4 DEF Local, Holds, Counting, ItemFits
  <2>6. Spares(r, i)
    BY <1>1, <1>2, <2>1, <2>4, WorkingSpares DEF retained
  <2>7. KeepsBoth(r, i, p)
    BY <1>1, <1>2, <2>2 DEF KeepsBoth
  <2>8. batches' \subseteq BatchType /\ overtaken' \subseteq Pages /\ item' \in [Items -> ItemType]
    BY <1>1, <2>1 DEF Types, VaultTypes, retained
  <2>9. QED
    BY <1>1, <1>2, <2>1, <2>2, <2>3, <2>5, <2>6, <2>7, <2>8, BatchGoes DEF retained
<1>5. QED
  BY <1>3, <1>4

\* The transaction of r ends, and its batch may stay behind.
LEMMA EndGoes ==
  ASSUME Types, VaultInv, NEW r \in Requests, NEW i \in Items, up, Moving(r, i), Answer(r),
         item' \in [Items -> ItemType], item'[i].page = item[i].page,
         \A j \in Items \ {i} : item'[j] = item[j],
         item'[i].at \notin {"none", "tomb", "gone"},
         item'[i].at \in {"staged", "txn"} => Batched(i)',
         item'[i].at \in {"staged", "store", "txn"} /\ item[i].page \in live => Batched(i)',
         catalog' \in {catalog, catalog \cup {i}, catalog \ {i}},
         blurred' \in {blurred, blurred \cup {i}}, i \notin blurred' => Listed(i)',
         \/ UNCHANGED batches
         \/ \E phase \in {"committing", "committed"} :
              /\ Retain(r, phase)
              /\ phase = "committing" => item'[i].at \in {"staged", "store", "txn"}
              /\ phase = "committed" /\ request[r].op = "restore" => item'[i].at = "restored",
         UNCHANGED <<up, live, ledger, unsure, ingest, overtaken, hooks>>
  PROVE  Goes
<1> SUFFICES ASSUME NEW p, p = item[i].page PROVE Goes
  OBVIOUS
<1>1. /\ lock[i] = r /\ p \in Pages /\ lock[p] = r /\ i \notin ledger /\ r # Nobody
      /\ Working(r, i) /\ item[i].at \in {"staged", "store", "txn"} /\ Counting(i)
      /\ request[r].item = i /\ request[r].op \in {"archive", "restore"}
  BY WorkingHolds, KnownRequest DEF Moving, Working
<1>2. /\ request' \in [Requests -> RequestType] /\ request'[r] = NoRequest
      /\ \A u \in Requests \ {r} : request'[u] = request[u]
  BY AnswerEffect
<1>3. Fits(r)' /\ \A j \in Items : ~Working(r, j)'
  BY <1>2, EmptyRequest DEF Fits, Working
<1>4. /\ batches \subseteq batches' /\ batches' \subseteq BatchType
      /\ \A b \in batches' \ batches : BatchFits(b)'
  <2>1. CASE UNCHANGED batches
    BY <2>1 DEF Types, VaultTypes
  <2>2. ASSUME NEW phase \in {"committing", "committed"}, Retain(r, phase),
               phase = "committing" => item'[i].at \in {"staged", "store", "txn"},
               phase = "committed" /\ request[r].op = "restore" => item'[i].at = "restored"
        PROVE  /\ batches \subseteq batches' /\ batches' \subseteq BatchType
               /\ \A b \in batches' \ batches : BatchFits(b)'
    <3>1. PICK b \in BatchType : b = [op |-> request[r].op, item |-> i, phase |-> phase]
      BY <1>1 DEF BatchType
    <3>2. /\ batches' = batches \cup {b}
          /\ b.item = i /\ b.phase = phase /\ b.op = request[r].op
      BY <1>1, <2>2, <3>1 DEF Retain
    <3>3. BatchFits(b)'
      BY <1>1, <1>2, <2>2, <3>1, <3>2, RetainedFits
    <3>4. QED
      BY <3>1, <3>2, <3>3 DEF Types, VaultTypes
  <2>3. QED
    BY <2>1, <2>2
<1>5. ItemFits(i)'
  BY <1>1 DEF ItemFits, Holds, InBatch
<1>6. Local(i, p)
  BY <1>1, <1>5 DEF Local, Holds, Counting
<1>7. Spares(r, i)
  BY <1>1, <1>3, <1>4, WorkingSpares
<1>8. DropsBoth(r, i, p)
  BY <1>1 DEF DropsBoth, Answer
<1>9. overtaken' \subseteq Pages
  BY DEF Types, VaultTypes
<1>10. QED
  BY <1>1, <1>2, <1>3, <1>4, <1>6, <1>7, <1>8, <1>9, BatchGoes

\* A retained batch that is not committed waits for the recovery.
LEMMA RetainedBatched ==
  ASSUME NEW r, NEW i, request[r].item = i, Retain(r, "committing")
  PROVE  Batched(i)'
<1>1. [op |-> request[r].op, item |-> i, phase |-> "committing"] \in batches'
  BY DEF Retain
<1>2. QED
  BY <1>1 DEF Batched

\* An archive commits.
LEMMA CommitArchiveGoes ==
  ASSUME Types, VaultInv, NEW r \in Requests, CommitArchive(r)
  PROVE  Goes
<1> SUFFICES ASSUME NEW i, i = request[r].item PROVE Goes
  OBVIOUS
<1>1. /\ up /\ request[r].op = "archive" /\ request[r].pc = "commit" /\ ArchiveFits(r)
      /\ catalog' = catalog \cup {i} /\ Answer(r)
      /\ UNCHANGED <<up, live, item, ledger, unsure, ingest, overtaken, blurred, hooks>>
  BY KnownRequest DEF CommitArchive, At, store
<1>2. /\ i \in Items /\ item[i].at = "store" /\ item[i].page \notin live /\ Moving(r, i)
      /\ item' \in [Items -> ItemType]
  BY <1>1 DEF ArchiveFits, Moving, Working, Types, VaultTypes
<1>3. \/ UNCHANGED batches
      \/ \E phase \in {"committing", "committed"} : Retain(r, phase)
  BY DEF CommitArchive
<1>4. Listed(i)'
  BY <1>1, <1>2 DEF Listed
<1>5. QED
  BY <1>1, <1>2, <1>3, <1>4, EndGoes

\* A restore takes its locks, or finds the item released.
LEMMA LockRestoreGoes ==
  ASSUME Types, VaultInv, NEW r \in Requests, LockRestore(r)
  PROVE  Goes
<1> SUFFICES ASSUME NEW i, i = request[r].item, NEW p, p = item[i].page PROVE Goes
  OBVIOUS
<1>1. /\ up /\ request[r].op = "restore" /\ request[r].pc = "lock"
      /\ RestoreFits(r) /\ r # Nobody
      /\ UNCHANGED <<up, live, item, catalog, ledger, unsure, ingest, batches, blurred, hooks>>
  BY KnownRequest DEF LockRestore, At, store, vault
<1>2. i \in Items /\ p \in Pages /\ {i, p} \in SUBSET (Items \cup Pages)
  BY <1>1 DEF RestoreFits
<1>3. lock[i] = Nobody /\ lock[p] = Nobody
  BY <1>2, TakeEffect DEF LockRestore
<1>4. ItemFits(i) /\ (i \notin blurred => Listed(i)) /\ \A j \in Items : ~Moving(r, j)
  BY <1>1, <1>2, <1>3 DEF VaultInv, ItemFits, Moving, Working
<1>5. item' \in [Items -> ItemType] /\ catalog' = catalog /\ live' = live
      /\ batches' \subseteq BatchType /\ batches' = batches
  BY <1>1 DEF Types, VaultTypes
<1>6. CASE i \notin ledger /\ Take(r, {i, p}) /\ Goto(r, "publish") /\ Overtake({p})
  <2>1. /\ request' \in [Requests -> RequestType]
        /\ request'[r].op = "restore" /\ request'[r].item = i /\ request'[r].pc = "publish"
        /\ \A u \in Requests \ {r} : request'[u] = request[u]
    BY <1>1, <1>6, GotoEffect DEF Pcs
  <2>2. TakesBoth(r, i, p) /\ lock'[i] = r /\ lock'[p] = r
    BY <1>2, <1>6, <2>1, TakeEffect DEF TakesBoth
  <2>3. Fits(r)'
    BY <1>1, <1>2, <1>4, <1>6, <2>1, <2>2 DEF Fits, RestoreFits, Listed
  <2>4. /\ overtaken \subseteq overtaken' /\ overtaken' \subseteq Pages
        /\ \A b \in batches : b.phase = "committing" /\ item[b.item].page = p => p \in overtaken'
    <3>1. {p} \in SUBSET Pages
      BY <1>2
    <3>2. QED
      BY <1>6, <3>1, OvertakeEffect
  <2>5. InBatch(i) => InBatch(i)'
    <3>1. ASSUME NEW u \in Requests, Moving(u, i) PROVE Moving(u, i)'
      BY <1>2, <1>4, <2>1, <3>1 DEF Moving, Working
    <3>2. QED
      BY <1>5, <3>1 DEF InBatch, Batched
  <2>6. Local(i, p)
    BY <1>1, <1>2, <1>4, <2>2, <2>4, <2>5 DEF Local, Holds, Counting, ItemFits, Listed
  <2>7. Spares(r, i)
    <3>1. \A j \in Items : Working(r, j)' => j = i
      BY <2>1 DEF Working
    <3>2. QED
      BY <1>1, <1>2, <2>4, <3>1 DEF Spares
  <2>8. QED
    BY <1>1, <1>2, <1>5, <2>1, <2>2, <2>3, <2>4, <2>6, <2>7, BatchGoes
<1>7. CASE Answer(r) /\ UNCHANGED overtaken
  <2>1. request' = [request EXCEPT ![r] = NoRequest] /\ Drop(r)
    BY <1>7 DEF Answer
  <2>2. QED
    BY <1>1, <1>7, <2>1, EmptyRequest, BeginGoes DEF retained
<1>8. QED
  BY <1>6, <1>7 DEF LockRestore

\* The page is published from an item that is still in the store.
LEMMA PublishPageGoes ==
  ASSUME Types, VaultInv, NEW r \in Requests, PublishPage(r)
  PROVE  Goes
<1> SUFFICES ASSUME NEW i, i = request[r].item, NEW p, p = item[i].page PROVE Goes
  OBVIOUS
<1>1. /\ up /\ request[r].op = "restore" /\ request[r].pc = "publish"
      /\ RestoreFits(r) /\ r # Nobody
      /\ UNCHANGED <<up, item, catalog, ledger, unsure, ingest, retained, hooks>>
  BY KnownRequest DEF PublishPage, At, store
<1>2. /\ i \in Items /\ p \in Pages /\ lock[i] = r /\ lock[p] = r /\ i \notin ledger
      /\ (i \notin blurred => Listed(i)) /\ Working(r, i) /\ \A j \in Items : ~Moving(r, j)
  BY <1>1 DEF RestoreFits, Working, Moving
<1>3. /\ ItemFits(i) /\ (InBatch(i) => Batched(i)) /\ item[i].at # "none"
  BY <1>2, NotMoving, ArchiveAssumption DEF VaultInv, ItemFits, NoItem
<1>4. item' \in [Items -> ItemType] /\ catalog' = catalog /\ batches' = batches
      /\ batches' \subseteq BatchType /\ overtaken' \subseteq Pages /\ overtaken' = overtaken
      /\ blurred' = blurred
  BY <1>1 DEF Types, VaultTypes, retained
<1>5. Batched(i) => Batched(i)'
  BY <1>4 DEF Batched
<1>6. CASE /\ item[i].at = "store" /\ p \notin live
           /\ live' = live \cup {p} /\ Goto(r, "withdraw") /\ UNCHANGED lock
  <2>1. /\ request' \in [Requests -> RequestType]
        /\ request'[r].op = "restore" /\ request'[r].item = i /\ request'[r].pc = "withdraw"
        /\ \A u \in Requests \ {r} : request'[u] = request[u]
    BY <1>1, <1>6, GotoEffect DEF Pcs, BatchPc
  <2>2. KeepsBoth(r, i, p)
    BY <1>2, <1>6, <2>1 DEF KeepsBoth
  <2>3. Fits(r)'
    BY <1>1, <1>2, <1>4, <1>6, <2>1 DEF Fits, RestoreFits, Listed
  <2>4. InBatch(i)' /\ \A j \in Items : Working(r, j)' => j = i
    BY <2>1 DEF InBatch, Moving, Working
  <2>5. Local(i, p)
    BY <1>1, <1>2, <1>3, <1>6, <2>4 DEF Local, Holds, Counting, ItemFits
  <2>6. Spares(r, i)
    BY <1>1, <1>2, <1>4, <1>6, <2>4, WorkingSpares
  <2>7. QED
    BY <1>1, <1>2, <1>4, <1>6, <2>1, <2>2, <2>3, <2>5, <2>6, BatchGoes
<1>7. CASE Answer(r) /\ UNCHANGED live
  <2>1. /\ request' \in [Requests -> RequestType] /\ request'[r] = NoRequest
        /\ \A u \in Requests \ {r} : request'[u] = request[u]
    BY <1>7, AnswerEffect
  <2>2. Fits(r)' /\ \A j \in Items : ~Working(r, j)'
    BY <2>1, EmptyRequest DEF Fits, Working
  <2>3. DropsBoth(r, i, p)
    BY <1>2, <1>7 DEF DropsBoth, Answer
  <2>4. ItemFits(i)'
    BY <1>1, <1>2, <1>3, <1>4, <1>5, <1>7 DEF ItemFits, Holds, InBatch, Listed
  <2>5. Local(i, p)
    BY <1>1, <1>2, <1>7, <2>4 DEF Local, Holds, Counting
  <2>6. Spares(r, i)
    <3>1. \A b \in batches : BatchFits(b)
      BY DEF VaultInv
    <3>2. QED
      BY <1>1, <1>3, <1>4, <2>2, <3>1 DEF Spares, BatchFits, Waits
  <2>7. QED
    BY <1>1, <1>2, <1>4, <1>7, <2>1, <2>2, <2>3, <2>5, <2>6, BatchGoes
<1>8. QED
  BY <1>6, <1>7 DEF PublishPage

\* The item goes into the transaction's directory.
LEMMA WithdrawItemGoes ==
  ASSUME Types, VaultInv, NEW r \in Requests, WithdrawItem(r)
  PROVE  Goes
<1> SUFFICES ASSUME NEW i, i = request[r].item, NEW p, p = item[i].page PROVE Goes
  OBVIOUS
<1>1. /\ up /\ request[r].op = "restore" /\ request[r].pc = "withdraw"
      /\ RestoreFits(r) /\ r # Nobody
      /\ item' = [item EXCEPT ![i].at = "txn"] /\ Goto(r, "commit")
      /\ UNCHANGED <<up, live, catalog, lock, ledger, unsure, ingest, retained, hooks>>
  BY KnownRequest DEF WithdrawItem, At, store
<1>2. /\ i \in Items /\ p \in Pages /\ lock[i] = r /\ lock[p] = r
      /\ (i \notin blurred => i \in catalog) /\ i \notin ledger /\ item[i].at = "store" /\ p \in live
      /\ Working(r, i)
  BY <1>1 DEF RestoreFits, Working
<1>3. /\ item' \in [Items -> ItemType] /\ item'[i].page = p /\ item'[i].at = "txn"
      /\ \A j \in Items \ {i} : item'[j] = item[j]
  BY <1>1, <1>2, PlaceEffect DEF Ats
<1>4. /\ request' \in [Requests -> RequestType]
      /\ request'[r].op = "restore" /\ request'[r].item = i /\ request'[r].pc = "commit"
      /\ \A u \in Requests \ {r} : request'[u] = request[u]
  BY <1>1, GotoEffect DEF Pcs, BatchPc
<1>5. batches' \subseteq BatchType /\ overtaken' \subseteq Pages
      /\ batches' = batches /\ overtaken' = overtaken /\ blurred' = blurred
  BY <1>1 DEF Types, VaultTypes, retained
<1>6. Fits(r)'
  BY <1>1, <1>2, <1>3, <1>4, <1>5 DEF Fits, RestoreFits
<1>7. InBatch(i)' /\ \A j \in Items : Working(r, j)' => j = i
  BY <1>4 DEF InBatch, Moving, Working
<1>8. Local(i, p)
  BY <1>1, <1>2, <1>3, <1>7 DEF Local, Holds, Counting, ItemFits
<1>9. Spares(r, i)
  BY <1>2, <1>3, <1>5, <1>7, WorkingSpares
<1>10. KeepsBoth(r, i, p)
  BY <1>1, <1>2, <1>4 DEF KeepsBoth
<1>11. QED
  BY <1>1, <1>2, <1>3, <1>4, <1>5, <1>6, <1>8, <1>9, <1>10, BatchGoes

\* A restore commits, and its item goes with the transaction's directory.
LEMMA CommitRestoreGoes ==
  ASSUME Types, VaultInv, NEW r \in Requests, CommitRestore(r)
  PROVE  Goes
<1> SUFFICES ASSUME NEW i, i = request[r].item PROVE Goes
  OBVIOUS
<1>1. /\ up /\ request[r].op = "restore" /\ request[r].pc = "commit" /\ RestoreFits(r)
      /\ catalog' = catalog \ {i} /\ Answer(r)
      /\ UNCHANGED <<up, live, ledger, unsure, ingest, overtaken, blurred, hooks>>
  BY KnownRequest DEF CommitRestore, At, store
<1>2. /\ i \in Items /\ item[i].at = "txn" /\ Moving(r, i)
  BY <1>1 DEF RestoreFits, Moving, Working
<1>3. CASE item' = [item EXCEPT ![i].at = "restored"] /\ (UNCHANGED batches \/ Retain(r, "committed"))
  <2>1. /\ item' \in [Items -> ItemType] /\ item'[i].page = item[i].page
        /\ item'[i].at = "restored" /\ \A j \in Items \ {i} : item'[j] = item[j]
    BY <1>2, <1>3, PlaceEffect DEF Ats
  <2>2. Listed(i)'
    BY <1>1, <2>1 DEF Listed
  <2>3. QED
    BY <1>1, <1>2, <1>3, <2>1, <2>2, EndGoes
<1>4. CASE UNCHANGED item /\ Retain(r, "committing")
  <2>1. Batched(i)'
    BY <1>4, RetainedBatched
  <2>2. item' \in [Items -> ItemType] /\ Listed(i)'
    BY <1>1, <1>2, <1>4 DEF Listed, Types, VaultTypes
  <2>3. QED
    BY <1>1, <1>2, <1>4, <2>1, <2>2, EndGoes
<1>5. QED
  BY <1>3, <1>4 DEF CommitRestore

\* A failing step turns the transaction back.
LEMMA FailBatchGoes ==
  ASSUME Types, VaultInv, NEW r \in Requests, FailBatch(r)
  PROVE  Goes
<1> SUFFICES ASSUME NEW i, i = request[r].item, NEW p, p = item[i].page PROVE Goes
  OBVIOUS
<1>1. /\ up /\ request[r].op \in {"archive", "restore"} /\ r # Nobody
      /\ request[r].pc \in {"unlink", "withdraw", "commit", "publish"}
      /\ request[r].pc = "publish" => Undone(request[r].op, i)
      /\ Goto(r, "rollback")
      /\ UNCHANGED <<up, live, item, catalog, lock, ledger, unsure, ingest, retained, hooks>>
  BY KnownRequest DEF FailBatch, vault, store
<1>2. i \in Items /\ Working(r, i)
  BY <1>1, KnownRequest DEF ArchiveFits, RestoreFits, Working
<1>3. /\ lock[i] = r /\ p \in Pages /\ lock[p] = r /\ i \notin ledger
  BY <1>2, WorkingHolds
<1>4. item[i].at \in {"staged", "store", "txn"} /\ Counting(i)
  <2>1. CASE request[r].pc = "publish"
    BY <1>1, <1>3, <2>1 DEF Undone, Counting
  <2>2. CASE request[r].pc # "publish"
    BY <1>1, <1>2, <2>2, WorkingHolds DEF Moving
  <2>3. QED
    BY <2>1, <2>2
<1>5. /\ request' \in [Requests -> RequestType]
      /\ request'[r].op = request[r].op /\ request'[r].item = i /\ request'[r].pc = "rollback"
      /\ \A u \in Requests \ {r} : request'[u] = request[u]
  BY <1>1, GotoEffect DEF Pcs, BatchPc
<1>6. batches' \subseteq BatchType /\ overtaken' \subseteq Pages /\ item' \in [Items -> ItemType]
      /\ batches' = batches /\ overtaken' = overtaken /\ blurred' = blurred
  BY <1>1 DEF Types, VaultTypes, retained
<1>7. Fits(r)'
  <2>1. CASE request[r].op = "archive"
    BY <1>1, <1>2, <1>3, <1>5, <1>6, <2>1, KnownRequest DEF Fits, ArchiveFits
  <2>2. CASE request[r].op = "restore"
    BY <1>1, <1>2, <1>3, <1>4, <1>5, <1>6, <2>2, KnownRequest
       DEF Fits, RestoreFits, Undone, Listed
  <2>3. QED
    BY <1>1, <2>1, <2>2
<1>8. InBatch(i)' /\ \A j \in Items : Working(r, j)' => j = i
  BY <1>1, <1>5 DEF InBatch, Moving, Working
<1>9. Local(i, p)
  BY <1>1, <1>3, <1>4, <1>8 DEF Local, Holds, Counting, ItemFits
<1>10. Spares(r, i)
  BY <1>1, <1>2, <1>4, <1>6, <1>8, WorkingSpares
<1>11. KeepsBoth(r, i, p)
  BY <1>1, <1>3, <1>5 DEF KeepsBoth
<1>12. QED
  BY <1>1, <1>2, <1>3, <1>5, <1>6, <1>7, <1>9, <1>10, <1>11, BatchGoes

\* What one file operation of a rollback does to item i and its page.
LEMMA RolledBackEffect ==
  ASSUME Types, NEW i \in Items, NEW p \in Pages, p = item[i].page, NEW op, RolledBack(op, i),
         p \notin overtaken' => i \notin ledger,
         UNCHANGED ledger, up' = up, lock'[i] # Nobody \/ ~up, InBatch(i)'
  PROVE  /\ item' \in [Items -> ItemType] /\ item'[i].page = p
         /\ item[i].at \in {"staged", "store", "txn"}
         /\ item'[i].at \in {"staged", "store", "txn"}
         /\ item'[i].at = "staged" => op = "archive"
         /\ item'[i].at = "txn" => op = "restore" /\ item[i].at = "txn"
         /\ \A j \in Items \ {i} : item'[j] = item[j]
         /\ live' \in {live, live \cup {p}, live \ {p}}
         /\ Local(i, p)
<1>1. /\ item' \in [Items -> ItemType] /\ item'[i].page = p
      /\ item[i].at \in {"staged", "store", "txn"}
      /\ item'[i].at \in {"staged", "store", "txn"}
      /\ item'[i].at = "staged" => op = "archive"
      /\ item'[i].at = "txn" => op = "restore" /\ item[i].at = "txn"
      /\ \A j \in Items \ {i} : item'[j] = item[j]
  BY DEF RolledBack, Types, VaultTypes, ItemType, Ats
<1>2. live' \in {live, live \cup {p}, live \ {p}}
  BY DEF RolledBack
<1>3. p \in live' /\ p \notin live => Counting(i)
  BY DEF RolledBack, Counting
<1>4. ItemFits(i)'
  BY <1>1 DEF ItemFits
<1>5. Local(i, p)
  BY <1>1, <1>2, <1>3, <1>4 DEF Local, Holds, Counting
<1>6. QED
  BY <1>1, <1>2, <1>5

\* What the end of a rollback does to it.
LEMMA ForgetEffect ==
  ASSUME Types, NEW i \in Items, NEW p \in Pages, p = item[i].page, NEW op \in {"archive", "restore"},
         Undone(op, i), Forget(op, i), UNCHANGED <<ledger, live>>, up' = up,
         i \notin blurred' => ~up \/ (i \in catalog' <=> op = "restore")
  PROVE  /\ item' \in [Items -> ItemType] /\ item'[i].page = p
         /\ item[i].at \in {"staged", "store"}
         /\ item'[i].at = IF op = "archive" THEN "undone" ELSE "store"
         /\ \A j \in Items \ {i} : item'[j] = item[j]
         /\ Local(i, p)
<1>1. CASE op = "archive"
  <2>1. item' = [item EXCEPT ![i].at = "undone"] /\ item[i].at = "staged"
    BY <1>1 DEF Forget, Undone
  <2>2. /\ item' \in [Items -> ItemType] /\ item'[i].page = p /\ item'[i].at = "undone"
        /\ \A j \in Items \ {i} : item'[j] = item[j]
    BY <2>1, PlaceEffect DEF Ats
  <2>3. Local(i, p)
    BY <1>1, <2>2 DEF Local, Holds, Counting, ItemFits, Listed
  <2>4. QED
    BY <1>1, <2>1, <2>2, <2>3
<1>2. CASE op = "restore"
  <2>1. item' = item /\ item[i].at = "store" /\ p \notin live
    BY <1>2 DEF Forget, Undone
  <2>2. Local(i, p)
    BY <1>2, <2>1 DEF Local, Holds, Counting, ItemFits, Listed
  <2>3. QED
    BY <1>2, <2>1, <2>2 DEF Types, VaultTypes
<1>3. QED
  BY <1>1, <1>2

\* What is known of a request that rolls back.
LEMMA KnownRollback ==
  ASSUME Types, VaultInv, NEW r \in Requests, request[r].pc = "rollback"
  PROVE  /\ request[r].op \in {"archive", "restore"} /\ request[r].item \in Items
         /\ Moving(r, request[r].item)
         /\ request[r].item \notin blurred =>
              (request[r].item \in catalog <=> request[r].op = "restore")
         /\ request[r].op = "archive" => item[request[r].item].at \in {"staged", "store"}
         /\ request[r].op = "restore" => item[request[r].item].at \in {"store", "txn"}
<1>1. request[r].op \in Ops /\ request[r].op \notin {"none", "purge"}
  BY KnownRequest DEF RequestType, NoRequest, PurgeFits, PurgePc
<1>2. QED
  BY <1>1, KnownRequest DEF Ops, Moving, Working, ArchiveFits, RestoreFits

\* A rollback of the coordinator.
LEMMA RollbackGoes ==
  ASSUME Types, VaultInv, NEW r \in Requests, RollbackBatch(r)
  PROVE  Goes
<1> SUFFICES ASSUME NEW i, i = request[r].item, NEW p, p = item[i].page,
                    NEW op, op = request[r].op
             PROVE  Goes
  OBVIOUS
<1>1. /\ up /\ request[r].pc = "rollback" /\ r # Nobody
      /\ UNCHANGED <<up, catalog, ledger, unsure, ingest, retained, hooks>>
  BY KnownRequest DEF RollbackBatch, store
<1>2. /\ op \in {"archive", "restore"} /\ i \in Items /\ Moving(r, i)
      /\ i \notin blurred => (i \in catalog <=> op = "restore")
      /\ op = "archive" => item[i].at \in {"staged", "store"}
      /\ op = "restore" => item[i].at \in {"store", "txn"}
  BY <1>1, KnownRollback
<1>3. /\ lock[i] = r /\ p \in Pages /\ lock[p] = r
      /\ i \notin ledger /\ item[i].at \in {"staged", "store", "txn"} /\ Counting(i)
      /\ Working(r, i)
  BY <1>2, WorkingHolds DEF Moving
<1>4. batches' \subseteq BatchType /\ overtaken' \subseteq Pages
      /\ batches' = batches /\ overtaken' = overtaken /\ blurred' = blurred
  BY <1>1 DEF Types, VaultTypes, retained
<1>5. CASE RolledBack(op, i) /\ UNCHANGED <<request, lock>>
  <2>1. InBatch(i)' /\ \A j \in Items : Working(r, j)' => j = i
    BY <1>2, <1>5 DEF InBatch, Moving, Working
  <2>2. /\ item' \in [Items -> ItemType] /\ item'[i].page = p
        /\ item'[i].at \in {"staged", "store", "txn"}
        /\ item'[i].at = "staged" => op = "archive"
        /\ item'[i].at = "txn" => op = "restore"
        /\ \A j \in Items \ {i} : item'[j] = item[j]
        /\ live' \in {live, live \cup {p}, live \ {p}}
        /\ Local(i, p)
    BY <1>1, <1>2, <1>3, <1>5, <2>1, RolledBackEffect
  <2>3. Fits(r)'
    <3>1. CASE op = "archive"
      BY <1>1, <1>2, <1>3, <1>4, <1>5, <2>2, <3>1 DEF Fits, ArchiveFits
    <3>2. CASE op = "restore"
      BY <1>1, <1>2, <1>3, <1>4, <1>5, <2>2, <3>2 DEF Fits, RestoreFits
    <3>3. QED
      BY <1>2, <3>1, <3>2
  <2>4. KeepsBoth(r, i, p)
    BY <1>3, <1>5 DEF KeepsBoth
  <2>5. request' \in [Requests -> RequestType] /\ \A u \in Requests \ {r} : request'[u] = request[u]
    BY <1>5 DEF Types, VaultTypes
  <2>6. Spares(r, i)
    BY <1>2, <1>3, <1>4, <2>1, <2>2, WorkingSpares
  <2>7. QED
    BY <1>1, <1>2, <1>3, <1>4, <2>2, <2>3, <2>4, <2>5, <2>6, BatchGoes
<1>6. CASE Undone(op, i) /\ Forget(op, i) /\ Answer(r) /\ UNCHANGED live
  <2>1. /\ item' \in [Items -> ItemType] /\ item'[i].page = p
        /\ item'[i].at = IF op = "archive" THEN "undone" ELSE "store"
        /\ \A j \in Items \ {i} : item'[j] = item[j]
    BY <1>1, <1>2, <1>3, <1>4, <1>6, ForgetEffect
  <2>2. op = "restore" => p \notin live
    BY <1>6 DEF Undone
  <2>3. i \notin blurred' => Listed(i)'
    BY <1>1, <1>2, <1>4, <2>1 DEF Listed
  <2>4. QED
    BY <1>1, <1>2, <1>4, <1>6, <2>1, <2>2, <2>3, EndGoes
<1>7. QED
  BY <1>5, <1>6 DEF RollbackBatch

\* A rollback that fails leaves its batch to the next start.
LEMMA RetainBatchGoes ==
  ASSUME Types, VaultInv, NEW r \in Requests, RetainBatch(r)
  PROVE  Goes
<1> SUFFICES ASSUME NEW i, i = request[r].item PROVE Goes
  OBVIOUS
<1>1. /\ up /\ request[r].pc = "rollback" /\ Retain(r, "committing") /\ Answer(r)
      /\ blurred' = blurred \cup {i}
      /\ UNCHANGED <<up, live, item, catalog, ledger, unsure, ingest, overtaken, hooks>>
  BY DEF RetainBatch, vault, store
<1>2. i \in Items /\ Moving(r, i) /\ item[i].at \in {"staged", "store", "txn"}
      /\ item' \in [Items -> ItemType]
  BY <1>1, KnownRollback DEF Types, VaultTypes
<1>3. Batched(i)'
  BY <1>1, RetainedBatched
<1>4. QED
  BY <1>1, <1>2, <1>3, EndGoes

\* The recovery at startup.
LEMMA RecoverGoes ==
  ASSUME Types, VaultInv, NEW b \in batches, Recover(b)
  PROVE  Goes
<1> SUFFICES ASSUME NEW i, i = b.item, NEW p, p = item[i].page, NEW op, op = b.op PROVE Goes
  OBVIOUS
<1>1. /\ ~up /\ b.phase = "committing"
      /\ UNCHANGED <<up, catalog, ledger, unsure, ingest, hooks, request, lock, overtaken, blurred,
                     pruning>>
  BY DEF Recover, store
<1>2. i \in Items /\ op \in {"archive", "restore"} /\ BatchFits(b)
  BY DEF Types, VaultTypes, BatchType, VaultInv
<1>3. /\ p \in Pages /\ overtaken \subseteq Pages
      /\ p \notin overtaken =>
           i \notin ledger /\ \A c \in batches : c.phase = "committing" /\ c.item = i => c = b
  BY <1>1, <1>2 DEF VaultInv, ItemFits, BatchFits, Waits, Types, VaultTypes
<1>4. /\ \A x \in Items \cup Pages : lock[x] = Nobody
      /\ \A r \in Requests : request[r] = NoRequest
  BY <1>1 DEF VaultInv, Quiet
<1>5. Quiet'
  BY <1>1 DEF VaultInv, Quiet
<1>6. ASSUME item' \in [Items -> ItemType], \A j \in Items \ {i} : item'[j] = item[j],
             item'[i].page = p, item[i].at # "restored", item'[i].at # "none",
             live' \in {live, live \cup {p}, live \ {p}}, Local(i, p),
             batches' \subseteq batches, \A c \in batches \ {b} : c \in batches',
             b \in batches' => item'[i].at \in {"staged", "store", "txn"}
      PROVE  Goes
  <2>1. Works(Nobody, i, p)
    <3>1. \A j \in Items \ {i} : Batched(j) => Batched(j)'
      BY <1>6 DEF Batched
    <3>2. QED
      BY <1>1, <1>2, <1>3, <1>4, <1>6, <3>1, ArchiveAssumption DEF Works
  <2>2. Spares(Nobody, i)
    BY <1>1, <1>2, <1>3, <1>6, ArchiveAssumption DEF Spares
  <2>3. WorkStep(Nobody, i, p)
    BY <1>6, <2>1, <2>2, ArchiveAssumption DEF WorkStep
  <2>4. VaultTypes'
    BY <1>1, <1>3, <1>6 DEF Types, VaultTypes
  <2>5. QED
    BY <1>1, <1>2, <1>3, <1>5, <2>3, <2>4, VaultStep, NamedStep DEF Goes
<1>7. CASE RolledBack(op, i) /\ UNCHANGED batches
  <2>1. InBatch(i)'
    BY <1>1, <1>7 DEF InBatch, Batched
  <2>2. /\ item' \in [Items -> ItemType] /\ item'[i].page = p
        /\ item[i].at \in {"staged", "store", "txn"}
        /\ item'[i].at \in {"staged", "store", "txn"}
        /\ \A j \in Items \ {i} : item'[j] = item[j]
        /\ live' \in {live, live \cup {p}, live \ {p}}
        /\ Local(i, p)
    BY <1>1, <1>2, <1>3, <1>7, <2>1, RolledBackEffect
  <2>3. QED
    BY <1>6, <1>7, <2>2
<1>8. CASE Undone(op, i) /\ Forget(op, i) /\ batches' = batches \ {b} /\ UNCHANGED live
  <2>1. /\ item' \in [Items -> ItemType] /\ item'[i].page = p
        /\ item[i].at \in {"staged", "store"} /\ item'[i].at # "none"
        /\ \A j \in Items \ {i} : item'[j] = item[j]
        /\ Local(i, p)
    BY <1>1, <1>2, <1>3, <1>8, ForgetEffect
  <2>2. QED
    BY <1>6, <1>8, <2>1
<1>9. QED
  BY <1>7, <1>8 DEF Recover
-----------------------------------------------------------------------------
(* Steps of captures and of the content store.                             *)

\* They leave requests, items, batches and locks alone; a page comes into the
\* vault as a new one or leaves it when nobody has its lock.
LEMMA IngestVault ==
  ASSUME Types, VaultInv, up, NEW p,
         UNCHANGED <<up, item, catalog, ledger, request, lock, batches, blurred>>,
         overtaken \subseteq overtaken', overtaken' \subseteq Pages,
         \/ live' = live
         \/ p \in Pages /\ lock[p] = Nobody /\ live' = live \ {p}
         \/ p \in Pages /\ lock[p] = Nobody /\ live' = live \cup {p} /\ Fresh(p),
         \A q \in Pages : PageFits(q)'
  PROVE  VaultTypes' /\ VaultInv'
<1>1. VaultTypes'
  BY DEF Types, VaultTypes
<1>2. ASSUME NEW q \in Pages, q # p \/ lock[p] # Nobody PROVE q \in live' <=> q \in live
  BY <1>2
<1>3. ASSUME NEW r \in Requests PROVE Fits(r)' /\ Owner(r)'
  <2>1. Fits(r) /\ Owner(r) /\ r # Nobody
    BY KnownRequest
  <2>2. ASSUME NEW q \in Pages, lock[q] = r PROVE q \in live' <=> q \in live
    BY <1>2, <2>1, <2>2
  <2>3. request[r].op = "archive" => ArchiveFits(r)'
    BY <2>1, <2>2 DEF Fits, ArchiveFits
  <2>4. request[r].op = "restore" => RestoreFits(r)'
    BY <2>1, <2>2 DEF Fits, RestoreFits, Listed
  <2>5. QED
    BY <2>1, <2>3, <2>4 DEF Fits, Owner, PurgeFits, Listed
<1>4. ASSUME NEW i \in Items PROVE ItemFits(i)'
  <2>1. ItemFits(i) /\ (InBatch(i)' <=> InBatch(i))
    BY DEF VaultInv, InBatch, Moving, Working, Batched
  <2>2. Holds(i) /\ item[i].page \in live' => item[i].page \in live
    BY DEF Fresh
  <2>3. QED
    BY <2>1, <2>2 DEF ItemFits, Holds, Listed
<1>5. Unique' /\ Quiet'
  BY DEF VaultInv, Unique, Holds, Quiet
<1>6. ASSUME NEW b \in batches' PROVE BatchFits(b)'
  <2>1. BatchFits(b)
    BY DEF VaultInv
  <2>2. Waits(b) => Waits(b)'
    BY DEF Waits, Working
  <2>3. QED
    BY <2>1, <2>2 DEF BatchFits
<1>7. QED
  BY <1>1, <1>3, <1>4, <1>5, <1>6 DEF VaultInv

\* There are finitely many references.
LEMMA DueFinite ==
  ASSUME NEW h
  PROVE  /\ Due(h) \in SUBSET Pages /\ IsFiniteSet(Due(h))
         /\ Cardinality(Due(h)) \in Nat
         /\ Cardinality(Due(h)) = 0 => Due(h) = {}
<1>1. Due(h) \in SUBSET Pages
  BY DEF Due
<1>2. IsFiniteSet(Due(h))
  BY <1>1, FS_Subset, ArchiveAssumption
<1>3. QED
  BY <1>1, <1>2, FS_CardinalityType, FS_EmptySet

\* The same in the next state.
LEMMA DueFiniteNext ==
  ASSUME NEW h
  PROVE  /\ Due(h)' \in SUBSET Pages /\ IsFiniteSet(Due(h)')
         /\ Cardinality(Due(h)') \in Nat
         /\ Cardinality(Due(h)') = 0 => Due(h)' = {}
<1>1. Due(h)' \in SUBSET Pages
  BY DEF Due
<1>2. IsFiniteSet(Due(h)')
  BY <1>1, FS_Subset, ArchiveAssumption
<1>3. QED
  BY <1>1, <1>2, FS_CardinalityType, FS_EmptySet

\* What is excused stays excused, but for a rebuild.
LEMMA ExcusedGrows ==
  ASSUME unsure \subseteq unsure', overtaken \subseteq overtaken'
  PROVE  /\ Excused \subseteq Excused'
         /\ \A q \in overtaken' : Refs[q] \subseteq Excused'
BY DEF Excused

\* A blob that gains no reference and loses no count is covered.
LEMMA BlobKept ==
  ASSUME Types, NEW h \in Blobs, BlobFits(h), Excused \subseteq Excused', refs'[h] = refs[h],
         h \in rows => h \in rows', h \notin Excused' => Due(h)' \subseteq Due(h),
         \A p \in Pages : Writes(p, h)' => Writes(p, h), pruning' = h => pruning = h
  PROVE  BlobFits(h)'
<1> SUFFICES ASSUME h \notin Excused' PROVE BlobFits(h)'
  BY DEF BlobFits
<1>1. h \notin Excused /\ Due(h)' \in SUBSET Due(h)
  OBVIOUS
<1>2. Cardinality(Due(h)') <= Cardinality(Due(h))
  BY <1>1, DueFinite, FS_Subset
<1>3. refs'[h] >= Cardinality(Due(h)')
  BY <1>1, <1>2, DueFinite, DueFiniteNext DEF BlobFits, Types, StoreTypes
<1>4. QED
  BY <1>1, <1>3 DEF BlobFits

\* A blob that loses one count loses the reference of some page p.
LEMMA BlobGivenBack ==
  ASSUME Types, NEW h \in Blobs, BlobFits(h), Excused \subseteq Excused', h \in rows => h \in rows',
         NEW p \in Pages, h \notin Excused' => p \in Due(h) /\ Due(h)' \subseteq Due(h) \ {p},
         refs'[h] = refs[h] - 1,
         \A q \in Pages : ~Writes(q, h)', pruning' # h
  PROVE  BlobFits(h)'
<1> SUFFICES ASSUME h \notin Excused' PROVE BlobFits(h)'
  BY DEF BlobFits
<1>1. Due(h)' \in SUBSET (Due(h) \ {p}) /\ IsFiniteSet(Due(h) \ {p})
      /\ Cardinality(Due(h) \ {p}) = Cardinality(Due(h)) - 1
  BY DueFinite, FS_RemoveElement
<1>2. Cardinality(Due(h)') <= Cardinality(Due(h) \ {p})
  BY <1>1, FS_Subset
<1>3. refs'[h] >= Cardinality(Due(h)')
  BY <1>1, <1>2, DueFinite, DueFiniteNext DEF BlobFits, Types, StoreTypes
<1>4. QED
  BY <1>1, <1>3 DEF BlobFits

\* References do not grow where nothing that makes one does.
LEMMA DueShrinks ==
  ASSUME NEW h,
         \A q \in Pages : h \in Refs[q] =>
           /\ Named(q)' => Named(q)
           /\ h \in ingest'[q].stored => h \in ingest[q].stored
           /\ h \in hooks'[q] => h \in hooks[q]
           /\ Writes(q, h)' => Writes(q, h)
  PROVE  Due(h)' \subseteq Due(h)
BY DEF Due

\* A step of the vault that leaves the content store alone.
LEMMA StoreStays ==
  ASSUME Types, StoreInv, overtaken \subseteq overtaken',
         \A q \in Pages \ overtaken' : Named(q)' => Named(q),
         UNCHANGED <<rows, refs, files, torn, unsure, ingest, hooks, pruning>>
  PROVE  StoreInv'
<1> SUFFICES ASSUME NEW h \in Blobs PROVE BlobFits(h)' /\ RowFits(h)'
  BY DEF StoreInv
<1>1. \A q \in Pages : Writes(q, h)' <=> Writes(q, h)
  BY DEF Writes
<1>2. Excused \subseteq Excused' /\ \A q \in overtaken' : Refs[q] \subseteq Excused'
  BY ExcusedGrows
<1>3. h \notin Excused' => Due(h)' \subseteq Due(h)
  BY <1>1, <1>2, DueShrinks
<1>4. BlobFits(h)'
  BY <1>1, <1>2, <1>3, BlobKept DEF StoreInv
<1>5. RowFits(h)'
  BY <1>1 DEF RowFits, StoreInv
<1>6. QED
  BY <1>4, <1>5

\* Nothing of what makes a claim changes.
LEMMA NamedStays ==
  ASSUME UNCHANGED <<live, item, ledger>>, NEW q
  PROVE  Named(q)' <=> Named(q)
BY DEF Named, Counting

\* The prune takes the file of a blob that is nobody's, then its row.
LEMMA GcKeepsInv ==
  ASSUME Inv, (\E h \in Blobs : GcRemove(h)) \/ GcForget
  PROVE  Inv'
<1>0. Types /\ VaultInv /\ StoreInv
  BY DEF Inv
<1>1. /\ up /\ UNCHANGED <<up, live, item, catalog, ledger, request, lock, retained, ingest, hooks,
                           unsure>>
  BY DEF GcRemove, GcForget, vault
<1>2. /\ UNCHANGED <<batches, overtaken, blurred>> /\ Excused' = Excused
      /\ overtaken' \subseteq Pages
  BY <1>0, <1>1 DEF retained, Excused, Types, VaultTypes
<1>3. \A q \in Pages : PageFits(q)'
  BY <1>0, <1>1, <1>2 DEF VaultInv, PageFits, Fresh, Holds
<1>4. VaultTypes' /\ VaultInv'
  BY <1>0, <1>1, <1>2, <1>3, IngestVault
<1>5. \A h \in Blobs, q \in Pages : Writes(q, h)' <=> Writes(q, h)
  BY <1>1 DEF Writes
<1>6. \A h \in Blobs : Due(h)' \subseteq Due(h)
  BY <1>1, <1>5, NamedStays, DueShrinks
<1>7. ASSUME NEW h \in Blobs, GcRemove(h) PROVE StoreTypes' /\ StoreInv'
  <2>1. /\ h \in rows /\ refs[h] <= 0 /\ files' = files \ {h} /\ pruning' = h
        /\ UNCHANGED <<rows, refs, torn>> /\ CasFree
    BY <1>7 DEF GcRemove
  <2>2. StoreTypes'
    BY <1>0, <1>1, <2>1 DEF Types, StoreTypes
  <2>3. ASSUME NEW k \in Blobs PROVE BlobFits(k)' /\ RowFits(k)'
    <3>1. BlobFits(k) /\ RowFits(k) /\ k # Nobody
      BY <1>0, ArchiveAssumption DEF StoreInv
    <3>2. RowFits(k)'
      BY <1>1, <2>1, <3>1 DEF RowFits, CasFree, Writes
    <3>3. CASE k # h
      BY <1>0, <1>2, <1>5, <1>6, <2>1, <3>1, <3>2, <3>3, BlobKept
    <3>4. CASE k = h
      <4>1. h \notin Excused => Due(h) = {}
        BY <1>0, <2>1, <3>1, <3>4, DueFinite DEF BlobFits, Types, StoreTypes
      <4>2. h \notin Excused => Due(h)' = {}
        BY <1>6, <4>1
      <4>3. h \notin Excused => refs'[h] >= Cardinality(Due(h)')
        BY <2>1, <3>1, <3>4, <4>1, <4>2 DEF BlobFits
      <4>4. QED
        BY <1>2, <3>2, <3>4, <4>2, <4>3 DEF BlobFits
    <3>5. QED
      BY <3>3, <3>4
  <2>4. QED
    BY <2>2, <2>3 DEF StoreInv
<1>8. CASE GcForget
  <2> SUFFICES ASSUME NEW h, h = pruning PROVE StoreTypes' /\ StoreInv'
    BY <1>4 DEF Inv, Types
  <2>1. /\ h \in Blobs /\ pruning' = Nobody /\ files' = files /\ h # Nobody
        /\ \/ rows' = rows \ {h} /\ refs' = [refs EXCEPT ![h] = 0] /\ UNCHANGED torn
           \/ UNCHANGED <<rows, refs>> /\ torn' = torn \cup {h}
    BY <1>0, <1>8 DEF GcForget, Types, StoreTypes
  <2>2. StoreTypes'
    BY <1>0, <1>1, <2>1 DEF Types, StoreTypes
  <2>3. ASSUME NEW k \in Blobs PROVE BlobFits(k)' /\ RowFits(k)'
    <3>1. BlobFits(k) /\ RowFits(k) /\ k # Nobody
      BY <1>0, ArchiveAssumption DEF StoreInv
    <3>2. RowFits(k)'
      BY <1>1, <1>5, <2>1, <3>1 DEF RowFits
    <3>3. CASE k # h \/ UNCHANGED <<rows, refs>>
      <4>1. refs'[k] = refs[k] /\ (k \in rows => k \in rows')
        BY <1>0, <2>1, <3>3 DEF Types, StoreTypes
      <4>2. QED
        BY <1>0, <1>2, <1>5, <1>6, <2>1, <3>1, <3>2, <4>1, BlobKept
    <3>4. CASE k = h /\ refs' = [refs EXCEPT ![h] = 0]
      <4>1. h \notin Excused => Due(h)' = {}
        BY <1>6, <3>1, <3>4 DEF BlobFits
      <4>2. refs'[h] = 0
        BY <1>0, <2>1, <3>4 DEF Types, StoreTypes
      <4>3. h \notin Excused => refs'[h] >= Cardinality(Due(h)')
        BY <4>1, <4>2, FS_EmptySet
      <4>4. QED
        BY <1>2, <2>1, <3>1, <3>2, <3>4, <4>1, <4>3 DEF BlobFits
    <3>5. QED
      BY <2>1, <3>3, <3>4
  <2>4. QED
    BY <2>2, <2>3 DEF StoreInv
<1>9. QED
  BY <1>4, <1>7, <1>8 DEF Inv, Types

\* Only the capture p changes.
OnlyIngest(p) == \A q \in Pages \ {p} : ingest'[q] = ingest[q] /\ hooks'[q] = hooks[q]

\* The other captures keep their place while page p comes or goes.
LEMMA OtherPages ==
  ASSUME VaultInv, NEW p \in Pages, OnlyIngest(p), item' = item,
         live' \in {live, live \cup {p}, live \ {p}}, unsure \subseteq unsure',
         overtaken \subseteq overtaken',
         NEW q \in Pages \ {p}
  PROVE  PageFits(q)'
<1>1. PageFits(q) /\ ingest'[q] = ingest[q] /\ hooks'[q] = hooks[q] /\ (q \in live' <=> q \in live)
  BY DEF VaultInv, OnlyIngest
<1>2. Fresh(q)' <=> Fresh(q)
  BY <1>1 DEF Fresh
<1>3. QED
  BY <1>1, <1>2 DEF PageFits, Holds

\* Nothing happens to the batches that were left behind.
LEMMA RetainedStays ==
  ASSUME Types, UNCHANGED retained, unsure \subseteq unsure'
  PROVE  /\ UNCHANGED <<batches, overtaken, blurred>>
         /\ overtaken \subseteq overtaken' /\ overtaken' \subseteq Pages
         /\ Excused \subseteq Excused' /\ (unsure' = unsure => Excused' = Excused)
BY ExcusedGrows DEF retained, Excused, Types, VaultTypes

\* What is known of a capture that takes a step.
LEMMA KnownIngest ==
  ASSUME Types, VaultInv, NEW p \in Pages
  PROVE  /\ ingest[p] \in IngestType /\ PageFits(p) /\ Refs[p] \subseteq Blobs
         /\ Fresh(p) => ~Named(p) /\ hooks[p] = {}
         /\ ingest[p].pc \in {"store", "write"} => Fresh(p)
<1>1. ingest[p] \in IngestType /\ PageFits(p) /\ Refs[p] \subseteq Blobs
  BY ArchiveAssumption DEF Types, StoreTypes, VaultInv
<1>2. Fresh(p) => ~Named(p) /\ hooks[p] = {}
  BY DEF Fresh, Named
<1>3. QED
  BY <1>1, <1>2 DEF PageFits

\* The new record of a capture.
LEMMA IngestEffect ==
  ASSUME Types, NEW p \in Pages, NEW g \in IngestType, ingest' = [ingest EXCEPT ![p] = g],
         UNCHANGED hooks
  PROVE  ingest' \in [Pages -> IngestType] /\ ingest'[p] = g /\ OnlyIngest(p)
BY DEF Types, StoreTypes, OnlyIngest

\* No capture is one.
LEMMA EmptyIngest ==
  /\ NoIngest \in IngestType /\ NoIngest.pc = "idle"
  /\ NoIngest.stored = {} /\ NoIngest.todo = {}
BY DEF NoIngest, IngestType

\* A capture begins.
LEMMA BeginIngestKeepsInv ==
  ASSUME Inv, NEW p \in Pages, BeginIngest(p)
  PROVE  Inv'
<1>0. Types /\ VaultInv /\ StoreInv
  BY DEF Inv
<1> DEFINE g == [NoIngest EXCEPT !.pc = "store", !.todo = Refs[p]]
<1>1. g \in IngestType /\ g.pc = "store" /\ g.todo = Refs[p] /\ g.stored = {}
  BY KnownIngest, <1>0 DEF NoIngest, IngestType
<1>2. /\ up /\ ingest' = [ingest EXCEPT ![p] = g] /\ ingest[p] = NoIngest /\ Fresh(p)
      /\ UNCHANGED <<up, live, item, catalog, ledger, request, lock, retained, rows, refs, files,
                     torn, unsure, hooks, pruning>>
  BY DEF BeginIngest, Fresh, vault, store
<1> HIDE DEF g
<1>3. ingest' \in [Pages -> IngestType] /\ ingest'[p] = g /\ OnlyIngest(p)
  BY <1>0, <1>1, <1>2, IngestEffect
<1>4. PageFits(p)'
  BY <1>0, <1>1, <1>2, <1>3, KnownIngest DEF PageFits, Fresh
<1>5. VaultTypes' /\ VaultInv'
  BY <1>0, <1>2, <1>3, <1>4, RetainedStays, OtherPages, IngestVault
<1>6. StoreTypes'
  BY <1>0, <1>2, <1>3 DEF Types, StoreTypes
<1>7. ASSUME NEW h \in Blobs PROVE BlobFits(h)' /\ RowFits(h)'
  <2>1. BlobFits(h) /\ RowFits(h)
    BY <1>0 DEF StoreInv
  <2>2. \A q \in Pages : Writes(q, h)' <=> Writes(q, h)
    BY <1>1, <1>2, <1>3, EmptyIngest DEF Writes, OnlyIngest
  <2>3. \A q \in Pages : h \in ingest'[q].stored => h \in ingest[q].stored
    BY <1>1, <1>3 DEF OnlyIngest
  <2>4. Due(h)' \subseteq Due(h)
    BY <1>2, <2>2, <2>3, NamedStays, DueShrinks
  <2>5. QED
    BY <1>0, <1>2, <2>1, <2>2, <2>4, RetainedStays, BlobKept DEF RowFits
<1>8. QED
  BY <1>5, <1>6, <1>7 DEF Inv, Types, StoreInv

\* A row is counted, or made with a count of one.
LEMMA StoreRowKeepsInv ==
  ASSUME Inv, NEW p \in Pages, NEW h \in Blobs, StoreRow(p, h)
  PROVE  Inv'
<1>0. Types /\ VaultInv /\ StoreInv
  BY DEF Inv
<1>1. /\ up /\ CasFree /\ ingest[p].pc = "store" /\ h \in ingest[p].todo
      /\ rows' = rows \cup {h}
      /\ refs' = [refs EXCEPT ![h] = IF h \in rows THEN refs[h] + 1 ELSE 1]
      /\ UNCHANGED <<up, live, item, catalog, ledger, request, lock, retained, files,
                     torn, unsure, hooks, pruning>>
  BY DEF StoreRow, vault
<1>2. /\ ingest' \in [Pages -> IngestType] /\ OnlyIngest(p)
      /\ ingest'[p].todo = ingest[p].todo \ {h}
      /\ h \in rows => ingest'[p].pc = "store" /\ ingest'[p].stored = ingest[p].stored \cup {h}
      /\ h \notin rows => /\ ingest'[p].pc = "write" /\ ingest'[p].stored = ingest[p].stored
                          /\ ingest'[p].blob = h
  <2>1. ingest[p] \in IngestType /\ ingest \in [Pages -> IngestType]
    BY <1>0 DEF Types, StoreTypes
  <2>2. CASE h \in rows
    <3> DEFINE todo == ingest[p].todo \ {h}
               stored == ingest[p].stored \cup {h}
    <3>1. todo \in SUBSET Blobs /\ stored \in SUBSET Blobs
      BY <2>1 DEF IngestType
    <3>2. ingest' = [ingest EXCEPT ![p].todo = todo, ![p].pc = "store", ![p].stored = stored,
                                   ![p].blob = Nobody]
      BY <2>2 DEF StoreRow
    <3> HIDE DEF todo, stored
    <3>3. ingest' \in [Pages -> IngestType] /\ OnlyIngest(p) /\ ingest'[p].todo = todo
          /\ ingest'[p].pc = "store" /\ ingest'[p].stored = stored
      BY <1>1, <2>1, <3>1, <3>2 DEF OnlyIngest, IngestType
    <3>4. QED
      BY <2>2, <3>3 DEF todo, stored
  <2>3. CASE h \notin rows
    BY <1>1, <2>1, <2>3 DEF StoreRow, OnlyIngest, IngestType
  <2>4. QED
    BY <2>2, <2>3
<1>3. Fresh(p) /\ PageFits(p) /\ h \in Refs[p] /\ h \notin ingest[p].stored
  BY <1>0, <1>1, KnownIngest DEF PageFits
<1>4. Fresh(p)'
  BY <1>1, <1>3 DEF Fresh
<1>5. PageFits(p)'
  <2>1. /\ ingest[p].stored \cup ingest[p].todo = Refs[p] /\ ingest[p].stored \cap ingest[p].todo = {}
        /\ hooks'[p] = {}
    BY <1>1, <1>3 DEF PageFits, Fresh
  <2>2. CASE h \in rows
    <3>1. /\ ingest'[p].stored \cup ingest'[p].todo = Refs[p]
          /\ ingest'[p].stored \cap ingest'[p].todo = {}
      BY <1>1, <1>2, <2>1, <2>2
    <3>2. ingest'[p].pc = "store" /\ ingest'[p].stored \subseteq Refs[p] /\ ingest'[p].todo \subseteq Refs[p]
      BY <1>2, <2>2, <3>1
    <3>3. QED
      BY <1>4, <2>1, <3>1, <3>2 DEF PageFits
  <2>3. CASE h \notin rows
    <3>1. /\ ingest'[p].stored \cup ingest'[p].todo \cup {ingest'[p].blob} = Refs[p]
          /\ ingest'[p].stored \cap ingest'[p].todo = {}
          /\ ingest'[p].blob \in Blobs \ (ingest'[p].stored \cup ingest'[p].todo)
      BY <1>1, <1>2, <1>3, <2>1, <2>3
    <3>2. ingest'[p].pc = "write" /\ ingest'[p].stored \subseteq Refs[p] /\ ingest'[p].todo \subseteq Refs[p]
      BY <1>2, <2>3, <3>1
    <3>3. QED
      BY <1>4, <2>1, <3>1, <3>2 DEF PageFits
  <2>4. QED
    BY <2>2, <2>3
<1>6. VaultTypes' /\ VaultInv'
  BY <1>0, <1>1, <1>2, <1>5, RetainedStays, OtherPages, IngestVault
<1>7. StoreTypes'
  BY <1>0, <1>1, <1>2 DEF Types, StoreTypes
<1>8. \A k \in Blobs, q \in Pages : /\ ~Writes(q, k)
                                    /\ Writes(q, k)' <=> q = p /\ k = h /\ h \notin rows
  BY <1>1, <1>2 DEF Writes, CasFree, OnlyIngest
<1>9. ASSUME NEW k \in Blobs \ {h} PROVE BlobFits(k)'
  <2>1. \A q \in Pages : k \in ingest'[q].stored => k \in ingest[q].stored
    BY <1>2 DEF OnlyIngest
  <2>2. Due(k)' \subseteq Due(k)
    BY <1>1, <1>8, <2>1, NamedStays, DueShrinks
  <2>3. refs'[k] = refs[k]
    BY <1>0, <1>1 DEF Types, StoreTypes
  <2>4. QED
    BY <1>0, <1>1, <1>8, <2>2, <2>3, RetainedStays, BlobKept DEF StoreInv
<1>10. BlobFits(h)'
  <2> SUFFICES ASSUME h \notin Excused PROVE BlobFits(h)'
    BY <1>0, <1>1, RetainedStays DEF BlobFits
  <2>1. BlobFits(h) /\ h # Nobody
    BY <1>0, ArchiveAssumption DEF StoreInv
  <2>2. \A q \in Pages \ {p} : Named(q)' = Named(q) /\ ingest'[q] = ingest[q] /\ hooks'[q] = hooks[q]
    BY <1>1, <1>2, NamedStays DEF OnlyIngest, Named
  <2>3. Due(h)' \subseteq Due(h) \cup {p}
    BY <1>8, <2>2 DEF Due
  <2>4. /\ IsFiniteSet(Due(h) \cup {p})
        /\ Cardinality(Due(h) \cup {p}) \in {Cardinality(Due(h)), Cardinality(Due(h)) + 1}
        /\ Cardinality(Due(h)') <= Cardinality(Due(h) \cup {p})
    BY <2>3, DueFinite, FS_AddElement, FS_Subset
  <2>5. CASE h \in rows
    <3>1. refs'[h] = refs[h] + 1 /\ refs[h] \in Int
      BY <1>0, <1>1, <2>5 DEF Types, StoreTypes
    <3>2. refs'[h] >= Cardinality(Due(h)')
      BY <2>1, <2>4, <3>1, DueFinite, DueFiniteNext DEF BlobFits
    <3>3. QED
      BY <1>1, <1>8, <2>1, <2>5, <3>2 DEF BlobFits, CasFree
  <2>6. CASE h \notin rows
    <3>1. refs'[h] = 1 /\ Due(h) = {} /\ Cardinality(Due(h)) = 0
      BY <1>0, <1>1, <2>1, <2>6, FS_EmptySet DEF Types, StoreTypes, BlobFits
    <3>2. refs'[h] >= Cardinality(Due(h)')
      BY <2>4, <3>1, DueFiniteNext
    <3>3. QED
      BY <1>1, <1>8, <2>1, <2>3, <2>6, <3>1, <3>2 DEF BlobFits, CasFree
  <2>7. QED
    BY <2>5, <2>6
<1>11. ASSUME NEW k \in Blobs PROVE RowFits(k)'
  <2>1. RowFits(k) /\ k # Nobody /\ pruning = Nobody
    BY <1>0, <1>1, ArchiveAssumption DEF StoreInv, CasFree
  <2>2. k \in rows => k \in files \cup torn
    BY <1>8, <2>1 DEF RowFits
  <2>3. QED
    BY <1>1, <1>8, <2>2 DEF RowFits
<1>12. QED
  BY <1>6, <1>7, <1>9, <1>10, <1>11 DEF Inv, Types, StoreInv
\* The file of a new row, or the row's end.
LEMMA StoreFileKeepsInv ==
  ASSUME Inv, NEW p \in Pages, StoreFile(p)
  PROVE  Inv'
<1>0. Types /\ VaultInv /\ StoreInv
  BY DEF Inv
<1> SUFFICES ASSUME NEW h, h = ingest[p].blob PROVE Inv'
  OBVIOUS
<1>1. /\ up /\ ingest[p].pc = "write"
      /\ UNCHANGED <<up, live, item, catalog, ledger, request, lock, retained, unsure, hooks, pruning>>
  BY DEF StoreFile, vault
<1>2. /\ ingest[p] \in IngestType /\ ingest \in [Pages -> IngestType]
      /\ PageFits(p) /\ Fresh(p) /\ ~Named(p) /\ hooks[p] = {}
      /\ h \in Blobs /\ h \in Refs[p] /\ h \notin ingest[p].stored
      /\ ingest[p].stored \cup ingest[p].todo \cup {h} = Refs[p]
      /\ ingest[p].stored \cap ingest[p].todo = {}
  BY <1>0, <1>1, KnownIngest DEF PageFits, Types, StoreTypes
<1>3. Fresh(p)' /\ hooks'[p] = {}
  BY <1>1, <1>2 DEF Fresh
<1>4. CASE /\ files' = files \cup {h} /\ torn' = torn \ {h}
           /\ ingest' = [ingest EXCEPT ![p].pc = "store", ![p].blob = Nobody,
                                       ![p].stored = @ \cup {h}]
           /\ UNCHANGED <<rows, refs>>
  <2> DEFINE stored == ingest[p].stored \cup {h}
  <2>1. stored \in SUBSET Blobs /\ stored \subseteq Refs[p]
    BY <1>2 DEF IngestType
  <2>2. ingest' = [ingest EXCEPT ![p].pc = "store", ![p].blob = Nobody, ![p].stored = stored]
    BY <1>4
  <2> HIDE DEF stored
  <2>3. /\ ingest' \in [Pages -> IngestType] /\ OnlyIngest(p) /\ ingest'[p].pc = "store"
        /\ ingest'[p].stored = stored /\ ingest'[p].todo = ingest[p].todo
    BY <1>1, <1>2, <2>1, <2>2 DEF OnlyIngest, IngestType
  <2>4. stored \cup ingest[p].todo = Refs[p] /\ ingest[p].todo \subseteq Refs[p]
    BY <1>2 DEF stored
  <2>5. stored \cap ingest[p].todo = {}
    <3>1. h \notin ingest[p].todo
      BY <1>1, <1>2 DEF PageFits
    <3>2. QED
      BY <1>2, <3>1 DEF stored
  <2>6. PageFits(p)'
    BY <1>3, <2>1, <2>3, <2>4, <2>5 DEF PageFits
  <2>7. VaultTypes' /\ VaultInv'
    BY <1>0, <1>1, <2>3, <2>6, RetainedStays, OtherPages, IngestVault
  <2>8. StoreTypes'
    BY <1>0, <1>1, <1>2, <1>4, <2>3 DEF Types, StoreTypes
  <2>9. ASSUME NEW k \in Blobs PROVE BlobFits(k)' /\ RowFits(k)'
    <3>1. BlobFits(k) /\ RowFits(k)
      BY <1>0 DEF StoreInv
    <3>2. \A q \in Pages : Writes(q, k)' <=> q # p /\ Writes(q, k)
      BY <1>1, <2>3 DEF Writes, OnlyIngest
    <3>3. Due(k)' \subseteq Due(k)
      <4>1. \A q \in Pages \ {p} : ingest'[q].stored = ingest[q].stored
        BY <2>3 DEF OnlyIngest
      <4>2. k \in ingest'[p].stored => k \in ingest[p].stored \/ Writes(p, k)
        BY <1>1, <2>3 DEF stored, Writes
      <4>3. QED
        BY <1>1, <3>2, <4>1, <4>2, NamedStays DEF Due
    <3>4. Writes(p, k) <=> k = h
      BY <1>1 DEF Writes
    <3>5. RowFits(k)'
      BY <1>1, <1>4, <3>1, <3>2, <3>4 DEF RowFits
    <3>6. BlobFits(k)'
      BY <1>0, <1>1, <1>4, <3>1, <3>2, <3>3, RetainedStays, BlobKept
    <3>7. QED
      BY <3>5, <3>6
  <2>10. QED
    BY <2>7, <2>8, <2>9 DEF Inv, Types, StoreInv
<1>5. CASE /\ \/ rows' = rows \ {h} /\ refs' = [refs EXCEPT ![h] = 0]
              \/ UNCHANGED <<rows, refs>>
           /\ ingest' = [ingest EXCEPT ![p].pc = "undo", ![p].blob = Nobody, ![p].todo = {}]
           /\ torn' = torn \cup {h} /\ UNCHANGED files
  <2>1. /\ ingest' \in [Pages -> IngestType] /\ OnlyIngest(p) /\ ingest'[p].pc = "undo"
        /\ ingest'[p].stored = ingest[p].stored /\ ingest'[p].todo = {}
    BY <1>1, <1>2, <1>5 DEF OnlyIngest, IngestType
  <2>2. PageFits(p)'
    BY <1>2, <1>3, <2>1 DEF PageFits
  <2>3. VaultTypes' /\ VaultInv'
    BY <1>0, <1>1, <2>1, <2>2, RetainedStays, OtherPages, IngestVault
  <2>4. StoreTypes'
    BY <1>0, <1>1, <1>2, <1>5, <2>1 DEF Types, StoreTypes
  <2>5. ASSUME NEW k \in Blobs PROVE BlobFits(k)' /\ RowFits(k)'
    <3>1. BlobFits(k) /\ RowFits(k)
      BY <1>0 DEF StoreInv
    <3>2. \A q \in Pages : Writes(q, k)' <=> q # p /\ Writes(q, k)
      BY <1>1, <2>1 DEF Writes, OnlyIngest
    <3>3. \A q \in Pages : ingest'[q].stored = ingest[q].stored
      BY <2>1 DEF OnlyIngest
    <3>4. Due(k)' \subseteq Due(k)
      BY <1>1, <3>2, <3>3, NamedStays, DueShrinks
    <3>5. Writes(p, k) <=> k = h
      BY <1>1 DEF Writes
    <3>6. RowFits(k)'
      BY <1>1, <1>5, <3>1, <3>2, <3>5 DEF RowFits
    <3>7. CASE k # h \/ UNCHANGED <<rows, refs>>
      <4>1. refs'[k] = refs[k] /\ (k \in rows => k \in rows')
        BY <1>0, <1>5, <3>7 DEF Types, StoreTypes
      <4>2. QED
        BY <1>0, <1>1, <3>1, <3>2, <3>4, <3>6, <4>1, RetainedStays, BlobKept
    <3>8. CASE k = h /\ refs' = [refs EXCEPT ![h] = 0]
      <4> SUFFICES ASSUME h \notin Excused PROVE BlobFits(h)'
        BY <1>0, <1>1, <3>6, <3>8, RetainedStays DEF BlobFits
      <4>1. Due(h)' \subseteq {p}
        BY <3>1, <3>4, <3>5, <3>8 DEF BlobFits
      <4>2. p \notin Due(h)'
        BY <1>1, <1>2, <1>3, <2>1, <3>2, <3>8, NamedStays DEF Due
      <4>3. Due(h)' = {} /\ refs'[h] = 0
        BY <1>0, <1>2, <3>8, <4>1, <4>2 DEF Types, StoreTypes
      <4>4. refs'[h] >= Cardinality(Due(h)')
        BY <4>3, FS_EmptySet
      <4>5. QED
        BY <4>3, <4>4 DEF BlobFits
    <3>9. QED
      BY <1>5, <3>6, <3>7, <3>8
  <2>6. QED
    BY <2>3, <2>4, <2>5 DEF Inv, Types, StoreInv
<1>6. QED
  BY <1>4, <1>5 DEF StoreFile
\* The page of a capture is created, or is not, or is left behind.
LEMMA CreatePageKeepsInv ==
  ASSUME Inv, NEW p \in Pages, CreatePage(p)
  PROVE  Inv'
<1>0. Types /\ VaultInv /\ StoreInv
  BY DEF Inv
<1>1. /\ up /\ ingest[p].pc = "store" /\ ingest[p].todo = {} /\ lock[p] = Nobody
      /\ UNCHANGED <<up, item, catalog, ledger, request, lock, retained, hooks, rows, refs, files,
                     torn, pruning>>
  BY DEF CreatePage
<1>2. /\ ingest[p] \in IngestType /\ ingest \in [Pages -> IngestType]
      /\ PageFits(p) /\ Fresh(p) /\ ingest[p].stored = Refs[p] /\ Refs[p] \subseteq Blobs
      /\ hooks[p] = {}
  <2>1. /\ ingest[p] \in IngestType /\ PageFits(p) /\ Fresh(p) /\ Refs[p] \subseteq Blobs
        /\ hooks[p] = {}
    BY <1>0, <1>1, KnownIngest
  <2>2. ingest[p].stored \cup ingest[p].todo = Refs[p]
    BY <1>1, <2>1 DEF PageFits
  <2>3. ingest \in [Pages -> IngestType]
    BY <1>0 DEF Types, StoreTypes
  <2>4. QED
    BY <1>1, <2>1, <2>2, <2>3
<1>3. ASSUME NEW g \in IngestType, ingest' = [ingest EXCEPT ![p] = g],
             live' \in {live, live \cup {p}}, unsure' \in {unsure, unsure \cup Refs[p]},
             g.pc # "write", g.stored \subseteq Refs[p], PageFits(p)'
      PROVE  Inv'
  <2>1. ingest' \in [Pages -> IngestType] /\ ingest'[p] = g /\ OnlyIngest(p)
    BY <1>0, <1>1, <1>3, IngestEffect
  <2>2. VaultTypes' /\ VaultInv'
    BY <1>0, <1>1, <1>2, <1>3, <2>1, RetainedStays, OtherPages, IngestVault
  <2>3. StoreTypes'
    BY <1>0, <1>1, <1>2, <1>3, <2>1 DEF Types, StoreTypes
  <2>4. ASSUME NEW k \in Blobs PROVE BlobFits(k)' /\ RowFits(k)'
    <3>1. BlobFits(k) /\ RowFits(k)
      BY <1>0 DEF StoreInv
    <3>2. \A q \in Pages : Writes(q, k)' <=> Writes(q, k)
      BY <1>1, <1>3, <2>1 DEF Writes, OnlyIngest
    <3>3. \A q \in Pages \ {p} : (Named(q)' <=> Named(q)) /\ ingest'[q] = ingest[q]
      BY <1>1, <1>3, <2>1 DEF Named, Counting, OnlyIngest
    <3>4. Due(k)' \subseteq Due(k)
      BY <1>1, <1>2, <3>2, <3>3 DEF Due
    <3>5. QED
      BY <1>0, <1>1, <1>3, <3>1, <3>2, <3>4, RetainedStays, BlobKept DEF RowFits
  <2>5. QED
    BY <2>2, <2>3, <2>4 DEF Inv, Types, StoreInv
<1>4. CASE /\ live' = live \cup {p} /\ ingest' = [ingest EXCEPT ![p] = NoIngest]
           /\ UNCHANGED unsure
  <2>1. PageFits(p)'
    <3>1. ingest'[p] = NoIngest /\ hooks'[p] = {}
      BY <1>1, <1>2, <1>4
    <3>2. QED
      BY <3>1, EmptyIngest DEF PageFits
  <2>2. QED
    BY <1>3, <1>4, <2>1, EmptyIngest
<1>5. ASSUME ingest' = [ingest EXCEPT ![p].pc = "undo"],
             \/ UNCHANGED <<live, unsure>>
             \/ live' = live \cup {p} /\ unsure' = unsure \cup Refs[p]
      PROVE  Inv'
  <2> DEFINE g == [ingest[p] EXCEPT !.pc = "undo"]
  <2>1. g \in IngestType /\ g.pc = "undo" /\ g.stored = Refs[p] /\ g.todo = {}
    BY <1>1, <1>2 DEF IngestType
  <2>2. ingest' = [ingest EXCEPT ![p] = g]
    BY <1>5
  <2> HIDE DEF g
  <2>3. ingest'[p] = g /\ hooks'[p] = {}
    BY <1>1, <1>2, <2>2
  <2>4. Fresh(p)' \/ Refs[p] \subseteq unsure'
    BY <1>1, <1>2, <1>5 DEF Fresh
  <2>5. PageFits(p)'
    BY <2>1, <2>3, <2>4 DEF PageFits
  <2>6. QED
    BY <1>3, <1>5, <2>1, <2>2, <2>5
<1>6. QED
  BY <1>4, <1>5 DEF CreatePage

\* A capture gives back what it stored, or is cancelled with it.
LEMMA EndIngestKeepsInv ==
  ASSUME Inv, NEW p \in Pages, Compensate(p) \/ CancelIngest(p)
  PROVE  Inv'
<1>0. Types /\ VaultInv /\ StoreInv
  BY DEF Inv
<1>1. /\ up /\ ingest' = [ingest EXCEPT ![p] = NoIngest]
      /\ UNCHANGED <<up, live, item, catalog, ledger, request, lock, retained, hooks, rows, files,
                     torn, unsure, pruning>>
  BY DEF Compensate, CancelIngest, vault, store
<1>2. PageFits(p) /\ ingest[p].stored \subseteq Refs[p] /\ Refs[p] \subseteq Blobs
  BY <1>0, KnownIngest DEF PageFits
<1>3. ingest' \in [Pages -> IngestType] /\ ingest'[p] = NoIngest /\ OnlyIngest(p)
  BY <1>0, <1>1, IngestEffect, EmptyIngest
<1>4. PageFits(p)'
  <2>1. hooks'[p] = hooks[p]
    BY <1>1
  <2>2. QED
    BY <1>0, <1>1, <1>2, <1>3, <2>1, EmptyIngest, RetainedStays DEF PageFits, Holds
<1>5. VaultTypes' /\ VaultInv'
  BY <1>0, <1>1, <1>3, <1>4, RetainedStays, OtherPages, IngestVault
<1>6. \A k \in Blobs, q \in Pages : Writes(q, k)' => Writes(q, k)
  BY <1>3, EmptyIngest DEF Writes, OnlyIngest
<1>7. \A k \in Blobs : Due(k)' \subseteq Due(k)
  <2>1. \A q \in Pages : ingest'[q].stored \subseteq ingest[q].stored
    BY <1>3, EmptyIngest DEF OnlyIngest
  <2>2. QED
    BY <1>1, <1>6, <2>1, NamedStays, DueShrinks
<1>8. CASE CancelIngest(p)
  <2>1. refs' = refs /\ ingest[p].pc = "store"
    BY <1>8 DEF CancelIngest, store
  <2>2. StoreTypes'
    BY <1>0, <1>1, <1>3, <2>1 DEF Types, StoreTypes
  <2>3. \A k \in Blobs, q \in Pages : Writes(q, k)' <=> Writes(q, k)
    BY <1>3, <2>1, EmptyIngest DEF Writes, OnlyIngest
  <2>4. ASSUME NEW k \in Blobs PROVE BlobFits(k)' /\ RowFits(k)'
    BY <1>0, <1>1, <1>7, <2>1, <2>3, RetainedStays, BlobKept DEF StoreInv, RowFits
  <2>5. QED
    BY <1>5, <2>2, <2>4 DEF Inv, Types, StoreInv
<1>9. CASE Compensate(p)
  <2>1. /\ CasFree /\ ingest[p].pc = "undo"
        /\ refs' = [k \in Blobs |-> IF k \in ingest[p].stored \cap rows THEN refs[k] - 1 ELSE refs[k]]
    BY <1>9 DEF Compensate, DecrementRef
  <2>2. StoreTypes'
    BY <1>0, <1>1, <1>3, <2>1 DEF Types, StoreTypes
  <2>3. \A k \in Blobs, q \in Pages : ~Writes(q, k) /\ ~Writes(q, k)'
    BY <1>6, <2>1 DEF Writes, CasFree
  <2>4. ASSUME NEW k \in Blobs PROVE BlobFits(k)' /\ RowFits(k)'
    <3>1. BlobFits(k) /\ RowFits(k) /\ pruning = Nobody /\ k # Nobody
      BY <1>0, <2>1, ArchiveAssumption DEF StoreInv, CasFree
    <3>2. RowFits(k)'
      BY <1>1, <2>3, <3>1 DEF RowFits
    <3>3. CASE k \in ingest[p].stored \cap rows
      <4>1. refs'[k] = refs[k] - 1
        BY <2>1, <3>3
      <4>2. k \in Refs[p] /\ p \in Due(k)
        BY <1>2, <3>3 DEF Due
      <4>3. k \notin Excused => p \notin Due(k)'
        <5>1. k \notin Excused => Fresh(p)
          BY <1>2, <2>1, <4>2 DEF PageFits, Excused
        <5>2. k \notin Excused => ~Named(p)' /\ hooks'[p] = {}
          BY <1>0, <1>1, <5>1, NamedStays, KnownIngest
        <5>3. QED
          BY <1>3, <2>3, <5>2, EmptyIngest DEF Due
      <4>4. QED
        BY <1>0, <1>1, <1>7, <2>3, <3>1, <3>2, <4>1, <4>2, <4>3, RetainedStays, BlobGivenBack
    <3>4. CASE k \notin ingest[p].stored \cap rows
      <4>1. refs'[k] = refs[k]
        BY <2>1, <3>4
      <4>2. QED
        BY <1>0, <1>1, <1>7, <2>3, <3>1, <3>2, <4>1, RetainedStays, BlobKept
    <3>5. QED
      BY <3>3, <3>4
  <2>5. QED
    BY <1>5, <2>2, <2>4 DEF Inv, Types, StoreInv
<1>10. QED
  BY <1>8, <1>9
\* The page of a deleted folder hands its references to the hook.
LEMMA DeleteFolderKeepsInv ==
  ASSUME Inv, NEW p \in Pages, DeleteFolder(p)
  PROVE  Inv'
<1>0. Types /\ VaultInv /\ StoreInv
  BY DEF Inv
<1>1. /\ up /\ p \in live /\ lock[p] = Nobody /\ live' = live \ {p}
      /\ hooks' = [hooks EXCEPT ![p] = Refs[p]] /\ Overtake({p})
      /\ UNCHANGED <<up, item, catalog, ledger, request, lock, batches, blurred, ingest, rows, refs,
                     files, torn, unsure, pruning>>
  BY DEF DeleteFolder, store
<1>2. PageFits(p) /\ Refs[p] \subseteq Blobs /\ ~Fresh(p)
  BY <1>0, <1>1, KnownIngest DEF Fresh
<1>3. hooks' \in [Pages -> SUBSET Blobs] /\ hooks'[p] = Refs[p] /\ OnlyIngest(p)
  BY <1>0, <1>1, <1>2 DEF Types, StoreTypes, OnlyIngest
<1>4. /\ overtaken \subseteq overtaken' /\ overtaken' \subseteq Pages
      /\ \A b \in batches :
           b.phase = "committing" /\ item[b.item].page \in {p} => item[b.item].page \in overtaken'
      /\ Excused \subseteq Excused'
  BY <1>0, <1>1, OvertakeEffect, ExcusedGrows
<1>5. p \notin overtaken' => \A i \in Items : Holds(i) => item[i].page # p
  <2> SUFFICES ASSUME p \notin overtaken', NEW i \in Items, Holds(i), item[i].page = p PROVE FALSE
    OBVIOUS
  <2>1. InBatch(i)
    BY <1>0, <1>1, <1>4 DEF VaultInv, ItemFits
  <2>2. ~Batched(i)
    BY <1>4 DEF Batched
  <2>3. PICK u \in Requests : Moving(u, i)
    BY <2>1, <2>2 DEF InBatch
  <2>4. QED
    BY <1>0, <1>1, <2>3, WorkingHolds, KnownRequest DEF Moving
<1>6. PageFits(p)'
  BY <1>1, <1>2, <1>3, <1>5 DEF PageFits, Holds
<1>7. VaultTypes' /\ VaultInv'
  BY <1>0, <1>1, <1>3, <1>4, <1>6, OtherPages, IngestVault
<1>8. StoreTypes'
  BY <1>0, <1>1, <1>3 DEF Types, StoreTypes
<1>9. ASSUME NEW k \in Blobs PROVE BlobFits(k)' /\ RowFits(k)'
  <2>1. BlobFits(k) /\ RowFits(k)
    BY <1>0 DEF StoreInv
  <2>2. \A q \in Pages : Writes(q, k)' <=> Writes(q, k)
    BY <1>1 DEF Writes
  <2>3. \A q \in Pages \ {p} : (Named(q)' => Named(q)) /\ hooks'[q] = hooks[q]
    BY <1>1, <1>3 DEF Named, Counting, OnlyIngest
  <2>4. Named(p)
    BY <1>1 DEF Named
  <2>5. Due(k)' \subseteq Due(k)
    BY <1>1, <2>2, <2>3, <2>4 DEF Due
  <2>6. QED
    BY <1>0, <1>1, <1>4, <2>1, <2>2, <2>5, BlobKept DEF RowFits
<1>10. QED
  BY <1>7, <1>8, <1>9 DEF Inv, Types, StoreInv

\* The hook gives one of them back.
LEMMA HookKeepsInv ==
  ASSUME Inv, NEW p \in Pages, NEW h \in Blobs, OnPageDeleted(p, h)
  PROVE  Inv'
<1>0. Types /\ VaultInv /\ StoreInv
  BY DEF Inv
<1>1. /\ up /\ CasFree /\ h \in hooks[p]
      /\ hooks' = [hooks EXCEPT ![p] = hooks[p] \ {h}]
      /\ refs' = [k \in Blobs |-> IF k \in {h} \cap rows THEN refs[k] - 1 ELSE refs[k]]
      /\ UNCHANGED <<up, live, item, catalog, ledger, request, lock, retained, ingest, rows, files,
                     torn, unsure, pruning>>
  BY DEF OnPageDeleted, DecrementRef, vault
<1>2. PageFits(p) /\ h \in Refs[p] /\ ~Fresh(p)
  BY <1>0, <1>1, KnownIngest DEF PageFits, Fresh
<1>3. hooks' \in [Pages -> SUBSET Blobs] /\ hooks'[p] = hooks[p] \ {h} /\ OnlyIngest(p)
  BY <1>0, <1>1 DEF Types, StoreTypes, OnlyIngest
<1>4. PageFits(p)'
  BY <1>0, <1>1, <1>2, <1>3, RetainedStays DEF PageFits, Holds
<1>5. VaultTypes' /\ VaultInv'
  BY <1>0, <1>1, <1>3, <1>4, RetainedStays, OtherPages, IngestVault
<1>6. StoreTypes'
  BY <1>0, <1>1, <1>3 DEF Types, StoreTypes
<1>7. \A k \in Blobs, q \in Pages : ~Writes(q, k) /\ ~Writes(q, k)'
  BY <1>1 DEF Writes, CasFree
<1>8. ASSUME NEW k \in Blobs PROVE BlobFits(k)' /\ RowFits(k)'
  <2>1. BlobFits(k) /\ RowFits(k) /\ pruning = Nobody /\ k # Nobody
    BY <1>0, <1>1, ArchiveAssumption DEF StoreInv, CasFree
  <2>2. RowFits(k)'
    BY <1>1, <1>7, <2>1 DEF RowFits
  <2>3. Due(k)' \subseteq Due(k)
    <3>1. \A q \in Pages : hooks'[q] \subseteq hooks[q]
      BY <1>3 DEF OnlyIngest
    <3>2. QED
      BY <1>1, <1>7, <3>1, NamedStays, DueShrinks
  <2>4. CASE k = h /\ h \in rows
    <3>1. refs'[h] = refs[h] - 1 /\ p \in Due(h)
      BY <1>1, <1>2, <2>4 DEF Due
    <3>2. h \notin Excused => p \notin Due(h)'
      <4>1. h \notin Excused => p \notin overtaken /\ ~(Refs[p] \subseteq unsure)
        BY <1>2 DEF Excused
      <4>2. h \notin Excused => ~Named(p)
        BY <1>1, <1>2, <4>1 DEF PageFits, Named, Counting, Holds
      <4>3. h \notin Excused => h \notin ingest[p].stored
        BY <1>2, <4>1, EmptyIngest DEF PageFits
      <4>4. QED
        BY <1>1, <1>3, <1>7, <4>2, <4>3, NamedStays DEF Due
    <3>3. Excused' = Excused
      BY <1>0, <1>1, RetainedStays
    <3>4. QED
      BY <1>0, <1>1, <1>7, <2>1, <2>2, <2>3, <2>4, <3>1, <3>2, <3>3, BlobGivenBack
  <2>5. CASE ~(k = h /\ h \in rows)
    <3>1. refs'[k] = refs[k]
      BY <1>1, <2>5
    <3>2. QED
      BY <1>0, <1>1, <1>7, <2>1, <2>2, <2>3, <3>1, RetainedStays, BlobKept
  <2>6. QED
    BY <2>4, <2>5
<1>9. QED
  BY <1>5, <1>6, <1>8 DEF Inv, Types, StoreInv

\* The release of a purged item gives one back for each of its blobs, once.
LEMMA ReleaseKeepsStore ==
  ASSUME Inv, NEW r \in Requests, ReleaseRefs(r)
  PROVE  StoreTypes' /\ StoreInv'
<1>0. Types /\ VaultInv /\ StoreInv
  BY DEF Inv
<1>1. /\ VaultInv' /\ overtaken \subseteq overtaken'
      /\ \A q \in Pages \ overtaken' : Named(q)' => Named(q)
  BY <1>0, ReleaseGoes DEF Goes
<1> SUFFICES ASSUME NEW i, i = request[r].item, NEW p, p = item[i].page
             PROVE  StoreTypes' /\ StoreInv'
  OBVIOUS
<1>2. /\ up /\ request[r].op = "purge" /\ request[r].pc = "release" /\ PurgeFits(r) /\ CasFree
      /\ UNCHANGED <<up, live, item, rows, files, torn, unsure, ingest, hooks, pruning>>
  BY <1>0, KnownRequest DEF ReleaseRefs, At, vault
<1>3. i \in Items /\ item[i].at = "store" /\ lock[i] = r /\ Holds(i)
  BY <1>2 DEF PurgeFits, Holds
<1>4. p \in Pages /\ ItemFits(i)
  BY <1>0, <1>3 DEF VaultInv, ItemFits
<1>5. CASE UNCHANGED <<refs, ledger>>
  BY <1>0, <1>1, <1>2, <1>5, StoreStays DEF Types, StoreTypes
<1>6. CASE /\ i \notin ledger /\ ledger' = ledger \cup {i} /\ DecrementRef(Refs[p])
           /\ Overtake({p})
  <2>1. refs' = [k \in Blobs |-> IF k \in Refs[p] \cap rows THEN refs[k] - 1 ELSE refs[k]]
    BY <1>6 DEF DecrementRef
  <2>2. StoreTypes'
    BY <1>0, <1>2, <2>1 DEF Types, StoreTypes
  <2>3. \A k \in Blobs, q \in Pages : ~Writes(q, k) /\ ~Writes(q, k)'
    BY <1>2 DEF Writes, CasFree
  <2>4. p \notin overtaken' => p \notin live
    <3>1. ~Moving(r, i)
      BY <1>2 DEF Moving, Working
    <3>2. p \notin overtaken' => ~Batched(i)
      BY <1>0, <1>4, <1>6, OvertakeEffect DEF Batched
    <3>3. QED
      BY <1>0, <1>1, <1>3, <1>4, <3>1, <3>2, NotMoving DEF ItemFits
  <2>5. Named(p) /\ (p \notin overtaken' => ~Named(p)')
    <3>1. Named(p)
      BY <1>3, <1>6 DEF Named, Counting
    <3>2. ASSUME p \notin overtaken', NEW j \in Items, item'[j].page = p, Counting(j)' PROVE FALSE
      <4>1. j # i /\ Holds(j) /\ item[j].page = p /\ p \notin overtaken
        BY <1>1, <1>2, <1>3, <1>6, <3>2 DEF Counting, Holds
      <4>2. QED
        BY <1>0, <1>3, <4>1 DEF VaultInv, Unique
    <3>3. QED
      BY <1>2, <2>4, <3>1, <3>2 DEF Named
  <2>6. PageFits(p) /\ ~Fresh(p) /\ (p \notin overtaken' => hooks[p] = {})
    BY <1>0, <1>1, <1>3, <1>4 DEF VaultInv, PageFits, Fresh
  <2>7. Excused \subseteq Excused' /\ unsure \subseteq Excused'
    BY <1>1, <1>2, ExcusedGrows DEF Excused
  <2>8. ASSUME NEW k \in Blobs PROVE BlobFits(k)' /\ RowFits(k)'
    <3>1. BlobFits(k) /\ RowFits(k) /\ pruning = Nobody /\ k # Nobody
      BY <1>0, <1>2, ArchiveAssumption DEF StoreInv, CasFree
    <3>2. RowFits(k)'
      BY <1>2, <2>3, <3>1 DEF RowFits
    <3>3. \A q \in Pages : k \in Refs[q] /\ k \notin Excused' => q \notin overtaken'
      BY <1>1, <1>2, ExcusedGrows
    <3>4. k \notin Excused' => Due(k)' \subseteq Due(k)
      BY <1>1, <1>2, <2>3, <3>3, DueShrinks
    <3>5. CASE k \in Refs[p] \cap rows
      <4>1. refs'[k] = refs[k] - 1 /\ p \in Due(k)
        BY <1>4, <2>1, <2>5, <3>5 DEF Due
      <4>2. k \notin Excused' => k \notin ingest[p].stored
        BY <2>6, <2>7, <3>5, EmptyIngest DEF PageFits
      <4>3. k \notin Excused' => p \notin Due(k)'
        BY <1>2, <1>4, <2>3, <2>5, <2>6, <3>3, <3>5, <4>2 DEF Due
      <4>4. QED
        BY <1>0, <1>2, <1>4, <2>3, <2>7, <3>1, <3>2, <3>4, <4>1, <4>3, BlobGivenBack
    <3>6. CASE k \notin Refs[p] \cap rows
      <4>1. refs'[k] = refs[k]
        BY <2>1, <3>6
      <4>2. QED
        BY <1>0, <1>2, <2>3, <2>7, <3>1, <3>2, <3>4, <4>1, BlobKept
    <3>7. QED
      BY <3>5, <3>6
  <2>9. QED
    BY <2>2, <2>8 DEF StoreInv
<1>7. QED
  BY <1>5, <1>6 DEF ReleaseRefs

-----------------------------------------------------------------------------
(* Crash, start and rebuild.                                               *)

\* A crash stops everything and leaves the transactions to the recovery.
LEMMA CrashKeepsInv ==
  ASSUME Inv, Crash
  PROVE  Inv'
<1>0. Types /\ VaultInv /\ StoreInv
  BY DEF Inv
<1>1. /\ up /\ up' = FALSE
      /\ torn' = (torn \cup {ingest[p].blob : p \in {q \in Pages : ingest[q].pc = "write"}})
                   \cup {h \in {pruning} : h # Nobody}
      /\ ingest' = [p \in Pages |-> NoIngest] /\ request' = [r \in Requests |-> NoRequest]
      /\ lock' = [x \in DOMAIN lock |-> Nobody] /\ hooks' = [p \in Pages |-> {}]
      /\ pruning' = Nobody
      /\ UNCHANGED <<live, item, catalog, rows, refs, files, ledger, unsure, overtaken>>
  BY DEF Crash, vault
<1>2. /\ batches \subseteq batches'
      /\ \A c \in batches' \ batches : \E r \in Requests : Moving(r, c.item)
            /\ c = [op |-> request[r].op, item |-> request[r].item, phase |-> "committing"]
      /\ \A r \in Requests, i \in Items : Moving(r, i) => Batched(i)'
  <2> DEFINE Left == {q \in Requests :
                        \/ request[q].op = "archive"
                        \/ request[q].op = "restore" /\ request[q].pc \notin {"lock", "publish"}}
             Batch(q) == [op |-> request[q].op, item |-> request[q].item, phase |-> "committing"]
  <2>1. batches' = batches \cup {Batch(r) : r \in Left}
    BY DEF Crash
  <2>2. \A r \in Requests : r \in Left <=> Moving(r, request[r].item)
    BY DEF Moving, Working
  <2>3. \A r \in Requests : Batch(r).phase = "committing" /\ Batch(r).item = request[r].item
    OBVIOUS
  <2>4. ASSUME NEW c \in batches' \ batches
        PROVE  \E r \in Requests : Moving(r, c.item) /\ c = Batch(r)
    <3> HIDE DEF Left, Batch
    <3>1. PICK r \in Left : c = Batch(r)
      BY <2>1
    <3>2. r \in Requests
      BY DEF Left
    <3>3. QED
      BY <2>2, <2>3, <3>1, <3>2
  <2>5. ASSUME NEW r \in Requests, NEW i \in Items, Moving(r, i) PROVE Batched(i)'
    <3>1. request[r].item = i
      BY <2>5 DEF Moving, Working
    <3> HIDE DEF Left, Batch
    <3>2. Batch(r) \in batches' /\ Batch(r).item = i /\ Batch(r).phase = "committing"
      BY <2>1, <2>2, <2>3, <2>5, <3>1
    <3>3. QED
      BY <3>2 DEF Batched
  <2>6. QED
    BY <2>1, <2>4, <2>5
<1>3. batches' \subseteq BatchType
  <2> SUFFICES ASSUME NEW c \in batches' \ batches PROVE c \in BatchType
    BY <1>0 DEF Types, VaultTypes
  <2>1. PICK r \in Requests :
          /\ Moving(r, c.item)
          /\ c = [op |-> request[r].op, item |-> request[r].item, phase |-> "committing"]
    BY <1>2
  <2>2. request[r].item \in Items /\ request[r].op \in {"archive", "restore"}
    BY <1>0, <2>1, KnownRequest DEF Moving, Working, ArchiveFits, RestoreFits
  <2>3. QED
    BY <2>1, <2>2 DEF BatchType
<1>4. VaultTypes' /\ StoreTypes'
  <2>1. VaultTypes'
    BY <1>0, <1>1, <1>3, EmptyRequest DEF Types, VaultTypes
  <2>2. {ingest[p].blob : p \in {q \in Pages : ingest[q].pc = "write"}} \subseteq Blobs
    BY <1>0 DEF VaultInv, PageFits
  <2>3. {h \in {pruning} : h # Nobody} \subseteq Blobs
    BY <1>0 DEF Types, StoreTypes
  <2>4. StoreTypes'
    BY <1>0, <1>1, <2>2, <2>3, EmptyIngest DEF Types, StoreTypes
  <2>5. QED
    BY <2>1, <2>4
<1>5. \A r \in Requests, i \in Items : ~Working(r, i)'
  BY <1>1, EmptyRequest DEF Working
<1>6. ASSUME NEW b \in batches' PROVE BatchFits(b)'
  <2>1. ASSUME NEW c \in batches' \ batches
        PROVE  \E r \in Requests :
                 /\ Moving(r, c.item) /\ lock[c.item] = r
                 /\ c = [op |-> request[r].op, item |-> request[r].item, phase |-> "committing"]
    BY <1>0, <1>2, <1>3, <2>1, WorkingHolds DEF BatchType, Moving
  <2>2. b.item \in Items
    BY <1>3 DEF BatchType
  <2>3. CASE b \in batches
    <3>1. BatchFits(b)
      BY <1>0, <2>3 DEF VaultInv
    <3>2. ASSUME Waits(b), NEW c \in batches', c.phase = "committing", c.item = b.item
          PROVE  c = b
      BY <2>1, <2>2, <3>2 DEF Waits, Moving
    <3>3. Waits(b) => Waits(b)'
      BY <1>1, <1>5, <3>2 DEF Waits
    <3>4. QED
      BY <1>1, <3>1, <3>3 DEF BatchFits
  <2>4. CASE b \notin batches
    <3>1. PICK r \in Requests :
            /\ Moving(r, b.item) /\ lock[b.item] = r
            /\ b = [op |-> request[r].op, item |-> request[r].item, phase |-> "committing"]
      BY <2>1, <2>4
    <3>2. item[b.item].at \in {"staged", "store", "txn"} /\ b.item \notin ledger
          /\ Working(r, b.item)
      BY <1>0, <2>2, <3>1, WorkingHolds DEF Moving
    <3>3. ASSUME item[b.item].page \notin overtaken,
                 NEW c \in batches', c.phase = "committing", c.item = b.item
          PROVE  c = b
      <4>1. CASE c \in batches
        <5>1. Waits(c)
          BY <1>0, <3>3, <4>1 DEF VaultInv, BatchFits
        <5>2. QED
          BY <2>2, <3>2, <3>3, <5>1 DEF Waits
      <4>2. CASE c \notin batches
        BY <2>1, <3>1, <3>3, <4>2
      <4>3. QED
        BY <4>1, <4>2
    <3>4. QED
      BY <1>1, <1>5, <3>1, <3>2, <3>3 DEF BatchFits, Waits
  <2>5. QED
    BY <2>3, <2>4
<1>7. VaultInv'
  <2>1. ASSUME NEW r \in Requests PROVE Fits(r)' /\ Owner(r)'
    BY <1>0, <1>1, EmptyRequest, KnownRequest DEF Fits, Owner, Types, VaultTypes
  <2>2. ASSUME NEW i \in Items PROVE ItemFits(i)'
    <3>1. InBatch(i) => InBatch(i)'
      BY <1>2 DEF InBatch, Batched
    <3>2. QED
      BY <1>0, <1>1, <3>1 DEF VaultInv, ItemFits, Holds
  <2>3. ASSUME NEW p \in Pages PROVE PageFits(p)'
    BY <1>1, EmptyIngest DEF PageFits
  <2>4. Unique'
    BY <1>0, <1>1 DEF VaultInv, Unique, Holds
  <2>5. Quiet'
    BY <1>0, <1>1 DEF Quiet, Types, VaultTypes
  <2>6. QED
    BY <1>6, <2>1, <2>2, <2>3, <2>4, <2>5 DEF VaultInv
<1>8. ASSUME NEW k \in Blobs PROVE BlobFits(k)' /\ RowFits(k)'
  <2>1. BlobFits(k) /\ RowFits(k) /\ k # Nobody
    BY <1>0, ArchiveAssumption DEF StoreInv
  <2>2. \A q \in Pages : ~Writes(q, k)' /\ ingest'[q].stored = {} /\ hooks'[q] = {}
    BY <1>1, EmptyIngest DEF Writes
  <2>3. Due(k)' \subseteq Due(k)
    BY <1>1, <2>2, NamedStays, DueShrinks
  <2>4. BlobFits(k)'
    BY <1>0, <1>1, <2>1, <2>2, <2>3, ExcusedGrows, BlobKept
  <2>5. RowFits(k)'
    BY <1>1, <2>1 DEF RowFits, Writes
  <2>6. QED
    BY <2>4, <2>5
<1>9. QED
  BY <1>4, <1>7, <1>8 DEF Inv, Types, StoreInv

\* The start finishes interrupted purges, reads the catalogue anew and repeats
\* what the committed batches told it.
LEMMA StartKeepsInv ==
  ASSUME Inv, Start
  PROVE  Inv'
<1>0. Types /\ VaultInv /\ StoreInv
  BY DEF Inv
<1>1. /\ ~up /\ Pending = {} /\ up' = TRUE
      /\ item' = [i \in Items |-> IF item[i].at = "tomb"
                                  THEN [item[i] EXCEPT !.at = "gone"] ELSE item[i]]
      /\ catalog' = (Stored \cup Committed("archive")) \ Committed("restore")
      /\ blurred' = Committed("archive") \ Stored /\ batches' = {}
      /\ UNCHANGED <<live, ledger, request, lock, overtaken, ingest, hooks, unsure, rows, refs, files,
                     torn, pruning>>
  BY DEF Start, store
<1>2. ASSUME NEW i \in Items
      PROVE  /\ item'[i] \in ItemType /\ item'[i].page = item[i].page
             /\ item[i].at # "tomb" => item'[i] = item[i]
             /\ item[i].at = "tomb" => item'[i].at = "gone"
             /\ Holds(i)' <=> Holds(i)
             /\ Counting(i)' <=> Counting(i)
  <2>1. item[i] \in ItemType
    BY <1>0 DEF Types, VaultTypes
  <2>2. CASE item[i].at = "tomb"
    BY <1>1, <2>1, <2>2 DEF ItemType, Ats, Holds, Counting
  <2>3. CASE item[i].at # "tomb"
    BY <1>1, <2>1, <2>3 DEF Holds, Counting
  <2>4. QED
    BY <2>2, <2>3
<1>3. VaultTypes' /\ StoreTypes'
  <2>1. item' \in [Items -> ItemType]
    <3>1. item' = [i \in Items |-> item'[i]]
      BY <1>1
    <3>2. QED
      BY <1>2, <3>1
  <2>2. Stored \subseteq Items /\ Committed("archive") \subseteq Items
    BY <1>0 DEF Stored, Committed, Types, VaultTypes, BatchType
  <2>3. QED
    BY <1>0, <1>1, <2>1, <2>2 DEF Types, VaultTypes, StoreTypes
<1>4. ASSUME NEW r \in Requests PROVE Fits(r)' /\ Owner(r)' /\ request[r] = NoRequest
  <2>1. request[r] = NoRequest
    BY <1>0, <1>1 DEF VaultInv, Quiet
  <2>2. QED
    BY <1>0, <1>1, <2>1, EmptyRequest, KnownRequest DEF Fits, Owner
<1>5. ASSUME NEW i \in Items PROVE ItemFits(i)'
  <2>1. ItemFits(i) /\ ~InBatch(i)
    <3>1. ~Batched(i)
      BY <1>1 DEF Batched, Pending
    <3>2. QED
      BY <1>0, <1>4, <3>1, EmptyRequest DEF VaultInv, InBatch, Moving, Working
  <2>2. item[i].page \notin overtaken =>
          item[i].at \notin {"staged", "txn"} /\ (Holds(i) => item[i].page \notin live)
    BY <2>1 DEF ItemFits
  <2>3. i \notin blurred' => Listed(i)'
    <3>1. i \in Committed("restore") => item[i].at = "restored"
      BY <1>0 DEF Committed, VaultInv, BatchFits
    <3>2. i \in Stored <=> item'[i].at = "store"
      BY <1>2 DEF Stored
    <3>3. QED
      BY <1>1, <3>1, <3>2 DEF Listed, Stored
  <2>4. item'[i].at = "none" => item'[i] = NoItem
    BY <1>2, <2>1 DEF ItemFits
  <2>5. item'[i].at # "none" => item'[i].page \in Pages
    BY <1>2, <2>1 DEF ItemFits
  <2>6. i \in ledger' => item'[i].at # "none"
    BY <1>1, <1>2, <2>1 DEF ItemFits
  <2>7. item'[i].page \notin overtaken' =>
          item'[i].at \notin {"staged", "txn"} /\ ~(Holds(i)' /\ item'[i].page \in live')
    <3>1. Holds(i)' => Holds(i)
      BY <1>2
    <3>2. item'[i].page = item[i].page /\ live' = live
          /\ (item'[i].at \in {"staged", "txn"} => item[i].at \in {"staged", "txn"})
      BY <1>1, <1>2
    <3>3. QED
      BY <1>1, <2>2, <3>1, <3>2
  <2>8. QED
    BY <2>3, <2>4, <2>5, <2>6, <2>7 DEF ItemFits
<1>6. ASSUME NEW p \in Pages PROVE PageFits(p)'
  BY <1>0, <1>1, EmptyIngest DEF VaultInv, Quiet, PageFits
<1>7. Unique' /\ Quiet'
  <2>1. Unique'
    <3> SUFFICES ASSUME NEW i \in Items, NEW j \in Items, i # j, Holds(i)', Holds(j)',
                        item'[i].page \notin overtaken'
                 PROVE  item'[i].page # item'[j].page
      BY DEF Unique
    <3>1. Holds(i) /\ Holds(j) /\ item'[i].page = item[i].page /\ item'[j].page = item[j].page
      BY <1>2
    <3>2. QED
      BY <1>0, <1>1, <3>1 DEF VaultInv, Unique
  <2>2. QED
    BY <1>1, <2>1 DEF Quiet
<1>8. VaultInv'
  BY <1>1, <1>4, <1>5, <1>6, <1>7 DEF VaultInv
<1>9. \A q \in Pages : Named(q)' => Named(q)
  BY <1>1, <1>2 DEF Named
<1>10. StoreInv'
  BY <1>0, <1>1, <1>9, StoreStays
<1>11. QED
  BY <1>3, <1>8, <1>10 DEF Inv, Types

\* Pages in the vault or in the rubbish that name a blob.
Referring(h) ==
    {p \in live : h \in Refs[p]}
      \cup {item[i].page : i \in {j \in Items : item[j].at = "store" /\ h \in Refs[item[j].page]}}

\* The scan counts every page that names the blob.
LEMMA ScanCovers ==
  ASSUME Types, NEW h
  PROVE  /\ Scan(h) \in Nat
         /\ IsFiniteSet(Referring(h)) /\ Cardinality(Referring(h)) <= Scan(h)
<1> DEFINE A == {p \in live : h \in Refs[p]}
           B == {j \in Items : item[j].at = "store" /\ h \in Refs[item[j].page]}
           C == {item[i].page : i \in B}
           f == [i \in B |-> item[i].page]
<1>1. A \in SUBSET Pages /\ B \in SUBSET Items
  BY DEF Types, VaultTypes
<1>2. IsFiniteSet(A) /\ IsFiniteSet(B)
  BY <1>1, FS_Subset, ArchiveAssumption
<1>3. f \in Surjection(B, C)
  <2>1. f \in [B -> C]
    OBVIOUS
  <2>2. \A y \in C : \E i \in B : f[i] = y
    OBVIOUS
  <2>3. QED
    BY <2>1, <2>2 DEF Surjection
<1>4. Scan(h) = Cardinality(A) + Cardinality(B) /\ Referring(h) = A \cup C
  BY DEF Scan, Referring
<1> HIDE DEF A, B, C, f
<1>5. IsFiniteSet(C) /\ Cardinality(C) <= Cardinality(B)
  BY <1>2, <1>3, FS_Surjection
<1>6. /\ IsFiniteSet(A \cup C)
      /\ Cardinality(A \cup C) = Cardinality(A) + Cardinality(C) - Cardinality(A \cap C)
      /\ IsFiniteSet(A \cap C)
  BY <1>2, <1>5, FS_Union, FS_Intersection
<1>7. Cardinality(A) \in Nat /\ Cardinality(B) \in Nat /\ Cardinality(C) \in Nat
      /\ Cardinality(A \cap C) \in Nat /\ Cardinality(A \cup C) \in Nat
  BY <1>2, <1>5, <1>6, FS_CardinalityType
<1>8. QED
  BY <1>4, <1>5, <1>6, <1>7

\* A rebuild counts every page but those in the middle of a transaction.
LEMMA RebuildKeepsInv ==
  ASSUME Inv, Rebuild
  PROVE  Inv'
<1>0. Types /\ VaultInv /\ StoreInv
  BY DEF Inv
<1>1. /\ ~up
      /\ ledger' = {}
      /\ refs' = [h \in Blobs |-> IF h \in rows' THEN Scan(h) ELSE 0]
      /\ unsure' = (UNION {Refs[p] : p \in InFlight}) \cup {h \in Blobs \ rows' : Scan(h) > 0}
      /\ torn' = torn \ files
      /\ UNCHANGED <<up, live, item, catalog, request, lock, batches, overtaken, blurred, files, ingest,
                     hooks, pruning>>
      /\ rows' \subseteq files \cup torn
  BY DEF Rebuild, vault, retained
<1>2. /\ \A r \in Requests : request[r] = NoRequest
      /\ \A p \in Pages : ingest[p] = NoIngest /\ hooks[p] = {}
      /\ pruning = Nobody
  BY <1>0, <1>1 DEF VaultInv, Quiet
<1>3. InFlight \subseteq Pages
  <2>1. \A i \in Items : item[i].at \in {"staged", "txn"} => item[i].page \in Pages
    BY <1>0 DEF VaultInv, ItemFits
  <2>2. QED
    BY <2>1 DEF InFlight
<1>4. VaultTypes' /\ StoreTypes'
  <2>1. VaultTypes'
    BY <1>0, <1>1 DEF Types, VaultTypes
  <2>2. \A p \in Pages : Refs[p] \subseteq Blobs
    BY ArchiveAssumption
  <2>3. unsure' \subseteq Blobs
    BY <1>1, <1>3, <2>2
  <2>4. \A h \in Blobs : refs'[h] \in Int
    BY <1>0, <1>1, ScanCovers
  <2>5. refs' \in [Blobs -> Int]
    <3>1. refs' = [h \in Blobs |-> refs'[h]]
      BY <1>1
    <3>2. QED
      BY <2>4, <3>1
  <2>6. QED
    BY <1>0, <1>1, <2>1, <2>3, <2>5 DEF Types, StoreTypes
<1>5. VaultInv'
  <2>1. ASSUME NEW r \in Requests PROVE Fits(r)' /\ Owner(r)'
    BY <1>0, <1>1, <1>2, EmptyRequest, KnownRequest DEF Fits, Owner
  <2>2. ASSUME NEW i \in Items PROVE ItemFits(i)'
    <3>1. InBatch(i) => InBatch(i)'
      BY <1>1 DEF InBatch, Moving, Working, Batched
    <3>2. ItemFits(i)
      BY <1>0 DEF VaultInv
    <3>3. QED
      BY <1>1, <3>1, <3>2 DEF ItemFits, Holds, Listed
  <2>3. ASSUME NEW p \in Pages PROVE PageFits(p)'
    BY <1>1, <1>2, EmptyIngest DEF PageFits
  <2>4. Unique' /\ Quiet'
    BY <1>0, <1>1 DEF VaultInv, Unique, Holds, Quiet
  <2>5. ASSUME NEW b \in batches' PROVE BatchFits(b)'
    <3>1. BatchFits(b)
      BY <1>0, <1>1 DEF VaultInv
    <3>2. Waits(b) => Waits(b)'
      BY <1>1 DEF Waits, Working
    <3>3. QED
      BY <1>1, <3>1, <3>2 DEF BatchFits
  <2>6. QED
    BY <2>1, <2>2, <2>3, <2>4, <2>5 DEF VaultInv
<1>6. ASSUME NEW h \in Blobs, h \notin unsure' PROVE Due(h)' \subseteq Referring(h)
  <2> SUFFICES ASSUME NEW p \in Pages, p \in Due(h)' PROVE p \in Referring(h)
    BY DEF Due
  <2>1. h \in Refs[p] /\ Named(p)'
    BY <1>1, <1>2, EmptyIngest DEF Due, Writes
  <2>2. CASE p \in live
    BY <2>1, <2>2 DEF Referring
  <2>3. ASSUME NEW i \in Items, item[i].page = p, item[i].at = "store" PROVE p \in Referring(h)
    BY <2>1, <2>3 DEF Referring
  <2>4. ASSUME NEW i \in Items, item[i].page = p, item[i].at \in {"staged", "txn"}, p \notin live
        PROVE  FALSE
    <3>1. p \in InFlight
      BY <2>4 DEF InFlight
    <3>2. QED
      BY <1>1, <1>6, <2>1, <3>1
  <2>5. QED
    BY <1>1, <2>1, <2>2, <2>3, <2>4 DEF Named, Counting
<1>7. ASSUME NEW h \in Blobs PROVE BlobFits(h)'
  <2> SUFFICES ASSUME h \notin unsure' PROVE BlobFits(h)'
    BY DEF BlobFits, Excused
  <2>1. Due(h)' \in SUBSET Referring(h)
    BY <1>6
  <2>2. Cardinality(Due(h)') <= Scan(h) /\ Scan(h) \in Nat /\ Cardinality(Due(h)') \in Nat
    <3>1. Cardinality(Due(h)') <= Cardinality(Referring(h))
      BY <1>0, <2>1, ScanCovers, FS_Subset
    <3>2. Cardinality(Referring(h)) \in Nat /\ Cardinality(Due(h)') \in Nat
      BY <1>0, ScanCovers, FS_CardinalityType, DueFiniteNext
    <3>3. QED
      BY <1>0, <3>1, <3>2, ScanCovers
  <2>3. h \notin rows' => Scan(h) = 0
    BY <1>1, <2>2
  <2>4. refs'[h] >= Cardinality(Due(h)')
    BY <1>1, <2>2, <2>3
  <2>5. Due(h)' # {} => h \in rows'
    BY <1>1, <2>2, <2>3, DueFiniteNext
  <2>6. (\A p \in Pages : ~Writes(p, h)') /\ pruning' # h
    BY <1>1, <1>2, EmptyIngest, ArchiveAssumption DEF Writes
  <2>7. QED
    BY <2>4, <2>5, <2>6 DEF BlobFits
<1>8. ASSUME NEW h \in Blobs PROVE RowFits(h)'
  BY <1>1 DEF RowFits
<1>9. QED
  BY <1>4, <1>5, <1>7, <1>8 DEF Inv, Types, StoreInv

-----------------------------------------------------------------------------
(* The theorems.                                                           *)

\* A new vault and a new store fit.
LEMMA InitInv ==
  ASSUME Init
  PROVE  Inv
<1>1. /\ up = TRUE /\ live = {} /\ catalog = {} /\ item = [i \in Items |-> NoItem]
      /\ rows = {} /\ refs = [h \in Blobs |-> 0] /\ files = {} /\ ledger = {}
      /\ ingest = [p \in Pages |-> NoIngest] /\ request = [r \in Requests |-> NoRequest]
      /\ lock = [x \in Items \cup Pages |-> Nobody] /\ batches = {}
      /\ hooks = [p \in Pages |-> {}] /\ pruning = Nobody /\ torn = {} /\ unsure = {}
      /\ overtaken = {}
  BY DEF Init
<1>2. NoItem \in ItemType /\ NoItem.page = Nobody /\ NoItem.at = "none"
  BY DEF NoItem, ItemType, Ats
<1>3. Types
  BY <1>1, <1>2, EmptyRequest, EmptyIngest DEF Types, VaultTypes, StoreTypes
<1>4. VaultInv
  <2>1. ASSUME NEW r \in Requests PROVE Fits(r) /\ Owner(r)
    BY <1>1, EmptyRequest, ArchiveAssumption DEF Fits, Owner
  <2>2. ASSUME NEW i \in Items PROVE ItemFits(i)
    BY <1>1, <1>2 DEF ItemFits, Holds, Listed
  <2>3. ASSUME NEW p \in Pages PROVE PageFits(p)
    BY <1>1, EmptyIngest DEF PageFits
  <2>4. Unique /\ Quiet
    BY <1>1, <1>2 DEF Unique, Holds, Quiet
  <2>5. QED
    BY <1>1, <2>1, <2>2, <2>3, <2>4 DEF VaultInv
<1>5. ASSUME NEW h \in Blobs PROVE BlobFits(h) /\ RowFits(h)
  <2>1. Due(h) = {}
    BY <1>1, <1>2, EmptyIngest DEF Due, Named, Counting, Writes
  <2>2. Cardinality(Due(h)) = 0
    BY <2>1, FS_EmptySet
  <2>3. QED
    BY <1>1, <2>1, <2>2 DEF BlobFits, RowFits
<1>6. QED
  BY <1>3, <1>4, <1>5 DEF Inv, StoreInv
\* A request's step leaves the content store alone, but for the release.
LEMMA RequestKeepsInv ==
  ASSUME Inv, Goes, UNCHANGED <<up, rows, refs, files, torn, unsure, ingest, hooks, pruning>>
  PROVE  Inv'
<1>1. StoreTypes'
  BY DEF Inv, Types, StoreTypes
<1>2. StoreInv'
  BY StoreStays DEF Inv, Goes
<1>3. QED
  BY <1>1, <1>2 DEF Inv, Types, Goes

\* A purge goes on.
LEMMA PurgeKeepsInv ==
  ASSUME Inv, PurgeStep
  PROVE  Inv'
<1>0. Types /\ VaultInv
  BY DEF Inv
<1>1. PICK r \in Requests :
        \/ BeginEmpty(r) \/ PreparePurge(r) \/ ReleaseRefs(r) \/ TakeEntry(r)
        \/ RemoveItem(r) \/ FinishTombstone(r) \/ Abandon(r)
        \/ \E i \in Items : BeginPurge(r, i) \/ LockItem(r, i)
  BY DEF PurgeStep
<1>2. CASE BeginEmpty(r)
  BY <1>0, <1>2, BeginsGo, RequestKeepsInv DEF BeginEmpty, store
<1>3. CASE PreparePurge(r)
  BY <1>0, <1>3, PreparePurgeGoes, RequestKeepsInv DEF PreparePurge, store
<1>4. CASE ReleaseRefs(r)
  BY <1>0, <1>4, ReleaseGoes, ReleaseKeepsStore DEF Inv, Types, Goes
<1>5. CASE TakeEntry(r)
  BY <1>0, <1>5, ReleaseGoes, RequestKeepsInv DEF TakeEntry, store
<1>6. CASE RemoveItem(r)
  BY <1>0, <1>6, RemoveGoes, RequestKeepsInv DEF RemoveItem, store
<1>7. CASE FinishTombstone(r)
  BY <1>0, <1>7, RemoveGoes, RequestKeepsInv DEF FinishTombstone, store
<1>8. ASSUME NEW i \in Items, BeginPurge(r, i) PROVE Inv'
  <2>1. UNCHANGED <<up, rows, refs, files, torn, unsure, ingest, hooks, pruning>>
    BY <1>8, Zenon DEF BeginPurge, store
  <2>2. QED
    BY <1>0, <1>8, <2>1, LockItemGoes, RequestKeepsInv
<1>9. ASSUME NEW i \in Items, LockItem(r, i) PROVE Inv'
  <2>1. UNCHANGED <<up, rows, refs, files, torn, unsure, ingest, hooks, pruning>>
    BY <1>9, Zenon DEF LockItem, store
  <2>2. QED
    BY <1>0, <1>9, <2>1, LockItemGoes, RequestKeepsInv
<1>10. CASE Abandon(r)
  BY <1>0, <1>10, AbandonGoes, RequestKeepsInv DEF Abandon, store
<1>11. QED
  BY <1>1, <1>2, <1>3, <1>4, <1>5, <1>6, <1>7, <1>8, <1>9, <1>10

\* An archive or a restore goes on.
LEMMA BatchKeepsInv ==
  ASSUME Inv, BatchStep
  PROVE  Inv'
<1>0. Types /\ VaultInv
  BY DEF Inv
<1>1. PICK r \in Requests :
        \/ PublishItem(r) \/ UnlinkPage(r) \/ CommitArchive(r)
        \/ LockRestore(r) \/ PublishPage(r) \/ WithdrawItem(r) \/ CommitRestore(r)
        \/ FailBatch(r) \/ RollbackBatch(r) \/ RetainBatch(r)
        \/ \E i \in Items : BeginRestore(r, i) \/ \E p \in Pages : BeginArchive(r, p, i)
  BY DEF BatchStep
<1>2. CASE PublishItem(r)
  BY <1>0, <1>2, ArchiveGoes, RequestKeepsInv DEF PublishItem, store
<1>3. CASE UnlinkPage(r)
  BY <1>0, <1>3, ArchiveGoes, RequestKeepsInv DEF UnlinkPage, store
<1>4. CASE CommitArchive(r)
  BY <1>0, <1>4, CommitArchiveGoes, RequestKeepsInv DEF CommitArchive, store
<1>5. CASE LockRestore(r)
  BY <1>0, <1>5, LockRestoreGoes, RequestKeepsInv DEF LockRestore, store
<1>6. CASE PublishPage(r)
  BY <1>0, <1>6, PublishPageGoes, RequestKeepsInv DEF PublishPage, store
<1>7. CASE WithdrawItem(r)
  BY <1>0, <1>7, WithdrawItemGoes, RequestKeepsInv DEF WithdrawItem, store
<1>8. CASE CommitRestore(r)
  BY <1>0, <1>8, CommitRestoreGoes, RequestKeepsInv DEF CommitRestore, store
<1>9. CASE FailBatch(r)
  BY <1>0, <1>9, FailBatchGoes, RequestKeepsInv DEF FailBatch, store
<1>10. CASE RollbackBatch(r)
  BY <1>0, <1>10, RollbackGoes, RequestKeepsInv DEF RollbackBatch, store
<1>11. ASSUME NEW i \in Items, BeginRestore(r, i) PROVE Inv'
  BY <1>0, <1>11, BeginsGo, RequestKeepsInv DEF BeginRestore, store
<1>12. ASSUME NEW i \in Items, NEW p \in Pages, BeginArchive(r, p, i) PROVE Inv'
  BY <1>0, <1>12, BeginArchiveGoes, RequestKeepsInv DEF BeginArchive, store
<1>13. CASE RetainBatch(r)
  BY <1>0, <1>13, RetainBatchGoes, RequestKeepsInv DEF RetainBatch, store
<1>14. QED
  BY <1>1, <1>2, <1>3, <1>4, <1>5, <1>6, <1>7, <1>8, <1>9, <1>10, <1>11, <1>12, <1>13

\* Every step keeps the invariant.
LEMMA InvStep ==
  ASSUME Inv, [Next]_vars
  PROVE  Inv'
<1>0. Types /\ VaultInv
  BY DEF Inv
<1>1. CASE IngestStep
  <2>1. PICK p \in Pages :
          \/ BeginIngest(p) \/ StoreFile(p) \/ CreatePage(p) \/ Compensate(p)
          \/ CancelIngest(p) \/ DeleteFolder(p)
          \/ \E h \in Blobs : StoreRow(p, h) \/ OnPageDeleted(p, h)
    BY <1>1 DEF IngestStep
  <2>2. QED
    BY <2>1, BeginIngestKeepsInv, StoreFileKeepsInv, CreatePageKeepsInv, EndIngestKeepsInv,
       DeleteFolderKeepsInv, StoreRowKeepsInv, HookKeepsInv
<1>2. CASE PurgeStep
  BY <1>2, PurgeKeepsInv
<1>3. CASE BatchStep
  BY <1>3, BatchKeepsInv
<1>4. CASE (\E h \in Blobs : GcRemove(h)) \/ GcForget
  BY <1>4, GcKeepsInv
<1>5. CASE Crash
  BY <1>5, CrashKeepsInv
<1>6. ASSUME NEW b \in batches, Recover(b) PROVE Inv'
  BY <1>0, <1>6, RecoverGoes, RequestKeepsInv DEF Recover, store
<1>7. CASE Start
  BY <1>7, StartKeepsInv
<1>8. CASE Rebuild
  BY <1>8, RebuildKeepsInv
<1>9. CASE UNCHANGED vars
  <2>1. UNCHANGED <<up, live, item, catalog, ledger, request, lock, batches, overtaken, blurred,
                    rows, refs, files, torn, unsure, ingest, hooks, pruning>>
    BY <1>9 DEF vars
  <2>2. VaultTypes'
    BY <1>0, <2>1 DEF Types, VaultTypes
  <2>3. VaultInv'
    <3>1. \A r \in Requests : Fits(r)' /\ Owner(r)'
      BY <1>0, <2>1 DEF VaultInv, Fits, PurgeFits, ArchiveFits, RestoreFits, Listed, Owner
    <3>2. \A i \in Items : ItemFits(i)'
      BY <1>0, <2>1 DEF VaultInv, ItemFits, Holds, InBatch, Moving, Working, Batched, Listed
    <3>3. \A p \in Pages : PageFits(p)'
      BY <1>0, <2>1 DEF VaultInv, PageFits, Fresh, Holds
    <3>4. Unique' /\ Quiet'
      BY <1>0, <2>1 DEF VaultInv, Unique, Holds, Quiet
    <3>5. \A b \in batches' : BatchFits(b)'
      BY <1>0, <2>1 DEF VaultInv, BatchFits, Waits, Working
    <3>6. QED
      BY <3>1, <3>2, <3>3, <3>4, <3>5 DEF VaultInv
  <2>4. Goes
    BY <2>1, <2>2, <2>3, NamedStays DEF Goes
  <2>5. QED
    BY <2>1, <2>4, RequestKeepsInv
<1>10. QED
  BY <1>1, <1>2, <1>3, <1>4, <1>5, <1>6, <1>7, <1>8, <1>9 DEF Next

\* Whatever crashes, fails or is rebuilt, the vault, the rubbish, the requests
\* and the content store fit together.
THEOREM Safe == Spec => []Inv
<1>1. Init => Inv
  BY InitInv
<1>2. Inv /\ [Next]_vars => Inv'
  BY InvStep
<1>3. QED
  BY <1>1, <1>2, PTL DEF Spec

\* What may still give a reference back has one.
LEMMA ClaimsAreDue ==
  ASSUME Inv, NEW h
  PROVE  Claims(h) \in SUBSET Due(h)
<1> SUFFICES ASSUME NEW p \in Pages, p \in Claims(h) PROVE p \in Due(h)
  BY DEF Claims
<1>1. h \in Refs[p]
  BY DEF Claims
<1>2. CASE p \in Kept
  BY <1>1, <1>2 DEF Kept, Due, Named, Counting
<1>3. CASE \E i \in Items : item[i].page = p /\ item[i].at \in {"staged", "txn"}
  BY <1>1, <1>3 DEF Due, Named, Counting
<1>4. CASE h \in ingest[p].stored \/ h \in hooks[p]
  BY <1>1, <1>4 DEF Due
<1>5. QED
  BY <1>2, <1>3, <1>4 DEF Claims

\* No blob is counted too low: whatever crashes, fails, is cancelled, retried or
\* rebuilt, the count in cas.db covers every page, restorable item and operation
\* that still has a reference to give back.  Left out are the blobs that a failed
\* ingest or a rebuild is known to count too low, and those of a page that was
\* taken up again while its batch waited for a restart.
THEOREM CountsCover == Spec => []CountsCoverClaims
<1>1. Inv => CountsCoverClaims
  <2> SUFFICES ASSUME Inv, NEW h \in Blobs \ Excused, Claims(h) # {}
               PROVE  h \in rows /\ refs[h] >= Cardinality(Claims(h))
    BY DEF CountsCoverClaims
  <2>1. BlobFits(h)
    BY DEF Inv, StoreInv
  <2>2. Claims(h) \in SUBSET Due(h)
    BY ClaimsAreDue
  <2>3. IsFiniteSet(Claims(h)) /\ Cardinality(Claims(h)) <= Cardinality(Due(h))
    BY <2>2, DueFinite, FS_Subset
  <2>4. Cardinality(Claims(h)) \in Nat /\ Cardinality(Due(h)) \in Nat
    BY <2>3, DueFinite, FS_CardinalityType
  <2>5. refs[h] \in Int
    BY DEF Inv, Types, StoreTypes
  <2>6. QED
    BY <2>1, <2>2, <2>3, <2>4, <2>5 DEF BlobFits
<1>2. QED
  BY <1>1, Safe, PTL

\* The blobs of a page or of a restorable item can be read: no prune, failed
\* ingest or release takes them, but for the blobs above and those whose file
\* never followed its row.
THEOREM BlobsStay == Spec => []BlobsAreThere
<1>1. Inv => BlobsAreThere
  <2> SUFFICES ASSUME Inv, NEW p \in Kept, NEW h \in Refs[p], h \notin Excused
               PROVE  h \in files \cup torn
    BY DEF BlobsAreThere
  <2>1. p \in Pages /\ Named(p)
    <3>1. CASE p \in live
      BY <3>1 DEF Named, Inv, Types, VaultTypes
    <3>2. CASE p \notin live
      <4>1. PICK i \in Items : item[i].at = "store" /\ i \notin ledger /\ item[i].page = p
        BY <3>2 DEF Kept
      <4>2. ItemFits(i)
        BY DEF Inv, VaultInv
      <4>3. QED
        BY <4>1, <4>2 DEF ItemFits, Named, Counting
    <3>3. QED
      BY <3>1, <3>2
  <2>2. h \in Blobs
    BY <2>1, ArchiveAssumption
  <2>3. p \in Due(h)
    BY <2>1 DEF Due
  <2>4. BlobFits(h) /\ RowFits(h)
    BY <2>2 DEF Inv, StoreInv
  <2>5. h \in rows /\ pruning # h
    BY <2>3, <2>4 DEF BlobFits
  <2>6. ASSUME NEW q \in Pages, Writes(q, h) PROVE FALSE
    <3>1. q = p
      BY <2>3, <2>4, <2>6 DEF BlobFits
    <3>2. Fresh(q)
      BY <2>6 DEF Inv, VaultInv, PageFits, Writes
    <3>3. QED
      BY <2>1, <3>1, <3>2 DEF Fresh, Named
  <2>7. QED
    BY <2>4, <2>5, <2>6 DEF RowFits
<1>2. QED
  BY <1>1, Safe, PTL

\* Between requests the catalogue of the running server lists exactly the items
\* that are in the store, but for those that a failed rollback, a failed removal
\* or a cancelled purge left apart from their row until the next start.
THEOREM CatalogIsTrue == Spec => []CatalogFollowsStore
<1>1. Inv => CatalogFollowsStore
  BY DEF Inv, VaultInv, ItemFits, Listed, CatalogFollowsStore
<1>2. QED
  BY <1>1, Safe, PTL
\* A page comes into the vault as a new capture, or from an item that keeps it.
LEMMA PagesComeFrom ==
  ASSUME Inv, Next, NEW q \in Pages, q \in live', q \notin live
  PROVE  Fresh(q) \/ \E i \in Items : item[i].page = q /\ item[i].at \in {"staged", "store"}
<1>0. Types /\ VaultInv
  BY DEF Inv
<1>1. CASE IngestStep
  <2>1. PICK p \in Pages :
          \/ BeginIngest(p) \/ StoreFile(p) \/ CreatePage(p) \/ Compensate(p)
          \/ CancelIngest(p) \/ DeleteFolder(p)
          \/ \E h \in Blobs : StoreRow(p, h) \/ OnPageDeleted(p, h)
    BY <1>1 DEF IngestStep
  <2>2. CASE CreatePage(p)
    <3>1. q = p /\ ingest[p].pc = "store"
      BY <2>2 DEF CreatePage
    <3>2. QED
      BY <1>0, <3>1 DEF VaultInv, PageFits
  <2>3. CASE DeleteFolder(p)
    BY <2>3 DEF DeleteFolder
  <2>4. CASE BeginIngest(p) \/ StoreFile(p) \/ Compensate(p) \/ CancelIngest(p)
             \/ \E h \in Blobs : StoreRow(p, h) \/ OnPageDeleted(p, h)
    <3>1. UNCHANGED live
      BY <2>4, Zenon DEF BeginIngest, StoreFile, Compensate, CancelIngest, StoreRow,
                  OnPageDeleted, vault
    <3>2. QED
      BY <3>1
  <2>5. QED
    BY <2>1, <2>2, <2>3, <2>4
<1>2. CASE PurgeStep
  <2>1. UNCHANGED live
    BY <1>2, Zenon DEF PurgeStep, BeginEmpty, PreparePurge, ReleaseRefs, TakeEntry, RemoveItem,
                FinishTombstone, Abandon, BeginPurge, LockItem, vault
  <2>2. QED
    BY <2>1
<1>3. ASSUME NEW r \in Requests, PublishPage(r)
      PROVE  \E i \in Items : item[i].page = q /\ item[i].at \in {"staged", "store"}
  <2>1. request[r].item \in Items
    BY <1>0, <1>3, KnownRequest DEF PublishPage, At, RestoreFits
  <2>2. QED
    BY <1>3, <2>1 DEF PublishPage
<1>4. ASSUME NEW op, NEW i \in Items, RolledBack(op, i)
      PROVE  \E j \in Items : item[j].page = q /\ item[j].at \in {"staged", "store"}
  BY <1>4 DEF RolledBack
<1>5. ASSUME NEW r \in Requests, RollbackBatch(r)
      PROVE  \E i \in Items : item[i].page = q /\ item[i].at \in {"staged", "store"}
  <2>1. RolledBack(request[r].op, request[r].item)
    BY <1>5 DEF RollbackBatch
  <2>2. request[r].item \in Items
    BY <1>0, <1>5, KnownRollback DEF RollbackBatch
  <2>3. QED
    BY <1>4, <2>1, <2>2
<1>6. CASE BatchStep
  <2>1. PICK r \in Requests :
        \/ PublishItem(r) \/ UnlinkPage(r) \/ CommitArchive(r)
        \/ LockRestore(r) \/ PublishPage(r) \/ WithdrawItem(r) \/ CommitRestore(r)
        \/ FailBatch(r) \/ RollbackBatch(r) \/ RetainBatch(r)
        \/ \E i \in Items : BeginRestore(r, i) \/ \E p \in Pages : BeginArchive(r, p, i)
    BY <1>6 DEF BatchStep
  <2>2. CASE UnlinkPage(r)
    BY <2>2 DEF UnlinkPage
  <2>3. CASE PublishItem(r) \/ CommitArchive(r) \/ LockRestore(r) \/ WithdrawItem(r)
             \/ CommitRestore(r) \/ FailBatch(r) \/ RetainBatch(r)
             \/ \E i \in Items : BeginRestore(r, i) \/ \E p \in Pages : BeginArchive(r, p, i)
    <3>1. UNCHANGED live
      BY <2>3, Zenon DEF PublishItem, CommitArchive, LockRestore, WithdrawItem, CommitRestore,
                  FailBatch, RetainBatch, BeginRestore, BeginArchive, vault
    <3>2. QED
      BY <3>1
  <2>4. QED
    BY <1>3, <1>5, <2>1, <2>2, <2>3
<1>7. ASSUME NEW b \in batches, Recover(b)
      PROVE  \E i \in Items : item[i].page = q /\ item[i].at \in {"staged", "store"}
  <2>1. RolledBack(b.op, b.item) /\ b.item \in Items
    BY <1>0, <1>7 DEF Recover, Types, VaultTypes, BatchType
  <2>2. QED
    BY <1>4, <2>1
<1>8. CASE (\E h \in Blobs : GcRemove(h)) \/ GcForget \/ Crash \/ Start \/ Rebuild
  <2>1. UNCHANGED live
    BY <1>8, Zenon DEF GcRemove, GcForget, Crash, Start, Rebuild, vault
  <2>2. QED
    BY <2>1
<1>9. QED
  BY <1>1, <1>2, <1>6, <1>7, <1>8 DEF Next

\* A purged item stays one.
LEMMA PurgedItemsStay ==
  ASSUME Inv, Next, NEW i \in Items, item[i].at \in {"tomb", "gone"}
  PROVE  item'[i].at \in {"tomb", "gone"}
<1>0. Types /\ VaultInv /\ item \in [Items -> ItemType] /\ item[i] \in ItemType
  BY DEF Inv, Types, VaultTypes
<1>1. CASE UNCHANGED item
  BY <1>1
<1>2. ASSUME NEW r \in Requests, request[r].item \in Items, NEW a,
             item' = [item EXCEPT ![request[r].item].at = a],
             item[request[r].item].at \in {"tomb", "gone"} => a \in {"tomb", "gone"}
      PROVE  item'[i].at \in {"tomb", "gone"}
  BY <1>0, <1>2 DEF ItemType
<1>3. CASE PurgeStep
  <2>1. PICK r \in Requests :
        \/ BeginEmpty(r) \/ PreparePurge(r) \/ ReleaseRefs(r) \/ TakeEntry(r)
        \/ RemoveItem(r) \/ FinishTombstone(r) \/ Abandon(r)
        \/ \E j \in Items : BeginPurge(r, j) \/ LockItem(r, j)
    BY <1>3 DEF PurgeStep
  <2>2. CASE PreparePurge(r)
    <3>1. request[r].item \in Items
      BY <1>0, <2>2, KnownRequest DEF PreparePurge, At, PurgeFits
    <3>2. item' = [item EXCEPT ![request[r].item].at =
                                 IF item[request[r].item].at = "tomb" THEN "gone"
                                 ELSE item[request[r].item].at]
      BY <1>0, <2>2, <3>1 DEF PreparePurge
    <3>3. QED
      BY <1>2, <3>1, <3>2
  <2>3. CASE RemoveItem(r)
    <3>1. request[r].item \in Items
      BY <1>0, <2>3, KnownRequest DEF RemoveItem, At, PurgeFits
    <3>2. QED
      BY <1>1, <1>2, <2>3, <3>1 DEF RemoveItem
  <2>4. CASE FinishTombstone(r)
    <3>1. request[r].item \in Items
      BY <1>0, <2>4, KnownRequest DEF FinishTombstone, At, PurgeFits
    <3>2. QED
      BY <1>1, <1>2, <2>4, <3>1 DEF FinishTombstone
  <2>5. CASE BeginEmpty(r) \/ ReleaseRefs(r) \/ TakeEntry(r) \/ Abandon(r)
             \/ \E j \in Items : BeginPurge(r, j) \/ LockItem(r, j)
    <3>1. UNCHANGED item
      BY <2>5, Zenon DEF BeginEmpty, ReleaseRefs, TakeEntry, Abandon, BeginPurge, LockItem, vault
    <3>2. QED
      BY <1>1, <3>1
  <2>6. QED
    BY <2>1, <2>2, <2>3, <2>4, <2>5
<1>4. ASSUME NEW op, NEW j \in Items,
             RolledBack(op, j) \/ (Undone(op, j) /\ Forget(op, j))
      PROVE  item'[i].at \in {"tomb", "gone"}
  <2>1. CASE UNCHANGED item
    BY <1>1, <2>1
  <2>2. ASSUME item' # item PROVE i # j
    BY <1>4, <2>2 DEF RolledBack, Undone, Forget
  <2>3. QED
    BY <1>0, <1>4, <2>1, <2>2 DEF RolledBack, Forget
<1>5. CASE BatchStep
  <2>1. PICK r \in Requests :
        \/ PublishItem(r) \/ UnlinkPage(r) \/ CommitArchive(r)
        \/ LockRestore(r) \/ PublishPage(r) \/ WithdrawItem(r) \/ CommitRestore(r)
        \/ FailBatch(r) \/ RollbackBatch(r) \/ RetainBatch(r)
        \/ \E j \in Items : BeginRestore(r, j) \/ \E p \in Pages : BeginArchive(r, p, j)
    BY <1>5 DEF BatchStep
  <2>2. CASE PublishItem(r)
    <3>1. item[request[r].item].at = "staged"
      BY <1>0, <2>2, KnownRequest DEF PublishItem, At, ArchiveFits
    <3>2. i # request[r].item
      BY <3>1
    <3>3. item'[i] = item[i]
      BY <1>0, <2>2, <3>2 DEF PublishItem
    <3>4. QED
      BY <3>3
  <2>3. CASE WithdrawItem(r)
    <3>1. request[r].item \in Items /\ item[request[r].item].at = "store"
      BY <1>0, <2>3, KnownRequest DEF WithdrawItem, At, RestoreFits
    <3>2. QED
      BY <1>2, <2>3, <3>1 DEF WithdrawItem
  <2>4. CASE CommitRestore(r)
    <3>1. request[r].item \in Items /\ item[request[r].item].at = "txn"
      BY <1>0, <2>4, KnownRequest DEF CommitRestore, At, RestoreFits
    <3>2. QED
      BY <1>1, <1>2, <2>4, <3>1 DEF CommitRestore
  <2>5. CASE RollbackBatch(r)
    <3>1. request[r].item \in Items
      BY <1>0, <2>5, KnownRollback DEF RollbackBatch
    <3>2. \/ RolledBack(request[r].op, request[r].item)
          \/ Undone(request[r].op, request[r].item) /\ Forget(request[r].op, request[r].item)
      BY <2>5 DEF RollbackBatch
    <3>3. QED
      BY <1>4, <3>1, <3>2
  <2>6. CASE UnlinkPage(r) \/ CommitArchive(r) \/ LockRestore(r) \/ PublishPage(r) \/ FailBatch(r)
             \/ RetainBatch(r) \/ \E j \in Items : BeginRestore(r, j)
    <3>1. UNCHANGED item
      BY <2>6, Zenon DEF UnlinkPage, CommitArchive, LockRestore, PublishPage, FailBatch,
                  RetainBatch, BeginRestore, vault
    <3>2. QED
      BY <1>1, <3>1
  <2>7. ASSUME NEW j \in Items, NEW p \in Pages, BeginArchive(r, p, j)
        PROVE  item'[i].at \in {"tomb", "gone"}
    <3>1. i # j
      BY <2>7 DEF BeginArchive, NoItem
    <3>2. QED
      BY <1>0, <2>7, <3>1 DEF BeginArchive
  <2>8. QED
    BY <2>1, <2>2, <2>3, <2>4, <2>5, <2>6, <2>7
<1>6. ASSUME NEW b \in batches, Recover(b) PROVE item'[i].at \in {"tomb", "gone"}
  <2>1. b.item \in Items
    BY <1>0 DEF Types, VaultTypes, BatchType
  <2>2. RolledBack(b.op, b.item) \/ (Undone(b.op, b.item) /\ Forget(b.op, b.item))
    BY <1>6 DEF Recover
  <2>3. QED
    BY <1>4, <2>1, <2>2
<1>7. CASE Start
  BY <1>0, <1>7 DEF Start, ItemType
<1>8. CASE IngestStep
  <2>1. PICK p \in Pages :
          \/ BeginIngest(p) \/ StoreFile(p) \/ CreatePage(p) \/ Compensate(p)
          \/ CancelIngest(p) \/ DeleteFolder(p)
          \/ \E h \in Blobs : StoreRow(p, h) \/ OnPageDeleted(p, h)
    BY <1>8 DEF IngestStep
  <2>2. CASE BeginIngest(p) \/ StoreFile(p) \/ CreatePage(p)
    BY <1>1, <2>2, Zenon DEF BeginIngest, StoreFile, CreatePage, vault
  <2>3. CASE Compensate(p) \/ CancelIngest(p) \/ DeleteFolder(p)
    BY <1>1, <2>3, Zenon DEF Compensate, CancelIngest, DeleteFolder, vault
  <2>4. CASE \E h \in Blobs : StoreRow(p, h) \/ OnPageDeleted(p, h)
    BY <1>1, <2>4, Zenon DEF StoreRow, OnPageDeleted, vault
  <2>5. QED
    BY <2>1, <2>2, <2>3, <2>4
<1>9. CASE (\E h \in Blobs : GcRemove(h)) \/ GcForget \/ Crash \/ Rebuild
  BY <1>1, <1>9, Zenon DEF GcRemove, GcForget, Crash, Rebuild, vault
<1>10. QED
  BY <1>3, <1>5, <1>6, <1>7, <1>8, <1>9 DEF Next

\* What was purged does not come back, unless another item of the same page has
\* it: not by a restore that read the item before the purge, not by a rollback
\* and not after a crash or a rebuild.
THEOREM PurgesLast == Spec => PurgedStaysGone
<1>1. ASSUME Inv, [Next]_vars, NEW i \in Items, item[i].at \in {"tomb", "gone"}
      PROVE  /\ item'[i].at \in {"tomb", "gone"}
             /\ item[i].page \in live' \ live =>
                  \E j \in Items : /\ item[j].page = item[i].page
                                   /\ item[j].at \in {"staged", "store"}
  <2>1. CASE UNCHANGED vars
    BY <1>1, <2>1 DEF vars
  <2>2. CASE Next
    <3>1. item'[i].at \in {"tomb", "gone"}
      BY <1>1, <2>2, PurgedItemsStay
    <3>2. item[i].page \in Pages
      BY <1>1 DEF Inv, VaultInv, ItemFits
    <3>3. QED
      BY <1>1, <2>2, <3>1, <3>2, PagesComeFrom DEF Fresh
  <2>3. QED
    BY <1>1, <2>1, <2>2
<1>2. Inv /\ [Next]_vars =>
        [\A i \in Items : item[i].at \in {"tomb", "gone"} =>
           /\ item'[i].at \in {"tomb", "gone"}
           /\ item[i].page \in live' \ live =>
                \E j \in Items : /\ item[j].page = item[i].page
                                 /\ item[j].at \in {"staged", "store"}]_vars
  BY <1>1
<1>3. QED
  BY <1>2, Safe, PTL DEF Spec, PurgedStaysGone
=============================================================================
