--------------------------- MODULE KindleInventory ---------------------------
(***************************************************************************)
(* The inventory of a Kindle (client/src/kindle/inventory.ts               *)
(* buildKindleInventory, as KindleDevice.inventory calls it): the folders  *)
(* below Documents are listed one after the other, then the metadata of    *)
(* each book is taken from its name, from a cache or from the file.        *)
(*                                                                         *)
(* An inventory takes minutes, and files change under it; the listing of   *)
(* Documents may use object information captured earlier (the seed).  The  *)
(* content of a file is its version, and the date of a file changes with   *)
(* it.  MaxRounds bounds the inventories, MaxTouches the changes on the    *)
(* device, MaxFaults the requests that go wrong.                           *)
(***************************************************************************)
EXTENDS Naturals, Sequences, FiniteSets, SequencesExt

CONSTANTS Objects, None, Limits, BatchSize, MaxRounds, MaxTouches, MaxFaults

\* The tree below Documents: two folders, one of them with the assets of a
\* book, books in both, and two names that differ only in their case.
Parent == [folder |-> None, one |-> None, two |-> "folder", twin |-> "folder",
           sdr |-> None, asset |-> "sdr", token |-> None, kfx |-> None]
Folders  == {"folder", "sdr"}
Sidecars == {"sdr"}            \* isKindleSidecarFolderFilename
Managed  == {"token"}          \* names with the token of a sent version
Vague    == {"twin"}           \* their metadata tells them from nothing
Unsupported == {"kfx"}         \* hasSupportedEmbeddedMetadata is false
SameFold(o) == IF o \in {"two", "twin"} THEN {"two", "twin"} ELSE {o}
Books == Objects \ Folders     \* isEligibleBookObject
Size == 1

VARIABLES
  present,   \* the objects on the device
  ver,       \* object -> version of its content, and its modification date
  odd,       \* objects whose own name has to be sanitized
  seed,      \* the object information of Documents captured before, or None
  browser,   \* the metadata cache of the browser: records [o, date, meta]
  slots,     \* the two caches on the device: a sequence of such sets
  op,        \* the inventory under way, or None
  outcome,   \* the last inventory that was returned, or None
  steady,    \* history: the objects that have not changed since it began
  rounds, touches, faults

vars == <<present, ver, odd, seed, browser, slots, op, outcome, steady, rounds, touches, faults>>
device == <<present, ver, odd, touches>>

Init ==
  /\ present = Objects
  /\ ver = [o \in Objects |-> 1]
  /\ odd \in {{}, {"folder"}}
  /\ seed = None
  /\ browser = {}
  /\ slots = <<{}, {}>>
  /\ op = None
  /\ outcome = None
  /\ steady = {}
  /\ rounds = MaxRounds
  /\ touches = MaxTouches
  /\ faults = MaxFaults

Children(f) == {o \in present : Parent[o] = f}
At(step) == op # None /\ op.step = step
Fault == faults > 0 /\ faults' = faults - 1

-----------------------------------------------------------------------------
(* What happens on the device.                                              *)

\* The firmware adds, removes or rewrites a file.
Touch(o) ==
  /\ touches > 0
  /\ o \notin Folders
  /\ touches' = touches - 1
  /\ \/ /\ o \in present
        /\ present' = present \ {o}
        /\ UNCHANGED ver
     \/ /\ present' = present \union {o}
        /\ ver' = [ver EXCEPT ![o] = @ + 1]
  /\ steady' = steady \ {o}
  /\ UNCHANGED <<odd, seed, browser, slots, op, outcome, rounds, faults>>

\* The self-test and every upload list Documents, and keep what they saw for
\* the next inventory of the connection.
Capture ==
  /\ op = None
  /\ rounds > 0
  /\ seed = None
  /\ seed' = [o \in Children(None) |-> ver[o]]
  /\ steady' = present
  /\ outcome' = None
  /\ UNCHANGED <<device, browser, slots, op, rounds, faults>>

\* A new connection begins without one.
Reconnect ==
  /\ op = None
  /\ seed # None
  /\ seed' = None
  /\ UNCHANGED <<device, browser, slots, op, outcome, steady, rounds, faults>>

-----------------------------------------------------------------------------
(* The hierarchy.                                                           *)

\* The seed serves one inventory only.
Start(limits) ==
  /\ op = None
  /\ rounds > 0
  /\ rounds' = rounds - 1
  /\ op' = [step |-> "folders", limits |-> limits, seed |-> seed, issues |-> 0,
            queue |-> <<[folder |-> None, depth |-> 0, adjusted |-> FALSE]>>,
            todo |-> <<>>, serves |-> FALSE, seen |-> {}, objects |-> <<>>,
            at |-> 1, hits |-> {}, found |-> {}, tried |-> 0, cached |-> 0, bytes |-> 0,
            batch |-> {}, writing |-> TRUE]
  /\ seed' = None
  /\ steady' = IF seed = None THEN present ELSE steady
  /\ outcome' = None
  /\ UNCHANGED <<device, browser, slots, faults>>

Idle == UNCHANGED <<device, seed, browser, slots, outcome, steady, rounds>>

\* The inventory is aborted, or the transport fails: it returns nothing.
Throws ==
  /\ op # None
  /\ Fault
  /\ op' = None
  /\ Idle

Issue(o) == [o EXCEPT !.issues = @ + 1]

\* The seed is used when it names exactly the listed handles.
SeedServes(folder, handles) ==
  /\ op.seed # None
  /\ folder = None
  /\ DOMAIN op.seed = handles

\* The handles of the next folder, unless a limit or the device forbids.
ListFolder ==
  /\ At("folders")
  /\ op.queue # <<>>
  /\ LET folder == Head(op.queue)
         rest == [op EXCEPT !.queue = Tail(@)]
         room == op.limits.objects - Len(op.objects)
     IN IF folder.depth >= op.limits.depth
        THEN op' = Issue(rest) /\ UNCHANGED faults
        ELSE IF room <= 0
        THEN op' = Issue([op EXCEPT !.queue = <<>>]) /\ UNCHANGED faults
        ELSE \/ \* MTP_HANDLE_LIMIT_EXCEEDED
                /\ Cardinality(Children(folder.folder)) > room
                /\ op' = Issue(rest)
                /\ UNCHANGED faults
             \/ \* children-unavailable
                /\ op' = Issue(rest)
                /\ Fault
             \/ /\ Cardinality(Children(folder.folder)) <= room
                /\ op' = [op EXCEPT !.step = "children", !.todo = SetToSeq(Children(folder.folder)),
                                    !.serves = SeedServes(folder.folder, Children(folder.folder))]
                /\ UNCHANGED faults
             \/ \* the device names an object of another folder as well
                \E o \in present :
                  /\ Parent[o] # folder.folder
                  /\ Cardinality(Children(folder.folder)) < room
                  /\ op' = [op EXCEPT !.step = "children", !.serves = FALSE,
                                      !.todo = Append(SetToSeq(Children(folder.folder)), o)]
                  /\ Fault
  /\ Idle

\* An object whose information is as the listing promised.
Take(o, date) ==
  LET folder == Head(op.queue)
      adjusted == folder.adjusted \/ o \in odd
      listed == [op EXCEPT !.objects = Append(@, [o |-> o, date |-> date, adjusted |-> adjusted]),
                           !.queue = IF o \in Folders /\ o \notin Sidecars
                                     THEN Append(@, [folder |-> o, depth |-> folder.depth + 1,
                                                     adjusted |-> adjusted])
                                     ELSE @]
  IN IF o \in odd THEN Issue(listed) ELSE listed

\* The next handle of the folder: its information is read and checked.
NextChild ==
  /\ At("children")
  /\ op.todo # <<>>
  /\ LET o == Head(op.todo)
         next == [op EXCEPT !.todo = Tail(@), !.seen = @ \union {o}]
     IN IF Len(op.objects) >= op.limits.objects
        THEN /\ op' = Issue([op EXCEPT !.queue = <<>>, !.todo = <<>>, !.step = "folders"])
             /\ UNCHANGED faults
        ELSE IF o \in op.seen
        THEN op' = Issue([op EXCEPT !.todo = Tail(@)]) /\ UNCHANGED faults
        ELSE IF op.serves
        THEN /\ op' = [Take(o, op.seed[o]) EXCEPT !.todo = next.todo, !.seen = next.seen]
             /\ UNCHANGED faults
        ELSE \/ \* metadata-unavailable, metadata-inconsistent
                /\ o \notin present \/ Parent[o] # Head(op.queue).folder
                /\ op' = Issue(next)
                /\ UNCHANGED faults
             \/ /\ op' = Issue(next)
                /\ Fault
             \/ /\ o \in present
                /\ Parent[o] = Head(op.queue).folder
                /\ op' = [Take(o, ver[o]) EXCEPT !.todo = next.todo, !.seen = next.seen]
                /\ UNCHANGED faults
  /\ Idle

FolderDone ==
  /\ At("children")
  /\ op.todo = <<>>
  /\ op' = [op EXCEPT !.step = "folders", !.queue = Tail(@)]
  /\ UNCHANGED faults
  /\ Idle

-----------------------------------------------------------------------------
(* The metadata of the books.                                               *)

\* Only a file of an unambiguous path is evidence for a cached entry
\* (cacheEvidenceFor, liveCachePathCounts).
Evident(r) ==
  /\ ~r.adjusted
  /\ SameFold(r.o) \intersect {x.o : x \in {y \in ToSet(op.objects) : ~y.adjusted}} = {r.o}

\* The books that are looked up: not those named by a token, nor those whose
\* container the parser does not read.
Candidates == {r \in ToSet(op.objects) :
  /\ r.o \in Books \ Unsupported
  /\ Evident(r)
  /\ r.o \notin Managed}

Entry(r, meta) == [o |-> r.o, date |-> r.date, meta |-> meta]
Entries(cache, r) == {e \in cache : e.o = r.o /\ e.date = r.date}

\* The first n of some of the listed records: no more are looked up than may
\* be read.
Place(r) == CHOOSE k \in DOMAIN op.objects : op.objects[k] = r
Leading(records, n) ==
  {r \in records : Cardinality({x \in records : Place(x) < Place(r)}) < n}

\* portableMetadataHits: entries that contradict each other are not used.
PortableHits ==
  LET all == slots[1] \union slots[2]
  IN Leading({r \in Candidates : Cardinality(Entries(all, r)) = 1}, op.limits.reads)

\* cachedMetadataHits: first the caches of the device, then the browser's.
LookUp ==
  /\ At("folders")
  /\ op.queue = <<>>
  /\ \E answered \in BOOLEAN :
       /\ IF answered THEN UNCHANGED faults ELSE Fault
       /\ LET portable == UNION {Entries(slots[1] \union slots[2], r) : r \in PortableHits}
              others == Leading(Candidates \ PortableHits,
                                op.limits.reads - Cardinality(PortableHits))
              mine == IF ~answered THEN {} ELSE UNION {Entries(browser, r) : r \in others}
          IN op' = [op EXCEPT !.step = "metadata", !.hits = portable \union mine]
  /\ Idle

Current == op.objects[op.at]
Known(state, meta) == [o |-> Current.o, state |-> state, meta |-> meta]
Next1(o) == [o EXCEPT !.at = @ + 1]

\* What goes to the browser's cache, once a batch is full.
Remembered(o, r, meta) ==
  IF Evident(r) /\ o.writing THEN [o EXCEPT !.batch = @ \union {Entry(r, meta)}] ELSE o

\* A folder, and a book whose name says which version of which book it is.
NoReadNeeded ==
  /\ At("metadata")
  /\ op.at <= Len(op.objects)
  /\ Current.o \in Folders \/ (Current.o \in Managed /\ ~Current.adjusted)
  /\ op' = Next1(IF Current.o \in Folders THEN op
                 ELSE [op EXCEPT !.found = @ \union {Known("managed", None)}])
  /\ UNCHANGED faults
  /\ Idle

NeedsMetadata ==
  /\ At("metadata")
  /\ op.at <= Len(op.objects)
  /\ Current.o \in Books
  /\ Current.o \notin Managed \/ Current.adjusted
  /\ Cardinality(op.batch) < BatchSize

Hit == {e \in op.hits : e.o = Current.o}

FromCache ==
  /\ NeedsMetadata
  /\ Hit # {}
  /\ LET e == CHOOSE e \in Hit : TRUE
         known == [op EXCEPT !.cached = @ + 1, !.found = @ \union {Known("known", e.meta)}]
     IN op' = Next1(IF e \in slots[1] \union slots[2]
                    THEN Remembered(known, Current, e.meta) ELSE known)
  /\ UNCHANGED faults
  /\ Idle

\* A container the parser does not read, or a limit of the metadata reads.
Skips == \/ Current.o \in Unsupported
         \/ op.cached + op.tried >= op.limits.reads
         \/ Size > op.limits.bytes - op.bytes

Skipped ==
  /\ NeedsMetadata
  /\ Hit = {}
  /\ Skips
  /\ op' = Next1([op EXCEPT !.found = @ \union {Known("skipped", None)}])
  /\ UNCHANGED faults
  /\ Idle

\* The file is read and parsed; a file that went away, or is not what its
\* name says, fails for itself only.
ReadBook ==
  /\ NeedsMetadata
  /\ Hit = {}
  /\ ~Skips
  /\ LET tried == [op EXCEPT !.tried = @ + 1, !.bytes = @ + Size]
         meta == ver[Current.o]
     IN \/ /\ Current.o \in present
           /\ op' = Next1(Remembered([tried EXCEPT !.found = @ \union {Known("known", meta)}],
                                     Current, meta))
           /\ UNCHANGED faults
        \/ /\ op' = Next1([tried EXCEPT !.found = @ \union {Known("failed", None)}])
           /\ IF Current.o \in present THEN Fault ELSE UNCHANGED faults
  /\ Idle

Overwrite(cache, batch) ==
  {e \in cache : \A b \in batch : b.o # e.o \/ b.date # e.date} \union batch

\* flushCacheEntries: a cache that does not take the whole batch is left alone.
Flush ==
  /\ At("metadata")
  /\ op.batch # {}
  /\ Cardinality(op.batch) >= BatchSize \/ op.at > Len(op.objects)
  /\ \E accepted \in BOOLEAN :
       /\ IF accepted THEN UNCHANGED faults ELSE Fault
       /\ browser' = IF accepted THEN Overwrite(browser, op.batch) ELSE browser
       /\ op' = [op EXCEPT !.batch = {}, !.writing = accepted]
  /\ UNCHANGED <<device, seed, slots, outcome, steady, rounds>>

\* Seeded fault: a book that nothing tells from others counts as known.
SummaryOfStates ==
  IF \A f \in op.found : f.state \in {"managed", "known"} THEN "complete" ELSE "partial"

\* metadataSummary: complete when nothing failed, was skipped or is vague.
Summary ==
  IF \A f \in op.found : f.state \in {"managed", "known"} /\ (f.state = "known" => f.o \notin Vague)
  THEN "complete" ELSE "partial"

\* What is kept on the device of an inventory: the entries of its own listing
\* (kindleInventoryToDeviceMetadataCacheEntries).
Portable ==
  {Entry(r, (CHOOSE f \in op.found : f.o = r.o).meta) :
     r \in {x \in ToSet(op.objects) :
              Evident(x) /\ \E f \in op.found : f.o = x.o /\ f.state = "known"}}

\* The inventory returns; only a complete one is written to the device, when
\* this connection has shown that it can write.
Finish ==
  /\ At("metadata")
  /\ op.at > Len(op.objects)
  /\ op.batch = {}
  /\ outcome' = [status |-> IF op.issues = 0 THEN "complete" ELSE "partial",
                 metadata |-> Summary, objects |-> op.objects, found |-> op.found]
  /\ \/ UNCHANGED slots
     \/ /\ op.issues = 0
        /\ slots' = <<Portable, slots[1]>>
  /\ op' = None
  /\ UNCHANGED <<device, seed, browser, steady, rounds, faults>>

Next ==
  \/ \E o \in Objects : Touch(o)
  \/ Capture
  \/ Reconnect
  \/ \E limits \in Limits : Start(limits)
  \/ ListFolder
  \/ NextChild
  \/ FolderDone
  \/ LookUp
  \/ NoReadNeeded
  \/ FromCache
  \/ Skipped
  \/ ReadBook
  \/ Flush
  \/ Finish
  \/ Throws

Spec == Init /\ [][Next]_vars

-----------------------------------------------------------------------------

Cached == [o : Objects, date : Nat, meta : Nat]
Listed == [o : Objects, date : Nat, adjusted : BOOLEAN]
Found == [o : Objects, state : {"managed", "known", "failed", "skipped"}, meta : Nat \union {None}]

\* An inventory under way.
OpOK ==
  /\ op.step \in {"folders", "children", "metadata"}
  /\ op.limits \in Limits
  /\ op.issues \in Nat
  /\ op.queue \in Seq([folder : Folders \union {None}, depth : Nat, adjusted : BOOLEAN])
  /\ op.todo \in Seq(Objects)
  /\ op.seen \subseteq Objects
  /\ op.objects \in Seq(Listed)
  /\ op.at \in 1..(Len(op.objects) + 1)
  /\ op.hits \subseteq Cached /\ op.batch \subseteq Cached
  /\ op.found \subseteq Found

TypeOK ==
  /\ present \subseteq Objects /\ odd \subseteq Objects /\ steady \subseteq Objects
  /\ ver \in [Objects -> Nat]
  /\ browser \subseteq Cached
  /\ \A s \in {1, 2} : slots[s] \subseteq Cached
  /\ op = None \/ OpOK
  /\ outcome = None \/ (outcome.objects \in Seq(Listed) /\ outcome.found \subseteq Found)
  /\ rounds \in 0..MaxRounds /\ touches \in 0..MaxTouches /\ faults \in 0..MaxFaults

\* The objects an inventory is about: all but the assets in sidecar folders.
InScope == {o \in Objects : Parent[o] \notin Sidecars}

\* A complete inventory names every object that stayed where it is, once, and
\* nothing twice: only then may a book be called absent from the Kindle
\* (inventory.ts:1322 "A partial hierarchy result must never be interpreted
\* as proof that a book is absent").
CompleteIsEverything ==
  outcome # None /\ outcome.status = "complete" =>
    /\ \A o \in steady \intersect InScope :
         Cardinality({k \in 1..Len(outcome.objects) : outcome.objects[k].o = o}) = 1
    /\ \A k \in 1..Len(outcome.objects) : outcome.objects[k].o \in InScope

\* With complete metadata too, each of its books that did not change is known
\* by what it really is, and by something that tells it from other books.
KnownBooksAreKnown ==
  outcome # None =>
    /\ \A f \in outcome.found : f.state = "known" /\ f.o \in steady => f.meta = ver[f.o]
    /\ outcome.metadata = "complete" =>
         \A k \in 1..Len(outcome.objects) : outcome.objects[k].o \in Books =>
           \E f \in outcome.found : /\ f.o = outcome.objects[k].o
                                    /\ f.state \in {"managed", "known"}
                                    /\ f.o \notin Vague

=============================================================================
