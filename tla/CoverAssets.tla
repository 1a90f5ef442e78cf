---------------------------- MODULE CoverAssets -----------------------------
(***************************************************************************)
(* The covers a user chose for books (server/metadata-cover-store.ts): the *)
(* files under their checksums, the rows that describe them, and the       *)
(* overrides that name them.  Everything in the database happens in one    *)
(* turn of the server; the files are looked at, written and unlinked       *)
(* between turns, so two requests about the same picture overlap.          *)
(***************************************************************************)
EXTENDS FiniteSetsExt, Integers

CONSTANTS
  Books,
  Keys,         \* checksums of pictures: the names of the files
  Requests,     \* requests the server works on at the same time
  None,         \* no cover, no book
  MaxRevision,  \* bound on the accepted changes of the books
  MaxFaults     \* bound on failed writes, failed unlinks, and stops of the server

VARIABLES
  files,    \* the keys whose file is there; rename makes it appear whole
  rows,     \* metadata_cover_assets
  over,     \* book_metadata_overrides of each book: its cover, and its version
  request,  \* what each request is doing
  raced,    \* the keys of which a store once overlapped with an unlink
  leaked,   \* an unlink failed, or the server stopped, since it started
  faults

vars == <<files, rows, over, request, raced, leaked, faults>>

\* The version stands for the revision of the override together with the content
\* hash of the source: a change of either refuses a request that names the old
\* one (metadataMutationContext).
Versions == 0..MaxRevision
Overrides == [there : BOOLEAN, cover : Keys \cup {None}, version : Versions]

Idle == [step |-> "idle", book |-> None, key |-> None, version |-> 0, left |-> {}]
Steps == {"idle", "looking", "writing", "stored", "retiring", "discarding",
          "listing", "sweeping", "removing", "reading", "missing"}
Work == [step : Steps, book : Books \cup {None}, key : Keys \cup {None}, version : Versions,
         left : SUBSET Keys]

TypeOK ==
  /\ files \subseteq Keys /\ rows \subseteq Keys /\ raced \subseteq Keys
  /\ over \in [Books -> Overrides]
  /\ request \in [Requests -> Work]
  /\ leaked \in BOOLEAN
  /\ faults \in 0..MaxFaults

Referenced(o) == {o[b].cover : b \in Books} \ {None}

\* Users may have chosen covers before.
Init ==
  /\ over \in [Books -> {o \in Overrides : o.there /\ o.version = 0}]
  /\ files = Referenced(over) /\ rows = Referenced(over) /\ raced = {}
  /\ request = [r \in Requests |-> Idle]
  /\ leaked = FALSE
  /\ faults = 0

\* The changes so far.
Changes == MapThenSumSet(LAMBDA b : over[b].version, Books)

\* A store of k that has not reached the database, and an unlink of k that has
\* not reached the disk.
Storing(w, k) == \E r \in Requests : w[r].key = k /\ w[r].step \in {"writing", "stored"}
Unlinking(w, k) == \E r \in Requests : w[r].key = k /\ w[r].step \in {"retiring", "discarding", "removing"}

\* request r goes on as w.
Goes(r, w) ==
  /\ request' = [request EXCEPT ![r] = w]
  /\ raced' = raced \cup {k \in Keys : Storing(request', k) /\ Unlinking(request', k)}

\* A file operation of request r fails, or takes effect.
Fault == faults < MaxFaults /\ faults' = faults + 1

\* A picture is chosen for a book by a page that shows its version (a page that
\* shows an older one asked earlier): uploaded, or fetched from a provider.
Choose(r, b, k) ==
  /\ request[r].step = "idle" /\ over[b].there
  /\ Goes(r, [Idle EXCEPT !.step = "looking", !.book = b, !.key = k, !.version = over[b].version])
  /\ UNCHANGED <<files, rows, over, leaked, faults>>

\* What came is no picture, or the provider does not answer in time.
NoPicture(r) ==
  /\ request[r].step = "looking"
  /\ Goes(r, Idle)
  /\ UNCHANGED <<files, rows, over, leaked, faults>>

\* store: a whole copy that is there already is taken as it is.
Look(r) ==
  /\ request[r].step = "looking"
  /\ Goes(r, [request[r] EXCEPT !.step = IF request[r].key \in files THEN "stored" ELSE "writing"])
  /\ UNCHANGED <<files, rows, over, leaked, faults>>

\* store: written beside, synced, and renamed; or it fails and leaves nothing.
Write(r) ==
  /\ request[r].step = "writing"
  /\ \/ /\ files' = files \cup {request[r].key}
        /\ Goes(r, [request[r] EXCEPT !.step = "stored"])
        /\ UNCHANGED faults
     \/ /\ Fault
        /\ Goes(r, Idle)
        /\ UNCHANGED files
  /\ UNCHANGED <<rows, over, leaked>>

Current(r) == over[request[r].book].there /\ over[request[r].book].version = request[r].version

\* The override of b names cover k from now on.
Covered(b, k) == [over EXCEPT ![b].cover = k, ![b].version = @ + 1]

\* Seeded fault: the replaced cover is unlinked whoever else has it.
ReplacedAlways(r, old, o) ==
  IF old # None THEN Goes(r, [Idle EXCEPT !.step = "retiring", !.key = old]) ELSE Goes(r, Idle)

\* The replaced cover is unlinked if no override names it any more.
Replaced(r, old, o) ==
  IF old \notin Referenced(o) \cup {None}
    THEN Goes(r, [Idle EXCEPT !.step = "retiring", !.key = old])
    ELSE Goes(r, Idle)

\* setBookCover or importBookMetadata accepts the stored picture.
Set(r) ==
  LET b == request[r].book
      k == request[r].key
  IN /\ request[r].step = "stored" /\ Current(r) /\ Changes < MaxRevision
     /\ over' = Covered(b, k)
     /\ rows' = rows \cup {k}
     /\ Replaced(r, over[b].cover, over')
     /\ UNCHANGED <<files, leaked, faults>>

\* It is refused: the stored file goes again, unless an override names it.
Refuse(r) ==
  /\ request[r].step = "stored" /\ ~Current(r)
  /\ IF request[r].key \in Referenced(over)
       THEN Goes(r, Idle)
       ELSE Goes(r, [Idle EXCEPT !.step = "discarding", !.key = request[r].key])
  /\ UNCHANGED <<files, rows, over, leaked, faults>>

\* The book goes back to the cover of its file.
Reset(r, b) ==
  /\ request[r].step = "idle" /\ over[b].there /\ Changes < MaxRevision
  /\ over' = Covered(b, None)
  /\ Replaced(r, over[b].cover, over')
  /\ UNCHANGED <<files, rows, leaked, faults>>

\* removeIfUnreferenced: a file that is gone already counts as removed.  After an
\* accepted change the rows of unreferenced pictures go with it; after a refused
\* one nothing does.
Unlink(r) ==
  /\ request[r].step \in {"retiring", "discarding"}
  /\ Goes(r, Idle)
  /\ \/ /\ files' = files \ {request[r].key}
        /\ rows' = IF request[r].step = "retiring" THEN rows \cap Referenced(over) ELSE rows
        /\ UNCHANGED <<leaked, faults>>
     \/ /\ Fault
        /\ leaked' = TRUE
        /\ UNCHANGED <<files, rows>>
  /\ UNCHANGED <<over>>

\* Another edit of the book, or new content of its source.
Edit(b) ==
  /\ over[b].there /\ Changes < MaxRevision
  /\ over' = [over EXCEPT ![b].version = @ + 1]
  /\ UNCHANGED <<files, rows, request, raced, leaked, faults>>

\* The book goes with its profile or its folder: pruneMetadataCoverAssets prunes
\* the rows, notes what is still named, and asks for a listing of the directory.
Delete(r, b) ==
  /\ request[r].step = "idle" /\ over[b].there
  /\ over' = [over EXCEPT ![b].there = FALSE, ![b].cover = None]
  /\ rows' = rows \cap Referenced(over')
  /\ Goes(r, [Idle EXCEPT !.step = "listing", !.left = Keys \ Referenced(over')])
  /\ UNCHANGED <<files, leaked, faults>>

List(r) ==
  /\ request[r].step = "listing"
  /\ Goes(r, [request[r] EXCEPT !.step = "sweeping", !.left = @ \cap files])
  /\ UNCHANGED <<files, rows, over, leaked, faults>>

\* pruneOrphans takes the next file: it stays if it is named by now.
Sweep(r, k) ==
  /\ request[r].step = "sweeping" /\ k \in request[r].left
  /\ IF k \in Referenced(over)
       THEN Goes(r, [request[r] EXCEPT !.left = @ \ {k}])
       ELSE Goes(r, [request[r] EXCEPT !.step = "removing", !.key = k, !.left = @ \ {k}])
  /\ UNCHANGED <<files, rows, over, leaked, faults>>

\* A file that is gone already, or that cannot be removed, ends the whole sweep.
Remove(r) ==
  /\ request[r].step = "removing"
  /\ \/ /\ request[r].key \in files
        /\ files' = files \ {request[r].key}
        /\ Goes(r, [request[r] EXCEPT !.step = "sweeping", !.key = None])
        /\ UNCHANGED <<leaked, faults>>
     \/ /\ request[r].key \notin files
        /\ Goes(r, Idle)
        /\ leaked' = TRUE
        /\ UNCHANGED <<files, faults>>
     \/ /\ Fault
        /\ leaked' = TRUE
        /\ Goes(r, Idle)
        /\ UNCHANGED files
  /\ UNCHANGED <<rows, over>>

SweepEnds(r) ==
  /\ request[r].step = "sweeping" /\ request[r].left = {}
  /\ Goes(r, Idle)
  /\ UNCHANGED <<files, rows, over, leaked, faults>>

\* The server stops anywhere.  When it starts again it prunes the rows and the
\* files before it serves anything (catalog-service.ts).
Restart ==
  /\ Fault
  /\ request' = [r \in Requests |-> Idle]
  /\ rows' = rows \cap Referenced(over)
  /\ files' = files \cap Referenced(over)
  /\ leaked' = FALSE
  /\ UNCHANGED <<over, raced>>

\* serveCover looks up the key of the book's cover, and then reads the file.
Ask(r, b) ==
  /\ request[r].step = "idle" /\ over[b].cover # None
  /\ Goes(r, [Idle EXCEPT !.step = "reading", !.book = b, !.key = over[b].cover])
  /\ UNCHANGED <<files, rows, over, leaked, faults>>

\* Of a cover that was replaced since, the error matters to nobody: the page asks
\* for the new one.
Missing(r) == request[r].key \notin files /\ request[r].key = over[request[r].book].cover

\* The answer is the bytes of that key, or an error.
Answer(r) ==
  /\ request[r].step = "reading"
  /\ Goes(r, IF Missing(r) THEN [request[r] EXCEPT !.step = "missing"] ELSE Idle)
  /\ UNCHANGED <<files, rows, over, leaked, faults>>

\* The error is sent; or the reader goes away, the deadline passes, or the server
\* shuts down before the answer.
Leave(r) ==
  /\ request[r].step \in {"reading", "missing"}
  /\ Goes(r, Idle)
  /\ UNCHANGED <<files, rows, over, leaked, faults>>

Next ==
  \/ \E r \in Requests :
       \/ \E b \in Books, k \in Keys : Choose(r, b, k)
       \/ NoPicture(r) \/ Look(r) \/ Write(r) \/ Set(r) \/ Refuse(r) \/ Unlink(r)
       \/ \E b \in Books : Reset(r, b) \/ Delete(r, b) \/ Ask(r, b)
       \/ List(r) \/ Remove(r) \/ SweepEnds(r) \/ Answer(r) \/ Leave(r)
       \/ \E k \in Keys : Sweep(r, k)
  \/ \E b \in Books : Edit(b)
  \/ Restart

Spec == Init /\ [][Next]_vars

-----------------------------------------------------------------------------

\* A cover that an override names has its row, without which the book could not
\* be refreshed by a scan, and it has its file, unless a store of the same
\* picture overlapped with an unlink of it (metadata-cover-store.ts, http-
\* server.ts retireMetadataCoverAssetBestEffort).
NamedCoversAreThere ==
  \A k \in Referenced(over) : k \in rows /\ (k \notin raced => k \in files)

\* With no request under way every file is named by an override, unless an
\* unlink failed since the server started.
QuietStoreIsExact ==
  (\A r \in Requests : request[r].step = "idle") /\ ~leaked => files \subseteq Referenced(over)

\* A cover that its book still names is answered as missing only if it raced.
NamedCoversAreServed ==
  \A r \in Requests : request[r].step = "missing" => request[r].key \in raced

=============================================================================
