-------------------------- MODULE CatalogIdentity --------------------------
(***************************************************************************)
(* How a book keeps its stable identifier while its file is renamed,       *)
(* deleted and added again, while the rebuildable catalog is cleared, and  *)
(* while scans fail half-way (src/server/catalog-database.ts).             *)
(*                                                                         *)
(* One source root.  A row of source_files (with its row of books) is      *)
(* rebuildable; catalog_book_identities is the durable map from paths and  *)
(* contents to identifiers, in the order of its updates; deliveries are    *)
(* the evidence that points at identifiers.  Paths are numbered in the     *)
(* order in which a scan visits them.  MaxEdits, MaxFaults, MaxClears,     *)
(* MaxBooks and MaxEvidence bound the owner's edits, the failures, the     *)
(* clears, the identifiers given out and the retained deliveries; Keep is  *)
(* MAX_UNREFERENCED_IDENTITIES_PER_ROOT.                                   *)
(***************************************************************************)
EXTENDS Naturals, Sequences, FiniteSets

CONSTANTS
  Paths,        \* positive numbers
  Contents,     \* the bytes a file can have
  None,
  Keep, MaxBooks, MaxEvidence, MaxEdits, MaxFaults, MaxClears

VARIABLES
  disk,         \* path -> the content of the file there, or None
  rows,         \* path -> source row: content hash, book (0: none), error, seen by this scan
  identities,   \* catalog_book_identities: [path, hash, book, at]
  deliveries,   \* the books of the retained deliveries, oldest first
  rebuilding,   \* the root is in catalog_rebuild_pending_roots
  emptyStreak,  \* library_roots.empty_scan_streak, 0 or 1
  scan,         \* None, or the scan that runs
  books,        \* the identifiers given out so far
  budget,       \* edits, faults and clears left
  expected,     \* history: path -> the book its file must be served as, or 0
  displaced     \* history: books whose identity another book's path replaced

vars == <<disk, rows, identities, deliveries, rebuilding, emptyStreak, scan, books,
          budget, expected, displaced>>

Rejected == "rejected"   \* rejectedSourceFingerprint: never the hash of a content

Init ==
  /\ disk = [p \in Paths |-> None]
  /\ rows = [p \in Paths |-> None]
  /\ identities = {}
  /\ deliveries = << >>
  /\ rebuilding = FALSE
  /\ emptyStreak = 0
  /\ scan = None
  /\ books = 0
  /\ budget = [edits |-> MaxEdits, faults |-> MaxFaults, clears |-> MaxClears]
  /\ expected = [p \in Paths |-> 0]
  /\ displaced = {}

Spend(what) == budget[what] > 0 /\ budget' = [budget EXCEPT ![what] = @ - 1]

HasRow(b) == \E p \in Paths : rows[p] # None /\ rows[p].book = b
IdentitiesOf(b) == {h \in identities : h.book = b}

\* The file at p is shown under the identifier expected of it.
Settled(p) == rows[p] # None /\ rows[p].book = expected[p] /\ rows[p].hash = disk[p]

-----------------------------------------------------------------------------
(* The owner of the folder.                                                 *)

\* The files whose identifier is no longer determined when a file with
\* content c appears at x: one that is not settled and has the same bytes, or
\* whose book is on record at x.
Unclear(x, c) ==
  {q \in Paths \ {x} : /\ expected[q] # 0
                       /\ ~Settled(q)
                       /\ \/ disk[q] = c
                          \/ \E h \in IdentitiesOf(expected[q]) : h.path = x}

Add(p, c) ==
  /\ disk[p] = None
  /\ Spend("edits")
  /\ disk' = [disk EXCEPT ![p] = c]
  /\ expected' = [q \in Paths |-> IF q = p \/ q \in Unclear(p, c) THEN 0 ELSE expected[q]]
  /\ UNCHANGED <<rows, identities, deliveries, rebuilding, emptyStreak, scan, books, displaced>>

Remove(p) ==
  /\ disk[p] # None
  /\ Spend("edits")
  /\ disk' = [disk EXCEPT ![p] = None]
  /\ expected' = [expected EXCEPT ![p] = 0]
  /\ UNCHANGED <<rows, identities, deliveries, rebuilding, emptyStreak, scan, books, displaced>>

\* A rename the next scan can recognise: nothing else has these bytes and
\* nothing is on record at the new path.
Recognisable(p, q) ==
  /\ scan = None
  /\ Settled(p)
  /\ \A r \in Paths \ {p} : disk[r] # disk[p] /\ (rows[r] # None => rows[r].hash # disk[p])
  /\ \A h \in identities :
       h.path # q /\ (h.hash = disk[p] => h.book = expected[p])
  /\ rows[q] = None

Move(p, q) ==
  /\ disk[p] # None
  /\ disk[q] = None
  /\ Spend("edits")
  /\ disk' = [disk EXCEPT ![p] = None, ![q] = disk[p]]
  /\ expected' = [r \in Paths |->
       CASE r = p -> 0
         [] r = q -> IF Recognisable(p, q) THEN expected[p] ELSE 0
         [] r \in Unclear(q, disk[p]) -> 0
         [] OTHER -> expected[r]]
  /\ UNCHANGED <<rows, identities, deliveries, rebuilding, emptyStreak, scan, books, displaced>>

-----------------------------------------------------------------------------
(* One scan of the root.                                                    *)

\* CatalogIndexer.scanRoot: a fresh scan token and the listing; a mount that
\* is gone may show an empty folder.
StartScan ==
  /\ scan = None
  /\ \E blank \in BOOLEAN :
       LET present == IF blank THEN {} ELSE {p \in Paths : disk[p] # None}
       IN /\ IF blank THEN Spend("faults") ELSE UNCHANGED budget
          /\ scan' = [listed |-> present, as |-> disk, todo |-> present, stable |-> TRUE]
  /\ rows' = [p \in Paths |-> IF rows[p] = None THEN None ELSE [rows[p] EXCEPT !.seen = FALSE]]
  /\ UNCHANGED <<disk, identities, deliveries, rebuilding, emptyStreak, books, expected, displaced>>

\* Candidates are sorted by path.
NextPath == CHOOSE p \in scan.todo : \A q \in scan.todo : p <= q

\* As it would be if the paths found again were not left out.
RenameCandidatesAnywhere(p) ==
  {q \in Paths : rows[q] # None /\ rows[q].hash = disk[p] /\ ~rows[q].seen}

\* Rows another file of this generation cannot still claim: same content, not
\* yet seen, and at a path that was not found again.
RenameCandidates(p) ==
  {q \in Paths : /\ rows[q] # None
                 /\ rows[q].hash = disk[p]
                 /\ ~rows[q].seen
                 /\ q \notin scan.listed}

\* The row an upsert of p updates: the one at its path, else the only rename
\* candidate; 0 when it inserts a new one.
Existing(p) ==
  IF rows[p] # None THEN p
  ELSE IF \E q \in Paths : RenameCandidates(p) = {q}
       THEN CHOOSE q \in RenameCandidates(p) : TRUE
       ELSE 0

\* The identifier kept for a row that has none: by path, else by content when
\* only one is left, never one another row still uses.
Retained(p) ==
  LET free == {h \in identities : ~HasRow(h.book)}
      byPath == {h.book : h \in {g \in free : g.path = p}}
      byHash == {h.book : h \in {g \in free : g.hash = disk[p]}}
  IN IF byPath # {} THEN byPath ELSE IF \E b \in byHash : byHash = {b} THEN byHash ELSE {}

\* The time of an update that leaves these other identities, later than theirs.
After(others) ==
  IF others = {} THEN 1
  ELSE 1 + (CHOOSE n \in {h.at : h \in others} : \A h \in others : h.at <= n)

\* upsertCatalogFile, with the bytes the snapshot of p was made from.
Upsert(p) ==
  LET from == Existing(p)
      kept == IF from # 0 /\ rows[from].book # 0 THEN {rows[from].book} ELSE Retained(p)
      b == IF kept = {} THEN books + 1 ELSE CHOOSE k \in kept : TRUE
      others == {h \in identities : h.book # b}
      rest == {h \in others : h.path # p}
  IN /\ b <= MaxBooks
     /\ books' = IF kept = {} THEN b ELSE books
     /\ rows' = [q \in Paths |->
          CASE q = p -> [hash |-> disk[p], book |-> b, error |-> FALSE, seen |-> TRUE]
            [] q = from /\ q # p -> None
            [] OTHER -> rows[q]]
     /\ identities' = rest \union {[path |-> p, hash |-> disk[p], book |-> b, at |-> After(rest)]}
     /\ displaced' = (displaced \ {b}) \union {h.book : h \in others \ rest}
     /\ expected' = [expected EXCEPT ![p] = IF @ = 0 THEN b ELSE @]

\* indexCandidate: an unchanged file is touched (read again and stored when
\* its cached cover is gone), a new or changed one is stored.
IndexFile ==
  /\ scan # None
  /\ scan.todo # {}
  /\ LET p == NextPath
         reusable == rows[p] # None /\ rows[p].book # 0 /\ ~rows[p].error /\ rows[p].hash = disk[p]
     IN /\ disk[p] = scan.as[p]
        /\ scan' = [scan EXCEPT !.todo = @ \ {p}]
        /\ IF reusable
           THEN /\ rows' = [rows EXCEPT ![p].seen = TRUE]
                /\ UNCHANGED <<identities, books, expected, displaced>>
           ELSE Upsert(p)
  /\ UNCHANGED <<disk, deliveries, rebuilding, emptyStreak, budget>>

\* The cover of an unchanged file is missing from the cache.
IndexAgain ==
  /\ scan # None
  /\ scan.todo # {}
  /\ LET p == NextPath
     IN /\ disk[p] = scan.as[p]
        /\ rows[p] # None /\ rows[p].book # 0 /\ rows[p].hash = disk[p]
        /\ scan' = [scan EXCEPT !.todo = @ \ {p}]
        /\ Upsert(p)
  /\ Spend("faults")
  /\ UNCHANGED <<disk, deliveries, rebuilding, emptyStreak>>

\* The file changed after it was listed: nothing is stored, and the
\* generation will not be completed.
FileUnstable ==
  /\ scan # None
  /\ scan.todo # {}
  /\ disk[NextPath] # scan.as[NextPath]
  /\ scan' = [scan EXCEPT !.todo = @ \ {NextPath}, !.stable = FALSE]
  /\ UNCHANGED <<disk, rows, identities, deliveries, rebuilding, emptyStreak, books, budget,
                 expected, displaced>>

\* recordSourceError: the file cannot be opened (no real hash) or its parser
\* fails after the bytes were hashed.  A known row keeps its book.
FileFails ==
  /\ scan # None
  /\ scan.todo # {}
  /\ Spend("faults")
  /\ LET p == NextPath
     IN /\ disk[p] = scan.as[p]
        /\ \E hash \in {Rejected, disk[p]} :
             rows' = [rows EXCEPT ![p] = [hash |-> hash, error |-> TRUE, seen |-> TRUE,
                                          book |-> IF rows[p] = None THEN 0 ELSE rows[p].book]]
        /\ expected' = [expected EXCEPT ![p] = IF Settled(p) THEN @ ELSE 0]
        /\ scan' = [scan EXCEPT !.todo = @ \ {p}]
  /\ UNCHANGED <<disk, identities, deliveries, rebuilding, emptyStreak, books, displaced>>

-----------------------------------------------------------------------------
(* Retention.                                                               *)

\* pruneUnprotectedCatalogIdentities, for the rows, deliveries and rebuild
\* mark the transaction leaves: the newest Keep unprotected ones stay.
Protected(h, theRows, theDeliveries, mark) ==
  \/ mark
  \/ \E p \in Paths : theRows[p] # None /\ theRows[p].book = h.book
  \/ \E i \in DOMAIN theDeliveries : theDeliveries[i] = h.book

\* The newest Keep of the identities that may go stay.
Newest(loose) == {h \in loose : Cardinality({g \in loose : g.at > h.at}) < Keep}

\* As it would be if evidence did not protect the identity it points at.
PrunedDespiteEvidence(theRows, theDeliveries, mark) ==
  LET loose == {h \in identities : ~Protected(h, theRows, << >>, mark)}
  IN (identities \ loose) \union Newest(loose)

Pruned(theRows, theDeliveries, mark) ==
  LET loose == {h \in identities : ~Protected(h, theRows, theDeliveries, mark)}
  IN (identities \ loose) \union Newest(loose)

\* The expectations that are left with these rows and identities.  Bounded
\* retention gives up some; and a file without a row is told from a copy
\* elsewhere by its path only, so that the copy a scan visits first may be
\* taken for it.
StillExpected(theRows, theIdentities) ==
  [p \in Paths |->
     IF /\ \/ \E q \in Paths : theRows[q] # None /\ theRows[q].book = expected[p]
           \/ \E h \in theIdentities : h.book = expected[p]
        /\ theRows[p] # None \/ \A q \in Paths \ {p} : disk[q] # disk[p]
     THEN expected[p] ELSE 0]

\* completeRootScan: the first empty generation over available rows only
\* counts; otherwise the rows not seen are deleted with their books.
EndScan ==
  /\ scan # None
  /\ scan.todo = {}
  /\ scan' = None
  /\ LET unconfirmed == /\ scan.listed = {}
                        /\ \E p \in Paths : rows[p] # None /\ ~rows[p].error
                        /\ emptyStreak = 0
         left == [p \in Paths |-> IF rows[p] # None /\ rows[p].seen THEN rows[p] ELSE None]
     IN IF ~scan.stable
        THEN UNCHANGED <<rows, identities, rebuilding, emptyStreak, expected>>
        ELSE IF unconfirmed
        THEN emptyStreak' = 1 /\ UNCHANGED <<rows, identities, rebuilding, expected>>
        ELSE /\ rows' = left
             /\ rebuilding' = FALSE
             /\ emptyStreak' = 0
             /\ identities' = Pruned(left, deliveries, FALSE)
             /\ expected' = StillExpected(left, identities')
  /\ UNCHANGED <<disk, deliveries, books, budget, displaced>>

\* The scan is stopped, times out, finds its request superseded, or the
\* cache fails; noteRootUnavailable counts a root that cannot be read.
ScanFails ==
  /\ scan # None
  /\ Spend("faults")
  /\ scan' = None
  /\ emptyStreak' \in {emptyStreak, 1}
  /\ UNCHANGED <<disk, rows, identities, deliveries, rebuilding, books, expected, displaced>>

\* clearRebuildableCatalog (maintenance) and a root that gets another path:
\* every row goes, the root is marked until a generation is complete, and a
\* scan that runs can no longer write.
Clear ==
  /\ Spend("clears")
  /\ rows' = [p \in Paths |-> None]
  /\ rebuilding' = TRUE
  /\ scan' = None
  /\ expected' = StillExpected(rows', identities)
  /\ UNCHANGED <<disk, identities, deliveries, emptyStreak, books, displaced>>

\* createDelivery of a book the catalog still lists: the oldest evidence
\* beyond the ceiling goes, and identities may lose their protection.
Deliver(b) ==
  /\ HasRow(b)
  /\ LET all == Append(deliveries, b)
         over == Len(all) > MaxEvidence
     IN /\ deliveries' = IF over THEN Tail(all) ELSE all
        /\ identities' = IF over THEN Pruned(rows, Tail(all), rebuilding) ELSE identities
        /\ expected' = StillExpected(rows, identities')
  /\ UNCHANGED <<disk, rows, rebuilding, emptyStreak, scan, books, budget, displaced>>

Next ==
  \/ \E p \in Paths, c \in Contents : Add(p, c)
  \/ \E p \in Paths : Remove(p)
  \/ \E p, q \in Paths : Move(p, q)
  \/ StartScan
  \/ IndexFile
  \/ IndexAgain
  \/ FileUnstable
  \/ FileFails
  \/ EndScan
  \/ ScanFails
  \/ Clear
  \/ \E b \in 1..MaxBooks : Deliver(b)

Spec == Init /\ [][Next]_vars

-----------------------------------------------------------------------------

\* State and history are well-formed, the durable map has one entry per book
\* and per path, and no two rows share a book.
TypeOK ==
  /\ disk \in [Paths -> Contents \union {None}]
  /\ \A p \in Paths : rows[p] # None =>
       /\ rows[p].hash \in Contents \union {Rejected}
       /\ rows[p].book \in 0..books
  /\ \A g, h \in identities : g # h => g.book # h.book /\ g.path # h.path
  /\ \A p, q \in Paths : p # q /\ rows[p] # None /\ rows[q] # None /\ rows[p].book # 0
       => rows[p].book # rows[q].book
  /\ Len(deliveries) <= MaxEvidence
  /\ expected \in [Paths -> 0..books]

\* A file that stays where it is, or is renamed in a way the scan can tell
\* from a copy, is never listed under another identifier: not when copies of
\* it come and go, other scans fail half-way, the mount disappears for a
\* while or the catalog is cleared.  (upsertCatalogFile "Preserve the
\* source/book ID only when one and only one unmatched file in this
\* generation has the same content hash"; server/README.md:86.)
FilesKeepTheirBooks ==
  \A p \in Paths :
    disk[p] # None /\ expected[p] # 0 /\ rows[p] # None /\ rows[p].book # 0 /\ rows[p].hash = disk[p]
      => rows[p].book = expected[p]

\* As long as a delivery is retained, the identifier it points at is
\* listed or still on record, so the same file would get it back; the
\* exception is a book whose recorded path another book was renamed to.
EvidenceKeepsItsBook ==
  \A i \in DOMAIN deliveries :
    \/ HasRow(deliveries[i])
    \/ IdentitiesOf(deliveries[i]) # {}
    \/ deliveries[i] \in displaced

=============================================================================
