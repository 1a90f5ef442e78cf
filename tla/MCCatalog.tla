----------------------------- MODULE MCCatalog ------------------------------
(***************************************************************************)
(* Everything that changes the catalog and its profiles: the scanner, the  *)
(* identities of books, edits of metadata, and the queue and shelves of a  *)
(* profile, in one run.  They share no state here: a behaviour is one of a *)
(* single component, chosen at the start and named by part.                *)
(***************************************************************************)
EXTENDS CatalogScan, Sequences, TLC

CONSTANTS
  Contents, Paths, Keep, MaxBooks, MaxEvidence, MaxFileEdits, MaxFileFaults, MaxClears, Browsers,
  QueueBooks, Shelves, FirstQueue, MaxProfileEdits, MaxProfileFaults, Editors, Reviewer,
  MaxRevision, MaxContents, MaxEditorFaults

\* None is not a load that was asked for.
ASSUME NoneIsApart == None # [reply |-> None]

\* None is no file, no row and no scan either.
ASSUME NoneIsNoScan ==
  None \notin {"file"} \cup [stat : Nat, sample : Nat, full : Nat]
     \cup [stat : Nat, sample : Nat, full : Nat, available : BOOLEAN, error : BOOLEAN, path : {1, 2}]
     \cup [at : {"slot", "claimed", "listed", "indexed"}, path : {1, 2}, reason : Reasons \cup {None},
           dirty : SUBSET {"p", "o", "?"}, seen : {"ok", "empty", "lost", None},
           found : [stat : Nat, sample : Nat, full : Nat] \cup {None, "file"}]

\* 0 is no path, no content is the mark of a file that could not be read, and
\* None is no row of a file.
ASSUME FilesAreApart ==
  /\ Paths \subseteq Nat \ {0}
  /\ "rejected" \notin Contents
  /\ None \notin [hash : Contents \cup {"rejected"}, book : Nat, error : BOOLEAN, seen : BOOLEAN]

\* Paths are numbers: of any of them one is visited first.
ASSUME PathsAreOrdered ==
  \A ps \in SUBSET Paths : ps # {} => \E p \in ps : \A q \in ps : p <= q

\* The queue is a sequence of books.
ASSUME QueueIsOfBooks == FirstQueue \in Seq(QueueBooks)

\* The queue the run starts with.
TwoQueued == <<"k1", "k2">>

VARIABLES
  part,  \* the component this behaviour is of
  identityDisk, identityRows, identityIdentities, identityDeliveries, identityRebuilding,
  identityEmptyStreak, identityScan, identityBooks, identityBudget, identityExpected,
  identityDisplaced,
  editsQueue, editsShelves, editsSaved, editsHints, editsPage, editsLate, editsEdits, editsFaults,
  metaContent, metaRow, metaEditor, metaBulk, metaCalls, metaFaults

Identity == INSTANCE CatalogIdentity WITH
  Paths <- Paths, Contents <- Contents, None <- None, Keep <- Keep, MaxBooks <- MaxBooks,
  MaxEvidence <- MaxEvidence, MaxEdits <- MaxFileEdits, MaxFaults <- MaxFileFaults,
  MaxClears <- MaxClears, disk <- identityDisk, rows <- identityRows,
  identities <- identityIdentities, deliveries <- identityDeliveries,
  rebuilding <- identityRebuilding, emptyStreak <- identityEmptyStreak, scan <- identityScan,
  books <- identityBooks, budget <- identityBudget, expected <- identityExpected,
  displaced <- identityDisplaced

Edits == INSTANCE ProfileEdits WITH
  Browsers <- Browsers, Books <- QueueBooks, None <- None, Shelves <- Shelves,
  Queued <- FirstQueue, MaxEdits <- MaxProfileEdits, MaxFaults <- MaxProfileFaults,
  queue <- editsQueue, shelves <- editsShelves, saved <- editsSaved, hints <- editsHints,
  page <- editsPage, late <- editsLate, edits <- editsEdits, faults <- editsFaults

Meta == INSTANCE MetadataEdits WITH
  Browsers <- Editors, Reviewer <- Reviewer, None <- None, MaxRevision <- MaxRevision,
  MaxContents <- MaxContents, MaxFaults <- MaxEditorFaults, content <- metaContent,
  row <- metaRow, editor <- metaEditor, bulk <- metaBulk, calls <- metaCalls, faults <- metaFaults

scanVars == <<file, mount, path, enabled, req, row, rest, streak, up, boot, timer, scan, rerun, aborted,
    watching, dirty, events, noise, faults, unwatched, failed>>
identityVars == <<identityDisk, identityRows, identityIdentities, identityDeliveries, identityRebuilding,
    identityEmptyStreak, identityScan, identityBooks, identityBudget, identityExpected,
    identityDisplaced>>
editsVars == <<editsQueue, editsShelves, editsSaved, editsHints, editsPage, editsLate, editsEdits,
    editsFaults>>
metaVars == <<metaContent, metaRow, metaEditor, metaBulk, metaCalls, metaFaults>>
allVars == <<part, scanVars, identityVars, editsVars, metaVars>>

PartsInit ==
  /\ part \in {"scan", "identity", "edits", "meta"}
  /\ Init
  /\ Identity!Init
  /\ Edits!Init
  /\ Meta!Init

PartsNext ==
  \/ /\ part = "scan" /\ Next
     /\ UNCHANGED <<part, identityVars, editsVars, metaVars>>
  \/ /\ part = "identity" /\ Identity!Next
     /\ UNCHANGED <<part, scanVars, editsVars, metaVars>>
  \/ /\ part = "edits" /\ Edits!Next
     /\ UNCHANGED <<part, scanVars, identityVars, metaVars>>
  \/ /\ part = "meta" /\ Meta!Next
     /\ UNCHANGED <<part, scanVars, identityVars, editsVars>>

PartsSpec == PartsInit /\ [][PartsNext]_allVars

\* The two browsers are alike, and so are the contents of files
Symmetry == Permutations(Browsers) \union Permutations(Contents)

-----------------------------------------------------------------------------

\* Every component keeps its types.
WellFormed ==
  \/ part = "scan" /\ TypeOK
  \/ part = "identity" /\ Identity!TypeOK
  \/ part = "edits" /\ Edits!TypeOK
  \/ part = "meta" /\ Meta!TypeOK

\* A file that stays where it is, or is renamed in a way the scan can tell
\* from a copy, is not listed under another identifier, and the identifier
\* a retained delivery points at is listed or on record (catalog-
\* database.ts upsertCatalogFile "Preserve the source/book ID only when one
\* and only one unmatched file in this generation has the same content
\* hash"; server/README.md:86).  Two kinds of files escape: one whose rows
\* went, in a rebuild or with an empty mount, and of which a copy is visited
\* first (StillExpected), and a book whose recorded path another book was
\* renamed to (displaced).
BooksKeepTheirIdentity == Identity!FilesKeepTheirBooks /\ Identity!EvidenceKeepsItsBook

\* With nothing under way, a page that says its shelf order is ready shows
\* the order of the server, whatever was lost, refused or announced meanwhile
\* (catalog-browser.ts:1951 "A lost response can hide a successful save; fetch
\* current state rather than blindly replaying a mutation or overwriting
\* another browser's changes.").  Its queue is the one of the server too, but
\* for one case: since the last load that was shown, an older answer overwrote
\* a newer queue or a load failed.  Even then a queue that is not the server's
\* is not of the server's revision.
QuietViewsAreFresh == Edits!QuietOrderIsFresh /\ Edits!QuietQueueIsFresh

\* A browser never takes out of the queue an entry it did not show when the
\* user asked (catalog-database.ts "The Send-later queue changed in another
\* browser.").
NothingUnseenIsRemoved == Edits!NothingUnseenIsRemoved

\* An edit of metadata is accepted only on the very values and cover its
\* author was shown, whatever other browsers, late requests and new
\* contents lie between (catalog-database.ts metadataMutationContext).
InformedEdits == Meta!InformedEdits

\* A completed save leaves the draft, although it takes two requests, and a
\* series chosen in bulk is written only to a book whose content and series
\* are still those reviewed (catalog-browser.ts saveBookMetadata,
\* applyHardcoverBulkSeries).
SavedIsTheDraft == Meta!SavedIsTheDraft /\ Meta!ReviewedSeriesOnly

\* A change is made on what its author was shown, and is what its author
\* asked for.
ChangesAreInformed == NothingUnseenIsRemoved /\ InformedEdits /\ SavedIsTheDraft

=============================================================================
