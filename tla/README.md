# ShelfSend: TLA+ models, model checks and proofs

ShelfSend is a web application for e-book collections.  A server indexes the
folders of a library and serves a catalog; a browser page talks to a Kindle over
WebUSB (MTP) or to a Kobo mounted as a drive, and sends, replaces and removes
books on it.  What is hard to test in it is the order of things: native USB
calls that cannot be cancelled, tabs that compete for one device, late answers,
replacements that fail or are interrupted anywhere, scans that are superseded
while they run, files that are replaced between two requests, answers that nobody
waits for any more, and pages that must not show, or act on, what is no longer so.

Files: `X.tla` models a component.  `MC….tla` with `MC….cfg` are instances for
TLC, `…_proofs.tla` proofs for TLAPS.  `PROJECT.json` relates every definition
to the lines it stands for and lists the runs, hazards, findings and theorems.
Operators under a comment "Seeded fault" or "A plausible slip" are variants of
the definition after them with a plausible bug.  No action uses them: each
property has one that breaks it, which shows that the property looks at what
the definition does.

    tlc -workers 2 -config MCTransfers.cfg MCTransfers.tla
    tlapm MCTransfers_proofs.tla

## Inventory

Paths are relative to `src/`.

| Part | State | Operations | Hard | Correct when |
|---|---|---|---|---|
| Device lease, `client/src/kindle/device-lease.ts`; transport, `client/src/usb/bulk-transport.ts` | the Web Lock; opened, claimed, closed, unsettled native calls | acquire, connect, close, unplug, release | abort or timeout races the grant; a call outlives its deadline; a tab dies | one connection, no call outside the lease, no lease lost |
| MTP session, `client/src/mtp/session.ts` | session state, transaction number, queue | open, close, info, execute | late, repeated, foreign containers; abort within a phase | an answer reaches only its caller, and is true |
| Connected Kindle, `client/src/device-runtime.ts` | running operation, self-test proof, inventories, cover read | self-test, refresh, send, update, remove, cover, disconnect | a cover read beside operations; disconnect in the middle | one user of the session; writes only after proof; everything ends |
| Safe update with its journals, `client/src/safe-kindle-update.ts`, `device-runtime.ts`, `delivery-journal.ts`, `replacement-cleanup-journal.ts`, `state.ts` | the update; recovery record, delivery journal, cleanup tasks in local storage | update, clean up, flush | any step fails; the tab dies; a POST arrives late | a readable copy remains; a deleted copy has a recorded successor |
| Sending from the catalog, `client/src/controller.ts`, `catalog-browser.ts`, `catalog-reconciliation.ts` | inventory, comparison, statuses, batch | compare, send, batch, connect | edits, events and reconnections between any two awaits | a copy is what its token says; green is true |
| Authority and removal, `client/src/controller.ts`, `kindle/kindle-device.ts` | connection epoch, raw and presented inventory | connect, compare, remove | handles are renumbered while a dialog is open | deleted is what was confirmed |
| Kobo, `client/src/kobo/` | drive, recovery record, Web Lock | connect, send, cancel, clean up, inspect | a tab dies or a call fails at any await | an unfinished file is named until inspected |
| Cache on the Kindle, `client/src/kindle/device-metadata-cache.ts` | two files, generations | load, rotate | a failure between delete and read-back | the newest verified generation survives |
| Catalog page, `client/src/catalog-browser.ts`, `catalog-client.ts`, `server/event-hub.ts` | cards, marks, event stream, history | load, refresh, save, reconnect | loads, refreshes and saves that overtake one another; lost streams | a quiet page without a mark is fresh, and it catches up |
| Indexer, `server/catalog-indexer.ts`, scan methods of `catalog-database.ts` | requests with generations, fence, watchers and their hints, rows | watch, request, claim, scan, finish | supersession, crash, lost volume, a moved root | no change lost, no row of another path |
| Identities, `server/catalog-database.ts` | rows, identities, deliveries | index, rename, rebuild, prune | renames, copies, half scans, retention | a book keeps its identifier |
| Metadata workers, `server/metadata-worker-pool.ts` | slots, queue | extract, time out, replace | late answers and exits | every call settles; a free slot is idle |
| Metadata lookup, `server/metadata-lookup-worker.ts`, `catalog-database.ts`, page | job, entries, step, page | create, run, pause, cancel, retry | a late provider answer; two browsers; restart | an entry that searches has its search; busy ends |
| Profile edits, `server/catalog-database.ts`, `catalog-browser.ts` | send queue, shelf order, revisions | add, remove, reorder, pin | lost answers, other browsers | nothing unseen is removed; a quiet page is fresh |
| Metadata edits, the same files | overlay row, revision, content | open, save, import, apply in bulk | two requests per save; new file content | an edit is of what its author saw |
| Inventory of a Kindle, `client/src/kindle/inventory.ts`, `kindle-device.ts` | seed, caches, hierarchy, bytes read | list, look up, read, remember | files change, and limits are met, in the middle | a complete inventory has every book; a known book is as said |
| Libraries and folders, `server/catalog-database.ts`, `http-server.ts` | profiles, roots, memberships, requests, the ledger of saves | create, save, move, switch, delete, beside scans | a save arrives twice; a root is shared or moved under a scan | folders apart, changed ones scanned, a save applied once |
| Key of a provider, the same files, `catalog-browser.ts` | row with revision, tests under way, browsers | save, test, remove, start | a test ends after the key was replaced; a request arrives twice | a working key was accepted; a removed one stays removed |
| Chosen covers, `server/metadata-cover-store.ts` | files, rows, overrides | store, retire, sweep, delete, serve | the file system is awaited between turns | a named cover is there |
| Issues, `server/catalog-issues.ts`, `catalog-database.ts`, `catalog-browser.ts` | decisions in bounded rows, the inbox | derive, decide, prune, load | an issue goes and comes back; hints are lost | decided is what was shown; room for every issue |
| Requests and shutdown, `server/http-server.ts`, `catalog-service.ts`, `main.ts` | slots, waiters, guards, SQLite | accept, wait, stream, expire, close | an answer that cannot leave; a shutdown on top | slots come back; SQLite outlives its users |
| Not modelled: descriptors, codecs, extracted covers, conversion, calls to providers, rendering | bytes, caches, presentation | | inputs rather than orderings | the tests of the repository |

How they interact.  The controller calls the connected Kindle, which calls the
Kindle device, the object store, the session and the transport, all by awaiting
promises; aborts run down the same path.  The transport's disconnect calls the
controller back.  Tabs meet in the Web Lock, WebUSB, the drive and local storage.
Browsers and server meet in HTTP requests, whose answers may be lost or late, and
in an event stream whose events are only hints.  On the server the indexer, the
lookup worker and the request handlers meet in the database, and request handlers
among themselves in the slots of the server and in the files of the cover store.

## Modules

| Module | Models | Actions are |
|---|---|---|
| `DeviceOwnership` | what the lease promises: one owner, calls only by the owner, given up only when nothing is under way | the three steps of an owner |
| `DeviceLease` | tabs with `openKindle`, `acquireBrowserLock`, `performClose`, `releaseLeaseAfterUsbQuiesces`; native calls with deadlines | continuations between two awaits, abort, unplug, death of a tab |
| `MtpSession` | promise queue, phases, verdicts, fault; the device and the wire (external) | steps of a phase on either side, I/O failure, abort |
| `ConnectedKindle` | `#runExclusive`, the safe-write gate, `readBookCover`, both ways of closing | awaits of an operation, of a cover read and of a close |
| `MetadataPool` | slots, threads, queue, messages on their way | post, answer, timer, exit, close |
| `SafeUpdate` | one update or cleanup, everything it leaves on the Kindle, in storage and in the catalog | awaits of the update, failures with or without effect, reload, late POST |
| `CatalogSend` | comparison, single and batch sends, events | awaits of the three, edits, link lost, stream lost |
| `KindleAuthority` | connect to disconnect of the controller, its comparisons, removal | awaits, faults of each stage, unplug, page hidden, renumbering |
| `KoboTransfer` | drive, record and lock, per tab the device and the session | awaits of a transfer, cancel, crash, failing browser calls |
| `DeviceMetadataCache` | the two slots under several browsers | load, plan, delete, create, fill, verify, failures, the owner's touch |
| `CatalogScan` | one root: directory, request, fence, scan, watchers, process | await points of a scan, ticks, settings, crash, another service |
| `CatalogView` | event hub, stream, page loads, live refresh, saves | continuations of the browser, publish and attach of the hub |
| `LookupJobs` | job, entries, step with its searches, the page that drives it | handlers of the server, continuations of the page, restart |
| `CatalogIdentity` | rows, identities and deliveries of one root | one candidate of a scan, its end, clear, retention, the owner's edits |
| `ProfileEdits` | queue and sidebar order in the database and in several browsers | ask, handle, answer, hear, load, give up |
| `MetadataEdits` | overlay row and its editors | open, load, ask, handle, give up, new content |
| `KindleInventory` | a tree of objects on the device, one inventory under way, the caches it uses | start, list a folder and its batches, look up, read, remember, finish; the owner's changes, failed requests |
| `LibraryRoots` | profiles, roots, memberships, scan requests, the ledger | one transaction each: create, save, repeat, move, switch, delete; a scan that is listed, waits, claims, writes, and finishes or stops |
| `ProviderSettings` | row, replays, tests, requests on the wire, pages | edit, ask, handle, answer, give up, end of a test, start of the service |
| `CoverAssets` | files, rows, overrides, what each request does | the turns of the server between awaits of the file system, failures, start |
| `CatalogIssues` | what a scan found, rows of decisions, one inbox | scan, decide here or elsewhere, load, hint, lose |
| `CatalogServer` | requests with handler, answer, slots and guard; connections; the phases of the shutdown | arrive, admit, wait, read, stream, leave, expire, lose the connection, signal, drain, force, close |

The state of a component is written out in its `VARIABLES`, with the field or
table of the code each stands for.  A variable marked "history" exists only for
a property.  Contents, names and payloads are small sets; a revision or a
generation is a number where the code compares numbers.

`DeviceLease` is the detailed specification of `DeviceOwnership` (`owner` is the
holder of the lock, `busy` the tabs with unsettled calls of a transport that
`openKindle` has received; finding 3 is why the restriction is needed).

**Runs of several components.**  `MCKindleSession`, `MCServices`, `MCTransfers`,
`MCCatalog` and `MCSettings` instantiate several components, each with its own abstraction
of its neighbours.  A behaviour of such a run is a behaviour of *one* component,
chosen by `part` in the initial state; the others stand still.  This puts
several models in one run, it does not interleave them.  What one component
takes from another is stated in the models: `ConnectedKindle` takes from
`MtpSession` that a call succeeds, fails or faults the session for good;
`SafeUpdate`, `CatalogSend` and `KindleAuthority` take from `ConnectedKindle`
one operation at a time, and from `DeviceLease` a single tab;
`CatalogScan` takes from `MetadataPool` that an extraction ends;
`CatalogSend`, `ProfileEdits` and `CatalogIssues` take from `CatalogView` that an
event is a hint which may be lost with its stream; `CatalogScan` takes from
`LibraryRoots` that a folder may be moved or switched under a scan, and
`MetadataEdits` from `CoverAssets` that a stored cover is there;
`KindleInventory` takes from `DeviceMetadataCache` that the slots hold sets of
entries of which the newest verified one is read.

## Runs

| Run | Bounds | Shows |
|---|---|---|
| `device_lease` | 2 tabs, 3 connection attempts in all | one connection, calls under the lease, no lease lost, refinement of `DeviceOwnership` |
| `kindle_session` | 3 requests, transaction numbers 0 to 2, 1 foreign container; 2 books; 2 tabs, 2 attempts; 3 tasks, 1 slot, 3 threads | transactions apart and answers true; covers beside operations; writes proven; leases come back; requests, operations and tasks end |
| `services` | 1 change, 1 fault, 1 hint before overflow; 2 catalog changes, 1 fault, 1 click of a page; 1 book, 2 attempts, 1 job, 3 clicks, 1 action of another browser, 1 fault | rows of another path rescanned; loss confirmed; the file ends up indexed; quiet pages fresh and catching up; searches match entries; busy ends |
| `transfers` | 3 copies, journal of 3; 3 edits, 1 fault, 2 jobs; 2 tabs, 2 files, 1 edit, 1 fault, 1 crash; 4 generations, 3 faults, 2 touches; 2 books, 2 connections, 1 removal, 2 faults; 7 objects in 3 folders, 2 inventories, 1 change, 1 fault, 3 kinds of limits; 3 requests on 2 connections, 2 request slots, 1 buffer, 1 stream, 1 event client | a copy kept, records and reports sound; copies right, green true; Kobo files known; newest slot survives; comparison live, decisions carried out; inventories complete; server slots used |
| `catalog` | 1 change, 1 noise; 3 paths, 2 contents, 3 edits of files, 1 fault, 1 clear, 4 identifiers, 1 retained delivery, 1 unreferenced identity kept; 2 browsers, 3 books, 2 edits of the queue or the shelves, 1 fault; 1 editor and 1 reviewer, 3 revisions, 2 contents, 1 fault | watched changes indexed; books keep their identity; quiet views fresh; nothing unseen removed; edits informed, saves are the draft |
| `settings` | 2 libraries, 4 roots, 3 paths, 2 saves kept one at a time, 2 scans by 2 services; 2 browsers, 3 requests, 1 fault, 1 start; 2 books, 2 pictures, 2 overlapping requests, 2 changes, 1 fault; 2 books, 1 row, 1 row of history, 1 change, 2 decisions, 1 fault | folders apart, scanned as configured, saved once and as asked; keys accepted or gone; named covers there; decisions made on what was shown, and shown |
| six more | as the module says | one finding each |

Several properties are conjunctions, each part with an operator and a comment of
its own: `LeaseIsKept` (`OneConnection`, `LeaseCoversTransport`,
`NoLeakedLease`), `SessionIsTrue` (`TransactionsApart`, `AnswersAreTrue`),
`OperationsAreOrderly` (`CoversStayBeside`, `ProvenWrites`), `RecordsAreKept`
(`TasksAreWorkedOff`, `ObjectsAreCovered`), `SentBooksAreRight`
(`SentCopiesAreRight`, `GreenIsTrue`), `ChangesAreInformed`
(`NothingUnseenIsRemoved`, `InformedEdits`, `SavedIsTheDraft`).

Why the bounds are enough to be interesting.  Two tabs and three attempts let a
tab lose a race, come back, and meet its own quiescing connection or the
other's.  Three requests are an open, a command that fails and one queued behind
it; three numbers reach exhaustion.  Three copies are an old one, a replacement,
and a second replacement while a task about the first pair is pending.  Two jobs
and three edits put an edit before, in and after a comparison, and a batch after
a single send.  Two connections renumber the handles under an open dialog.  Four
generations rotate each slot twice.  A hint limit of one makes a second hint
overflow.  Two contents at three paths are a file, a copy and a rename.  Seven
objects are a folder with two names that differ only in case, a sidecar folder
with an asset, an ordinary book and one that was sent; four of them, or one level,
or two reads are limits that cut an inventory off in the middle.  Of three
requests two share a connection, so that one answer waits behind another, and
two slots for them make the third one wait or be refused.  Four root identifiers
let a library list a folder anew at a path where another one was.  Two pictures
and two requests are a store that overlaps the unlinking of the same picture.
One row for issues is a table at its limit.  What
holds beyond the bounds is what the theorems say.

Deadlock is not checked where a behaviour really ends: attempts, requests, edits
or faults are used up, or a connection is closed.  `SafeUpdate` in its own runs
can always be reloaded, there it is checked.  Symmetry is used for tabs,
browsers, libraries, services, requests about covers and contents, only in runs without liveness.

## Fairness

* `DeviceLease`: promise continuations run, and a native call settles at last.
  Each waiting step of the code has a timer (`runTransfer`,
  `boundedCleanupStep`, the lease's timeout); that the *native* call settles
  after its deadline is an assumption on the browser which `LeaseComesBack`
  needs; the code makes it too (`releaseLeaseAfterUsbQuiesces`).
* `MtpSession`: the host's steps happen; the device owes nothing, a silent one
  is ended by the deadline of the transfer.
* `ConnectedKindle`: calls end (they have deadlines), continuations run.
* `MetadataPool`: only the timer of a task.
* `CatalogScan`: timers fire, watcher events are delivered, the awaits of a scan
  and of the start-up return.  `CatalogConverges` assumes in its statement that
  the root stays enabled and mounted and the process up for good.
* `CatalogView`: loads, timers and saves end; an open connection delivers
  (strong fairness on `Deliver`, since a connection may be lost and come back).
* `LookupJobs`: requests and searches end (they have deadlines).

In a run of several components each condition carries the conjunct
`part = "…"`, so it binds only behaviours of that component.

## Findings

Each is a run in which TLC finds a sentence of the repository violated by what
the code does; `PROJECT.json` quotes both.

1. `catalog_scan_rescan`: a later request overwrites the reason of a pending
   one, so the owner's rescan can become a shallow scan.
2. `catalog_send_green`: a comparison whose index was fetched before an edit is
   installed although the edit's event was handled while it ran, and the book
   is green again until the next comparison.
3. `device_lease_connect`: when `connect()` is rejected while its native
   `device.open()` is pending, `openKindle` releases the lease at once, because
   it never received a transport to wait for.
4. `connected_kindle_cover`: an update whose last refresh failed returns a
   result, so the inventory read before the upload becomes the one covers are
   looked up in.  The consequence is small: `ReadCover` revalidates the object.
5. `safe_update_reminder`: the record of a cleanup task is reported although
   storing it failed; the owner reads "An exact cleanup reminder was stored".
6. `safe_update_ambiguous`: after an upload whose verification failed without
   retiring the connection, a retry deletes the old copy while two newer ones
   are on the Kindle.

## Observations

Behaviours of the code which the models have and no text of the repository
promises otherwise, met while modelling and proving.

* **Scans.**  The hints of watchers are in memory: a crash loses them, and a
  request that had become a "reconciliation" is not made again as a watch event.
  A change before the first watchers, or before those of a root created at run
  time, is seen only by a deep scan if it keeps size and time.  A scan may claim
  with a snapshot of a root that was moved since; if another service moved it
  away and back, its hints do not go back, and superseded it closes the current
  watchers and drops theirs (`catalog-indexer.ts:517-522, 880-889`).  The
  variable `unwatched` marks these behaviours, for `WatchedChangesAreIndexed`
  says nothing of them.  `withScanSlot` does not reserve the slot it hands on.
* **Catalog page.**  A failed live refresh marks the page stale; an older load
  that is still in flight then clears the mark, until the next event.  `overdue`
  marks these pages, from the failure to the next load, and `QuietPageIsFresh`
  excepts them; no text of the repository promises that the mark stays.
* **Sending.**  `finishCatalogSendBatch` clears the queued comparison although
  events came after its index was fetched, or nothing was sent
  (`controller.ts:2617-2619`).  Comparing looks alone would miss an edit and its
  undoing; the revision is compared only for edited books.
* **Identities.**  After a rebuild, a moved root or a confirmed empty mount, a
  copy that is visited first takes the identity of the original, because
  `byHash` ignores the retained paths.  An identity with deliveries is
  overwritten when another book is renamed to its path.  Chains of renames swap
  or lose identifiers.  A row without a book at the new path blocks the rename.
  `StillExpected`, `PrunedDespiteEvidence` and `displaced` mark these files; for
  all others the identifier is proved to stay.
* **Queue and shelves.**  A refused add puts back the queue it started from, and
  any delayed answer overwrites a newer queue without a look at its revision.
  `overtaken` marks such a page, and one whose load of the queue failed, until a
  load is shown; `QuietViewsAreFresh` then promises only that the revision the
  page names is not the server's, so that what is asked from it is refused.
  `reorderPinnedSmartShelves` changes the order while the revision stays.
* **Metadata.**  A save that fails between its two requests leaves the first
  committed while the editor keeps the old revision; a candidate import applies
  the candidate the server has under the id then.
* **Lookup.**  The page offers "Search now" for a queued job, and the server
  refuses the run of a job that is not running.  Closing the job or changing the
  route in a run makes the run return without clearing `metadataLookupBusy`; an
  entry whose outcome cannot be stored stays "searching" until a pause or a
  restart.
* **Kindle.**  A comparison in the background that began with an older inventory
  may be installed after a newer one of a cleanup.  Exhausted transaction
  numbers are reported as fatal while the session stays open (`session.ts:583`).
  A partial object left in a cache slot blocks that slot until it is removed.
* **Libraries.**  A configuration that lists a new folder at the old path of a
  folder which it moves, and lists later, loses the new one: the folder at that
  path is found, then moved.  The browser lists the folders it knows first, and
  `ConfigurationsAreAsAsked` is about configurations in that order.  Deleting a
  profile deletes its `configuration_writes` with it, so a late retry of a
  creation makes the library again.
* **Keys.**  After a save whose test failed the page keeps the old revision, and
  further saves are refused until it is loaded anew.
* **Chosen covers.**  A store that overlaps the unlinking of the same picture may
  leave a named cover without its file; `raced` marks these pictures.  The
  temporary files of a store that crashed never match `ASSET_KEY_PATTERN`, and no
  sweep removes them.
* **Issues.**  A scan that finds other issues announces nothing to an inbox that is
  open: it lists those of its last load until an event or its user loads it again,
  so `IssuesAreCurrent` is about the decisions on what is listed.  A
  `loadCatalogHealth` that times out has aborted its own signal, takes the answer
  for one that was superseded, and `healthState` stays "loading" until the next
  event (`catalog-browser.ts:1465`).
* **Requests.**  An answer that is queued behind another of its connection gets
  no close event when the connection is lost: only the deadline of its guard
  frees the slot.  A refused request (503, 429) has no guard.  The second
  `indexer.stop` of `performClose` does nothing.
* **Workers.**  The termination of a worker is not awaited, so an old thread may
  still run beside its replacement.

## Theorems

They hold for all values of the constants under the `ASSUME`s of the modules,
and TLC evaluates those on its instances.  Most say that numbers are numbers, or
that `None`, `Nobody` and `NoBook` are none of the values they stand beside.
Some say more: `FilesHaveBooks` (the Kindle may start with a different book
under every handle), `HandlesAreOrdered` and `PathsAreOrdered` (every set of
handles or paths has a least one, a fact about numbers which the library states
only with an operator argument), `QueueIsOfBooks` and `OrdersAreOfBooks` (the
first queue and the orders of a batch are of known books), `InventoryBounds` (the
tree has its two folders and any of its six files), `ServerBounds` (there is a
buffer slot, requests are finitely many, and every one has a connection),
`IssueBounds` (books are finitely many, and there is room for a row),
`RootBounds` (a folder may be saved as enabled) and `RootsAreOrdered` (there is a
folder, and every set of them has a least one).  The paths of `LibraryRoots` are
three, one below another and one apart, for the theorems as well.  A theorem
about a component of a run of several is about the run's specification
`PartsSpec`: each module shows `Init => Inv` and `Inv /\ [Next]_vars => Inv'` for
the component, and a last section lifts that to `part = "…"`.

Few of the properties are inductive.  What had to be added, by module:

| Module | Inductive invariant | Says besides the property | Theorems |
|---|---|---|---|
| `DeviceLease_proofs` | `LInv` | who holds the lock (exactly the tabs for which `Holding`), attempt numbers are fresh, where control waits, an unsettled call is of the connection in use or of the quiescing one | `TypeCorrect`, `LeaseStaysKept`, `LeaseImplementsOwnership` |
| `SafeUpdate_proofs` | `UInv`, `RInv` | what is on the Kindle at each stage, what the reason of a failure implies, objects numbered as made; from which stage on the record is durable | `UpdateTypeCorrect`, `ACopyIsKept`, `RecordsStayKept`, `ReplacementStaysRecorded`, `TasksStaySound`, `ReportsStayTrue` |
| `MCKindleSession_proofs` | `SessionInv` | what a phase allows on the wire and at the device; between transactions nothing is under way unless the session faulted, then at most the first request that ended in doubt | `SessionStaysTrue` |
| | `KindleInv` | a running body has the device to itself, a gated operation past its wait has the proof | `CoversReadOnTheirOwn`, `OperationsStayOrderly` |
| | `PoolInv` | a worker of the pool has, or has answered, the task of its slot, and not both | `FreeSlotsStayIdle` |
| `MCServices_proofs` | `ViewInv` | a load is of the profile shown; what it saw is right or a refresh is due, or a refresh failed after its answer; a refresh that will not load the page leaves none behind that needs it | `QuietPagesAreFresh` |
| | `ScanInv` | a scan that wrote its row and has the fence wrote it under its path; one bad generation before a loss | `RowsStayOfThePath`, `MountLossStaysConfirmed` |
| | `LookupInv` | only a running job has entries that are searched; a step awaits every search, unless one was rejected early | `SearchesStayMatched` |
| `MCTransfers_proofs` | `SlotsInv` | what was loaded is there; a slot is rewritten beside a verified one | `NewestSlotStays` |
| | `SendInv` | what a send has read is of the version compared or the revision has moved; an upload is of a look the Kindle has not; the index of a comparison is the catalog's or an edit is announced | `SentBooksStayRight` |
| | `ServerInv` | a slot, a buffer or a stream is held by a handler that runs or is in the guard of an answer that has not left, never both; a closed service scans nothing; a clean drain has no slot taken and no connection up; SQLite is closed after a drain has ended; the queue holds each waiting request once, and no buffer is free while somebody waits | `ServerSlotsStayTrue` |
| `MCTransfersDevices_proofs` | `KoboInv` | per tab where the record names the file that is written (`Written`), when storage is empty (`Cleared`), no other file of the edition (`Alone`); the lock is of the tab with the device | `KoboFilesStayKnown` |
| | `AuthorityInv` | one job runs; the raw inventory is of the connection; fresh means listed as the device has it; what is left to delete was asked about | `LiveComparisonsStayTrue`, `DecisionsStayCarriedOut` (with `KoboInv`) |
| | `InventoryInv` | an object is listed once; one that stayed is listed, waits in the folder that is read, or its folder waits, unless there is an issue; a cache entry with a book's date has its content; what is found is of the list | `InventoriesStayTrue` |
| `MCCatalog_proofs` | `WatchInv` | a change that was watched is hinted, taken by the running scan, or shown; what a scan has found is the file, or a hint is there | `WatchedChangesStayIndexed` |
| | `IdentInv` | rows and retained deliveries are on record; a file of which a book is expected has its row, or is alone with its bytes and on record at its path, or at the path it was renamed from; a scan that sees the folder lists it and comes to it | `BooksStayThemselves` |
| | `MetaInv` | what a page saw is of an earlier revision or is the row; a request carries what its author saw | `ChangesStayInformed` (with `EditsInv`) |
| | `EditsInv` | what is loaded or shown is the server's, unless an announcement is on its way, or `overtaken` says that an older answer overwrote it or a load failed; under the server's revision it always is | `QuietViewsStayFresh` |
| `MCSettings_proofs` | `RootsInv` | what is not configured has no rows and no request; one key is of one save, and a key that was applied is held or forgotten.  A transaction is carried by two more: `Half`, what the inputs taken so far made of their folders, and `Sound`, what may be committed: a folder whose scan is not due is as it was, and was active before | `FoldersStaySound`, `ConfigurationsStayAsAsked` |
| | `ProvInv` | a test under way at the row's revision is of the row's key; what a page knows, or an answer is about to tell it, is of an earlier revision or is the row; once a user has decided, the row is not of the environment | `CredentialsStayTrue` |
| | `CoverInv` | a request between two turns holds the picture, row and book its step implies; a store and an unlink of one picture at a time mark it as raced; an unlinked picture that was not raced is named by no book; every file that no book names is in the hands of a request, unless something was lost | `CoversStayKept` |
| | `IssueInv` | what the inbox shows, or has found, of an issue is an earlier revision or the newest; without a hint on its way it is the newest; the rows fit, and those of issues that stand are never dropped | `IssuesStayCurrent` |

`ReplacementStaysRecorded`, `TasksStaySound` and `ReportsStayTrue` have the
hypothesis `Roomy`, that the delivery journal has room for every delivery.  With
more undelivered records than that, `slice(-MAX_ENTRIES)` drops the oldest and
they are false; the code's journal has 20 entries.

`LeaseStaysKept`, `RecordsStayKept`, `SessionStaysTrue`, `OperationsStayOrderly`,
`SentBooksStayRight`, `DecisionsStayCarriedOut` and `ChangesStayInformed` combine
theorems about the parts of the property, which stand before them.

The queue for buffers is cut by rank in `CatalogServer!Waiting`, which is what
`SelectSeq` gives: the provers can reason about a sequence given by its domain,
and not about the recursion under `SelectSeq`.

For `LeaseImplementsOwnership` every action but `Teardown` is shown to have one
of the shapes of `DeviceOwnership`'s actions, and each shape to refine.

Proving corrected the models twice.  `WatchedChangesAreIndexed` was not
inductive because of the root that is moved away and back (above).
`BooksKeepTheirIdentity` held within the bounds of its run only: with two faults
a confirmed empty mount drops the rows of a file and of its copy, and the copy
may be visited first.

## Only model-checked

* Liveness: `LeaseComesBack`, `OperationsEnd`, `EveryTaskSettles`,
  `EveryRequestSettles`, `BusyEnds`, `PageCatchesUp`, `FileIsCatalogued`.  The
  provers have no rule for fairness and `ENABLED`.
* `WellFormed` of `transfers`, `catalog` and `settings` as a whole: type correctness of the
  parts is in their inductive invariants where it is needed
  (`CatalogTyped`, `AuthorityTyped`, `IdentTyped`, `MetaTyped`, …).
* Configurations of three and more folders.  A draft has at most two in the model,
  for TLC and for `FoldersStaySound` and `ConfigurationsStayAsAsked`: applying one
  of any length is a fold, and what a fold does is an induction over data.
* The six findings: TLC shows a counterexample.

## Not modelled, and why

* Parsers, codecs, datasets, conversion, the extraction of covers, the calls to
  providers and rendering have no orderings to explore; the repository tests
  them by example.
* The lock of the two journals between tabs, the scoring of matches and manual
  match decisions, annotations, queries, migrations, the age and count limits of
  the browser's cache, and the editing of a draft in Settings (Plan).
* A device that forges the number of a later transaction; storage that fails one
  read and then performs a write (a hazard with a note).
* The twenty-first undelivered record (a hazard with a note; see `Roomy`).
* A late POST after a rollback leaves the catalog with a record of a removed
  copy.  The model has the behaviour and no property forbids it: the next
  comparison shows the book as missing.

## Plan

What a next step would be, in this order.

1. `MatchReview`: manual decisions on candidates beside scans that change them.
2. The lock of the two journals between tabs, with `SafeUpdate` in both.
3. `KindleObjects`: two-phase creation and verification, with `SafeUpdate`'s
   upload stages shown to be what it promises.
