---------------------------- MODULE MCTransfers -----------------------------
(***************************************************************************)
(* Everything between the catalog and a reader: the safe update, sending   *)
(* from the catalog, the Kobo transfer, the rotated cache on the Kindle,   *)
(* removing books, the inventory of a Kindle, and the server that streams  *)
(* the books, in one run.  They share no state here: a behaviour is one of *)
(* a single component, chosen at the start and named by part.              *)
(***************************************************************************)
EXTENDS SafeUpdate, Sequences, TLC

CONSTANTS
  Nobody, Tabs, SendBooks, SendOrders, MaxSendEdits, MaxSendFaults, MaxSendJobs, MaxKoboFiles,
  MaxKoboEdits, MaxKoboFaults, MaxCrashes, MaxGen, MaxSlotFaults, MaxSlotTouches, KindleBooks,
  KindleHandles, MaxConnects, MaxRemovals, MaxKindleEdits, MaxKindleTouches, MaxKindleFaults,
  Objects, Limits, BatchSize, MaxRounds, MaxInventoryTouches, MaxInventoryFaults, Requests, Conns,
  ConnOf, MaxActive, MaxBuffered, MaxStreams, MaxClients

\* Nobody stands for no tab, and for what is not there in the parts that have no
\* object for it.
ASSUME NobodyIsApart ==
  /\ Nobody \notin Tabs
  /\ Nobody \notin [left : Seq(SendBooks), step : {"check", "sending", "finish", "finishing"}]
  /\ Nobody \notin [seen : SUBSET Nat, complete : {TRUE, FALSE}]
  /\ Nobody \notin [file : [book : KindleBooks, ed : {1, 2}, date : {0, 1}],
                   match : {"confirmed", "prior"}]

\* A batch is one of books, and not empty.
ASSUME OrdersAreOfBooks == SendOrders \subseteq Seq(SendBooks) \ {<<>>}

ASSUME KoboBounds == MaxKoboFiles \in Nat

\* Object handles are numbers: of any of them one is the smallest.
ASSUME HandlesAreOrdered ==
  \A hs \in SUBSET KindleHandles : hs # {} => \E h \in hs : \A g \in hs : h <= g

\* At first every file on the Kindle is of a book of its own.
ASSUME FilesHaveBooks ==
  \E f \in [KindleHandles -> KindleBooks] : \A g, h \in KindleHandles : f[g] = f[h] => g = h

\* The tree of an inventory has its two folders, and any of its files.
ASSUME InventoryBounds ==
  /\ Objects \subseteq {"folder", "one", "two", "twin", "sdr", "asset", "token", "kfx"}
  /\ {"folder", "sdr"} \subseteq Objects
  /\ Nobody \notin Objects

ASSUME ServerBounds ==
  /\ Requests \subseteq Nat /\ IsFiniteSet(Requests)
  /\ ConnOf \in [Requests -> Conns]
  /\ Nobody \notin {"plain", "buffered", "source", "events"}
  /\ MaxActive \in Nat /\ MaxBuffered \in Nat \ {0} /\ MaxStreams \in Nat /\ MaxClients \in Nat

\* The run sends one book at a time.
OneBook == {<<b>> : b \in SendBooks}

\* An inventory that has room for everything, one that is cut off in the
\* middle of a folder, and one that may neither descend nor read every book.
AFewLimits ==
  {[objects |-> 9, depth |-> 9, reads |-> 9, bytes |-> 9],
   [objects |-> 4, depth |-> 9, reads |-> 9, bytes |-> 9],
   [objects |-> 9, depth |-> 1, reads |-> 2, bytes |-> 9]}

\* Two requests share a connection.
TwoConns == [r \in Requests |-> IF r <= 2 THEN "c1" ELSE "c2"]

VARIABLES
  part,  \* the component this behaviour is of
  sendCatalog, sendFiles, sendPending, sendLinked, sendRaw, sendCurrent, sendState, sendCompared,
  sendQueued, sendRunning, sendBatch, sendSend, sendJob, sendStatus, sendLive, sendWire,
  sendRefresh, sendOwed, sendEdits, sendFaults, sendJobs,
  koboEdition, koboFiles, koboSeen, koboStored, koboLock, koboTab, koboFaults, koboCrashes,
  slotsRoot, slotsHost, slotsTested, slotsPending, slotsOp, slotsFaults, slotsTouches,
  slotsRetained,
  authorityDevice, authorityEdition, authorityCtl, authoritySession, authorityRaw, authorityShown,
  authorityPage, authorityPost, authorityJob, authorityRecon, authorityBudget,
  inventoryPresent, inventoryVer, inventoryOdd, inventorySeed, inventoryBrowser, inventorySlots,
  inventoryOp, inventoryOutcome, inventorySteady, inventoryRounds, inventoryTouches,
  inventoryFaults,
  serverJob, serverWaiters, serverConn, serverSignalled, serverStartup, serverClosed, serverDrain,
  serverScan, serverDb

Send == INSTANCE CatalogSend WITH
  Books <- SendBooks, Orders <- SendOrders, MaxEdits <- MaxSendEdits, MaxFaults <- MaxSendFaults,
  MaxJobs <- MaxSendJobs, None <- Nobody, catalog <- sendCatalog, files <- sendFiles,
  pending <- sendPending, linked <- sendLinked, raw <- sendRaw, current <- sendCurrent,
  state <- sendState, compared <- sendCompared, queued <- sendQueued, running <- sendRunning,
  batch <- sendBatch, send <- sendSend, job <- sendJob, status <- sendStatus, live <- sendLive,
  wire <- sendWire, refresh <- sendRefresh, owed <- sendOwed, edits <- sendEdits,
  faults <- sendFaults, jobs <- sendJobs

Kobo == INSTANCE KoboTransfer WITH
  Tabs <- Tabs, None <- Nobody, MaxFiles <- MaxKoboFiles, MaxEdits <- MaxKoboEdits,
  MaxFaults <- MaxKoboFaults, MaxCrashes <- MaxCrashes, edition <- koboEdition,
  files <- koboFiles, seen <- koboSeen, stored <- koboStored, lock <- koboLock, tab <- koboTab,
  faults <- koboFaults, crashes <- koboCrashes

Slots == INSTANCE DeviceMetadataCache WITH
  Hosts <- Tabs, None <- Nobody, MaxGen <- MaxGen, MaxFaults <- MaxSlotFaults,
  MaxTouches <- MaxSlotTouches, root <- slotsRoot, host <- slotsHost, tested <- slotsTested,
  pending <- slotsPending, op <- slotsOp, faults <- slotsFaults, touches <- slotsTouches,
  retained <- slotsRetained

Authority == INSTANCE KindleAuthority WITH
  Books <- KindleBooks, Handles <- KindleHandles, None <- Nobody, MaxConnects <- MaxConnects,
  MaxRemovals <- MaxRemovals, MaxEdits <- MaxKindleEdits, MaxTouches <- MaxKindleTouches,
  MaxFaults <- MaxKindleFaults, device <- authorityDevice, edition <- authorityEdition,
  ctl <- authorityCtl, session <- authoritySession, raw <- authorityRaw, shown <- authorityShown,
  page <- authorityPage, post <- authorityPost, job <- authorityJob, recon <- authorityRecon,
  budget <- authorityBudget

Inventory == INSTANCE KindleInventory WITH
  Objects <- Objects, None <- Nobody, Limits <- Limits, BatchSize <- BatchSize,
  MaxRounds <- MaxRounds, MaxTouches <- MaxInventoryTouches, MaxFaults <- MaxInventoryFaults,
  present <- inventoryPresent, ver <- inventoryVer, odd <- inventoryOdd, seed <- inventorySeed,
  browser <- inventoryBrowser, slots <- inventorySlots, op <- inventoryOp,
  outcome <- inventoryOutcome, steady <- inventorySteady, rounds <- inventoryRounds,
  touches <- inventoryTouches, faults <- inventoryFaults

Server == INSTANCE CatalogServer WITH
  Requests <- Requests, Conns <- Conns, ConnOf <- ConnOf, MaxActive <- MaxActive,
  MaxBuffered <- MaxBuffered, MaxStreams <- MaxStreams, MaxClients <- MaxClients, None <- Nobody,
  job <- serverJob, waiters <- serverWaiters, conn <- serverConn, signalled <- serverSignalled,
  startup <- serverStartup, closed <- serverClosed, drain <- serverDrain, scan <- serverScan,
  db <- serverDb

updateVars == <<device, intent, deliveries, tasks, server, inflight, made, stage, op, journaled, shown, seen,
    ready, result, replaced>>
sendVars == <<sendCatalog, sendFiles, sendPending, sendLinked, sendRaw, sendCurrent, sendState,
    sendCompared, sendQueued, sendRunning, sendBatch, sendSend, sendJob, sendStatus, sendLive,
    sendWire, sendRefresh, sendOwed, sendEdits, sendFaults, sendJobs>>
koboVars == <<koboEdition, koboFiles, koboSeen, koboStored, koboLock, koboTab, koboFaults, koboCrashes>>
slotsVars == <<slotsRoot, slotsHost, slotsTested, slotsPending, slotsOp, slotsFaults, slotsTouches,
    slotsRetained>>
authorityVars == <<authorityDevice, authorityEdition, authorityCtl, authoritySession, authorityRaw,
    authorityShown, authorityPage, authorityPost, authorityJob, authorityRecon, authorityBudget>>
inventoryVars == <<inventoryPresent, inventoryVer, inventoryOdd, inventorySeed, inventoryBrowser, inventorySlots,
    inventoryOp, inventoryOutcome, inventorySteady, inventoryRounds, inventoryTouches,
    inventoryFaults>>
serverVars == <<serverJob, serverWaiters, serverConn, serverSignalled, serverStartup, serverClosed,
    serverDrain, serverScan, serverDb>>
allVars == <<part, updateVars, sendVars, koboVars, slotsVars, authorityVars, inventoryVars, serverVars>>

PartsInit ==
  /\ part \in {"update", "send", "kobo", "slots", "authority", "inventory", "server"}
  /\ Init
  /\ Send!Init
  /\ Kobo!Init
  /\ Slots!Init
  /\ Authority!Init
  /\ Inventory!Init
  /\ Server!Init
  /\ part # "inventory" => inventoryOdd = {}

PartsNext ==
  \/ /\ part = "update" /\ Next
     /\ UNCHANGED <<part, sendVars, koboVars, slotsVars, authorityVars, inventoryVars, serverVars>>
  \/ /\ part = "send" /\ Send!Next
     /\ UNCHANGED <<part, updateVars, koboVars, slotsVars, authorityVars, inventoryVars, serverVars>>
  \/ /\ part = "kobo" /\ Kobo!Next
     /\ UNCHANGED <<part, updateVars, sendVars, slotsVars, authorityVars, inventoryVars, serverVars>>
  \/ /\ part = "slots" /\ Slots!Next
     /\ UNCHANGED <<part, updateVars, sendVars, koboVars, authorityVars, inventoryVars, serverVars>>
  \/ /\ part = "authority" /\ Authority!Next
     /\ UNCHANGED <<part, updateVars, sendVars, koboVars, slotsVars, inventoryVars, serverVars>>
  \/ /\ part = "inventory" /\ Inventory!Next
     /\ UNCHANGED <<part, updateVars, sendVars, koboVars, slotsVars, authorityVars, serverVars>>
  \/ /\ part = "server" /\ Server!Next
     /\ UNCHANGED <<part, updateVars, sendVars, koboVars, slotsVars, authorityVars, inventoryVars>>

PartsSpec == PartsInit /\ [][PartsNext]_allVars

\* The two tabs are alike
Symmetry == Permutations(Tabs)

-----------------------------------------------------------------------------

\* Every component keeps its types.
WellFormed ==
  \/ part = "update" /\ TypeOK
  \/ part = "send" /\ Send!TypeOK
  \/ part = "kobo" /\ Kobo!TypeOK
  \/ part = "slots" /\ Slots!TypeOK
  \/ part = "authority" /\ Authority!TypeOK
  \/ part = "inventory" /\ Inventory!TypeOK
  \/ part = "server" /\ Server!TypeOK

\* A copy sent to the Kindle has the content its token names, although the
\* book is read piece by piece while others edit it, and no presentation of
\* a book is sent twice, however sends, batches, comparisons and
\* reconnections follow one another (controller.ts, the catalog send).
SentCopiesAreRight == Send!CopyIsItsVersion /\ Send!NoDuplicateCopies

\* A book shown as present is on the Kindle as the catalog has it, unless
\* an edit was heard of, or is about to be, after the comparison read the
\* index (controller.ts #reconcileCatalogInventory).
GreenIsTrue == Send!GreenIsTrue

\* What is on the Kindle from the catalog is what the catalog had, and what
\* the catalog shows of it is so.
SentBooksAreRight == SentCopiesAreRight /\ GreenIsTrue

\* Only a complete inventory may be taken for the absence of a book: it
\* names every object that stayed where it is once, and what it says a book
\* is, by its own content or a cache of this browser or of the device, is
\* what the book is (inventory.ts:1322 "A partial hierarchy result must
\* never be interpreted as proof that a book is absent").
InventoryIsTrue ==
  part = "inventory" => Inventory!CompleteIsEverything /\ Inventory!KnownBooksAreKnown

\* No slot of the server leaks and nobody waits for a free one, through
\* lost connections, expired waits, refused and aborted answers; and SQLite
\* is closed only when no handler can use it any more (http-server.ts,
\* catalog-service.ts, main.ts).
ServerSlotsAreTrue ==
  part = "server" =>
    /\ Server!SlotsAreUsed
    /\ Server!WaitersHaveCause
    /\ Server!DatabaseOutlivesItsUsers

\* On a Kobo, a file that is not a whole book is named by the recovery
\* record until the user has inspected it, and no edition has two whole
\* copies (kobo/device.ts:342-344).
KoboFilesAreKnown == Kobo!LeftoversAreNamed /\ Kobo!OneCopyPerEdition

\* The newest generation of the cache on the Kindle that was ever loaded or
\* verified stays there until a newer one is there, and the two slots never
\* claim the same generation (docs/technical-guide.md:156 "Rotation retains
\* a previously verified slot until its replacement has been written and
\* read back exactly").
NewestSlotSurvives == Slots!NewestSlotSurvives /\ Slots!GenerationsDiffer

\* What the page presents as a live comparison names exactly the files of
\* the connected Kindle, and a comparison that authorizes writes is of the
\* inventory against which the connection itself would check a handle
\* (controller.ts, device-runtime.ts).
LiveComparisonIsTrue ==
  Authority!LiveComparisonIsTrue /\ Authority!AuthorityIsCurrent

\* What the owner decided is what happens: a Kindle file is deleted only
\* when the removal of a copy of that book under that name and size was
\* confirmed, however many connections were made, and handles renumbered,
\* since the dialog was opened (controller.ts removeCatalogBooks), and a
\* Kobo transfer reported as cancelled leaves no file (kobo/catalog-
\* session.ts:240-241).
DecisionsAreCarriedOut ==
  Authority!OnlyConfirmedCopies /\ Kobo!CancelledLeavesNothing

=============================================================================
