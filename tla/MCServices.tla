----------------------------- MODULE MCServices -----------------------------
(***************************************************************************)
(* What must eventually happen on the server and in its pages: the scanner *)
(* of a root, the page that follows the catalog, and the lookup jobs, in   *)
(* one run. They share no state here: a behaviour is one of a single       *)
(* component, chosen at the start and named by part.                       *)
(***************************************************************************)
EXTENDS CatalogScan

CONSTANTS
  PageChanges, PageFaults, PageClicks, Books, MaxAttempts, StepSize, MaxJobs, MaxClicks,
  MaxOthers, LookupFaults

\* None is neither a file that was found nor a page load.
ASSUME NoneIsApart ==
  None \notin {"file"} \cup
              [profile : {1, 2}, by : {"user", "refresh", "save"}, saw : Nat \cup {None}]

VARIABLES
  part,  \* the component this behaviour is of
  viewCatalog, viewDeleted, viewUnsent, viewAttached, viewWire, viewStream, viewHole, viewApp,
  viewListed, viewProfile, viewOnKindle, viewPage, viewStale, viewLoad, viewTimer, viewHint,
  viewRefresh, viewSeenBy, viewRetired, viewOverdue, viewMutating, viewFaults, viewClicks,
  lookupJob, lookupLatch, lookupClaims, lookupLost, lookupSpilled, lookupPage, lookupBusy,
  lookupRun, lookupStrays, lookupOrders, lookupLoad, lookupWire, lookupLeft, lookupJobs,
  lookupClicks, lookupOthers, lookupFaults

View == INSTANCE CatalogView WITH
  MaxChanges <- PageChanges, MaxFaults <- PageFaults, MaxClicks <- PageClicks, None <- None,
  catalog <- viewCatalog, deleted <- viewDeleted, unsent <- viewUnsent, attached <- viewAttached,
  wire <- viewWire, stream <- viewStream, hole <- viewHole, app <- viewApp, listed <- viewListed,
  profile <- viewProfile, onKindle <- viewOnKindle, page <- viewPage, stale <- viewStale,
  load <- viewLoad, timer <- viewTimer, hint <- viewHint, refresh <- viewRefresh,
  seenBy <- viewSeenBy, retired <- viewRetired, overdue <- viewOverdue, mutating <- viewMutating,
  faults <- viewFaults, clicks <- viewClicks

Lookup == INSTANCE LookupJobs WITH
  Books <- Books, MaxAttempts <- MaxAttempts, StepSize <- StepSize, MaxJobs <- MaxJobs,
  MaxClicks <- MaxClicks, MaxOthers <- MaxOthers, MaxFaults <- LookupFaults, None <- None,
  job <- lookupJob, latch <- lookupLatch, claims <- lookupClaims, lost <- lookupLost,
  spilled <- lookupSpilled, page <- lookupPage, busy <- lookupBusy, run <- lookupRun,
  strays <- lookupStrays, orders <- lookupOrders, load <- lookupLoad, wire <- lookupWire,
  left <- lookupLeft, jobs <- lookupJobs, clicks <- lookupClicks, others <- lookupOthers,
  faults <- lookupFaults

scanVars == <<file, mount, path, enabled, req, row, rest, streak, up, boot, timer, scan, rerun, aborted,
    watching, dirty, events, noise, faults, unwatched, failed>>
viewVars == <<viewCatalog, viewDeleted, viewUnsent, viewAttached, viewWire, viewStream, viewHole, viewApp,
    viewListed, viewProfile, viewOnKindle, viewPage, viewStale, viewLoad, viewTimer, viewHint,
    viewRefresh, viewSeenBy, viewRetired, viewOverdue, viewMutating, viewFaults, viewClicks>>
lookupVars == <<lookupJob, lookupLatch, lookupClaims, lookupLost, lookupSpilled, lookupPage, lookupBusy,
    lookupRun, lookupStrays, lookupOrders, lookupLoad, lookupWire, lookupLeft, lookupJobs,
    lookupClicks, lookupOthers, lookupFaults>>
allVars == <<part, scanVars, viewVars, lookupVars>>

PartsInit ==
  /\ part \in {"scan", "view", "lookup"}
  /\ Init
  /\ View!Init
  /\ Lookup!Init

PartsNext ==
  \/ /\ part = "scan" /\ Next
     /\ UNCHANGED <<part, viewVars, lookupVars>>
  \/ /\ part = "view" /\ View!Next
     /\ UNCHANGED <<part, scanVars, lookupVars>>
  \/ /\ part = "lookup" /\ Lookup!Next
     /\ UNCHANGED <<part, scanVars, viewVars>>

PartsSpec == PartsInit /\ [][PartsNext]_allVars

\* The fairness of each component, as its own specification states it, for the
\* behaviours that are of that component
PartsFairSpec ==
  /\ PartsSpec
  /\ SF_viewVars(part = "view" /\ View!Deliver)
  /\ WF_scanVars(part = "scan" /\ WatchEvent)
  /\ WF_scanVars(part = "scan" /\ QuietWindowEnds)
  /\ WF_scanVars(part = "scan" /\ ReconciliationTick)
  /\ WF_scanVars(part = "scan" /\ DeepTick)
  /\ WF_scanVars(part = "scan" /\ ScanGoesOn)
  /\ WF_scanVars(part = "scan" /\ StartGoesOn)
  /\ WF_viewVars(part = "view" /\ View!StartAnswered)
  /\ WF_viewVars(part = "view" /\ View!Publish)
  /\ WF_viewVars(part = "view" /\ View!OpenStream)
  /\ WF_viewVars(part = "view" /\ View!LoadPage)
  /\ WF_viewVars(part = "view" /\ View!TimerFires)
  /\ WF_viewVars(part = "view" /\ View!Refresh)
  /\ WF_viewVars(part = "view" /\ View!Save)
  /\ WF_viewVars(part = "view" /\ View!LeaseEnds)
  /\ WF_lookupVars(part = "lookup" /\ Lookup!Progress)

-----------------------------------------------------------------------------

\* With an open stream and nothing under way, a page that is not marked
\* stale shows the active profile as the catalog has it, through aborted
\* loads, overtaking events and lost connections (catalog-browser.ts, the
\* live refresh).  Exempt is the page of a load that had been answered when
\* a refresh failed, for showing it takes off the mark of the failure.
QuietPageIsFresh == View!QuietPageIsFresh

\* When the user stays on a page it catches up with the catalog for good:
\* lost connections, failed refreshes and events that were never sent are
\* made up for by the hint of the next connection (event-hub.ts, catalog-
\* browser.ts).
PageCatchesUp == part = "view" => View!PageCatchesUp

\* An entry of a lookup job that says "searching" has its search, the one
\* that claimed it last, whatever pauses, steps of two browsers, deletions
\* and restarts came between ("Pause/cancel wins over a late provider
\* response", catalog-database.ts:4161).
SearchesMatchEntries == Lookup!SearchesMatchEntries

\* The page does not stay busy with its lookup job, unless it was left
\* during a run (catalog-browser.ts runMetadataLookupJobStep).
BusyEnds == part = "lookup" => Lookup!BusyEnds

\* A root that is enabled and reachable for good ends up indexed as it is,
\* through whatever was interrupted before (catalog-indexer.ts).
FileIsCatalogued == part = "scan" => CatalogConverges

=============================================================================
