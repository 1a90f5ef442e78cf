----------------------------- MODULE MCSettings -----------------------------
(***************************************************************************)
(* What users set and decide outside the catalog itself: the libraries and *)
(* their folders, the key of a provider, the covers they chose, and the    *)
(* inbox of issues, in one run.  They share no state here: a behaviour is  *)
(* one of a single component, chosen at the start and named by part.       *)
(***************************************************************************)
EXTENDS LibraryRoots, TLC

CONSTANTS
  Browsers, MaxRequests, MaxProviderFaults, MaxStarts, CoverBooks, Pictures, Uploads,
  MaxCoverRevision, MaxCoverFaults, IssueBooks, Facts, MaxRows, MaxHistory, MaxIssueChanges,
  MaxDecisions, MaxIssueFaults

ASSUME ProviderBounds == {MaxRequests, MaxProviderFaults, MaxStarts} \subseteq Nat

ASSUME NoneIsNoKey == None \notin {"good", "bad", "env", "working"}

ASSUME NoneIsNoCover == None \notin CoverBooks \cup Pictures

ASSUME IssueBounds ==
  /\ MaxRows \in Nat \ {0} /\ MaxHistory \in Nat
  /\ IsFiniteSet(IssueBooks) /\ None \notin IssueBooks
  /\ Facts \subseteq [coverless : SUBSET IssueBooks, twins : SUBSET SUBSET IssueBooks]

\* What a folder may be saved with.
TwoVariants == {[options |-> "one", enabled |-> TRUE], [options |-> "other", enabled |-> FALSE]}

\* One book may have no cover, and the two may be taken for the same.
TwoIssues == [coverless : {{}, {CHOOSE b \in IssueBooks : TRUE}}, twins : {{}, {IssueBooks}}]

VARIABLES
  part,  \* the component this behaviour is of
  providerRow, providerReplays, providerTests, providerWire, providerUi, providerOp,
  providerDecided, providerRequests, providerFaults, providerStarts,
  coversFiles, coversRows, coversOver, coversRequest, coversRaced, coversLeaked, coversFaults,
  issuesFacts, issuesRows, issuesRecent, issuesTab, issuesRetired, issuesBudget

Provider == INSTANCE ProviderSettings WITH
  Tabs <- Browsers, None <- None, MaxRequests <- MaxRequests, MaxFaults <- MaxProviderFaults,
  MaxStarts <- MaxStarts, row <- providerRow, replays <- providerReplays, tests <- providerTests,
  wire <- providerWire, ui <- providerUi, op <- providerOp, decided <- providerDecided,
  requests <- providerRequests, faults <- providerFaults, starts <- providerStarts

Covers == INSTANCE CoverAssets WITH
  Books <- CoverBooks, Keys <- Pictures, Requests <- Uploads, None <- None,
  MaxRevision <- MaxCoverRevision, MaxFaults <- MaxCoverFaults, files <- coversFiles,
  rows <- coversRows, over <- coversOver, request <- coversRequest, raced <- coversRaced,
  leaked <- coversLeaked, faults <- coversFaults

Issues == INSTANCE CatalogIssues WITH
  Books <- IssueBooks, Facts <- Facts, None <- None, MaxRows <- MaxRows, MaxHistory <- MaxHistory,
  MaxChanges <- MaxIssueChanges, MaxDecisions <- MaxDecisions, MaxFaults <- MaxIssueFaults,
  facts <- issuesFacts, rows <- issuesRows, recent <- issuesRecent, tab <- issuesTab,
  retired <- issuesRetired, budget <- issuesBudget

rootsVars == <<profile, root, used, member, request, rows, indexed, scan, sent, ledger, applied, forgotten,
    writes, scans>>
providerVars == <<providerRow, providerReplays, providerTests, providerWire, providerUi, providerOp,
    providerDecided, providerRequests, providerFaults, providerStarts>>
coversVars == <<coversFiles, coversRows, coversOver, coversRequest, coversRaced, coversLeaked, coversFaults>>
issuesVars == <<issuesFacts, issuesRows, issuesRecent, issuesTab, issuesRetired, issuesBudget>>
allVars == <<part, rootsVars, providerVars, coversVars, issuesVars>>

PartsInit ==
  /\ part \in {"roots", "provider", "covers", "issues"}
  /\ Init
  /\ Provider!Init
  /\ Covers!Init
  /\ Issues!Init
  /\ part # "roots" => used = {}
  /\ part # "covers" => coversFiles = {}
  /\ part # "provider" => providerRow.key = None
  /\ part # "issues" => issuesFacts = [coverless |-> {}, twins |-> {}]

PartsNext ==
  \/ /\ part = "roots" /\ Next
     /\ UNCHANGED <<part, providerVars, coversVars, issuesVars>>
  \/ /\ part = "provider" /\ Provider!Next
     /\ UNCHANGED <<part, rootsVars, coversVars, issuesVars>>
  \/ /\ part = "covers" /\ Covers!Next
     /\ UNCHANGED <<part, rootsVars, providerVars, issuesVars>>
  \/ /\ part = "issues" /\ Issues!Next
     /\ UNCHANGED <<part, rootsVars, providerVars, coversVars>>

PartsSpec == PartsInit /\ [][PartsNext]_allVars

\* The libraries are alike, and so are the services, the browsers and the pictures
Symmetry == Permutations(Profiles) \union Permutations(Services) \union Permutations(Uploads)

-----------------------------------------------------------------------------

\* Every component keeps its types.
WellFormed ==
  \/ part = "roots" /\ TypeOK
  \/ part = "provider" /\ Provider!TypeOK
  \/ part = "covers" /\ Covers!TypeOK
  \/ part = "issues" /\ Issues!TypeOK

\* A configuration of a library that is applied leaves it with the folders
\* and options asked for and no other, although folders are named, found by
\* their path, moved and dropped in one transaction (catalog-database.ts
\* applyProfileConfiguration).  It is about configurations in the order in which
\* the browser sends them, the folders it knows before the new ones.
ConfigurationsAreAsAsked == SavedAsAsked

\* Folders stay sound through shared folders, moves, retries and scans that
\* claim with an outdated configuration: no folder is listed twice or lies in
\* another; one with no scan to come was scanned as it is configured and has no
\* rows of another path; and a save is applied once (catalog-database.ts,
\* catalog-indexer.ts, http-server.ts).
FoldersAreSound ==
  part = "roots" =>
    FoldersAreApart /\ ChangesAreScanned /\ SavesApplyOnce

\* A cover that a book names has its file, unless a store of it overlapped
\* with an unlink; a store with nothing under way holds what books name;
\* and a cover that is still named is found by who asks for it (metadata-
\* cover-store.ts, http-server.ts:1899).
CoversAreKept ==
  part = "covers" =>
    /\ Covers!NamedCoversAreThere
    /\ Covers!QuietStoreIsExact
    /\ Covers!NamedCoversAreServed

\* A key said to work was accepted by the provider, and one that was
\* removed stays removed, whatever several browsers, tests in flight, lost
\* requests and starts of the service do to it (catalog-database.ts:835
\* "must never silently reappear on a later restart").
CredentialsAreTrue ==
  part = "provider" => Provider!TestedMeansAccepted /\ Provider!RemovedStaysRemoved

\* A decision on an issue is accepted on what its user was shown, a quiet
\* inbox shows the decisions on the issues that are on it, in whichever browser
\* they were made, and there is room for a row for every issue (catalog-
\* database.ts, catalog-browser.ts).  Issues whose row was pruned as history are
\* excepted from the first two, and which issues there are the inbox need not know.
IssuesAreCurrent ==
  part = "issues" =>
    /\ Issues!ShownIsDecidedOn
    /\ Issues!QuietInboxIsFresh
    /\ Issues!RoomForEveryIssue

=============================================================================
