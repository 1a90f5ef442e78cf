------------------------- MODULE MCServices_proofs --------------------------
(***************************************************************************)
(* Proofs about MCServices: for any number of changes, faults, clicks,     *)
(* books and jobs, a quiet page shows the catalog, unless its answer came  *)
(* before a failed refresh; the searches of a lookup job are those of its  *)
(* entries; and a root with rows of another path is to be scanned again.   *)
(*                                                                         *)
(* Each part has an inductive invariant of its own over its own variables; *)
(* a step of another part leaves them unchanged.                           *)
(***************************************************************************)
EXTENDS MCServices, TLAPS

-----------------------------------------------------------------------------
(***************************************************************************)
(* The page that follows the catalog.                                      *)
(*                                                                         *)
(* A change of the catalog that the page does not show leaves a trace      *)
(* until a refresh has read it: the event is unsent, under way or noted,   *)
(* or the stream will be connected anew, which gives a hint of its own.    *)
(***************************************************************************)

\* A refresh that has not yet read what the page will show.
Refreshing == viewRefresh = "profiles" \/ (viewRefresh = "folders" /\ viewSeenBy = viewProfile)

\* A refresh that will show the catalog as it is now is under way, or will be.
Coming ==
  \/ viewUnsent \/ ~viewAttached \/ viewHole \/ viewStream # "open" \/ viewWire \/ viewHint
  \/ ~viewRetired /\ Refreshing

\* A refresh that is going to end without a look at the page.
Blind ==
  /\ viewRefresh = "folders" /\ ~viewRetired /\ viewSeenBy # viewProfile
  /\ ~(viewDeleted /\ viewSeenBy = 1)

PageIsRight == viewPage.profile = viewProfile /\ (viewPage.catalog = viewCatalog \/ Coming)
LoadIsRight == viewLoad.saw # None => viewLoad.saw = viewCatalog \/ Coming

ViewTypes ==
  /\ viewCatalog \in Nat /\ viewProfile \in {1, 2} /\ viewSeenBy \in {0, 1, 2}
  /\ viewPage \in [profile : {1, 2}, catalog : Nat] \cup {None}
  /\ viewLoad \in [profile : {1, 2}, by : {"user", "refresh", "save"},
                   saw : Nat \cup {None}] \cup {None}

\* The inductive invariant: what a page shows is right, or it is known that it
\* may not be, or its replacement is under way.  A load is always one of the
\* profile shown, a refresh looks at the profile it read last, and a refresh
\* that will not load the page leaves none behind that needs it.
ViewInv ==
  /\ ViewTypes
  /\ viewLoad # None => viewLoad.profile = viewProfile
  /\ viewSeenBy \in {0, viewProfile} \/ (viewDeleted /\ viewSeenBy = 1)
  /\ viewMutating # "no" => viewRefresh = "idle" \/ viewRetired
  /\ (viewApp = "loading" /\ viewRefresh = "folders" /\ ~viewRetired /\ viewSeenBy = 0) =>
       viewPage = None /\ viewLoad = None
  /\ viewPage # None => PageIsRight \/ viewOverdue \/ viewStale \/ viewOnKindle \/ viewLoad # None
  /\ viewLoad # None => LoadIsRight \/ viewOverdue
  /\ Blind => (viewPage # None => PageIsRight) /\ (viewLoad # None => LoadIsRight)



LEMMA ViewStart ==
  ASSUME View!Init
  PROVE  ViewInv
  BY NoneIsApart DEF View!Init, ViewInv, ViewTypes, Coming, Refreshing, Blind, PageIsRight,
     LoadIsRight

LEMMA ViewStep ==
  ASSUME ViewInv, View!Next
  PROVE  ViewInv'
  <1> USE NoneIsApart DEF ViewInv, ViewTypes, Coming, Refreshing, Blind, PageIsRight,
      LoadIsRight, View!server, View!channel, View!shown, View!events, View!bounds,
        View!NewLoad, View!LoadIs, View!DrainWhen, View!Fault, View!Click, View!Profiles
  <1>1. CASE View!StartAnswered
    BY <1>1 DEF View!StartAnswered
  <1>2. CASE View!Publish
    <2>1. /\ (viewWire \/ (viewAttached /\ ~viewHole)) /\ viewAttached' => viewWire'
          /\ viewAttached' => viewAttached
          /\ UNCHANGED <<viewCatalog, viewDeleted, viewStream, viewHole, View!shown, viewLoad,
                         View!events, viewMutating>>
      <3>1. CASE viewWire' = (viewWire \/ (viewAttached /\ ~viewHole)) /\ viewAttached' = viewAttached
        BY <1>2, <3>1, Zenon DEF View!Publish
      <3>2. CASE viewAttached' = FALSE
        BY <1>2, <3>2, Zenon DEF View!Publish
      <3> QED
        BY <1>2, <3>1, <3>2, Zenon DEF View!Publish
    <2> QED
      BY <2>1
  <1>3. CASE View!Connect
    BY <1>3 DEF View!Connect
  <1>4. CASE View!Attach
    BY <1>4 DEF View!Attach
  <1>5. CASE View!LeaseEnds
    BY <1>5 DEF View!LeaseEnds
  <1>6. CASE View!Deliver
    BY <1>6 DEF View!Deliver
  <1>7. CASE View!Answer
    BY <1>7 DEF View!Answer
  <1>8. CASE View!ShowPage
    BY <1>8 DEF View!ShowPage
  <1>9. CASE View!TimerFires
    BY <1>9 DEF View!TimerFires
  <1>10. CASE View!ProfilesRead
    BY <1>10 DEF View!ProfilesRead
  <1>11. CASE View!FoldersRead
    BY <1>11 DEF View!FoldersRead
  <1>12. CASE View!PageRead
    BY <1>12 DEF View!PageRead
  <1>13. CASE View!RefreshEnds
    BY <1>13 DEF View!RefreshEnds
  <1>14. CASE View!Saved
    BY <1>14 DEF View!Saved
  <1>15. CASE View!FinishSave
    BY <1>15 DEF View!FinishSave
  <1>16. CASE View!StartFails
    BY <1>16 DEF View!StartFails
  <1>17. CASE View!Retry
    BY <1>17 DEF View!Retry
  <1>18. CASE View!Commit
    <2>1. viewDeleted => viewDeleted'
      <3>1. viewDeleted' \in {viewDeleted, TRUE}
        BY <1>18 DEF View!Commit
      <3> QED
        BY <3>1, Zenon
    <2>2. /\ viewCatalog' = viewCatalog + 1 /\ viewUnsent'
          /\ UNCHANGED <<viewAttached, View!channel, View!shown, viewLoad, View!events,
                         viewMutating>>
      BY <1>18, Zenon DEF View!Commit
    <2> QED
      BY <2>1, <2>2
  <1>19. CASE View!Restart
    BY <1>19 DEF View!Restart
  <1>20. CASE View!StreamFails
    BY <1>20 DEF View!StreamFails
  <1>21. CASE View!BlackHole
    BY <1>21 DEF View!BlackHole
  <1>22. CASE View!LoadFails
    BY <1>22 DEF View!LoadFails
  <1>23. CASE View!TurnPage
    BY <1>23 DEF View!TurnPage
  <1>24. CASE View!SelectProfile
    BY <1>24 DEF View!SelectProfile
  <1>25. CASE View!SetView
    <2>1. viewOnKindle \/ viewOnKindle'
      BY <1>25, Zenon DEF View!SetView
    <2>2. /\ viewMutating = "no"
          /\ viewLoad' = IF viewOnKindle THEN View!NewLoad(viewProfile, "user") ELSE None
          /\ viewOverdue => viewOnKindle \/ viewOverdue'
          /\ UNCHANGED <<View!server, View!channel, viewApp, viewProfile, viewPage, viewStale,
                         viewHint, viewRefresh, viewSeenBy, viewRetired, viewMutating>>
          /\ viewApp = "ready"
      BY <1>25, Zenon DEF View!SetView
    <2> QED
      BY <2>1, <2>2
  <1>26. CASE View!RefreshFails
    <2>1. /\ viewOverdue => viewOverdue'
          /\ viewLoad # None /\ viewLoad.saw # None => viewOverdue'
          /\ viewStale => viewStale'
          /\ viewRefresh = "profiles" \/ viewSeenBy = viewProfile => viewStale'
      BY <1>26, Zenon DEF View!RefreshFails
    <2>2. /\ viewRefresh \in {"profiles", "folders", "hook"} /\ ~viewRetired
          /\ View!DrainWhen(viewHint /\ viewMutating = "no")
          /\ UNCHANGED <<View!server, View!channel, viewApp, viewListed, viewProfile, viewOnKindle,
                         viewPage, viewLoad, viewTimer, viewSeenBy, viewMutating>>
      BY <1>26, Zenon DEF View!RefreshFails
    <2> QED
      BY <2>1, <2>2
  <1>27. CASE View!BeginSave
    BY <1>27 DEF View!BeginSave
  <1> QED
    BY <1>1, <1>2, <1>3, <1>4, <1>5, <1>6, <1>7, <1>8, <1>9, <1>10, <1>11, <1>12, <1>13, <1>14,
       <1>15, <1>16, <1>17, <1>18, <1>19, <1>20, <1>21, <1>22, <1>23, <1>24, <1>25, <1>26,
              <1>27 DEF View!Next, View!Work

LEMMA ViewStutter ==
  ASSUME ViewInv, UNCHANGED viewVars
  PROVE  ViewInv'
  BY DEF viewVars, ViewInv, ViewTypes, Coming, Refreshing, Blind, PageIsRight, LoadIsRight

-----------------------------------------------------------------------------
(***************************************************************************)
(* The scans of a root.                                                    *)
(*                                                                         *)
(* Only the scan that holds the fence writes, and moving the root takes    *)
(* the fence away and deletes its rows.                                    *)
(***************************************************************************)

ScanTypes ==
  /\ file \in [stat : Nat, sample : Nat, full : Nat] \cup {None}
  /\ path \in {1, 2}
  /\ DOMAIN req = {"pending", "reason", "owner"}
  /\ row # None => /\ DOMAIN row = {"stat", "sample", "full", "available", "error", "path"}
                   /\ row.path \in {1, 2}
  /\ scan # None =>
       /\ DOMAIN scan = {"at", "path", "reason", "dirty", "seen", "found"}
       /\ scan.path \in {1, 2}
       /\ scan.at \in {"slot", "claimed", "listed"} =>
            scan.found \in [stat : Nat, sample : Nat, full : Nat] \cup {None}
  /\ streak \in {0, 1}
\* The inductive invariant: a scan that has written its row and still has the
\* fence wrote it under its own path, and a root that was found unavailable has
\* had exactly one bad generation.
ScanInv ==
  /\ ScanTypes
  /\ RowsAreOfThePath
  /\ (Fenced /\ scan # None) =>
       (scan.at = "indexed" /\ scan.found # None /\ row # None => row.path = scan.path)
  /\ streak # 0 => failed = 1


LEMMA ScanStart ==
  ASSUME Init
  PROVE  ScanInv
  BY NoneIsApart DEF Init, ScanInv, ScanTypes, NoRequest, RowsAreOfThePath, Fenced

\* Requests come, scans start and end, and nothing is written.
LEMMA NothingWritten ==
  ASSUME ScanInv, NEW reason,
         req' = req \/ req' = Request(reason),
         scan' = scan \/ scan' = None \/ scan' = NewScan,
         UNCHANGED <<file, path, row, streak, failed>>
  PROVE  ScanInv'
  <1>1. CASE scan' = scan
    BY <1>1 DEF ScanInv, ScanTypes, RowsAreOfThePath, Fenced, Request
  <1>2. CASE scan' = None
    BY <1>2 DEF ScanInv, ScanTypes, RowsAreOfThePath, Fenced, Request
  <1>3. CASE scan' = NewScan
    <2>1. /\ DOMAIN scan' = {"at", "path", "reason", "dirty", "seen", "found"}
          /\ scan'.path = path /\ scan'.at = "slot" /\ scan'.found = None
      BY <1>3 DEF NewScan
    <2> QED
      BY <2>1 DEF ScanInv, ScanTypes, RowsAreOfThePath, Fenced, Request
  <1> QED
    BY <1>1, <1>2, <1>3

\* The root moves: its rows go and the running scan is fenced off.
LEMMA Moved ==
  ASSUME ScanInv, MovedRoot, UNCHANGED <<file, scan, streak, failed>>
  PROVE  ScanInv'
  BY DEF ScanInv, ScanTypes, RowsAreOfThePath, Fenced, Request, MovedRoot

\* A generation ends well or badly.
LEMMA Counted ==
  ASSUME ScanInv, scan' = None \/ scan' = NewScan,
         UNCHANGED <<file, path>>,
         DOMAIN req' = {"pending", "reason", "owner"},
         row' # None => /\ DOMAIN row' = DOMAIN row /\ row # None
                        /\ row'.path = row.path
                        /\ row'.path # path => req'.pending,
         streak' \in {0, 1}, streak' # 0 => failed' = 1
  PROVE  ScanInv'
  <1>1. scan' # None => /\ DOMAIN scan' = {"at", "path", "reason", "dirty", "seen", "found"}
                        /\ scan'.path = path /\ scan'.at = "slot" /\ scan'.found = None
    BY DEF NewScan
  <1> QED
    BY <1>1 DEF ScanInv, ScanTypes, RowsAreOfThePath

LEMMA SupersededKeeps ==
  ASSUME ScanInv, Superseded
  PROVE  ScanInv'
  BY NothingWritten DEF Superseded, EndScan, directory, database

LEMMA UnavailableKeeps ==
  ASSUME ScanInv, RootUnavailable, EndScan(FALSE, watching, dirty), UNCHANGED <<directory, req>>
  PROVE  ScanInv'
  <1>1. streak' = 1 /\ failed' = 1 /\ (scan' = None \/ scan' = NewScan)
    BY DEF RootUnavailable, EndScan
  <1>2. row' = row \/ row' = IF row = None THEN None ELSE [row EXCEPT !.available = FALSE]
    BY DEF RootUnavailable
  <1>3. row' # None => DOMAIN row' = DOMAIN row /\ row # None /\ row'.path = row.path
    BY <1>2 DEF ScanInv, ScanTypes
  <1> QED
    BY <1>1, <1>3, Counted DEF ScanInv, ScanTypes, RowsAreOfThePath, directory

\* The followed file is written under the fence, under the path of the scan.
LEMMA IndexedKeeps ==
  ASSUME ScanInv, Fenced, scan # None, scan.at = "listed", NEW r, Indexed(r),
         scan.found # None /\ r # None =>
           /\ DOMAIN r = {"stat", "sample", "full", "available", "error", "path"}
           /\ r.path = scan.path,
         scan.found = None => r = row
  PROVE  ScanInv'
  <1>1. /\ row' = r /\ UNCHANGED <<file, path, req, streak, failed>>
        /\ DOMAIN scan' = {"at", "path", "reason", "dirty", "seen", "found"}
        /\ scan'.at = "indexed" /\ scan'.path = scan.path
        /\ scan'.found = None <=> scan.found = None
    BY NoneIsApart DEF Indexed, directory, ScanInv, ScanTypes
  <1> QED
    BY <1>1 DEF ScanInv, ScanTypes, RowsAreOfThePath, Fenced

LEMMA IndexCandidateKeeps ==
  ASSUME ScanInv, IndexCandidate
  PROVE  ScanInv'
  <1>1. CASE Superseded
    BY <1>1, SupersededKeeps
  <1>2. CASE Retry
    BY <1>2, NothingWritten DEF Retry, EndScan, directory, database
  <1>3. scan # None /\ scan.at = "listed"
    BY DEF IndexCandidate
  <1>4. CASE Fenced /\ scan.found = None /\ Indexed(row)
    BY <1>3, <1>4, IndexedKeeps
  <1>5. CASE Fenced /\ scan.found # None /\ Reusable /\ Indexed([row EXCEPT !.available = TRUE])
    <2>1. PICK r : r = [row EXCEPT !.available = TRUE]
      OBVIOUS
    <2>2. /\ DOMAIN r = {"stat", "sample", "full", "available", "error", "path"}
          /\ r.path = scan.path
      BY <1>5, <2>1 DEF Reusable, ScanInv, ScanTypes
    <2> QED
      BY <1>3, <1>5, <2>1, <2>2, IndexedKeeps
  <1>6. CASE Fenced /\ scan.found # None /\ Indexed(RowOf(file))
    <2>1. PICK r : r = RowOf(file)
      OBVIOUS
    <2>2. /\ DOMAIN r = {"stat", "sample", "full", "available", "error", "path"}
          /\ r.path = scan.path
      BY <2>1 DEF RowOf
    <2> QED
      BY <1>3, <1>6, <2>1, <2>2, IndexedKeeps
  <1>7. CASE /\ Fenced /\ scan.found # None
             /\ Indexed([RowOf(scan.found) EXCEPT !.available = FALSE, !.error = TRUE])
    <2>1. PICK r : r = [RowOf(scan.found) EXCEPT !.available = FALSE, !.error = TRUE]
      OBVIOUS
    <2>2. /\ DOMAIN r = {"stat", "sample", "full", "available", "error", "path"}
          /\ r.path = scan.path
      BY <2>1 DEF RowOf
    <2> QED
      BY <1>3, <1>7, <2>1, <2>2, IndexedKeeps
  <1> QED
    BY <1>1, <1>2, <1>4, <1>5, <1>6, <1>7 DEF IndexCandidate, Unrelated, Sampled

LEMMA FinishScanKeeps ==
  ASSUME ScanInv, FinishScan
  PROVE  ScanInv'
  <1>1. CASE Superseded
    BY <1>1, SupersededKeeps
  <1>2. scan # None /\ scan.at = "indexed"
    BY DEF FinishScan
  <1>3. CASE /\ streak' = 1 /\ failed' = 1 /\ EndScan(FALSE, watching, dirty)
             /\ UNCHANGED <<directory, req, row>>
    BY <1>3, Counted DEF EndScan, directory, ScanInv, ScanTypes, RowsAreOfThePath
  <1>4. CASE /\ Fenced /\ CompleteRows /\ EnqueueDurable("configuration", FALSE)
             /\ EndScan(FALSE, watching, dirty) /\ UNCHANGED directory
    <2>1. req'.pending /\ DOMAIN req' = {"pending", "reason", "owner"}
      BY <1>4 DEF EnqueueDurable, Request, Fenced, ScanInv, ScanTypes
    <2> QED
      BY <1>4, <2>1, Counted DEF EndScan, CompleteRows, directory
  <1>5. CASE /\ Fenced /\ SameConfiguration /\ CompleteRows /\ Acknowledge /\ UNCHANGED directory
             /\ scan' = None \/ scan' = NewScan
    <2>1. DOMAIN req' = {"pending", "reason", "owner"}
      BY <1>5 DEF Acknowledge, NoRequest
    <2>2. row' # None => row' = row /\ row.path = path
      BY <1>2, <1>5 DEF CompleteRows, SameConfiguration, ScanInv
    <2> QED
      BY <1>5, <2>1, <2>2, Counted DEF CompleteRows, directory
  <1> QED
    BY <1>1, <1>3, <1>4, <1>5 DEF FinishScan, EndScan

LEMMA ClaimKeeps ==
  ASSUME ScanInv, Claim
  PROVE  ScanInv'
  <1>1. CASE req.pending
    <2>1. /\ DOMAIN req' = {"pending", "reason", "owner"} /\ req'.pending
          /\ scan # None
          /\ DOMAIN scan' = {"at", "path", "reason", "dirty", "seen", "found"}
          /\ scan.at = "slot" /\ scan'.at = "claimed" /\ scan'.path = scan.path
          /\ scan'.found = scan.found
          /\ UNCHANGED <<file, path, row, streak, failed>>
      BY <1>1, NoneIsApart DEF Claim, ScanInv, ScanTypes, directory, history
    <2> QED
      BY <2>1 DEF ScanInv, ScanTypes, RowsAreOfThePath
  <1>2. CASE ~req.pending
    BY <1>2, NothingWritten DEF Claim, EndScan, directory, history
  <1> QED
    BY <1>1, <1>2

LEMMA EnumerateKeeps ==
  ASSUME ScanInv, Enumerate
  PROVE  ScanInv'
  <1>1. CASE Superseded
    BY <1>1, SupersededKeeps
  <1>2. CASE RootUnavailable /\ EndScan(FALSE, watching, dirty) /\ UNCHANGED <<directory, req>>
    BY <1>2, UnavailableKeeps
  <1>3. CASE /\ scan # None
             /\ scan' = [scan EXCEPT !.at = "listed", !.seen = mount,
                           !.found = IF mount = "ok" THEN file ELSE None]
             /\ UNCHANGED <<directory, database, history>>
    <2>1. /\ DOMAIN scan' = {"at", "path", "reason", "dirty", "seen", "found"}
          /\ scan'.at = "listed" /\ scan'.path = scan.path
          /\ scan'.found = file \/ scan'.found = None
      BY <1>3, NoneIsApart DEF ScanInv, ScanTypes
    <2> QED
      BY <1>3, <2>1 DEF ScanInv, ScanTypes, RowsAreOfThePath, Fenced, directory, database, history
  <1> QED
    BY <1>1, <1>2, <1>3 DEF Enumerate

LEMMA FileChangesKeep ==
  ASSUME ScanInv, ChangeFile \/ DeleteFile
  PROVE  ScanInv'
  <1>1. file' \in [stat : Nat, sample : Nat, full : Nat] \cup {None}
    BY DEF ChangeFile, DeleteFile, NewVersion, ScanInv, ScanTypes
  <1>2. UNCHANGED <<path, req, row, scan, streak, failed>>
    BY DEF ChangeFile, DeleteFile, database
  <1> QED
    BY <1>1, <1>2 DEF ScanInv, ScanTypes, RowsAreOfThePath, Fenced

LEMMA GoDownKeeps ==
  ASSUME ScanInv, GoDown
  PROVE  ScanInv'
  <1>1. /\ DOMAIN req' = {"pending", "reason", "owner"} /\ req'.pending = req.pending
        /\ scan' = None /\ UNCHANGED <<file, path, row, streak, failed>>
    BY DEF GoDown, ScanInv, ScanTypes, directory
  <1> QED
    BY <1>1 DEF ScanInv, ScanTypes, RowsAreOfThePath

LEMMA OtherServiceKeeps ==
  ASSUME ScanInv, OtherServiceClaims \/ OtherServiceFinishes
  PROVE  ScanInv'
  <1>1. CASE OtherServiceClaims
    <2>1. /\ DOMAIN req' = {"pending", "reason", "owner"} /\ req'.pending = req.pending
          /\ req'.owner = "other"
          /\ UNCHANGED <<file, path, row, scan, streak, failed>>
      BY <1>1 DEF OtherServiceClaims, ScanInv, ScanTypes, directory
    <2> QED
      BY <2>1 DEF ScanInv, ScanTypes, RowsAreOfThePath, Fenced
  <1>2. CASE OtherServiceFinishes
    <2>1. /\ DOMAIN req' = {"pending", "reason", "owner"} /\ ~req'.pending
          /\ row' # None => /\ DOMAIN row' = {"stat", "sample", "full", "available", "error",
                                              "path"}
                            /\ row'.path = path
          /\ streak' = 0
          /\ UNCHANGED <<file, path, scan>>
      BY <1>2 DEF OtherServiceFinishes, NoRequest, directory
    <2> QED
      BY <2>1 DEF ScanInv, ScanTypes, RowsAreOfThePath, Fenced
  <1> QED
    BY <1>1, <1>2

LEMMA ScanStep ==
  ASSUME ScanInv, Next
  PROVE  ScanInv'
  <1> USE NothingWritten DEF directory, database, hints, history
  <1>1. CASE WatchEvent
    BY <1>1 DEF WatchEvent, EnqueueDurable
  <1>2. CASE ReconciliationTick
    BY <1>2 DEF ReconciliationTick, EnqueueDurable
  <1>3. CASE DeepTick
    BY <1>3 DEF DeepTick, EnqueueDurable
  <1>4. CASE QuietWindowEnds
    BY <1>4 DEF QuietWindowEnds, StartOrRerun
  <1>5. CASE Claim \/ Enumerate \/ IndexCandidate \/ FinishScan
    BY <1>5, ClaimKeeps, EnumerateKeeps, IndexCandidateKeeps, FinishScanKeeps
  <1>6. CASE AbortedScanEnds
    BY <1>6 DEF AbortedScanEnds, EndScan
  <1>7. CASE Start
    BY <1>7 DEF Start
  <1>8. CASE ContinueStart
    BY <1>8 DEF ContinueStart
  <1>9. CASE ChangeFile \/ DeleteFile
    BY <1>9, FileChangesKeep
  <1>10. CASE OtherFileChanges
    BY <1>10 DEF OtherFileChanges
  <1>11. CASE MountChanges
    BY <1>11 DEF MountChanges
  <1>12. CASE RequestRescan
    BY <1>12 DEF RequestRescan, EnqueueDurable
  <1>13. CASE MoveRoot
    BY <1>13, Moved DEF MoveRoot
  <1>14. CASE OtherServiceMovesRoot
    BY <1>14, Moved DEF OtherServiceMovesRoot
  <1>15. CASE DisableRoot
    BY <1>15 DEF DisableRoot
  <1>16. CASE EnableRoot
    BY <1>16 DEF EnableRoot
  <1>17. CASE ScanFails
    BY <1>17 DEF ScanFails, EndScan
  <1>18. CASE DeadlineExpires
    BY <1>18 DEF DeadlineExpires
  <1>19. CASE GoDown
    BY <1>19, GoDownKeeps
  <1>20. CASE OtherServiceClaims \/ OtherServiceFinishes
    BY <1>20, OtherServiceKeeps
  <1> QED
    BY <1>1, <1>2, <1>3, <1>4, <1>5, <1>6, <1>7, <1>8, <1>9, <1>10, <1>11, <1>12, <1>13, <1>14,
       <1>15, <1>16, <1>17, <1>18, <1>19, <1>20 DEF Next, Work, Environment

\* One bad generation changes no row.
LEMMA LossConfirmed ==
  ASSUME ScanInv, Next, rest = "available", rest' # "available", path' = path
  PROVE  failed = 1
  <1> USE DEF ScanInv, ScanTypes, directory, database
  <1>1. CASE WatchEvent
    BY <1>1 DEF WatchEvent
  <1>2. CASE ReconciliationTick
    BY <1>2 DEF ReconciliationTick
  <1>3. CASE DeepTick
    BY <1>3 DEF DeepTick
  <1>4. CASE QuietWindowEnds
    BY <1>4 DEF QuietWindowEnds, StartOrRerun
  <1>5. CASE Claim
    BY <1>5 DEF Claim
  <1>6. CASE Enumerate
    BY <1>6 DEF Enumerate, Superseded, RootUnavailable, AvailableRows
  <1>7. CASE IndexCandidate
    BY <1>7 DEF IndexCandidate, Superseded, Indexed, Retry, RowOf, Reusable, Unrelated, Sampled,
       Unchanged
  <1>8. CASE FinishScan
    BY <1>8 DEF FinishScan, Superseded, CompleteRows, Acknowledge, SameConfiguration,
       Unconfirmed, AvailableRows
  <1>9. CASE AbortedScanEnds
    BY <1>9 DEF AbortedScanEnds
  <1>10. CASE Start
    BY <1>10 DEF Start
  <1>11. CASE ContinueStart
    BY <1>11 DEF ContinueStart
  <1>12. CASE ChangeFile
    BY <1>12 DEF ChangeFile, NewVersion
  <1>13. CASE DeleteFile
    BY <1>13 DEF DeleteFile
  <1>14. CASE OtherFileChanges
    BY <1>14 DEF OtherFileChanges
  <1>15. CASE MountChanges
    BY <1>15 DEF MountChanges
  <1>16. CASE RequestRescan
    BY <1>16 DEF RequestRescan
  <1>17. CASE MoveRoot
    BY <1>17 DEF MoveRoot, MovedRoot
  <1>18. CASE OtherServiceMovesRoot
    BY <1>18 DEF OtherServiceMovesRoot, MovedRoot
  <1>19. CASE DisableRoot
    BY <1>19 DEF DisableRoot
  <1>20. CASE EnableRoot
    BY <1>20 DEF EnableRoot
  <1>21. CASE ScanFails
    BY <1>21 DEF ScanFails, Claimed
  <1>22. CASE DeadlineExpires
    BY <1>22 DEF DeadlineExpires, Claimed
  <1>23. CASE GoDown
    BY <1>23 DEF GoDown
  <1>24. CASE OtherServiceClaims
    BY <1>24 DEF OtherServiceClaims
  <1>25. CASE OtherServiceFinishes
    BY <1>25 DEF OtherServiceFinishes
  <1> QED
    BY <1>1, <1>2, <1>3, <1>4, <1>5, <1>6, <1>7, <1>8, <1>9, <1>10, <1>11, <1>12, <1>13, <1>14,
       <1>15, <1>16, <1>17, <1>18, <1>19, <1>20, <1>21, <1>22, <1>23, <1>24, <1>25 DEF Next,
              Work, Environment

LEMMA ScanStutter ==
  ASSUME ScanInv, UNCHANGED vars
  PROVE  ScanInv'
  BY DEF vars, ScanInv, ScanTypes, RowsAreOfThePath, Fenced

-----------------------------------------------------------------------------
(***************************************************************************)
(* The lookup jobs.                                                        *)
(***************************************************************************)

Statuses == {"queued", "running", "paused", "completed", "cancelled"}
EntryStatuses == {"pending", "searching", "ready", "no-results", "failed", "accepted",
                  "cancelled"}
Jobs == [id : Nat, status : Statuses, rev : Nat, entries : [Books -> EntryStatuses],
         nth : [Books -> Nat]]
Searches == [job : Nat, book : Books, nth : Nat, attempt : Nat]

\* Only a running job has entries that are searched.
JobIsSound(j) ==
  j \in Jobs /\ (j.status = "running" \/ \A b \in Books : j.entries[b] # "searching")

\* A step awaits every search there is, unless one was rejected before its end.
LookupInv ==
  /\ lookupJob # None => JobIsSound(lookupJob)
  /\ lookupClaims \subseteq Searches /\ lookupJobs \in Nat
  /\ \A o \in lookupOrders : "what" \in DOMAIN o /\ o.what \in {"create"} \cup Lookup!Controls
  /\ ~lookupSpilled => lookupLatch = lookupClaims
  /\ SearchesMatchEntries

-----------------------------------------------------------------------------
(* What the operations on a job return. *)

LEMMA WithEntriesIs ==
  ASSUME NEW j, j \in Jobs, NEW set, NEW status \in EntryStatuses,
         NEW w, w = Lookup!WithEntries(j, set, status)
  PROVE  /\ w \in Jobs /\ w.id = j.id /\ w.status = j.status /\ w.nth = j.nth
         /\ \A b \in Books : w.entries[b] = IF b \in set THEN status ELSE j.entries[b]
  <1>1. PICK e : e = [b \in Books |-> IF b \in set THEN status ELSE j.entries[b]]
    OBVIOUS
  <1>2. e \in [Books -> EntryStatuses]
    BY <1>1 DEF Jobs
  <1>3. w = [j EXCEPT !.entries = e]
    BY <1>1 DEF Lookup!WithEntries
  <1>4. w \in Jobs /\ w.id = j.id /\ w.status = j.status /\ w.nth = j.nth /\ w.entries = e
    BY <1>2, <1>3 DEF Jobs
  <1> QED
    BY <1>1, <1>4

Marked(j, status) == [j EXCEPT !.status = status, !.rev = @ + 1]

LEMMA MarkedIs ==
  ASSUME NEW j, j \in Jobs, NEW status \in Statuses,
         NEW m, m = Marked(j, status)
  PROVE  m \in Jobs /\ m.id = j.id /\ m.status = status /\ m.entries = j.entries /\ m.nth = j.nth
  <1>1. PICK n \in Nat : n = j.rev + 1
    BY DEF Jobs
  <1>2. m = [j EXCEPT !.status = status, !.rev = n]
    BY <1>1 DEF Marked
  <1> QED
    BY <1>2 DEF Jobs

LEMMA FinalizeIs ==
  ASSUME NEW j, JobIsSound(j)
  PROVE  /\ JobIsSound(Lookup!Finalize(j))
         /\ Lookup!Finalize(j).id = j.id
         /\ Lookup!Finalize(j).entries = j.entries
         /\ Lookup!Finalize(j).nth = j.nth
  <1>1. CASE Lookup!In(j, {"pending", "searching"}) = {} /\ j.status = "running"
    <2>1. \A b \in Books : j.entries[b] # "searching"
      BY <1>1 DEF Lookup!In
    <2>2. PICK m : m = Marked(j, "completed")
      OBVIOUS
    <2>3. m \in Jobs /\ m.id = j.id /\ m.entries = j.entries /\ m.nth = j.nth
      BY <2>2, MarkedIs DEF JobIsSound, Statuses
    <2>4. Lookup!Finalize(j) = m
      BY <1>1, <2>2 DEF Lookup!Finalize, Marked
    <2> QED
      BY <2>1, <2>3, <2>4 DEF JobIsSound
  <1>2. CASE ~(Lookup!In(j, {"pending", "searching"}) = {} /\ j.status = "running")
    BY <1>2 DEF Lookup!Finalize
  <1> QED
    BY <1>1, <1>2

\* No control makes an entry "searching", and a paused job has none.
LEMMA ControlledIs ==
  ASSUME NEW j, JobIsSound(j), NEW action \in Lookup!Controls,
         j.status = Lookup!Target(action) \/ ~Lookup!Refuses(j, action),
         NEW c, c = Lookup!Controlled(j, action)
  PROVE  /\ JobIsSound(c) /\ c.id = j.id /\ c.nth = j.nth
         /\ \A b \in Books : c.entries[b] = "searching" =>
                               j.entries[b] = "searching" /\ action # "pause"
  <1>1. CASE j.status = Lookup!Target(action)
    BY <1>1 DEF Lookup!Controlled, Lookup!Target, JobIsSound
  <1>2. CASE j.status # Lookup!Target(action)
    <2>1. PICK w : w = CASE action = "retry" -> Lookup!WithEntries(j, Lookup!In(j, {"failed"}),
                                                                   "pending")
                         [] action = "pause" -> Lookup!WithEntries(j, Lookup!In(j,
                                                                                {"searching"}), "pending")
                         [] action = "cancel" -> Lookup!WithEntries(j, Lookup!In(j, {"pending",
                                                                                     "searching"}), "cancelled")
                         [] OTHER -> j
      OBVIOUS
    <2>2. /\ w \in Jobs /\ w.id = j.id /\ w.nth = j.nth
          /\ \A b \in Books : w.entries[b] = "searching" =>
                j.entries[b] = "searching" /\ action \notin {"pause", "cancel"}
      <3>1. CASE action = "retry"
        BY <2>1, <3>1, WithEntriesIs DEF JobIsSound, EntryStatuses
      <3>2. CASE action = "pause"
        BY <2>1, <3>2, WithEntriesIs DEF JobIsSound, EntryStatuses, Lookup!In
      <3>3. CASE action = "cancel"
        BY <2>1, <3>3, WithEntriesIs DEF JobIsSound, EntryStatuses, Lookup!In
      <3>4. CASE action = "resume"
        BY <2>1, <3>4 DEF JobIsSound
      <3> QED
        BY <3>1, <3>2, <3>3, <3>4 DEF Lookup!Controls
    <2>3. Lookup!Target(action) \in Statuses
      BY DEF Lookup!Target, Statuses
    <2>4. PICK m : m = Marked(w, Lookup!Target(action))
      OBVIOUS
    <2>5. /\ m \in Jobs /\ m.id = j.id /\ m.nth = j.nth /\ m.entries = w.entries
          /\ m.status = Lookup!Target(action)
      BY <2>2, <2>3, <2>4, MarkedIs
    <2>6. Lookup!Controlled(j, action) = m
      BY <1>2, <2>1, <2>4 DEF Lookup!Controlled, Marked
    <2>7. m.status = "running" \/ action \in {"pause", "cancel"}
      BY <2>5 DEF Lookup!Target, Lookup!Controls
    <2> QED
      BY <2>2, <2>5, <2>6, <2>7 DEF JobIsSound
  <1> QED
    BY <1>1, <1>2

\* A claimed entry has its number counted up.
LEMMA ClaimedIs ==
  ASSUME NEW j, JobIsSound(j), j.status = "running",
         NEW chosen, chosen \subseteq Books, NEW gone, gone \subseteq chosen,
         NEW c, c = Lookup!Claimed(j, chosen, gone)
  PROVE  /\ JobIsSound(c) /\ c.id = j.id
         /\ \A b \in Books :
              /\ c.nth[b] = IF b \in chosen THEN j.nth[b] + 1 ELSE j.nth[b]
              /\ c.entries[b] = "searching" =>
                   /\ b \in chosen => b \notin gone
                   /\ b \notin chosen => j.entries[b] = "searching"
  <1>1. PICK v : v = Lookup!WithEntries(j, chosen \ gone, "searching")
    OBVIOUS
  <1>2. /\ v \in Jobs /\ v.id = j.id /\ v.status = "running" /\ v.nth = j.nth
        /\ \A b \in Books : v.entries[b] = IF b \in chosen \ gone THEN "searching" ELSE j.entries[b]
    BY <1>1, WithEntriesIs DEF JobIsSound, EntryStatuses
  <1>3. PICK w : w = Lookup!WithEntries(v, gone, "failed")
    OBVIOUS
  <1>4. /\ w \in Jobs /\ w.id = j.id /\ w.status = "running" /\ w.nth = j.nth
        /\ \A b \in Books : w.entries[b] = "searching" =>
              /\ b \in chosen => b \notin gone
              /\ b \notin chosen => j.entries[b] = "searching"
    BY <1>2, <1>3, WithEntriesIs DEF EntryStatuses
  <1>5. PICK m : m = [w EXCEPT !.nth = [b \in Books |-> IF b \in chosen THEN @[b] + 1 ELSE @[b]],
                               !.rev = IF chosen = {} THEN @ ELSE @ + 1]
    OBVIOUS
  <1>6. /\ m \in Jobs /\ m.id = j.id /\ m.status = "running" /\ m.entries = w.entries
        /\ \A b \in Books : m.nth[b] = IF b \in chosen THEN j.nth[b] + 1 ELSE j.nth[b]
    <2>1. PICK e : e = [b \in Books |-> IF b \in chosen THEN w.nth[b] + 1 ELSE w.nth[b]]
      OBVIOUS
    <2>2. PICK r : r = IF chosen = {} THEN w.rev ELSE w.rev + 1
      OBVIOUS
    <2>3. e \in [Books -> Nat] /\ r \in Nat
      BY <1>4, <2>1, <2>2 DEF Jobs
    <2>4. m = [w EXCEPT !.nth = e, !.rev = r]
      BY <1>5, <2>1, <2>2
    <2>5. m \in Jobs /\ m.id = w.id /\ m.status = w.status /\ m.entries = w.entries /\ m.nth = e
      BY <1>4, <2>3, <2>4 DEF Jobs
    <2> QED
      BY <1>4, <2>1, <2>5
  <1>7. Lookup!Claimed(j, chosen, gone) = Lookup!Finalize(m)
    BY <1>1, <1>3, <1>5 DEF Lookup!Claimed
  <1>8. JobIsSound(m)
    BY <1>6 DEF JobIsSound
  <1> QED
    BY <1>4, <1>6, <1>7, <1>8, FinalizeIs

\* An answer is taken only for an entry that is searched.
LEMMA CompletedIs ==
  ASSUME NEW j, JobIsSound(j), NEW k \in Books, NEW status \in EntryStatuses,
         status # "searching",
         NEW c, c = Lookup!Completed(j, k, status)
  PROVE  /\ JobIsSound(c) /\ c.id = j.id /\ c.nth = j.nth
         /\ \A b \in Books : c.entries[b] = "searching" => b # k /\ j.entries[b] = "searching"
  <1>1. CASE j.entries[k] # "searching"
    BY <1>1 DEF Lookup!Completed
  <1>2. CASE j.entries[k] = "searching"
    <2>1. PICK w : w = Lookup!WithEntries(j, {k}, status)
      OBVIOUS
    <2>2. /\ w \in Jobs /\ w.id = j.id /\ w.status = j.status /\ w.nth = j.nth
          /\ \A b \in Books : w.entries[b] = IF b = k THEN status ELSE j.entries[b]
      BY <2>1, WithEntriesIs DEF JobIsSound, EntryStatuses
    <2>3. PICK m : m = [w EXCEPT !.rev = @ + 1]
      OBVIOUS
    <2>4. /\ m \in Jobs /\ m.id = j.id /\ m.status = j.status /\ m.nth = j.nth /\ m.entries = w.entries
      BY <2>2, <2>3 DEF Jobs
    <2>5. JobIsSound(m)
      BY <2>2, <2>4 DEF JobIsSound
    <2>6. Lookup!Completed(j, k, status) = Lookup!Finalize(m)
      BY <1>2, <2>1, <2>3 DEF Lookup!Completed
    <2> QED
      BY <2>2, <2>4, <2>5, <2>6, FinalizeIs
  <1> QED
    BY <1>1, <1>2

\* After a restart nothing is searched.
LEMMA RecoveredIs ==
  ASSUME NEW j, JobIsSound(j), j # None
  PROVE  /\ JobIsSound(Lookup!Recovered(j)) /\ Lookup!Recovered(j).id = j.id
         /\ \A b \in Books : Lookup!Recovered(j).entries[b] # "searching"
  <1>1. CASE j.status # "running"
    BY <1>1 DEF Lookup!Recovered, JobIsSound
  <1>2. CASE j.status = "running"
    <2>1. PICK w : w = Lookup!WithEntries(j, Lookup!In(j, {"searching"}), "pending")
      OBVIOUS
    <2>2. /\ w \in Jobs /\ w.id = j.id
          /\ \A b \in Books : w.entries[b] # "searching"
      BY <2>1, WithEntriesIs DEF JobIsSound, EntryStatuses, Lookup!In
    <2>3. PICK m : m = Marked(w, "paused")
      OBVIOUS
    <2>4. m \in Jobs /\ m.id = j.id /\ m.entries = w.entries
      BY <2>2, <2>3, MarkedIs DEF Statuses
    <2>5. Lookup!Recovered(j) = m
      BY <1>2, <2>1, <2>3 DEF Lookup!Recovered, Marked
    <2> QED
      BY <2>2, <2>4, <2>5 DEF JobIsSound
  <1> QED
    BY <1>1, <1>2

-----------------------------------------------------------------------------
(* The steps. *)

LEMMA LookupStart ==
  ASSUME Lookup!Init
  PROVE  LookupInv
  BY DEF Lookup!Init, LookupInv, SearchesMatchEntries, Lookup!SearchesMatchEntries

\* The job changes, and its entries are at most less searched than before.
LEMMA JobChanges ==
  ASSUME LookupInv, UNCHANGED <<lookupClaims, lookupLatch, lookupSpilled, lookupJobs>>,
         \A o \in lookupOrders' : "what" \in DOMAIN o /\ o.what \in {"create"} \cup Lookup!Controls,
         JobIsSound(lookupJob'),
         \A b \in Books : lookupJob'.entries[b] = "searching" =>
           /\ lookupJob # None /\ lookupJob'.id = lookupJob.id
           /\ lookupJob'.nth = lookupJob.nth
           /\ lookupJob.entries[b] = "searching"
           /\ b \in lookupLost => b \in lookupLost'
  PROVE  LookupInv'
  BY DEF LookupInv, SearchesMatchEntries, Lookup!SearchesMatchEntries, Lookup!Held, Searches

\* Orders are answered, and the job stays.
LEMMA PageActs ==
  ASSUME LookupInv, UNCHANGED <<Lookup!server, lookupJobs>>,
         \A o \in lookupOrders' : "what" \in DOMAIN o /\ o.what \in {"create"} \cup Lookup!Controls
  PROVE  LookupInv'
  BY DEF LookupInv, SearchesMatchEntries, Lookup!SearchesMatchEntries, Lookup!Held, Lookup!server

\* A step begins only behind the last search of the one before it, so a claim
\* of an entry is its only one.
LEMMA BeginStepKeeps ==
  ASSUME LookupInv, lookupLatch = {}, NEW id, NEW mine, Lookup!BeginStep(id, mine),
         UNCHANGED lookupOrders
  PROVE  LookupInv'
  <1>1. CASE UNCHANGED <<Lookup!server, Lookup!bounds>>
    BY <1>1, PageActs DEF Lookup!bounds, LookupInv
  <1>2. CASE \E chosen \in SUBSET Lookup!In(lookupJob, {"pending"}) : \E gone \in SUBSET chosen :
               LET taken == {[job |-> id, book |-> b, nth |-> lookupJob.nth[b] + 1,
                              attempt |-> 1] : b \in chosen \ gone}
               IN  /\ lookupJob # None /\ lookupJob.id = id /\ lookupJob.status = "running"
                   /\ lookupJob' = Lookup!Claimed(lookupJob, chosen, gone)
                   /\ lookupClaims' = lookupClaims \cup taken
                   /\ lookupLatch' = taken
                   /\ UNCHANGED <<lookupLost, lookupSpilled, lookupJobs>>
    <2>11. PICK chosen \in SUBSET Lookup!In(lookupJob, {"pending"}) : \E gone \in SUBSET chosen :
             LET taken == {[job |-> id, book |-> b, nth |-> lookupJob.nth[b] + 1,
                            attempt |-> 1] : b \in chosen \ gone}
             IN  /\ lookupJob # None /\ lookupJob.id = id /\ lookupJob.status = "running"
                 /\ lookupJob' = Lookup!Claimed(lookupJob, chosen, gone)
                 /\ lookupClaims' = lookupClaims \cup taken
                 /\ lookupLatch' = taken
                 /\ UNCHANGED <<lookupLost, lookupSpilled, lookupJobs>>
      BY <1>2
    <2>12. PICK gone \in SUBSET chosen :
             LET taken == {[job |-> id, book |-> b, nth |-> lookupJob.nth[b] + 1,
                            attempt |-> 1] : b \in chosen \ gone}
             IN  /\ lookupJob # None /\ lookupJob.id = id /\ lookupJob.status = "running"
                 /\ lookupJob' = Lookup!Claimed(lookupJob, chosen, gone)
                 /\ lookupClaims' = lookupClaims \cup taken
                 /\ lookupLatch' = taken
                 /\ UNCHANGED <<lookupLost, lookupSpilled, lookupJobs>>
      BY <2>11
    <2>13. PICK taken : taken = {[job |-> id, book |-> b, nth |-> lookupJob.nth[b] + 1,
                                 attempt |-> 1] : b \in chosen \ gone}
      OBVIOUS
    <2>1. /\ gone \subseteq chosen
          /\ taken = {[job |-> id, book |-> b, nth |-> lookupJob.nth[b] + 1,
                       attempt |-> 1] : b \in chosen \ gone}
          /\ lookupJob # None /\ lookupJob.id = id /\ lookupJob.status = "running"
          /\ lookupJob' = Lookup!Claimed(lookupJob, chosen, gone)
          /\ lookupClaims' = lookupClaims \cup taken
          /\ lookupLatch' = taken
          /\ UNCHANGED <<lookupLost, lookupSpilled, lookupJobs>>
      BY <2>12, <2>13
    <2>2. chosen \subseteq Books /\ gone \subseteq chosen
      BY <2>1 DEF Lookup!In
    <2>3. JobIsSound(lookupJob)
      BY <2>1 DEF LookupInv
    <2>4. /\ JobIsSound(lookupJob') /\ lookupJob'.id = id
          /\ \A b \in Books :
               /\ lookupJob'.nth[b] = IF b \in chosen THEN lookupJob.nth[b] + 1 ELSE lookupJob.nth[b]
               /\ lookupJob'.entries[b] = "searching" =>
                    /\ b \in chosen => b \notin gone
                    /\ b \notin chosen => lookupJob.entries[b] = "searching"
      <3>1. lookupJob' = Lookup!Claimed(lookupJob, chosen, gone)
        BY <2>1
      <3>2. lookupJob.id = id /\ lookupJob.status = "running"
        BY <2>1
      <3>3. PICK c : c = lookupJob'
        OBVIOUS
      <3>4. /\ JobIsSound(c) /\ c.id = lookupJob.id
            /\ \A b \in Books :
                 /\ c.nth[b] = IF b \in chosen THEN lookupJob.nth[b] + 1 ELSE lookupJob.nth[b]
                 /\ c.entries[b] = "searching" =>
                      /\ b \in chosen => b \notin gone
                      /\ b \notin chosen => lookupJob.entries[b] = "searching"
        <4>1. PICK j : j = lookupJob
          OBVIOUS
        <4>2. c = Lookup!Claimed(j, chosen, gone) /\ JobIsSound(j) /\ j.status = "running"
          BY <2>3, <3>1, <3>2, <3>3, <4>1
        <4>3. /\ JobIsSound(c) /\ c.id = j.id
              /\ \A b \in Books :
                   /\ c.nth[b] = IF b \in chosen THEN j.nth[b] + 1 ELSE j.nth[b]
                   /\ c.entries[b] = "searching" =>
                        /\ b \in chosen => b \notin gone
                        /\ b \notin chosen => j.entries[b] = "searching"
          BY <2>2, <4>2, ClaimedIs
        <4> QED
          BY <4>1, <4>3
      <3> QED
        BY <3>2, <3>3, <3>4
    <2>0. id \in Nat /\ lookupJob.nth \in [Books -> Nat]
      BY <2>1, <2>3 DEF JobIsSound, Jobs
    <2>5. /\ taken \subseteq Searches
          /\ \A c \in taken : c.job = id /\ c.book \in chosen \ gone /\ c.nth = lookupJob.nth[c.book] + 1
          /\ \A b \in chosen \ gone : \E c \in taken : c.job = id /\ c.book = b /\ c.nth = lookupJob.nth[b] + 1
      <3>1. taken = {[job |-> id, book |-> b, nth |-> lookupJob.nth[b] + 1,
                      attempt |-> 1] : b \in chosen \ gone}
        BY <2>1
      <3>2. \A b \in chosen \ gone : b \in Books /\ lookupJob.nth[b] + 1 \in Nat
        BY <2>0, <2>2
      <3>3. taken \subseteq Searches
        BY <2>0, <3>1, <3>2 DEF Searches
      <3>4. \A c \in taken : c.job = id /\ c.book \in chosen \ gone /\ c.nth = lookupJob.nth[c.book] + 1
        BY <3>1
      <3>5. ASSUME NEW b \in chosen \ gone
            PROVE  \E c \in taken : c.job = id /\ c.book = b /\ c.nth = lookupJob.nth[b] + 1
        <4>1. PICK c : c = [job |-> id, book |-> b, nth |-> lookupJob.nth[b] + 1, attempt |-> 1]
          OBVIOUS
        <4>2. c \in taken
          BY <3>1, <4>1
        <4> QED
          BY <4>1, <4>2
      <3> QED
        BY <3>3, <3>4, <3>5
    <2>6. ~lookupSpilled => lookupClaims = {}
      BY DEF LookupInv
    <2>7. lookupJob' # None => \A b \in Books : lookupJob'.entries[b] = "searching" =>
             b \in lookupLost' \/ \E c \in lookupClaims' :
               c.job = lookupJob'.id /\ c.book = b /\ c.nth = lookupJob'.nth[b]
      <3>1. SUFFICES ASSUME NEW b \in Books, lookupJob'.entries[b] = "searching"
                     PROVE  b \in lookupLost' \/ \E c \in lookupClaims' :
                              c.job = lookupJob'.id /\ c.book = b /\ c.nth = lookupJob'.nth[b]
        OBVIOUS
      <3>2. CASE b \in chosen
        BY <2>1, <2>4, <2>5, <3>1, <3>2
      <3>3. CASE b \notin chosen
        BY <2>1, <2>4, <3>1, <3>3 DEF LookupInv, SearchesMatchEntries, Lookup!SearchesMatchEntries
      <3> QED
        BY <3>2, <3>3
    <2>8. ~lookupSpilled' => \A c \in lookupClaims' :
             (Lookup!Held(c.job)' /\ lookupJob'.entries[c.book] = "searching") =>
               c.nth = lookupJob'.nth[c.book]
      BY <2>1, <2>2, <2>4, <2>5, <2>6
    <2> QED
      BY <2>1, <2>4, <2>5, <2>6, <2>7, <2>8 DEF LookupInv, SearchesMatchEntries,
         Lookup!SearchesMatchEntries
  <1>3. CASE IF Lookup!Held(id) THEN lookupJob.status # "running" ELSE TRUE
    BY <1>1, <1>3 DEF Lookup!BeginStep
  <1>4. CASE Lookup!Held(id) /\ lookupJob.status = "running"
    <2>1. lookupJob # None /\ lookupJob.id = id
      BY <1>4 DEF Lookup!Held
    <2> QED
      BY <1>2, <1>4, <2>1 DEF Lookup!BeginStep, Lookup!bounds, Lookup!Fault
  <1> QED
    BY <1>3, <1>4

LEMMA SearchEndsKeeps ==
  ASSUME LookupInv, NEW k \in lookupClaims, Lookup!SearchEnds(k)
  PROVE  LookupInv'
  <1>1. PICK status \in {"ready", "no-results", "failed"} :
          /\ lookupJob' = Lookup!Completed(lookupJob, k.book, status)
          /\ lookupClaims' = lookupClaims \ {k}
          /\ Lookup!Awaited({k}, lookupJob')
          /\ UNCHANGED <<lookupLost, lookupSpilled, lookupOrders, Lookup!bounds>>
    BY DEF Lookup!SearchEnds
  <1>2. lookupJob # None /\ k.book \in Books /\ JobIsSound(lookupJob)
    BY DEF Lookup!SearchEnds, Lookup!Gone, Lookup!Held, LookupInv, Searches
  <1>3. /\ JobIsSound(lookupJob') /\ lookupJob'.id = lookupJob.id /\ lookupJob'.nth = lookupJob.nth
        /\ \A b \in Books : lookupJob'.entries[b] = "searching" =>
             b # k.book /\ lookupJob.entries[b] = "searching"
    <2>1. status \in EntryStatuses /\ status # "searching"
      BY DEF EntryStatuses
    <2>2. lookupJob' = Lookup!Completed(lookupJob, k.book, status)
      BY <1>1
    <2> QED
      BY <1>2, <2>1, <2>2, CompletedIs
  <1>4. lookupLatch' = lookupLatch \ {k}
    BY <1>1 DEF Lookup!Awaited
  <1>5. lookupJobs' = lookupJobs
    BY <1>1 DEF Lookup!bounds
  <1> QED
    BY <1>1, <1>2, <1>3, <1>4, <1>5 DEF LookupInv, SearchesMatchEntries,
       Lookup!SearchesMatchEntries,
       Lookup!Held, Searches

LEMMA SearchAgainKeeps ==
  ASSUME LookupInv, NEW k \in lookupClaims, Lookup!SearchAgain(k)
  PROVE  LookupInv'
  <1>1. PICK again : again = [k EXCEPT !.attempt = @ + 1]
    OBVIOUS
  <1>2. again \in Searches /\ again.job = k.job /\ again.book = k.book /\ again.nth = k.nth
    BY <1>1 DEF LookupInv, Searches
  <1>3. /\ lookupClaims' = (lookupClaims \ {k}) \cup {again}
        /\ lookupLatch' = IF k \in lookupLatch THEN (lookupLatch \ {k}) \cup {again} ELSE lookupLatch
        /\ UNCHANGED <<lookupJob, lookupLost, lookupSpilled, lookupOrders, lookupJobs>>
    BY <1>1 DEF Lookup!SearchAgain, Lookup!bounds
  <1> QED
    BY <1>2, <1>3 DEF LookupInv, SearchesMatchEntries, Lookup!SearchesMatchEntries, Lookup!Held

LEMMA SearchLostKeeps ==
  ASSUME LookupInv, NEW k \in lookupClaims, Lookup!SearchLost(k)
  PROVE  LookupInv'
  <1>1. /\ lookupClaims' = lookupClaims \ {k}
        /\ UNCHANGED <<lookupJob, lookupOrders, lookupJobs>>
        /\ IF Lookup!Gone(k) THEN lookupLost' = lookupLost
           ELSE lookupLost' = IF lookupJob.entries[k.book] = "searching"
                              THEN lookupLost \cup {k.book} ELSE lookupLost
    BY DEF Lookup!SearchLost, Lookup!bounds, Lookup!Fault
  <1>2. ~lookupSpilled' => ~lookupSpilled /\ lookupLatch' = lookupClaims'
    <2>1. CASE k \in lookupLatch
      BY <1>1, <2>1 DEF Lookup!SearchLost, LookupInv
    <2>2. CASE k \notin lookupLatch
      BY <2>2 DEF Lookup!SearchLost, LookupInv
    <2> QED
      BY <2>1, <2>2
  <1> QED
    BY <1>1, <1>2 DEF LookupInv, SearchesMatchEntries, Lookup!SearchesMatchEntries, Lookup!Held,
       Lookup!Gone

LEMMA RestartKeeps ==
  ASSUME LookupInv, Lookup!Restart
  PROVE  LookupInv'
  <1>1. /\ lookupJob' = Lookup!Recovered(lookupJob) /\ lookupClaims' = {} /\ lookupLatch' = {}
        /\ lookupJobs' = lookupJobs
        /\ lookupOrders' = {IF o.at = "sent" THEN [o EXCEPT !.at = "failed"] ELSE o : o \in lookupOrders}
    BY DEF Lookup!Restart, Lookup!Fault
  <1>2. lookupJob' # None => JobIsSound(lookupJob') /\ \A b \in Books : lookupJob'.entries[b] # "searching"
    <2>1. CASE lookupJob = None
      BY <1>1, <2>1 DEF Lookup!Recovered
    <2>2. CASE lookupJob # None
      BY <1>1, <2>2, RecoveredIs DEF LookupInv
    <2> QED
      BY <2>1, <2>2
  <1>3. \A o \in lookupOrders' : "what" \in DOMAIN o /\ o.what \in {"create"} \cup Lookup!Controls
    BY <1>1 DEF LookupInv
  <1> QED
    BY <1>1, <1>2, <1>3 DEF LookupInv, SearchesMatchEntries, Lookup!SearchesMatchEntries

LEMMA OtherControlsKeeps ==
  ASSUME LookupInv, Lookup!OtherControls
  PROVE  LookupInv'
  <1>1. PICK action \in Lookup!Controls :
          /\ lookupJob.status = Lookup!Target(action) \/ ~Lookup!Refuses(lookupJob, action)
          /\ lookupJob' = Lookup!Controlled(lookupJob, action)
          /\ lookupLost' = IF action = "pause" THEN {} ELSE lookupLost
    BY DEF Lookup!OtherControls, Lookup!ControlFails
  <1>2. /\ lookupJob # None
        /\ UNCHANGED <<lookupClaims, lookupLatch, lookupSpilled, lookupJobs, lookupOrders>>
    BY DEF Lookup!OtherControls, Lookup!shown
  <1>3. JobIsSound(lookupJob)
    BY <1>2 DEF LookupInv
  <1>4. /\ JobIsSound(lookupJob') /\ lookupJob'.id = lookupJob.id /\ lookupJob'.nth = lookupJob.nth
        /\ \A b \in Books : lookupJob'.entries[b] = "searching" =>
             lookupJob.entries[b] = "searching" /\ action # "pause"
    BY <1>1, <1>3, ControlledIs
  <1>5. \A o \in lookupOrders' : "what" \in DOMAIN o /\ o.what \in {"create"} \cup Lookup!Controls
    BY <1>2 DEF LookupInv
  <1> QED
    BY <1>1, <1>2, <1>4, <1>5, JobChanges

LEMMA AcceptKeeps ==
  ASSUME LookupInv, NEW k \in Books, Lookup!Accept(k)
  PROVE  LookupInv'
  <1>1. PICK w : w = Lookup!WithEntries(lookupJob, {k}, "accepted")
    OBVIOUS
  <1>2. PICK m : m = [w EXCEPT !.rev = @ + 1]
    OBVIOUS
  <1>3. /\ lookupJob # None /\ lookupJob' = m
        /\ UNCHANGED <<lookupLatch, lookupClaims, lookupLost, lookupSpilled, lookupOrders,
                       lookupJobs>>
    BY <1>1, <1>2 DEF Lookup!Accept, Lookup!shown, Lookup!Click
  <1>4. /\ w \in Jobs /\ w.id = lookupJob.id /\ w.status = lookupJob.status /\ w.nth = lookupJob.nth
        /\ \A b \in Books : w.entries[b] = IF b \in {k} THEN "accepted" ELSE lookupJob.entries[b]
    BY <1>1, <1>3, WithEntriesIs DEF LookupInv, JobIsSound, EntryStatuses
  <1>5. m \in Jobs /\ m.id = w.id /\ m.status = w.status /\ m.nth = w.nth /\ m.entries = w.entries
    BY <1>2, <1>4 DEF Jobs
  <1>6. JobIsSound(m)
    BY <1>3, <1>4, <1>5 DEF LookupInv, JobIsSound
  <1>7. \A o \in lookupOrders' : "what" \in DOMAIN o /\ o.what \in {"create"} \cup Lookup!Controls
    BY <1>3 DEF LookupInv
  <1> QED
    BY <1>3, <1>4, <1>5, <1>6, <1>7, JobChanges

LEMMA ServeOrderKeeps ==
  ASSUME LookupInv, NEW o \in lookupOrders, Lookup!ServeOrder(o)
  PROVE  LookupInv'
  <1>1. /\ "what" \in DOMAIN o /\ o.what \in {"create"} \cup Lookup!Controls
        /\ \A x \in lookupOrders : "what" \in DOMAIN x /\ x.what \in {"create"} \cup Lookup!Controls
    BY DEF LookupInv
  <1>2. \A x \in lookupOrders' : "what" \in DOMAIN x /\ x.what \in {"create"} \cup Lookup!Controls
    <2>1. \E copy : \/ lookupOrders' = (lookupOrders \ {o}) \cup {[o EXCEPT !.at = "failed"]}
                    \/ lookupOrders' = (lookupOrders \ {o}) \cup {[o EXCEPT !.at = "done",
                                                                   !.copy = copy]}
      BY DEF Lookup!ServeOrder
    <2> QED
      BY <1>1, <2>1
  <1>3. CASE UNCHANGED <<Lookup!server, Lookup!bounds>>
    BY <1>2, <1>3, PageActs DEF Lookup!bounds
  <1>4. CASE /\ o.what = "create"
             /\ lookupJob' = Lookup!NewJob(lookupJobs + 1) /\ lookupJobs' = lookupJobs + 1
             /\ UNCHANGED <<lookupLatch, lookupClaims, lookupSpilled>>
    <2>1. JobIsSound(lookupJob') /\ \A b \in Books : lookupJob'.entries[b] # "searching"
      BY <1>4 DEF Lookup!NewJob, JobIsSound, Jobs, Statuses, EntryStatuses, LookupInv
    <2> QED
      BY <1>2, <1>4, <2>1 DEF LookupInv, SearchesMatchEntries, Lookup!SearchesMatchEntries,
         Searches
  <1>5. CASE /\ o.what # "create" /\ ~Lookup!ControlFails(lookupJob, o.id, o.what, o.rev)
             /\ lookupJob' = Lookup!Controlled(lookupJob, o.what)
             /\ lookupJobs' = lookupJobs
             /\ lookupLost' = IF o.what = "pause" THEN {} ELSE lookupLost
             /\ UNCHANGED <<lookupLatch, lookupClaims, lookupSpilled>>
    <2>1. /\ lookupJob # None /\ JobIsSound(lookupJob) /\ o.what \in Lookup!Controls
          /\ lookupJob.status = Lookup!Target(o.what) \/ ~Lookup!Refuses(lookupJob, o.what)
      BY <1>1, <1>5 DEF Lookup!ControlFails, LookupInv
    <2>2. /\ JobIsSound(lookupJob') /\ lookupJob'.id = lookupJob.id /\ lookupJob'.nth = lookupJob.nth
          /\ \A b \in Books : lookupJob'.entries[b] = "searching" =>
               lookupJob.entries[b] = "searching" /\ o.what # "pause"
      BY <1>5, <2>1, ControlledIs
    <2> QED
      BY <1>2, <1>5, <2>1, <2>2, JobChanges
  <1> QED
    BY <1>1, <1>3, <1>4, <1>5, Zenon DEF Lookup!ServeOrder

LEMMA LookupStep ==
  ASSUME LookupInv, Lookup!Next
  PROVE  LookupInv'
  <1>1. CASE Lookup!ServeRun
    <2>1. CASE Lookup!BehindStep
      BY <1>1, <2>1, PageActs DEF Lookup!ServeRun, Lookup!bounds, LookupInv
    <2>2. CASE ~Lookup!BehindStep
      BY <1>1, <2>2, BeginStepKeeps DEF Lookup!ServeRun, Lookup!BehindStep
    <2> QED
      BY <2>1, <2>2
  <1>2. CASE Lookup!ServeStray
    <2>1. CASE Lookup!BehindStep \/ lookupJob = None
      BY <1>2, <2>1, PageActs DEF Lookup!ServeStray, Lookup!bounds, LookupInv
    <2>2. CASE ~(Lookup!BehindStep \/ lookupJob = None)
      BY <1>2, <2>2, BeginStepKeeps DEF Lookup!ServeStray, Lookup!BehindStep
    <2> QED
      BY <2>1, <2>2
  <1>3. CASE Lookup!Restart
    BY <1>3, RestartKeeps
  <1>4. CASE \E c \in lookupClaims : Lookup!SearchEnds(c) \/ Lookup!SearchAgain(c) \/ Lookup!SearchLost(c)
    BY <1>4, SearchEndsKeeps, SearchAgainKeeps, SearchLostKeeps
  <1>5. CASE Lookup!OtherControls
    BY <1>5, OtherControlsKeeps
  <1>6. CASE \E b \in Books : Lookup!Accept(b)
    BY <1>6, AcceptKeeps
  <1>7. CASE \E o \in lookupOrders : Lookup!ServeOrder(o)
    BY <1>7, ServeOrderKeeps
  <1>8. CASE \/ Lookup!OtherRuns \/ Lookup!ClickRun \/ Lookup!ClickLeave \/ Lookup!RunAnswered
             \/ Lookup!RunFailed \/ Lookup!RunTimesOut \/ Lookup!Hear \/ Lookup!ServeLoad \/ Lookup!LoadEnds
    <2>1. UNCHANGED <<Lookup!server, lookupJobs, lookupOrders>>
      BY <1>8 DEF Lookup!OtherRuns, Lookup!ClickRun, Lookup!ClickLeave, Lookup!RunAnswered,
         Lookup!RunFailed,
         Lookup!RunTimesOut, Lookup!Hear, Lookup!ServeLoad, Lookup!LoadEnds, Lookup!shown,
           Lookup!bounds,
         Lookup!Click, Lookup!Fault
    <2> QED
      BY <2>1, PageActs DEF LookupInv
  <1>9. CASE Lookup!ClickCreate \/ \E action \in Lookup!Controls : Lookup!ClickControl(action)
    <2>1. PICK what \in {"create"} \cup Lookup!Controls : \E n, id, rev :
             lookupOrders' = lookupOrders \cup {[n |-> n, what |-> what, id |-> id, rev |-> rev,
                                                 at |-> "sent", copy |-> None]}
      BY <1>9 DEF Lookup!ClickCreate, Lookup!ClickControl
    <2>2. UNCHANGED <<Lookup!server, lookupJobs>>
      BY <1>9 DEF Lookup!ClickCreate, Lookup!ClickControl, Lookup!Click
    <2> QED
      BY <2>1, <2>2, PageActs DEF LookupInv
  <1>10. CASE \E o \in lookupOrders :
                Lookup!OrderFails(o) \/ Lookup!OrderAnswered(o) \/ Lookup!OrderContinues(o)
    <2>1. PICK o \in lookupOrders :
             /\ \/ \E at : lookupOrders' = (lookupOrders \ {o}) \cup {[o EXCEPT !.at = at]}
                \/ lookupOrders' = lookupOrders \ {o}
             /\ UNCHANGED <<Lookup!server, lookupJobs>>
      BY <1>10 DEF Lookup!OrderFails, Lookup!OrderAnswered, Lookup!OrderContinues,
         Lookup!bounds, Lookup!Fault
    <2> QED
      BY <2>1, PageActs DEF LookupInv
  <1> QED
    BY <1>1, <1>2, <1>3, <1>4, <1>5, <1>6, <1>7, <1>8, <1>9, <1>10 DEF Lookup!Next

LEMMA LookupStutter ==
  ASSUME LookupInv, UNCHANGED lookupVars
  PROVE  LookupInv'
  BY DEF lookupVars, LookupInv, SearchesMatchEntries, Lookup!SearchesMatchEntries, Lookup!Held

-----------------------------------------------------------------------------
(***************************************************************************)
(* The theorems.                                                           *)
(***************************************************************************)

\* A step of the composition is a step of one part and stutters in the others.
LEMMA StepOfAPart ==
  ASSUME [PartsNext]_allVars
  PROVE  /\ Next \/ UNCHANGED vars
         /\ View!Next \/ UNCHANGED viewVars
         /\ Lookup!Next \/ UNCHANGED lookupVars
  BY DEF PartsNext, allVars, scanVars, vars

\* With nothing under way a page that is not marked stale shows the active profile
\* as the catalog has it, unless it is of a load that had been answered when a
\* refresh failed (catalog-browser.ts, the live refresh).
THEOREM QuietPagesAreFresh == PartsSpec => []QuietPageIsFresh
  <1>1. PartsInit => ViewInv
    BY ViewStart DEF PartsInit
  <1>2. ViewInv /\ [PartsNext]_allVars => ViewInv'
    BY ViewStep, ViewStutter, StepOfAPart
  <1>3. ViewInv => QuietPageIsFresh
    BY DEF ViewInv, ViewTypes, QuietPageIsFresh, View!QuietPageIsFresh, View!Quiet, PageIsRight,
       Coming,
       Refreshing
  <1> QED
    BY <1>1, <1>2, <1>3, PTL DEF PartsSpec

LEMMA ScanAlways == PartsSpec => []ScanInv
  <1>1. PartsInit => ScanInv
    BY ScanStart DEF PartsInit
  <1>2. ScanInv /\ [PartsNext]_allVars => ScanInv'
    BY ScanStep, ScanStutter, StepOfAPart
  <1> QED
    BY <1>1, <1>2, PTL DEF PartsSpec

\* A row of a path the root has left is only there while a scan is still asked
\* for (catalog-indexer.ts, catalog-database.ts completeRootScan).
THEOREM RowsStayOfThePath == PartsSpec => []RowsAreOfThePath
  <1>1. ScanInv => RowsAreOfThePath
    BY DEF ScanInv
  <1> QED
    BY <1>1, ScanAlways, PTL

\* The rows of a root go offline only with the second bad generation in a row
\* (catalog-database.ts noteRootUnavailable, completeRootScan).
THEOREM MountLossStaysConfirmed == PartsSpec => MountLossIsConfirmed
  <1>1. ScanInv /\ [PartsNext]_allVars =>
          [rest = "available" /\ rest' # "available" /\ path' = path => failed = 1]_vars
    BY LossConfirmed, StepOfAPart
  <1> QED
    BY <1>1, ScanAlways, PTL DEF PartsSpec, MountLossIsConfirmed

\* An entry that says "searching" has the search that claimed it last
\* (catalog-database.ts:4161).
THEOREM SearchesStayMatched == PartsSpec => []SearchesMatchEntries
  <1>1. PartsInit => LookupInv
    BY LookupStart DEF PartsInit
  <1>2. LookupInv /\ [PartsNext]_allVars => LookupInv'
    BY LookupStep, LookupStutter, StepOfAPart
  <1>3. LookupInv => SearchesMatchEntries
    BY DEF LookupInv
  <1> QED
    BY <1>1, <1>2, <1>3, PTL DEF PartsSpec
=============================================================================
