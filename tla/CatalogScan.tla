---------------------------- MODULE CatalogScan ----------------------------
(***************************************************************************)
(* One library root of the catalog server: its durable scan request, the  *)
(* indexer's scans of it with watchers, quiet window, reconciliation and  *)
(* deep passes, and the rows they leave (server/catalog-indexer.ts and    *)
(* the scan methods of server/catalog-database.ts).                       *)
(*                                                                        *)
(* The root holds one file that is followed byte for byte (hint "p") and  *)
(* other files that are only counted (hint "o", rows "rest").  A file is  *)
(* what the three checks of the code can tell: its size and time (stat),  *)
(* the sampled bytes (sample) and all bytes (full); the file that another *)
(* path holds under the same name differs in all three.  A generation of  *)
(* scan_requests is only compared with the newest one, so a request       *)
(* carries its newest claimant (owner) in place of the number.            *)
(***************************************************************************)
EXTENDS Naturals, FiniteSets

CONSTANTS
  MaxChanges,   \* changes of the followed file
  MaxNoise,     \* changes of other files, and configuration changes
  MaxFaults,    \* crashes, mount losses, failed reads, deadlines, other services
  MaxDirty,     \* maxWatcherDirtyPaths
  None          \* no file, row, scan or watcher

ASSUME ScanConstants == {MaxChanges, MaxNoise, MaxFaults, MaxDirty} \subseteq Nat

Authoritative == {"startup", "startup-followup", "manual", "reconciliation",
                  "deep-reconciliation"}
DeepReasons == {"manual", "deep-reconciliation"}
Reasons == Authoritative \cup {"watch-event", "configuration"}

VARIABLES
  \* the directory
  file,      \* [stat, sample, full] or None
  mount,     \* "ok", "empty" (an empty mount point) or "lost"
  path,      \* the path the root is configured with
  enabled,   \* some active profile has the root
  \* the database
  req,       \* scan_requests: pending, reason, owner of the newest generation
  row,       \* source and book row of the followed file, or None
  rest,      \* the rows of the other files
  streak,    \* empty_scan_streak
  \* the server process
  up, boot,  \* running; how far start() has come
  timer,     \* the quiet queue holds the root
  scan,      \* the running scan, or None
  rerun, aborted,
  watching,  \* the path watched, or None
  dirty,     \* watcherDirtyPaths; "?" is unknownWatcherDirtyRoots
  events,    \* watcher events not yet delivered
  \* bounds and history
  noise, faults,
  unwatched, \* the file's last change had no watcher, or its event died with
             \* the process or with a scan of an outdated configuration
  failed     \* bad generations since the last good one

directory == <<file, mount, path, enabled>>
database == <<req, row, rest, streak>>
hints == <<watching, dirty, events>>
history == <<noise, faults, unwatched, failed>>
vars == <<file, mount, path, enabled, req, row, rest, streak, up, boot,
          timer, scan, rerun, aborted, watching, dirty, events, noise, faults,
          unwatched, failed>>

-----------------------------------------------------------------------------
(* Requests *)

Request(reason) == [pending |-> TRUE, reason |-> reason, owner |-> "none"]
\* Of a request that is not pending the code uses nothing.
NoRequest == [pending |-> FALSE, reason |-> "startup", owner |-> "none"]

\* A running scan has claimed its generation.
Claimed == scan # None /\ scan.at # "slot"
\* The fence of the running scan still names the newest pending generation.
Fenced == req.pending /\ req.owner = "us"

\* Seeded fault: the configuration is not looked at again.
AnyConfiguration == TRUE

\* sameScanSourceConfiguration: the root is still where the scan looked for it.
SameConfiguration == scan.path = path

\* Seeded fault: a deep request does not replace a pending shallow one.
NewWorkOfAnyDepth(reason, force) ==
  force \/ ~req.pending \/ (Claimed /\ req.owner = "us")

\* Genuinely new work advances the generation, anything else only wakes the
\* quiet queue.
NewWork(reason, force) ==
  \/ force
  \/ ~req.pending
  \/ Claimed /\ req.owner = "us"
  \/ reason \in Authoritative /\ req.reason \notin Authoritative
  \/ reason \in DeepReasons /\ req.reason \notin DeepReasons

EnqueueDurable(reason, force) ==
  /\ req' = IF NewWork(reason, force) THEN Request(reason) ELSE req
  /\ timer' = TRUE

MergeDirty(old, new) ==
  IF "?" \in old \cup new \/ Cardinality(old \cup new) > MaxDirty
  THEN {"?"} ELSE old \cup new

CloseWatchers == /\ watching' = None /\ dirty' = {} /\ events' = {}

-----------------------------------------------------------------------------
(* The directory changes.  A change reaches the watcher of this path. *)

Notify(name) ==
  events' = IF up /\ watching = path THEN events \cup {name} ELSE events

NewVersion(kind) ==
  LET n == IF file = None THEN 0 ELSE file.full + 1
  IN  [stat |-> IF kind = "stat" THEN n ELSE file.stat,
       sample |-> IF kind \in {"stat", "sampled"} THEN n ELSE file.sample,
       full |-> n]

ChangeFile ==
  /\ mount = "ok" /\ file # None /\ file.full < MaxChanges
  /\ \E kind \in {"stat", "sampled", "unsampled"} : file' = NewVersion(kind)
  /\ Notify("p")
  /\ unwatched' = ~(up /\ watching = path)
  /\ UNCHANGED <<mount, path, enabled, database, up, boot, timer, scan, rerun,
                 aborted, watching, dirty, noise, faults, failed>>

DeleteFile ==
  /\ mount = "ok" /\ file # None /\ file.full = MaxChanges
  /\ file' = None
  /\ Notify("p")
  /\ unwatched' = ~(up /\ watching = path)
  /\ UNCHANGED <<mount, path, enabled, database, up, boot, timer, scan, rerun,
                 aborted, watching, dirty, noise, faults, failed>>

\* Another file changes.
OtherFileChanges ==
  /\ mount = "ok" /\ up /\ watching = path /\ noise < MaxNoise
  /\ Notify("o")
  /\ noise' = noise + 1
  /\ UNCHANGED <<directory, database, up, boot, timer, scan, rerun, aborted,
                 watching, dirty, faults, unwatched, failed>>

\* The volume goes away, leaving an error or an empty mount point, or returns.
MountChanges ==
  /\ \/ /\ mount = "ok" /\ mount' \in {"empty", "lost"}
        /\ faults < MaxFaults /\ faults' = faults + 1
        /\ unwatched' = TRUE
     \/ /\ mount # "ok" /\ mount' = "ok"
        /\ UNCHANGED <<faults, unwatched>>
  /\ UNCHANGED <<file, path, enabled, database, up, boot, timer, scan, rerun,
                 aborted, hints, noise, failed>>

-----------------------------------------------------------------------------
(* Who asks for scans *)

\* The watcher's callback notes the name, when it is told one, and enqueues.
WatchEvent ==
  /\ up
  /\ \E name \in events :
       /\ events' = events \ {name}
       /\ \E told \in {name, "?"} : dirty' = MergeDirty(dirty, {told})
  /\ IF enabled THEN EnqueueDurable("watch-event", FALSE) ELSE UNCHANGED <<req, timer>>
  /\ UNCHANGED <<directory, row, rest, streak, up, boot, scan, rerun,
                 aborted, watching, history>>

\* requestRescan.
RequestRescan ==
  /\ up /\ enabled /\ noise < MaxNoise
  /\ EnqueueDurable("manual", TRUE)
  /\ noise' = noise + 1
  /\ UNCHANGED <<directory, row, rest, streak, up, boot, scan, rerun,
                 aborted, hints, faults, unwatched, failed>>

\* The reconciliation interval; a tick during a scan carries no news.
ReconciliationTick ==
  /\ up /\ boot = "ready" /\ enabled /\ scan = None
  /\ EnqueueDurable("reconciliation", FALSE)
  /\ UNCHANGED <<directory, row, rest, streak, up, boot, scan, rerun,
                 aborted, hints, history>>

\* scheduleDeepReconciliation and enqueueDueDeepScan.  The last deep scan may
\* have become too old by now.
DeepTick ==
  /\ up /\ boot = "ready" /\ enabled
  /\ IF req.pending /\ req.reason \in DeepReasons
     THEN /\ timer' = (timer \/ scan = None)
          /\ UNCHANGED req
     ELSE EnqueueDurable("deep-reconciliation", FALSE)
  /\ UNCHANGED <<directory, row, rest, streak, up, boot, scan, rerun,
                 aborted, hints, history>>

-----------------------------------------------------------------------------
(* Settings.  The rows of a moved root go, and the request is fenced off. *)

MovedRoot ==
  /\ path' = 3 - path
  /\ req' = Request("manual")
  /\ row' = None /\ rest' = None
  /\ unwatched' = TRUE

\* A settings request of this process: updateRoot with pruneInactiveRoots and
\* wakePendingScan behind it.
MoveRoot ==
  /\ up /\ enabled /\ noise < MaxNoise
  /\ MovedRoot
  /\ noise' = noise + 1
  /\ timer' = TRUE
  /\ IF scan # None
     THEN CloseWatchers /\ aborted' = TRUE
     ELSE UNCHANGED <<hints, aborted>>
  /\ UNCHANGED <<file, mount, enabled, streak, up, boot, scan, rerun,
                 faults, failed>>

\* The same in another service on the same database.
OtherServiceMovesRoot ==
  /\ enabled /\ faults < MaxFaults
  /\ MovedRoot
  /\ faults' = faults + 1
  /\ UNCHANGED <<file, mount, enabled, streak, up, boot, timer, scan,
                 rerun, aborted, hints, noise, failed>>

\* The root's last active profile is disabled.
DisableRoot ==
  /\ up /\ enabled /\ noise < MaxNoise
  /\ enabled' = FALSE
  /\ noise' = noise + 1
  /\ timer' = FALSE /\ rerun' = FALSE
  /\ aborted' = (scan # None)
  /\ CloseWatchers
  /\ unwatched' = TRUE
  /\ UNCHANGED <<file, mount, path, database, up, boot, scan, faults, failed>>

EnableRoot ==
  /\ up /\ ~enabled
  /\ enabled' = TRUE
  /\ req' = Request("manual")
  /\ timer' = TRUE
  /\ UNCHANGED <<file, mount, path, row, rest, streak, up, boot, scan,
                 rerun, aborted, hints, history>>

-----------------------------------------------------------------------------
(* One scan *)

NewScan == [at |-> "slot", path |-> path, reason |-> None, dirty |-> {},
            seen |-> None, found |-> None]

\* scan() of an idle root; of a running one it only asks for a rerun.
StartOrRerun ==
  IF scan = None
  THEN scan' = NewScan /\ UNCHANGED rerun
  ELSE rerun' = TRUE /\ UNCHANGED scan

\* The quiet window ends.
QuietWindowEnds ==
  /\ up /\ timer
  /\ timer' = FALSE
  /\ IF enabled THEN StartOrRerun ELSE UNCHANGED <<scan, rerun>>
  /\ UNCHANGED <<directory, database, up, boot, aborted, hints, history>>

\* Seeded fault: the hints of a scan that failed are dropped.
EndScanForgets(acknowledged, watchingNow, dirtyNow) ==
  /\ dirty' = dirtyNow
  /\ UNCHANGED unwatched
  /\ watching' = watchingNow
  /\ scan' = IF rerun /\ enabled THEN NewScan ELSE None
  /\ rerun' = FALSE /\ aborted' = FALSE

\* The scan returns without having acknowledged its generation, or with: its
\* hints go back, the root stops running and a rerun starts.  Hints taken by a
\* scan whose root has got another configuration since do not go back.
EndScan(acknowledged, watchingNow, dirtyNow) ==
  /\ dirty' = IF ~acknowledged /\ enabled /\ SameConfiguration
              THEN MergeDirty(dirtyNow, scan.dirty) ELSE dirtyNow
  /\ unwatched' = \/ unwatched
                  \/ /\ ~acknowledged /\ ~(enabled /\ SameConfiguration)
                     /\ scan.dirty # {} \/ (watchingNow = None /\ events \cup dirty # {})
  /\ watching' = watchingNow
  /\ scan' = IF rerun /\ enabled THEN NewScan ELSE None
  /\ rerun' = FALSE /\ aborted' = FALSE

\* claimRootScan.  A watch request without names is verified in full.
Claim ==
  /\ up /\ scan # None /\ scan.at = "slot" /\ ~aborted
  /\ IF req.pending
     THEN /\ req' = [req EXCEPT !.owner = "us"]
          /\ scan' = [scan EXCEPT !.at = "claimed", !.reason = req.reason,
                        !.dirty = IF req.reason = "watch-event" /\ dirty = {}
                                  THEN {"?"} ELSE dirty]
          /\ dirty' = {}
          /\ UNCHANGED <<watching, rerun, aborted, unwatched>>
     ELSE /\ EndScan(TRUE, watching, dirty)
          /\ UNCHANGED req
  /\ UNCHANGED <<directory, row, rest, streak, up, boot, timer, events, noise, faults, failed>>

AvailableRows == rest = "available" \/ (row # None /\ row.available)

\* A write of a superseded scan is refused: wakeSupersedingScan.
Superseded ==
  /\ ~Fenced
  /\ timer' = (timer \/ req.pending)
  /\ IF SameConfiguration /\ enabled
     THEN EndScan(FALSE, watching, dirty) /\ UNCHANGED events
     ELSE EndScan(FALSE, None, {}) /\ events' = {}
  /\ UNCHANGED <<directory, database, up, boot, noise, faults, failed>>

\* Seeded fault: the first loss already takes the rows offline.
RootUnavailableAtOnce ==
  /\ streak' = 1
  /\ row' = IF row = None THEN None ELSE [row EXCEPT !.available = FALSE]
  /\ rest' = IF rest = None THEN None ELSE "unavailable"
  /\ failed' = 1

\* noteRootUnavailable: the second loss in a row takes the rows offline.
RootUnavailable ==
  /\ IF AvailableRows /\ streak = 0
     THEN streak' = 1 /\ UNCHANGED <<row, rest>>
     ELSE /\ streak' = 1
          /\ row' = IF row = None THEN None ELSE [row EXCEPT !.available = FALSE]
          /\ rest' = IF rest = None THEN None ELSE "unavailable"
  /\ failed' = 1

\* The root is validated and enumerated.  The scan walks its own path: after a
\* move it finds nothing it may write.
Enumerate ==
  /\ up /\ scan # None /\ scan.at = "claimed" /\ ~aborted
  /\ \/ Superseded
     \/ /\ Fenced /\ mount # "lost"
        /\ scan' = [scan EXCEPT !.at = "listed", !.seen = mount,
                      !.found = IF mount = "ok" THEN file ELSE None]
        /\ UNCHANGED <<directory, database, up, boot, timer, rerun, aborted, hints, history>>
     \/ /\ Fenced /\ mount = "lost"
        /\ RootUnavailable
        /\ EndScan(FALSE, watching, dirty)
        /\ UNCHANGED <<directory, req, up, boot, timer, events, noise, faults>>

RowOf(f) == [stat |-> f.stat, sample |-> f.sample, full |-> f.full,
             available |-> TRUE, error |-> FALSE, path |-> scan.path]

Reusable == /\ row # None /\ ~row.error
            /\ row.path = scan.path /\ row.stat = scan.found.stat
WatcherDirty == {"p", "?"} \cap scan.dirty # {}
DeepVerification == scan.reason \in DeepReasons \/ WatcherDirty
\* A watcher scan keeps an unrelated file without reading it.
Unrelated == Reusable /\ ~DeepVerification /\ scan.reason = "watch-event"
\* Any other shallow scan compares the samples.
Sampled == Reusable /\ ~DeepVerification /\ scan.reason # "watch-event"
Unchanged == file = scan.found

Indexed(newRow) ==
  /\ row' = newRow
  /\ scan' = [scan EXCEPT !.at = "indexed", !.found = IF @ = None THEN None ELSE "file"]
  /\ UNCHANGED <<directory, req, rest, streak, up, boot, timer, rerun,
                 aborted, hints, noise, unwatched, failed>>

\* The scan gives up and tries again after a quiet window.
Retry ==
  /\ timer' = TRUE
  /\ EndScan(FALSE, watching, dirty)
  /\ UNCHANGED <<directory, database, up, boot, events, noise, failed>>

\* indexCandidate: the identity of the file is verified as the last thing
\* before the write.
IndexCandidate ==
  /\ up /\ scan # None /\ scan.at = "listed" /\ ~aborted
  /\ \/ Superseded
     \/ /\ Fenced /\ UNCHANGED faults
        /\ \/ scan.found = None /\ Indexed(row)
           \/ /\ scan.found # None
              /\ \/ /\ Unrelated \/ (Sampled /\ Unchanged /\ row.sample = file.sample)
                    /\ Indexed([row EXCEPT !.available = TRUE])
                 \/ /\ ~Unrelated /\ Unchanged
                    /\ Sampled => row.sample # file.sample
                    /\ Indexed(RowOf(file))
                 \/ ~Unrelated /\ ~Unchanged /\ Retry
     \* the file cannot be read or parsed
     \/ /\ Fenced /\ scan.found # None /\ ~Unrelated /\ faults < MaxFaults
        /\ faults' = faults + 1
        /\ Indexed([RowOf(scan.found) EXCEPT !.available = FALSE, !.error = TRUE])
     \* the cache volume fails
     \/ /\ Fenced /\ scan.found # None /\ ~Unrelated /\ faults < MaxFaults
        /\ faults' = faults + 1
        /\ Retry

\* completeRootScan: an unexpectedly empty root needs a second opinion.
Unconfirmed == scan.seen = "empty" /\ AvailableRows /\ streak = 0

CompleteRows ==
  /\ row' = IF scan.found = None THEN None ELSE row
  /\ rest' = IF scan.seen = "empty" THEN None ELSE "available"
  /\ streak' = 0

\* Seeded fault: an acknowledged request keeps its claimant and loses its reason.
AcknowledgeHalf == req' = [req EXCEPT !.pending = FALSE, !.reason = None]

\* acknowledgeRootScan.
Acknowledge ==
  /\ req' = NoRequest

\* Rows of a path the root has left (another service moved it before the
\* claim) are not acknowledged: the current path is scanned next.  Replacing
\* the watchers may fail; the old set then stays.
FinishScan ==
  /\ up /\ scan # None /\ scan.at = "indexed" /\ ~aborted
  /\ \/ Superseded
     \/ /\ Fenced /\ Unconfirmed
        /\ streak' = 1 /\ failed' = 1
        /\ EndScan(FALSE, watching, dirty)
        /\ UNCHANGED <<directory, req, row, rest, up, boot, timer, events,
                       noise, faults>>
     \/ /\ Fenced /\ ~Unconfirmed /\ ~SameConfiguration
        /\ CompleteRows
        /\ failed' = IF scan.seen = "ok" THEN 0 ELSE failed
        /\ EnqueueDurable("configuration", FALSE)
        /\ EndScan(FALSE, watching, dirty)
        /\ UNCHANGED <<directory, up, boot, events, noise, faults>>
     \/ /\ Fenced /\ ~Unconfirmed /\ SameConfiguration
        /\ CompleteRows
        /\ failed' = IF scan.seen = "ok" THEN 0 ELSE failed
        /\ Acknowledge
        /\ \/ EndScan(TRUE, scan.path, dirty) /\ UNCHANGED faults
           \/ /\ faults < MaxFaults /\ faults' = faults + 1
              /\ EndScan(TRUE, watching, dirty)
        /\ UNCHANGED <<directory, up, boot, timer, events, noise>>

\* A retired scan returns without touching the database.
AbortedScanEnds ==
  /\ up /\ scan # None /\ aborted
  /\ EndScan(FALSE, watching, dirty)
  /\ UNCHANGED <<directory, database, up, boot, timer, events, noise, faults, failed>>

\* A nested error or a traversal limit: rows stay, nothing is acknowledged.
ScanFails ==
  /\ up /\ Claimed /\ ~aborted /\ Fenced /\ faults < MaxFaults
  /\ faults' = faults + 1
  /\ EndScan(FALSE, watching, dirty)
  /\ UNCHANGED <<directory, database, up, boot, timer, events, noise, failed>>

\* The deadline of a scan: a retry replaces the rerun.
DeadlineExpires ==
  /\ up /\ Claimed /\ ~aborted /\ faults < MaxFaults
  /\ SameConfiguration /\ enabled
  /\ faults' = faults + 1
  /\ timer' = (timer \/ req.pending)
  /\ dirty' = MergeDirty(dirty, scan.dirty)
  /\ scan' = None /\ rerun' = FALSE
  /\ UNCHANGED <<directory, database, up, boot, aborted, watching, events, noise,
                 unwatched, failed>>

-----------------------------------------------------------------------------
(* The process *)

\* A crash or a stop: what is in memory is lost.
GoDown ==
  /\ up /\ faults < MaxFaults
  /\ faults' = faults + 1
  /\ up' = FALSE /\ boot' = "ready" /\ timer' = FALSE /\ scan' = None /\ rerun' = FALSE /\ aborted' = FALSE
  /\ CloseWatchers
  /\ req' = [req EXCEPT !.owner = IF @ = "us" THEN "none" ELSE @]
  /\ unwatched' = \/ unwatched
                  \/ events \cup dirty # {}
                  \/ scan # None /\ scan.dirty # {}
  /\ UNCHANGED <<directory, row, rest, streak, noise, failed>>

\* start(): a root without a pending request gets one.
Start ==
  /\ ~up
  /\ up' = TRUE /\ boot' = "first"
  /\ req' = IF enabled /\ ~req.pending THEN Request("startup") ELSE req
  /\ scan' = IF enabled THEN NewScan ELSE None
  /\ UNCHANGED <<directory, row, rest, streak, timer, rerun, aborted,
                 hints, history>>

\* The follow-up that closes the window before the first watcher, and the scan
\* of what a watcher reported meanwhile.
ContinueStart ==
  /\ up /\ boot # "ready" /\ scan = None
  /\ \/ /\ boot = "first" /\ enabled /\ watching # None
        /\ boot' = "followup"
        /\ req' = Request("startup-followup")
        /\ scan' = NewScan
        /\ UNCHANGED timer
     \/ /\ boot = "followup" /\ enabled /\ watching # None
        /\ req.pending /\ req.reason = "watch-event"
        /\ boot' = "drain"
        /\ timer' = FALSE
        /\ scan' = NewScan
        /\ UNCHANGED req
     \/ /\ ~(boot = "first" /\ enabled /\ watching # None)
        /\ ~(boot = "followup" /\ enabled /\ watching # None
               /\ req.pending /\ req.reason = "watch-event")
        /\ boot' = "ready"
        /\ UNCHANGED <<req, timer, scan>>
  /\ UNCHANGED <<directory, row, rest, streak, up, rerun, aborted, hints, history>>

\* Another service on the same database claims the request, and finishes it.
OtherServiceClaims ==
  /\ req.pending /\ req.owner # "other" /\ faults < MaxFaults
  /\ req' = [req EXCEPT !.owner = "other"]
  /\ faults' = faults + 1
  /\ UNCHANGED <<directory, row, rest, streak, up, boot, timer, scan,
                 rerun, aborted, hints, noise, unwatched, failed>>

OtherServiceFinishes ==
  /\ req.pending /\ req.owner = "other" /\ mount = "ok"
  /\ row' = IF file = None THEN None
            ELSE [stat |-> file.stat, sample |-> file.sample, full |-> file.full,
                  available |-> TRUE, error |-> FALSE, path |-> path]
  /\ rest' = "available" /\ streak' = 0 /\ failed' = 0
  /\ req' = NoRequest
  /\ UNCHANGED <<directory, up, boot, timer, scan, rerun, aborted, hints, noise,
                 faults, unwatched>>

-----------------------------------------------------------------------------

Init ==
  /\ file = [stat |-> 0, sample |-> 0, full |-> 0]
  /\ mount = "ok" /\ path = 1 /\ enabled = TRUE
  /\ req = NoRequest
  /\ row = None /\ rest = None /\ streak = 0
  /\ up = FALSE /\ boot = "ready" /\ timer = FALSE /\ scan = None
  /\ rerun = FALSE /\ aborted = FALSE
  /\ watching = None /\ dirty = {} /\ events = {}
  /\ noise = 0 /\ faults = 0
  /\ unwatched = TRUE /\ failed = 0

\* What the process does by itself.
Work ==
  \/ WatchEvent \/ ReconciliationTick \/ DeepTick \/ QuietWindowEnds
  \/ Claim \/ Enumerate \/ IndexCandidate \/ FinishScan \/ AbortedScanEnds
  \/ Start \/ ContinueStart

Environment ==
  \/ ChangeFile \/ DeleteFile \/ OtherFileChanges \/ MountChanges
  \/ RequestRescan \/ MoveRoot \/ OtherServiceMovesRoot
  \/ DisableRoot \/ EnableRoot \/ ScanFails \/ DeadlineExpires \/ GoDown
  \/ OtherServiceClaims \/ OtherServiceFinishes

Next == Work \/ Environment

Spec == Init /\ [][Next]_vars

\* Timers fire, events are delivered, and the awaits of a scan and of the
\* start-up return.
ScanGoesOn == Claim \/ Enumerate \/ IndexCandidate \/ FinishScan \/ AbortedScanEnds
StartGoesOn == Start \/ ContinueStart
FairSpec ==
  /\ Spec
  /\ WF_vars(WatchEvent) /\ WF_vars(QuietWindowEnds) /\ WF_vars(ReconciliationTick)
  /\ WF_vars(DeepTick) /\ WF_vars(ScanGoesOn) /\ WF_vars(StartGoesOn)

-----------------------------------------------------------------------------
(* Properties *)

Files == [stat : 0 .. MaxChanges, sample : 0 .. MaxChanges, full : 0 .. MaxChanges]

\* The values of the variables.
TypeOK ==
  /\ file \in Files \cup {None}
  /\ mount \in {"ok", "empty", "lost"} /\ path \in {1, 2} /\ enabled \in BOOLEAN
  /\ req \in [pending : BOOLEAN, reason : Reasons, owner : {"none", "us", "other"}]
  /\ row # None =>
       row \in [stat : 0 .. MaxChanges, sample : 0 .. MaxChanges, full : 0 .. MaxChanges,
                available : BOOLEAN, error : BOOLEAN, path : {1, 2}]
  /\ rest \in {None, "available", "unavailable"} /\ streak \in {0, 1}
  /\ {up, timer, rerun, aborted, unwatched} \subseteq BOOLEAN
  /\ boot \in {"first", "followup", "drain", "ready"}
  /\ scan # None => scan.at \in {"slot", "claimed", "listed", "indexed"}
  /\ watching \in {None, 1, 2}
  /\ dirty \subseteq {"p", "o", "?"} /\ events \subseteq {"p", "o"}
  /\ noise \in 0 .. MaxNoise /\ faults \in 0 .. MaxFaults /\ failed \in {0, 1}

\* Rows of a path that the root no longer has do not stay unnoticed: a move
\* deletes them and fences off the running scan, and while there are rows of a
\* scan that claimed with an outdated configuration, another scan is pending.
RowsAreOfThePath == row # None /\ row.path # path => req.pending

Idle == /\ up /\ enabled /\ mount = "ok" /\ watching = path
        /\ scan = None /\ ~req.pending /\ events = {} /\ dirty = {}

\* What happens to the file while it is watched is never lost: with nothing
\* left to do, the row shows the file's bytes or an error, unless its last
\* change went unwatched.  Hints outlive failed, superseded and timed-out
\* scans, and a request whose names were lost is verified in full.
WatchedChangesAreIndexed ==
  Idle /\ ~unwatched =>
    \/ file = None /\ row = None
    \/ file # None /\ row # None /\ (row.error \/ row.full = file.full)

\* One bad generation, a lost volume or an empty mount point, changes no row;
\* only a second one without a good one in between does.
MountLossIsConfirmed ==
  [][rest = "available" /\ rest' # "available" /\ path' = path => failed = 1]_vars

\* A root that is enabled and reachable for good ends up indexed as it is,
\* through whatever was interrupted before.
CatalogConverges ==
  <>[](up /\ enabled /\ mount = "ok") =>
    <>[](IF file = None THEN row = None
         ELSE row # None /\ row.available /\ row.full = file.full)

\* A rescan that was asked for stays a deep request until a scan has answered it.
RescanIsDeep ==
  [][req.pending /\ req.reason = "manual" /\ req'.pending
       => req'.reason \in DeepReasons]_vars
=============================================================================
