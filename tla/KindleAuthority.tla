-------------------------- MODULE KindleAuthority --------------------------
(***************************************************************************)
(* The page controller's authority over a connected Kindle, and what it is *)
(* needed for: removing books (client/src/controller.ts, with the hooks of *)
(* catalog-browser.ts, device-runtime.ts, kindle-device.ts, object-store).  *)
(*                                                                         *)
(* An object handle means something only within one MTP session, while the *)
(* request to remove books names handles and may wait in a dialog over any *)
(* number of reconnects.  The controller therefore keeps the raw inventory *)
(* of the connection (raw), the epoch it belongs to (rawEpoch), and what it *)
(* shows (shown), and every await may be crossed by the removal of the     *)
(* cable, the page being hidden, a failed session or a disconnect.         *)
(*                                                                         *)
(* A file is its book, its edition (what its name and size tell) and the   *)
(* rest of its object information (date).                                  *)
(***************************************************************************)
EXTENDS Naturals, FiniteSets

CONSTANTS
  Books,       \* the books of the library
  Handles,     \* the object handles the Kindle gives out
  None,
  MaxConnects, \* connection attempts
  MaxRemovals, \* removals asked for
  MaxEdits,    \* new editions in the library
  MaxTouches,  \* changes the Kindle itself makes to its files
  MaxFaults    \* steps that fail

VARIABLES
  device,   \* Handles -> file or None, as the current session numbers them
  edition,  \* Books -> the edition in the library
  ctl,      \* the controller: see TypeOK
  session,  \* the connection of the last attempt: is it open, its own inventory
  raw,      \* #rawCatalogInventory: [of, files] or None
  shown,    \* #catalogInventory: [full, matched, items] or None
  page,     \* the browser page: see TypeOK
  post,     \* the automatic work after a connection
  job,      \* the removal that runs
  recon,    \* the comparisons that run, one under hardwareBusy and one in the background
  budget

vars == <<device, edition, ctl, session, raw, shown, page, post, job, recon, budget>>

File == [book : Books, ed : {1, 2}, date : {0, 1}]
FileMap == [Handles -> File \cup {None}]
Epochs == 0..(2 * MaxConnects + MaxFaults + 2)
Targets == [h : Handles, book : Books, ed : {1, 2}]
Item == [file : File, match : {"confirmed", "prior"}]
Slots == {"hardware", "background"}

TypeOK ==
  /\ device \in FileMap
  /\ edition \in [Books -> {1, 2}]
  /\ ctl \in [conn : Epochs, epoch : Epochs, stage : {"none", "choosing", "opening", "up", "closing"},
              busy : BOOLEAN, tested : BOOLEAN, inv : {"idle", "loading", "ready", "failed"},
              rawEpoch : Epochs, queued : BOOLEAN]
  /\ session \in [of : Epochs, open : BOOLEAN, files : FileMap \cup {None}]
  /\ raw \in [of : Epochs, files : FileMap] \cup {None}
  /\ shown \in [full : BOOLEAN, matched : BOOLEAN, items : [Handles -> Item \cup {None}]]
              \cup {None}
  /\ page \in [fresh : BOOLEAN, pending : SUBSET Targets, busy : BOOLEAN]
  /\ post \in [pc : {"idle", "test", "inventory", "compare", "end"}, epoch : Epochs]
  /\ job \in [pc : {"idle", "delete", "inventory", "compare", "end"}, epoch : Epochs,
              asked : SUBSET Targets, left : SUBSET Handles]
  /\ recon \in [Slots -> [pc : {"idle", "index", "install"}, epoch : Epochs,
                          files : FileMap \cup {None}, index : [Books -> {1, 2}] \cup {None}]]
  /\ budget \in [connects : 0..MaxConnects, removals : 0..MaxRemovals, edits : 0..MaxEdits,
                 touches : 0..MaxTouches, faults : 0..MaxFaults]

IdleRecon == [pc |-> "idle", epoch |-> 0, files |-> None, index |-> None]
IdleJob == [pc |-> "idle", epoch |-> 0, asked |-> {}, left |-> {}]
IdlePost == [pc |-> "idle", epoch |-> 0]

Init ==
  /\ device = CHOOSE f \in [Handles -> [book : Books, ed : {1}, date : {0}]] :
                 \A g, h \in Handles : f[g] = f[h] => g = h
  /\ edition = [b \in Books |-> 1]
  /\ ctl = [conn |-> 0, epoch |-> 0, stage |-> "none", busy |-> FALSE, tested |-> FALSE,
            inv |-> "idle", rawEpoch |-> 0, queued |-> FALSE]
  /\ session = [of |-> 0, open |-> FALSE, files |-> None]
  /\ raw = None /\ shown = None
  /\ page = [fresh |-> FALSE, pending |-> {}, busy |-> FALSE]
  /\ post = IdlePost /\ job = IdleJob
  /\ recon = [s \in Slots |-> IdleRecon]
  /\ budget = [connects |-> 0, removals |-> 0, edits |-> 0, touches |-> 0, faults |-> 0]

-----------------------------------------------------------------------------
(* Helpers *)

Spend(b, bound) == budget[b] < bound /\ budget' = [budget EXCEPT ![b] = @ + 1]

\* #isActiveConnection
Active(e) == ctl.epoch = e /\ ctl.conn = e /\ session.open

\* #clearCurrentCatalogInventoryAuthority, on the controller record c
WithoutAuthority(c) == [c EXCEPT !.rawEpoch = 0]

\* asLastSeenInventory: what was shown stays, as what was last seen
LastSeen == IF shown = None THEN None ELSE [shown EXCEPT !.full = FALSE]

\* #catalogInventoryReadyForCurrentConnection and #currentRawCatalogInventory
Ready ==
  /\ ctl.inv = "ready" /\ ctl.rawEpoch = ctl.epoch /\ ctl.conn # 0 /\ raw # None
  /\ (shown # None => shown.full /\ shown.matched)

\* The files of an inventory, compared with the editions of a match index: a
\* copy of the present edition is confirmed, an older managed one is a prior
\* presentation.
Compare(files, index) ==
  [h \in Handles |->
     IF files[h] = None THEN None
     ELSE [file |-> files[h],
           match |-> IF files[h].ed = index[files[h].book] THEN "confirmed" ELSE "prior"]]

\* setKindleInventory without a comparison of the current files: nothing live is
\* confirmed on the page any more
PageUnproven == page' = [page EXCEPT !.fresh = FALSE]

\* #deviceAbort ends the requests of the comparisons that were started with it.
Aborted(r) == [r EXCEPT !["background"] = IdleRecon]

-----------------------------------------------------------------------------
(* Connecting *)

\* connect, up to the device chooser
Connect ==
  /\ Spend("connects", MaxConnects)
  /\ ctl.conn = 0 /\ ctl.stage = "none" /\ ~ctl.busy
  /\ ctl' = [WithoutAuthority(ctl) EXCEPT !.epoch = @ + 1, !.stage = "choosing", !.inv = "idle"]
  /\ raw' = None /\ shown' = LastSeen /\ PageUnproven
  /\ UNCHANGED <<device, edition, session, post, job, recon>>

\* The owner picks the device; what follows the chooser opens the session, which
\* numbers the files anew.  openDevice was modelled in detail in DeviceLease.
Choose ==
  /\ ctl.stage = "choosing"
  /\ ctl' = [ctl EXCEPT !.stage = "opening"]
  /\ UNCHANGED <<device, edition, session, raw, shown, page, post, job, recon, budget>>

Open ==
  /\ ctl.stage = "opening"
  /\ \E p \in [Handles -> Handles] :
       /\ \A g, h \in Handles : p[g] = p[h] => g = h
       /\ device' = [h \in Handles |-> device[p[h]]]
  /\ session' = [of |-> ctl.epoch, open |-> TRUE, files |-> None]
  /\ ctl' = [ctl EXCEPT !.conn = ctl.epoch, !.stage = "up", !.busy = TRUE, !.tested = FALSE,
                        !.inv = "loading"]
  /\ post' = [pc |-> "test", epoch |-> ctl.epoch]
  /\ UNCHANGED <<edition, raw, shown, page, job, recon, budget>>

\* openDeviceWithDeadline rejects, or the owner closes the chooser
OpenFails ==
  /\ ctl.stage \in {"choosing", "opening"} /\ Spend("faults", MaxFaults)
  /\ ctl' = [ctl EXCEPT !.stage = "none", !.inv = "idle", !.tested = FALSE]
  /\ UNCHANGED <<device, edition, session, raw, shown, page, post, job, recon>>

\* runAutomaticPostConnect: the safe-write test passes
SelfTest ==
  /\ post.pc = "test"
  /\ IF Active(post.epoch)
     THEN /\ post' = [post EXCEPT !.pc = "inventory"] /\ ctl' = [ctl EXCEPT !.tested = TRUE]
     ELSE /\ post' = [post EXCEPT !.pc = "end"] /\ UNCHANGED ctl
  /\ UNCHANGED <<device, edition, session, raw, shown, page, job, recon, budget>>

\* refreshInventory of the connection.  It is the connection that keeps what it
\* read, even when the controller has let go of it.
ReadInventory ==
  /\ post.pc = "inventory"
  /\ IF session.of = post.epoch /\ session.open
     THEN session' = [session EXCEPT !.files = device]
     ELSE UNCHANGED session
  /\ IF Active(post.epoch)
     THEN /\ post' = [post EXCEPT !.pc = "compare"]
          /\ ctl' = [ctl EXCEPT !.rawEpoch = 0, !.inv = "loading"]
          /\ recon' = [recon EXCEPT !["hardware"] =
                         [pc |-> "index", epoch |-> post.epoch, files |-> device, index |-> None]]
     ELSE post' = [post EXCEPT !.pc = "end"] /\ UNCHANGED <<ctl, recon>>
  /\ UNCHANGED <<device, edition, raw, shown, page, job, budget>>

\* The inventory fails without ending the session: the connection stays, without
\* any authority.
InventoryFails ==
  /\ post.pc = "inventory" /\ Active(post.epoch) /\ Spend("faults", MaxFaults)
  /\ post' = [post EXCEPT !.pc = "end"]
  /\ ctl' = [ctl EXCEPT !.rawEpoch = 0]
  /\ UNCHANGED <<device, edition, session, raw, shown, page, job, recon>>

\* The finally of connect: #finishHardwareOperation.  It replays a comparison
\* that was asked for while the hardware was busy.
PostEnds ==
  /\ post.pc = "end"
  /\ post' = IdlePost
  /\ ctl' = [ctl EXCEPT !.busy = FALSE,
                        !.inv = IF ~Active(post.epoch) THEN @
                                ELSE IF ctl.rawEpoch = post.epoch THEN "ready" ELSE "failed"]
  /\ UNCHANGED <<device, edition, session, raw, shown, page, job, recon, budget>>

-----------------------------------------------------------------------------
(* Losing the connection *)

\* What every end of a connection leaves: no authority, and what was shown is
\* only what was last seen.
Drop ==
  /\ raw' = None /\ shown' = LastSeen /\ PageUnproven

\* #disconnectCurrentConnection, begun while no operation runs.  What is shown
\* becomes last-seen only once the session was closed.
Disconnect ==
  /\ ctl.stage \in {"choosing", "opening", "up"} /\ ~ctl.busy
  /\ Spend("faults", MaxFaults)
  /\ ctl' = [WithoutAuthority(ctl) EXCEPT !.epoch = @ + 1, !.conn = 0,
                !.stage = IF ctl.conn # 0 THEN "closing" ELSE "none",
                !.inv = "idle", !.tested = FALSE]
  /\ raw' = None
  /\ IF ctl.conn = 0 THEN shown' = LastSeen /\ PageUnproven ELSE UNCHANGED <<shown, page>>
  /\ recon' = Aborted(recon)
  /\ UNCHANGED <<device, edition, session, post, job>>

\* connection.disconnect settles, cleanly or not
Disconnected ==
  /\ ctl.stage = "closing" /\ ~ctl.busy
  /\ ctl' = [ctl EXCEPT !.stage = "none"]
  /\ session' = [session EXCEPT !.open = FALSE]
  /\ shown' = LastSeen /\ PageUnproven
  /\ UNCHANGED <<device, edition, raw, post, job, recon, budget>>

\* #handleUsbDisconnect: the cable is pulled, whatever runs
Unplugged ==
  /\ ctl.stage \in {"opening", "up"} /\ Spend("faults", MaxFaults)
  /\ ctl' = [WithoutAuthority(ctl) EXCEPT !.epoch = @ + 1, !.conn = 0, !.stage = "none",
                                          !.inv = "idle", !.tested = FALSE]
  /\ Drop
  /\ session' = [session EXCEPT !.open = FALSE]
  /\ recon' = Aborted(recon)
  /\ UNCHANGED <<device, edition, post, job>>

\* #invalidateForBrowserLifecycle: the page was hidden for long or left.  The
\* session is closed once the hardware is idle (#waitForHardwareIdle), and
\* connect waits for that.
Hidden ==
  /\ ctl.stage \in {"choosing", "opening", "up"} /\ Spend("faults", MaxFaults)
  /\ ctl' = [WithoutAuthority(ctl) EXCEPT !.epoch = @ + 1, !.conn = 0,
                !.stage = IF ctl.conn # 0 THEN "closing" ELSE "none",
                !.inv = "idle", !.tested = FALSE, !.queued = FALSE]
  /\ Drop
  /\ recon' = Aborted(recon)
  /\ UNCHANGED <<device, edition, session, post, job>>

\* #retireFaultedConnection, after a fault that ends the session
Retire ==
  /\ ctl' = [WithoutAuthority(ctl) EXCEPT !.epoch = @ + 1, !.conn = 0, !.stage = "none",
                                          !.inv = "idle"]
  /\ Drop
  /\ session' = [session EXCEPT !.open = FALSE]

\* The self test or the inventory ends the session.
PostFaults ==
  /\ post.pc \in {"test", "inventory"} /\ Active(post.epoch) /\ Spend("faults", MaxFaults)
  /\ Retire
  /\ post' = [post EXCEPT !.pc = "end"]
  /\ UNCHANGED <<device, edition, job, recon>>

-----------------------------------------------------------------------------
(* Comparing the inventory with the catalog: #reconcileCatalogInventory *)

\* A plausible slip: a comparison in the background while the hardware is busy.
MayCompareAlways == ctl.conn # 0 /\ raw # None /\ recon["background"].pc = "idle"
\* #queueConnectedCatalogReconciliation, after an event, a chosen profile or the
\* end of a hardware operation
MayCompare == ctl.conn # 0 /\ raw # None /\ ~ctl.busy /\ recon["background"].pc = "idle"

StartBackground ==
  /\ ctl.queued /\ MayCompare
  /\ ctl' = [ctl EXCEPT !.queued = FALSE, !.rawEpoch = 0, !.inv = "loading"]
  /\ recon' = [recon EXCEPT !["background"] =
                 [pc |-> "index", epoch |-> ctl.epoch, files |-> raw.files, index |-> None]]
  /\ UNCHANGED <<device, edition, session, raw, shown, page, post, job, budget>>

ReadIndex(s) ==
  /\ recon[s].pc = "index"
  /\ recon' = [recon EXCEPT ![s].pc = "install", ![s].index = edition]
  /\ UNCHANGED <<device, edition, ctl, session, raw, shown, page, post, job, budget>>

\* The task that waits for a comparison goes on.
Resumed(s) ==
  IF s = "background" THEN UNCHANGED <<post, job>>
  ELSE IF post.pc = "compare" THEN post' = [post EXCEPT !.pc = "end"] /\ UNCHANGED job
  ELSE job' = [job EXCEPT !.pc = "end"] /\ UNCHANGED post

\* The comparison is installed only for the connection it was started for.
Install(s) ==
  LET r == recon[s] IN
  /\ r.pc = "install"
  /\ IF Active(r.epoch)
     THEN /\ raw' = [of |-> r.epoch, files |-> r.files]
          /\ shown' = [full |-> TRUE, matched |-> TRUE, items |-> Compare(r.files, r.index)]
          /\ page' = [page EXCEPT !.fresh = TRUE]
          /\ ctl' = [ctl EXCEPT !.rawEpoch = ctl.epoch, !.inv = "ready"]
     ELSE UNCHANGED <<raw, shown, page, ctl>>
  /\ recon' = [recon EXCEPT ![s] = IdleRecon]
  /\ Resumed(s)
  /\ UNCHANGED <<device, edition, session, budget>>

\* The index does not come.  In the background the old comparison loses its
\* authority; after a removal the new inventory is shown without one
\* (#presentInventoryWithoutCatalogMatches); after connecting nothing is shown.
CompareFails(s) ==
  LET r == recon[s] IN
  /\ r.pc # "idle" /\ Spend("faults", MaxFaults)
  /\ IF s = "hardware" /\ job.pc = "compare" /\ Active(r.epoch)
     THEN /\ raw' = [of |-> r.epoch, files |-> r.files]
          /\ shown' = [full |-> TRUE, matched |-> FALSE,
                       items |-> [h \in Handles |-> None]]
          /\ PageUnproven
          /\ ctl' = [ctl EXCEPT !.rawEpoch = 0, !.inv = "failed"]
     ELSE /\ ctl' = IF Active(r.epoch) THEN [ctl EXCEPT !.rawEpoch = 0, !.inv = "failed"] ELSE ctl
          /\ UNCHANGED <<raw, shown, page>>
  /\ recon' = [recon EXCEPT ![s] = IdleRecon]
  /\ Resumed(s)
  /\ UNCHANGED <<device, edition, session>>

\* The library gets a new edition; its event takes every live verdict back on
\* the page and asks for a comparison (#scheduleEventRefresh, onProfileActivated).
NewEdition(b) ==
  /\ edition[b] = 1 /\ Spend("edits", MaxEdits)
  /\ edition' = [edition EXCEPT ![b] = 2]
  /\ PageUnproven
  /\ ctl' = [ctl EXCEPT !.queued = ctl.conn # 0]
  /\ UNCHANGED <<device, session, raw, shown, post, job, recon>>

\* The Kindle changes a file or drops it.
Touch(h) ==
  /\ device[h] # None /\ Spend("touches", MaxTouches)
  /\ device' \in {[device EXCEPT ![h] = None], [device EXCEPT ![h].date = 1]}
  /\ UNCHANGED <<edition, ctl, session, raw, shown, page, post, job, recon>>

-----------------------------------------------------------------------------
(* Removing books *)

\* #requestRemoval: the dialog lists the copies the live comparison shows
Removable(h) == shown.items[h] # None
TargetOf(h) == [h |-> h, book |-> shown.items[h].file.book, ed |-> shown.items[h].file.ed]
RequestRemoval ==
  /\ ~page.busy /\ page.fresh /\ shown # None /\ shown.full /\ shown.matched
  /\ page.pending = {} /\ Spend("removals", MaxRemovals)
  /\ \E hs \in (SUBSET {h \in Handles : Removable(h)}) \ {{}} :
       page' = [page EXCEPT !.pending = {TargetOf(h) : h \in hs}]
  /\ UNCHANGED <<device, edition, ctl, session, raw, shown, post, job, recon>>

\* cancelBookRemoval
CancelRemoval ==
  /\ ~page.busy /\ page.pending # {}
  /\ page' = [page EXCEPT !.pending = {}]
  /\ UNCHANGED <<device, edition, ctl, session, raw, shown, post, job, recon, budget>>

\* A plausible slip: the handle alone says which file is meant.
SameHandle(t) == shown.items[t.h] # None /\ raw.files[t.h] # None /\ page.fresh
\* removeCatalogBooks: a target must be, in the comparison of this connection, a
\* copy of the same book under the same name and size.
StillExact(t) ==
  /\ shown.items[t.h] # None /\ raw.files[t.h] # None
  /\ shown.items[t.h].file.book = t.book /\ shown.items[t.h].file.ed = t.ed
  /\ raw.files[t.h].book = t.book /\ raw.files[t.h].ed = t.ed
  /\ page.fresh

\* confirmBookRemoval, with the checks of the controller and of the connection
ConfirmRemoval ==
  /\ ~page.busy /\ page.pending # {} /\ ~ctl.busy
  /\ ctl.tested /\ session.open /\ session.of = ctl.conn /\ session.files # None
  /\ Ready /\ shown # None
  /\ \A t \in page.pending : StillExact(t) /\ session.files[t.h] # None
  /\ page' = [page EXCEPT !.busy = TRUE]
  /\ ctl' = [ctl EXCEPT !.busy = TRUE]
  /\ job' = [pc |-> "delete", epoch |-> ctl.epoch, asked |-> page.pending,
             left |-> {t.h : t \in page.pending}]
  /\ UNCHANGED <<device, edition, session, raw, shown, post, recon, budget>>

\* The next handle of the batch, in the order of the inventory
FirstLeft == CHOOSE h \in job.left : \A g \in job.left : h <= g

\* deleteExistingKindleBookObject: the object information is read, its parent
\* listed, the information read again and the object deleted.
DeleteNext ==
  /\ job.pc = "delete" /\ job.left # {} /\ session.open /\ session.of = job.epoch
  /\ ctl.epoch = job.epoch
  /\ device[FirstLeft] = session.files[FirstLeft]
  /\ device' = [device EXCEPT ![FirstLeft] = None]
  /\ job' = [job EXCEPT !.left = @ \ {FirstLeft}]
  /\ UNCHANGED <<edition, ctl, session, raw, shown, page, post, recon, budget>>


\* Whether a DeleteObject whose outcome was not seen was carried out
MaybeDeleted ==
  {device} \cup {[device EXCEPT ![h] = None] :
     h \in {g \in job.left : /\ job.pc = "delete" /\ session.open
                             /\ g = FirstLeft /\ device[g] = session.files[g]}}

\* A plausible slip: a failed removal leaves the comparison as it was.
RemovalFailsQuietly ==
  /\ job.pc = "delete" /\ budget.faults < MaxFaults
  /\ device' \in MaybeDeleted
  /\ job' = [job EXCEPT !.pc = "end"]
  /\ UNCHANGED <<edition, ctl, session, raw, shown, page, post, recon, budget>>

\* The batch fails: the object differs, the operation was ended from outside, or
\* an answer is missing.  Nothing that was compared before is current.
RemovalFails ==
  /\ job.pc = "delete"
  /\ \/ ~session.open \/ ctl.epoch # job.epoch
     \/ job.left # {} /\ device[FirstLeft] # session.files[FirstLeft]
     \/ budget.faults < MaxFaults
  /\ budget' = IF budget.faults < MaxFaults THEN [budget EXCEPT !.faults = @ + 1] ELSE budget
  /\ device' \in MaybeDeleted
  /\ session' = [session EXCEPT !.files = None]
  /\ IF Active(job.epoch)
     THEN /\ ctl' = [WithoutAuthority(ctl) EXCEPT !.inv = "failed"] /\ Drop
     ELSE UNCHANGED <<ctl, raw, shown, page>>
  /\ job' = [job EXCEPT !.pc = "end"]
  /\ UNCHANGED <<edition, post, recon>>

\* The same, and the session is lost with it.
RemovalFaults ==
  /\ job.pc = "delete" /\ Active(job.epoch) /\ Spend("faults", MaxFaults)
  /\ Retire
  /\ job' = [job EXCEPT !.pc = "end"]
  /\ UNCHANGED <<device, edition, post, recon>>

\* removeBooksAndRefreshInventory: the connection forgets what it had read ...
AllDeleted ==
  /\ job.pc = "delete" /\ job.left = {}
  /\ session' = [session EXCEPT !.files = None]
  /\ job' = [job EXCEPT !.pc = "inventory"]
  /\ UNCHANGED <<device, edition, ctl, raw, shown, page, post, recon, budget>>

\* ... and reads anew, which the controller compares
RefreshAfterRemoval ==
  /\ job.pc = "inventory" /\ session.open /\ ctl.epoch = job.epoch
  /\ session' = [session EXCEPT !.files = device]
  /\ ctl' = [ctl EXCEPT !.rawEpoch = 0, !.inv = "loading"]
  /\ recon' = [recon EXCEPT !["hardware"] =
                 [pc |-> "index", epoch |-> job.epoch, files |-> device, index |-> None]]
  /\ job' = [job EXCEPT !.pc = "compare"]
  /\ UNCHANGED <<device, edition, raw, shown, page, post, budget>>

\* The books are gone but the inventory could not be read, which may end the
\* session.
RefreshFails ==
  /\ job.pc = "inventory"
  /\ IF Active(job.epoch)
     THEN /\ Spend("faults", MaxFaults)
          /\ \/ ctl' = [WithoutAuthority(ctl) EXCEPT !.inv = "failed"] /\ Drop
                /\ UNCHANGED session
             \/ Retire
     ELSE UNCHANGED <<ctl, raw, shown, page, session, budget>>
  /\ job' = [job EXCEPT !.pc = "end"]
  /\ UNCHANGED <<device, edition, post, recon>>

\* The finally of removeCatalogBooks; the page closes the dialog when every
\* target was removed and keeps it otherwise.
RemovalEnds ==
  /\ job.pc = "end"
  /\ ctl' = [ctl EXCEPT !.busy = FALSE]
  /\ page' = [page EXCEPT !.busy = FALSE, !.pending = IF job.left = {} THEN {} ELSE @]
  /\ job' = IdleJob
  /\ UNCHANGED <<device, edition, session, raw, shown, post, recon, budget>>

Next ==
  \/ Connect \/ Choose \/ Open \/ OpenFails
  \/ SelfTest \/ ReadInventory \/ InventoryFails \/ PostFaults \/ PostEnds
  \/ Disconnect \/ Disconnected \/ Unplugged \/ Hidden
  \/ StartBackground
  \/ \E s \in Slots : ReadIndex(s) \/ Install(s) \/ CompareFails(s)
  \/ \E b \in Books : NewEdition(b)
  \/ \E h \in Handles : Touch(h)
  \/ RequestRemoval \/ CancelRemoval \/ ConfirmRemoval \/ DeleteNext \/ AllDeleted
  \/ RemovalFails \/ RemovalFaults \/ RefreshAfterRemoval \/ RefreshFails \/ RemovalEnds

Spec == Init /\ [][Next]_vars

-----------------------------------------------------------------------------
(* Properties *)

\* A Kindle file is deleted only when the owner confirmed the removal of a copy
\* of that book under that name and size, however many connections were made,
\* and handles renumbered, since the dialog was opened (removeCatalogBooks).
OnlyConfirmedCopies ==
  [][\A h \in Handles :
       (job.pc # "idle" /\ budget'.touches = budget.touches /\ device'[h] # device[h])
         => \E t \in page.pending : t.book = device[h].book /\ t.ed = device[h].ed]_vars

\* What the page presents as a complete, matched, live comparison names exactly
\* the files of the connected Kindle, handle by handle: no association survives a
\* removal that failed half-way or an earlier session.
LiveComparisonIsTrue ==
  (shown # None /\ page.fresh /\ ~ctl.busy /\ budget.touches = 0)
    => (shown.full /\ shown.matched
          => \A h \in Handles : IF shown.items[h] = None THEN device[h] = None
                                 ELSE shown.items[h].file = device[h])

\* A comparison that authorizes writes is of the inventory which the connection
\* itself would check a handle against.
AuthorityIsCurrent ==
  (Ready /\ ~ctl.busy) => raw.of = ctl.conn /\ session.of = ctl.conn /\ raw.files = session.files
=============================================================================
