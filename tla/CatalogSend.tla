---------------------------- MODULE CatalogSend -----------------------------
(***************************************************************************)
(* Sending catalog books to the connected Kindle: the controller's         *)
(* comparison of the device inventory with the catalog, single and batch   *)
(* sends that rest on it, and the catalog events that outdate it.          *)
(*                                                                         *)
(* A book's presentation is its look: 0 as in the source file, 1 as edited *)
(* by the user.  A copy on the device has the token of the look it was     *)
(* compared under, and the content that was really read.  One profile.     *)
(***************************************************************************)
EXTENDS Naturals, Sequences

CONSTANTS
  Books,
  Orders,      \* the batches a user may select, as sequences of books
  MaxEdits,    \* edits of the catalog
  MaxFaults,   \* failed requests, lost connections and streams
  MaxJobs,     \* sends and batches
  None

Looks == {0, 1}

VARIABLES
  catalog,   \* [look, rev] of every book
  files,     \* the copies written to the device: [book, look, made]
  pending,   \* the journal holds an interrupted object
  linked,    \* a connection is live
  raw,       \* #rawCatalogInventory: [seen, complete]
  current,   \* #catalogInventoryEpoch is the device epoch
  state,     \* catalogInventoryState
  compared,  \* #catalogReconciledVersions: the looks, or None
  queued,    \* #catalogEventReconciliationQueued
  running,   \* the comparison under way: [by, inventory, step, index, heard], or None
  batch,     \* #catalogSendBatch: [completed, latest], or None
  send,      \* the send under way, or None
  job,       \* the browser's batch: [left, step], or None
  status,    \* kindleStatus of every book
  live,      \* liveUpdatesConnected
  wire,      \* an event is under way: "edit" or "delivery"
  refresh,   \* an event waits for #refreshFromEvents
  owed,      \* an edit was heard of after the index of the statuses was read (history)
  edits, faults, jobs

device == <<files, pending>>
comparison == <<raw, current, state, compared, queued, running>>
browser == <<job, status, live, wire, refresh>>
bounds == <<edits, faults, jobs>>
vars == <<catalog, files, pending, linked, raw, current, state, compared, queued, running, batch,
          send, job, status, live, wire, refresh, owed, edits, faults, jobs>>

Fault == faults < MaxFaults /\ faults' = faults + 1 /\ UNCHANGED <<edits, jobs>>
NewJob == jobs < MaxJobs /\ jobs' = jobs + 1 /\ UNCHANGED <<edits, faults>>

-----------------------------------------------------------------------------
(* Comparing.  reconcileCatalogIndexes with its matching: a token of the   *)
(* compared look confirms the book in a complete inventory; another look's *)
(* token may be known to the index or not; a partial one proves nothing.   *)

Holds(inventory, b, look) ==
  \E i \in inventory.seen : files[i].book = b /\ files[i].look = look

Verdicts(b, index, inventory) ==
  IF ~inventory.complete THEN {"possible"}
  ELSE IF Holds(inventory, b, index[b]) THEN {"confirmed"}
  ELSE IF \E look \in Looks : Holds(inventory, b, look) THEN {"possible", "missing"}
  ELSE {"missing"}

Unknown == [b \in Books |-> "unknown"]

\* #reconcileCatalogInventory, up to the first request.
Begin(by, inventory) ==
  /\ running' = [by |-> by, inventory |-> inventory, step |-> "asking", index |-> None, heard |-> FALSE]
  /\ state' = "loading" /\ current' = FALSE

\* #finishHardwareOperation replays what was queued, as the loop of
\* #queueConnectedCatalogReconciliation does; otherwise the given outcome stays.
BeginQueuedOr(wanted, inventory, outcome, now) ==
  IF wanted /\ queued /\ linked /\ inventory # None
  THEN Begin("event", inventory) /\ queued' = FALSE
  ELSE running' = None /\ state' = outcome /\ current' = now /\ queued' = queued

\* #queueConnectedCatalogReconciliation.
QueueComparison ==
  IF ~linked
  THEN queued' = FALSE /\ UNCHANGED <<running, state, current>>
  ELSE IF batch # None \/ raw = None \/ send # None \/ running # None
  THEN queued' = TRUE /\ UNCHANGED <<running, state, current>>
  ELSE Begin("event", raw) /\ queued' = FALSE

\* The authority of the inventory ends with its connection; the statuses of a
\* last-seen inventory are unknown.
Unlink ==
  /\ linked' = FALSE /\ raw' = None /\ current' = FALSE /\ compared' = None
  /\ queued' = FALSE /\ state' = "idle" /\ running' = None /\ status' = Unknown

FetchIndex ==
  /\ running # None /\ running.step = "asking"
  /\ \/ /\ running' = [running EXCEPT !.step = "answered", !.heard = FALSE,
                                       !.index = [b \in Books |-> catalog[b].look]]
        /\ UNCHANGED bounds
     \/ /\ Fault
        /\ running' = [running EXCEPT !.step = "unavailable"]
  /\ UNCHANGED <<catalog, device, linked, raw, current, state, compared, queued, batch, send, browser,
                 owed>>

\* What the end of a comparison ends: the connecting, the send or the batch.
\* A batch drops the events that came meanwhile.
EndOf(by) ==
  /\ send' = IF by = "send" THEN None ELSE send
  /\ batch' = IF by = "batch" THEN None ELSE batch
  /\ job' = IF by = "batch" THEN None ELSE job

\* The statuses a comparison gives the browser, which takes none of them for
\* true while the event stream is down.
Shows(index, inventory) ==
  IF ~live THEN {Unknown}
  ELSE {s \in [Books -> {"possible", "confirmed", "missing"}] :
          \A b \in Books : s[b] \in Verdicts(b, index, inventory)}

\* The last part of #reconcileCatalogInventory, and its caller.
InstallComparison ==
  /\ running # None /\ running.step # "asking"
  /\ LET ok == running.step = "answered" IN
     /\ raw' = running.inventory
     /\ compared' = running.index
     /\ status' \in IF ok THEN Shows(running.index, running.inventory) ELSE {Unknown}
     /\ IF running.by = "batch"
        THEN queued' = FALSE /\ running' = None /\ state' = (IF ok THEN "ready" ELSE "failed") /\ current' = ok
        ELSE BeginQueuedOr(TRUE, running.inventory, IF ok THEN "ready" ELSE "failed", ok)
     /\ owed' = running.heard
     /\ EndOf(running.by)
  /\ UNCHANGED <<catalog, device, linked, live, wire, refresh, bounds>>

\* The deadline of the comparison.  An event's comparison ends its loop; after
\* the others the hardware is released.
ComparisonFails ==
  /\ running # None /\ Fault
  /\ IF running.by = "batch"
     THEN queued' = FALSE /\ running' = None /\ state' = "failed" /\ current' = FALSE
     ELSE BeginQueuedOr(running.by # "event", raw, "failed", FALSE)
  /\ EndOf(running.by)
  /\ UNCHANGED <<catalog, device, linked, raw, compared, status, live, wire, refresh, owed>>

-----------------------------------------------------------------------------
(* The connection *)

\* What an inventory of the device may find.
Inventories ==
  {[seen |-> 1..Len(files), complete |-> TRUE]}
    \cup [seen : SUBSET (1..Len(files)), complete : {FALSE}]

\* #runAutomaticPostConnect, or the read-only inventory while a recovery is
\* pending: the self-test has passed and the inventory is read.
Connect ==
  /\ ~linked /\ send = None /\ job = None
  /\ linked' = TRUE
  /\ \E inventory \in Inventories : Begin("connect", inventory)
  /\ UNCHANGED <<catalog, device, raw, compared, queued, batch, send, browser, owed, bounds>>

\* What is left of a send without its connection: an upload leaves its object in
\* the journal, written or not; a verified one is still recorded.
Interrupted(s) ==
  /\ IF s # None /\ s.step = "upload"
     THEN /\ pending' = TRUE
          /\ files' \in {files, Append(files, [book |-> s.book, look |-> s.want, made |-> s.made])}
     ELSE UNCHANGED device
  /\ send' = IF s # None /\ s.step = "record" THEN s ELSE None

\* The device is unplugged or a page lifecycle event ends the session.
LinkLost ==
  /\ linked /\ Fault
  /\ Unlink
  /\ Interrupted(IF running # None /\ running.by = "send" THEN None ELSE send)
  /\ IF running # None /\ running.by = "batch"
     THEN batch' = None /\ job' = None
     ELSE /\ job' = IF job # None /\ send # None /\ send'= None THEN [job EXCEPT !.step = "finish"] ELSE job
          /\ UNCHANGED batch
  /\ UNCHANGED <<catalog, live, wire, refresh, owed>>

\* The user has inspected the interrupted object: a live connection is taken
\* through #runAutomaticPostConnect again.
AcknowledgePending ==
  /\ pending /\ send = None /\ job = None /\ (running # None => running.by = "event")
  /\ pending' = FALSE
  /\ IF linked
     THEN \E inventory \in Inventories : Begin("connect", inventory)
     ELSE UNCHANGED <<running, state, current>>
  /\ UNCHANGED <<catalog, files, linked, raw, compared, queued, batch, send, browser, owed, bounds>>

-----------------------------------------------------------------------------
(* Sending one book *)

\* The guards of sendCatalogBook.
MaySend(b) ==
  /\ send = None /\ ~pending /\ linked
  /\ state = "ready" /\ current /\ raw.complete
  /\ status[b] = "missing"

StartOf(b) == [book |-> b, want |-> compared[b], step |-> "book", rev |-> 0, edited |-> FALSE,
               made |-> 0, faulted |-> FALSE]

\* confirmSend: one book, outside a batch.
SendOne(b) ==
  /\ NewJob /\ job = None /\ MaySend(b)
  /\ send' = StartOf(b)
  /\ UNCHANGED <<catalog, device, linked, comparison, batch, browser, owed>>

\* A send of a batch hands over to the next book, or to the end of the batch.
NextBook(ok) ==
  IF job = None THEN None
  ELSE IF ok /\ Len(job.left) > 1 THEN [left |-> Tail(job.left), step |-> "check"]
  ELSE [job EXCEPT !.step = "finish"]

\* The hardware is released; what was queued is compared, after a batch.
EndSend(ok) ==
  /\ send' = None /\ job' = NextBook(ok)
  /\ BeginQueuedOr(batch = None, raw, state, current)

Preparing == send # None /\ send.step \in {"book", "cover", "source", "recheck"}
Unprepared == <<catalog, device, linked, raw, compared, batch, status, live, wire, refresh, owed, bounds>>

\* A request fails, the user cancels, or there is no space.
Abandon ==
  /\ Preparing
  /\ EndSend(FALSE)
  /\ UNCHANGED Unprepared

\* getBook, and getBookMetadata of an edited book: both of the compared version.
ReadBook ==
  /\ send # None /\ send.step = "book"
  /\ IF catalog[send.book].look = send.want
     THEN /\ send' = [send EXCEPT !.edited = (send.want # 0), !.rev = catalog[send.book].rev,
                                  !.step = IF send.want # 0 THEN "cover" ELSE "source"]
          /\ UNCHANGED <<running, state, current, queued, job>>
     ELSE EndSend(FALSE)
  /\ UNCHANGED Unprepared

\* getBookCover: whatever the catalog shows now.
ReadCover ==
  /\ send # None /\ send.step = "cover"
  /\ send' = [send EXCEPT !.made = catalog[send.book].look, !.step = "source"]
  /\ UNCHANGED <<running, state, current, queued, job>>
  /\ UNCHANGED Unprepared

\* getBookSource, whose answer names the presentation, and the conversion.
ReadSource ==
  /\ send # None /\ send.step = "source"
  /\ IF catalog[send.book].look = send.want
     THEN /\ send' = [send EXCEPT !.step = "recheck"]
          /\ UNCHANGED <<running, state, current, queued, job>>
     ELSE EndSend(FALSE)
  /\ UNCHANGED Unprepared

\* Seeded fault: an edit undone is no edit.
LooksTheSame(s) == catalog[s.book].look = s.want

\* The presentation is the compared one and, if edited, of the same revision.
StillTheSame(s) ==
  /\ catalog[s.book].look = s.want
  /\ s.edited => catalog[s.book].rev = s.rev

\* The last check before the upload: no managed object has this token.
Recheck ==
  /\ send # None /\ send.step = "recheck"
  /\ IF StillTheSame(send) /\ ~Holds(raw, send.book, send.want)
     THEN /\ send' = [send EXCEPT !.step = "upload"]
          /\ UNCHANGED <<running, state, current, queued, job>>
     ELSE EndSend(FALSE)
  /\ UNCHANGED Unprepared

\* Seeded fault: the inventory that was read again counts although it lags behind.
InventoriesLagging == {[seen |-> 1..Len(files), complete |-> TRUE]}

\* The inventories after an upload: the one that was read again, if it lists the
\* new object, or #inventoryAfterVerifiedTransfer.
InventoriesAfter ==
  {[seen |-> 1..(Len(files) + 1), complete |-> TRUE],
   [seen |-> raw.seen \cup {Len(files) + 1}, complete |-> FALSE]}

\* The upload is verified and its inventory read: #installVerifiedTransferFallback.
\* The session may be lost with the inventory.
Uploaded ==
  /\ send # None /\ send.step = "upload"
  /\ files' = Append(files, [book |-> send.book, look |-> send.want, made |-> send.made])
  /\ \E inventory \in InventoriesAfter :
       /\ raw' = inventory
       /\ batch' = IF batch = None THEN None ELSE [completed |-> batch.completed + 1, latest |-> inventory]
       /\ \/ send' = [send EXCEPT !.step = "record"] /\ UNCHANGED bounds
          \/ ~inventory.complete /\ Fault /\ send' = [send EXCEPT !.step = "record", !.faulted = TRUE]
  /\ status' = IF live THEN [status EXCEPT ![send.book] = "possible"] ELSE Unknown
  /\ UNCHANGED <<catalog, pending, linked, current, state, compared, queued, running, job, live,
                 wire, refresh, owed>>

\* The upload fails and its object is removed.
UploadFails ==
  /\ send # None /\ send.step = "upload"
  /\ EndSend(FALSE)
  /\ UNCHANGED Unprepared

\* createDelivery; without an answer the record stays in the journal.  Then the
\* faulted connection is retired, or a single send's comparison begins.
RecordDelivery ==
  /\ send # None /\ send.step = "record" /\ running = None
  /\ \/ wire' = (IF live THEN wire \cup {"delivery"} ELSE wire) /\ UNCHANGED bounds
     \/ Fault /\ UNCHANGED wire
  /\ IF send.faulted /\ linked
     THEN /\ Unlink
          /\ send' = None /\ job' = NextBook(TRUE)
     ELSE /\ IF batch = None /\ linked
             THEN Begin("send", raw) /\ UNCHANGED <<send, job, queued>>
             ELSE EndSend(TRUE)
          /\ UNCHANGED <<linked, raw, compared, status>>
  /\ UNCHANGED <<catalog, device, batch, live, refresh, owed>>

-----------------------------------------------------------------------------
(* A batch of books *)

\* sendSelectedBooks.
StartBatch(order) ==
  /\ NewJob /\ job = None /\ send = None
  /\ \A i \in DOMAIN order : status[order[i]] = "missing"
  /\ job' = [left |-> order, step |-> "check"]
  /\ UNCHANGED <<catalog, device, linked, comparison, batch, send, status, live, wire, refresh, owed>>

\* The catalog still has the book and the status still allows the send: then
\* sendCatalogBook opens the batch, whether or not it may send.
SendNext ==
  /\ job # None /\ job.step = "check"
  /\ LET b == Head(job.left) IN
     \/ /\ status[b] = "missing"
        /\ batch' = IF batch = None THEN [completed |-> 0, latest |-> None] ELSE batch
        /\ IF MaySend(b)
           THEN send' = StartOf(b) /\ job' = [job EXCEPT !.step = "sending"]
           ELSE job' = [job EXCEPT !.step = "finish"] /\ UNCHANGED send
        /\ UNCHANGED bounds
     \/ /\ (status[b] # "missing" /\ UNCHANGED bounds) \/ Fault
        /\ job' = [job EXCEPT !.step = "finish"]
        /\ UNCHANGED <<batch, send>>
  /\ UNCHANGED <<catalog, device, linked, comparison, status, live, wire, refresh, owed>>

\* finishCatalogSendBatch: one comparison of the newest inventory, if any book
\* was sent.
FinishBatch ==
  /\ job # None /\ job.step = "finish"
  /\ IF batch # None /\ batch.completed > 0 /\ linked
     THEN /\ Begin("batch", batch.latest)
          /\ job' = [job EXCEPT !.step = "finishing"]
          /\ UNCHANGED <<batch, queued>>
     ELSE /\ job' = None /\ batch' = None
          /\ queued' = (queued /\ batch = None)
          /\ UNCHANGED <<running, state, current>>
  /\ UNCHANGED <<catalog, device, linked, raw, compared, send, status, live, wire, refresh, owed, bounds>>

-----------------------------------------------------------------------------
(* The catalog and its events *)

\* Another browser edits a book, or undoes the edit.
Edit(b) ==
  /\ edits < MaxEdits /\ edits' = edits + 1 /\ UNCHANGED <<faults, jobs>>
  /\ catalog' = [catalog EXCEPT ![b] = [look |-> 1 - @.look, rev |-> @.rev + 1]]
  /\ wire' = IF live THEN wire \cup {"edit"} ELSE wire
  /\ UNCHANGED <<device, linked, comparison, batch, send, job, status, live, refresh, owed>>

\* #scheduleEventRefresh: nothing is known of the device until it is compared
\* again.  A batch does not listen to deliveries.
Hear(event) ==
  /\ event \in wire
  /\ wire' = wire \ {event}
  /\ IF event = "delivery" /\ job # None
     THEN UNCHANGED <<status, refresh, owed, running>>
     ELSE /\ status' = Unknown /\ refresh' = TRUE
          /\ owed' = (owed \/ event = "edit")
          /\ running' = IF running = None THEN None ELSE [running EXCEPT !.heard = @ \/ event = "edit"]
  /\ UNCHANGED <<catalog, device, linked, raw, current, state, compared, queued, batch, send, job,
                 live, bounds>>

\* #refreshFromEvents, and onCatalogChanged if it succeeds.
RefreshEnds ==
  /\ refresh /\ refresh' = FALSE
  /\ \/ QueueComparison /\ UNCHANGED bounds
     \/ Fault /\ UNCHANGED <<queued, running, state, current>>
  /\ UNCHANGED <<catalog, device, linked, raw, compared, batch, send, job, status, live, wire, owed>>

\* The stream ends, by a fault or with its lease.
StreamEnds ==
  /\ live /\ Fault
  /\ live' = FALSE /\ wire' = {} /\ status' = Unknown
  /\ UNCHANGED <<catalog, device, linked, comparison, batch, send, job, refresh, owed>>

\* onopen; the hub sends its snapshot hint first.
StreamOpens ==
  /\ ~live
  /\ live' = TRUE /\ wire' = {"edit"}
  /\ UNCHANGED <<catalog, device, linked, comparison, batch, send, job, status, refresh, owed, bounds>>

-----------------------------------------------------------------------------
Init ==
  /\ catalog = [b \in Books |-> [look |-> 0, rev |-> 0]]
  /\ files = <<>> /\ pending = FALSE /\ linked = FALSE
  /\ raw = None /\ current = FALSE /\ state = "idle" /\ compared = None
  /\ queued = FALSE /\ running = None /\ batch = None /\ send = None
  /\ job = None /\ status = Unknown /\ live = TRUE /\ wire = {} /\ refresh = FALSE /\ owed = FALSE
  /\ edits = 0 /\ faults = 0 /\ jobs = 0

Next ==
  \/ Connect \/ LinkLost \/ AcknowledgePending
  \/ FetchIndex \/ InstallComparison \/ ComparisonFails
  \/ \E b \in Books : SendOne(b) \/ Edit(b)
  \/ Abandon \/ ReadBook \/ ReadCover \/ ReadSource \/ Recheck
  \/ Uploaded \/ UploadFails \/ RecordDelivery
  \/ \E order \in Orders : StartBatch(order)
  \/ SendNext \/ FinishBatch
  \/ \E event \in {"edit", "delivery"} : Hear(event)
  \/ RefreshEnds \/ StreamEnds \/ StreamOpens

Spec == Init /\ [][Next]_vars

-----------------------------------------------------------------------------
Steps == {"book", "cover", "source", "recheck", "upload", "record"}
Snapshots == [seen : SUBSET (1..Len(files)), complete : BOOLEAN]

\* The types of the variables, and who holds the hardware.
TypeOK ==
  /\ catalog \in [Books -> [look : Looks, rev : 0..MaxEdits]]
  /\ files \in Seq([book : Books, look : Looks, made : Looks])
  /\ {pending, linked, current, queued, live, refresh, owed} \subseteq BOOLEAN
  /\ state \in {"idle", "loading", "ready", "failed"}
  /\ raw # None => raw \in Snapshots
  /\ compared # None => compared \in [Books -> Looks]
  /\ running # None => running.inventory \in Snapshots /\ linked
  /\ status \in [Books -> {"unknown", "possible", "confirmed", "missing"}]
  /\ send # None => send.step \in Steps
  /\ wire \subseteq {"edit", "delivery"}
  /\ batch # None => job # None
  /\ current => linked /\ state = "ready"

\* The Kindle never gets a second copy of a book in the same presentation,
\* however sends, batches, comparisons and reconnections follow one another.
NoDuplicateCopies ==
  \A i, j \in DOMAIN files :
    files[i].book = files[j].book /\ files[i].look = files[j].look => i = j

\* A copy has the content its token names, although the book is read piece by
\* piece while others edit it.
CopyIsItsVersion == \A i \in DOMAIN files : files[i].made = files[i].look

Present(b) == \E i \in DOMAIN files : files[i].book = b /\ files[i].look = catalog[b].look

\* A book shown as present is on the Kindle as the catalog has it, unless an
\* edit was heard of, or is about to be, after the comparison read the index.
GreenIsTrue ==
  \A b \in Books : status[b] = "confirmed" /\ ~owed /\ "edit" \notin wire => Present(b)

\* Once an edit is heard of, no book is shown as present that is not on the
\* Kindle in the edited presentation: only a fresh comparison restores green.
OnlyFreshRestoresGreen ==
  \A b \in Books : status[b] = "confirmed" /\ "edit" \notin wire => Present(b)
=============================================================================
