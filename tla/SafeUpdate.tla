----------------------------- MODULE SafeUpdate ------------------------------
(***************************************************************************)
(* Replacing the copy of one book on a Kindle, and every durable trace the *)
(* replacement leaves: runSafeKindleUpdate (safe-kindle-update.ts) with    *)
(* the dependencies updateManagedBook and the controller give it, the      *)
(* recovery journal of the object being created, the delivery journal and  *)
(* the catalog's delivery records, the replacement cleanup journal, and    *)
(* cleanupManagedReplacement, which works a cleanup task off later.        *)
(*                                                                         *)
(* One tab, one Kindle, one book: the browser-wide lease (DeviceLease)     *)
(* keeps every other tab away from the device.  A copy is an MTP object,   *)
(* numbered in order of creation.  Any call can fail; a device command     *)
(* that failed may have been carried out all the same (Carried), a POST    *)
(* that timed out may reach the catalog later (inflight).  A reload of the *)
(* tab at any moment forgets everything but the device, the catalog and    *)
(* localStorage.  The Kindle's owner may delete books on the device while  *)
(* no operation runs.                                                      *)
(***************************************************************************)
EXTENDS Naturals, FiniteSets

CONSTANTS MaxCopies,   \* bound: objects ever created for the book
          MaxJournal   \* MAX_ENTRIES of the delivery journal

ASSUME UpdateConstants ==
  /\ MaxCopies \in Nat /\ MaxCopies >= 1
  /\ MaxJournal \in Nat /\ MaxJournal >= 1

Copies   == 1..MaxCopies
None     == 0
Reasons  == {"delivery-recording", "old-copy-cleanup"}
Tasks    == [old : Copies, new : Copies, reason : Reasons]

\* The stages of an update, then those of a cleanup.
UpdateStages  == {"checking", "intent", "creating", "filling", "reading back",
                  "discarding", "verifying", "recording", "posting",
                  "revalidating", "deleting", "proving", "noting", "reconciling"}
CleanupStages == {"inspecting", "cleaning", "confirming", "acknowledging"}
Stages        == {"idle"} \cup UpdateStages \cup CleanupStages

Statuses  == {"none", "failed", "updated", "updated-reconciliation-required",
              "new-copy-kept-old-recording-required",
              "new-copy-kept-old-cleanup-required",
              "cleaned", "rolled-back"}
Reminders == {"not-needed", "stored", "not-stored"}

VARIABLES
  \* what survives the tab
  device,      \* the Kindle: absent, partial or complete, for each copy
  intent,      \* PendingObjectCleanup: the object being created, or None
  deliveries,  \* the delivery journal, whose order is that of creation
  tasks,       \* the replacement cleanup journal
  server,      \* copies with a delivery record in the catalog
  inflight,    \* copies whose POST was given up and may still arrive
  made,        \* objects created so far
  \* the tab's memory
  stage,       \* where the running operation is
  op,          \* its old copy, new copy and reason
  journaled,   \* recordVerifiedDelivery's journaled
  shown,       \* pendingReplacementCleanups: the tasks the tab knows
  seen,        \* the copies in the presented inventory
  ready,       \* catalogInventoryState is ready: seen has authority
  result,      \* what the last operation reported
  \* history
  replaced     \* new copies for whose sake an update deleted the old one

memory  == <<stage, op, journaled, shown, seen, ready, result>>
durable == <<device, intent, deliveries, tasks, server, inflight, made>>
vars    == <<device, intent, deliveries, tasks, server, inflight, made, stage,
             op, journaled, shown, seen, ready, result, replaced>>

NoOp     == [old |-> None, new |-> None, reason |-> "none"]
NoResult == [status |-> "none", reminder |-> "not-needed"]
OnDevice == {c \in Copies : device[c] # "absent"}
Complete == {c \in Copies : device[c] = "complete"}
Recorded == server \cup deliveries

Removal(t)  == IF t.reason = "old-copy-cleanup" THEN t.old ELSE t.new
Retained(t) == IF t.reason = "old-copy-cleanup" THEN t.new ELSE t.old

\* One copy, sent and recorded earlier; the tab is connected and idle.
Init ==
  /\ device = [c \in Copies |-> IF c = 1 THEN "complete" ELSE "absent"]
  /\ intent = None
  /\ deliveries = {}
  /\ tasks = {}
  /\ server = {1}
  /\ inflight = {}
  /\ made = 1
  /\ stage = "idle"
  /\ op = NoOp
  /\ journaled = FALSE
  /\ shown = {}
  /\ seen = {1}
  /\ ready = TRUE
  /\ result = NoResult
  /\ replaced = {}

-----------------------------------------------------------------------------
(***************************************************************************)
(* Device calls.  A call that does not report success has either not been  *)
(* carried out or has been carried out without the host learning of it.    *)
(***************************************************************************)
Effect ==
  CASE stage = "creating"   -> [device EXCEPT ![op.new] = "partial"]
    [] stage = "filling"    -> [device EXCEPT ![op.new] = "complete"]
    [] stage = "discarding" -> [device EXCEPT ![op.new] = "absent"]
    [] stage = "deleting"   -> [device EXCEPT ![op.old] = "absent"]
    [] stage = "cleaning"   -> [device EXCEPT ![Removal(op)] = "absent"]
    [] OTHER                -> device

Carried == device' \in {device, Effect}

\* deleting: the new copy takes the old one's place.
History == replaced' = IF stage = "deleting" /\ device' # device
                       THEN replaced \cup {op.new} ELSE replaced

GoTo(s) == stage' = s

\* The operation ends with an exception.  A fatal one retires the connection.
Throw ==
  /\ stage' = "idle"
  /\ op' = NoOp
  /\ journaled' = FALSE
  /\ ready' \in {FALSE, ready}
  /\ result' = [status |-> "failed", reminder |-> "not-needed"]
  /\ UNCHANGED <<shown, seen>>

Report(status, reminder) ==
  /\ stage' = "idle"
  /\ op' = NoOp
  /\ journaled' = FALSE
  /\ result' = [status |-> status, reminder |-> reminder]

\* synchronizeReplacementCleanupsFromStorage: a journal that cannot be read
\* leaves what the tab knows.
Synchronized == {tasks, shown}

-----------------------------------------------------------------------------
(***************************************************************************)
(* The update, up to a verified new copy.  The controller takes on a book  *)
(* only when no task is pending and the presented inventory has one copy.  *)
(***************************************************************************)
StartUpdate(c) ==
  /\ stage = "idle"
  /\ intent = None
  /\ {} \in Synchronized
  /\ shown' = {}
  /\ ready
  /\ seen = {c}
  /\ made < MaxCopies
  /\ stage' = "checking"
  /\ op' = [old |-> c, new |-> made + 1, reason |-> "none"]
  /\ UNCHANGED <<durable, journaled, seen, ready, result, replaced>>

\* Write proof, fresh inventory with the exact old copy in it, free space.
CheckPasses ==
  /\ stage = "checking"
  /\ device[op.old] = "complete"
  /\ GoTo("intent")
  /\ UNCHANGED <<durable, op, journaled, shown, seen, ready, result, replaced>>

CheckFails ==
  /\ stage = "checking"
  /\ Throw
  /\ UNCHANGED <<durable, replaced>>

\* send-object-info-intent: no object is created unless this is durable.
WriteIntent ==
  /\ stage = "intent"
  /\ intent' = op.new
  /\ GoTo("creating")
  /\ UNCHANGED <<device, deliveries, tasks, server, inflight, made, op,
                 journaled, shown, seen, ready, result, replaced>>

IntentFails ==
  /\ stage = "intent"
  /\ Throw
  /\ UNCHANGED <<durable, replaced>>

CreateObject ==
  /\ stage = "creating"
  /\ device' = Effect
  /\ made' = op.new
  /\ GoTo("filling")
  /\ UNCHANGED <<intent, deliveries, tasks, server, inflight, op, journaled,
                 shown, seen, ready, result, replaced>>

\* Without a handle there is nothing to clean up: the intent stays.
CreateFails ==
  /\ stage = "creating"
  /\ Carried
  /\ made' = op.new
  /\ Throw
  /\ UNCHANGED <<intent, deliveries, tasks, server, inflight, replaced>>

FillObject ==
  /\ stage = "filling"
  /\ device' = Effect
  /\ GoTo("reading back")
  /\ UNCHANGED <<intent, deliveries, tasks, server, inflight, made, op,
                 journaled, shown, seen, ready, result, replaced>>

FillFails ==
  /\ stage = "filling"
  /\ Carried
  /\ GoTo("discarding")
  /\ UNCHANGED <<intent, deliveries, tasks, server, inflight, made, op,
                 journaled, shown, seen, ready, result, replaced>>

\* The verified event clears the recovery record, when storage lets it.
UploadVerified ==
  /\ stage = "reading back"
  /\ intent' \in {None, intent}
  /\ GoTo("verifying")
  /\ UNCHANGED <<device, deliveries, tasks, server, inflight, made, op,
                 journaled, shown, seen, ready, result, replaced>>

ReadBackFails ==
  /\ stage = "reading back"
  /\ GoTo("discarding")
  /\ UNCHANGED <<durable, op, journaled, shown, seen, ready, result, replaced>>

\* cleanupAfterCreateFailure, deleteCreatedAndVerify.
Discard ==
  /\ stage = "discarding"
  /\ device' = Effect
  /\ intent' \in {None, intent}
  /\ Throw
  /\ UNCHANGED <<deliveries, tasks, server, inflight, made, replaced>>

DiscardFails ==
  /\ stage = "discarding"
  /\ Carried
  /\ Throw
  /\ UNCHANGED <<intent, deliveries, tasks, server, inflight, made, replaced>>

VerifyNew ==
  /\ stage = "verifying"
  /\ GoTo("recording")
  /\ UNCHANGED <<durable, op, journaled, shown, seen, ready, result, replaced>>

VerifyFails ==
  /\ stage = "verifying"
  /\ Throw
  /\ UNCHANGED <<durable, replaced>>

-----------------------------------------------------------------------------
(***************************************************************************)
(* recordVerifiedDelivery: the local fallback inventory takes the catalog  *)
(* comparison's authority away, the record is journaled, then posted.      *)
(***************************************************************************)
\* records.slice(-MAX_ENTRIES)
Newest(S) == {c \in S : Cardinality({d \in S : d > c}) < MaxJournal}

\* Seeded fault: the unrecorded delivery is noted as an old copy to remove.
RecordRefusedWrongReason ==
  /\ stage = "recording"
  /\ op' = [op EXCEPT !.reason = "old-copy-cleanup"]
  /\ GoTo("noting")
  /\ UNCHANGED <<durable, journaled, shown, seen, ready, result, replaced>>

\* The connection is no longer current: nothing is recorded.
RecordRefused ==
  /\ stage = "recording"
  /\ op' = [op EXCEPT !.reason = "delivery-recording"]
  /\ GoTo("noting")
  /\ UNCHANGED <<durable, journaled, shown, seen, ready, result, replaced>>

\* The journal lock's deadline can pass although the record was written.
QueueDelivery ==
  /\ stage = "recording"
  /\ \/ /\ deliveries' = Newest(deliveries \cup {op.new})
        /\ journaled' \in BOOLEAN
     \/ /\ deliveries' = deliveries
        /\ journaled' = FALSE
  /\ ready' = FALSE
  /\ GoTo("posting")
  /\ UNCHANGED <<device, intent, tasks, server, inflight, made, op, shown,
                 seen, result, replaced>>

\* createDelivery, then acknowledgePendingDelivery, which may fail.
PostDelivery ==
  /\ stage = "posting"
  /\ server' = server \cup {op.new}
  /\ deliveries' \in IF journaled THEN {deliveries, deliveries \ {op.new}} ELSE {deliveries}
  /\ GoTo("revalidating")
  /\ UNCHANGED <<device, intent, tasks, inflight, made, op, journaled, shown,
                 seen, ready, result, replaced>>

\* Seeded fault: a failed POST is passed over whether or not it is journaled.
PostFailsPassedOver ==
  /\ stage = "posting"
  /\ inflight' \in {inflight, inflight \cup {op.new}}
  /\ GoTo("revalidating")
  /\ UNCHANGED <<device, intent, deliveries, tasks, server, made, op, journaled,
                 shown, seen, ready, result, replaced>>

PostFails ==
  /\ stage = "posting"
  /\ inflight' \in {inflight, inflight \cup {op.new}}
  /\ IF journaled
     THEN /\ GoTo("revalidating")
          /\ op' = op
     ELSE /\ GoTo("noting")
          /\ op' = [op EXCEPT !.reason = "delivery-recording"]
  /\ UNCHANGED <<device, intent, deliveries, tasks, server, made, journaled,
                 shown, seen, ready, result, replaced>>

-----------------------------------------------------------------------------
(***************************************************************************)
(* The old copy goes, its absence is proven, or a cleanup task is noted.   *)
(***************************************************************************)
RevalidateOld ==
  /\ stage = "revalidating"
  /\ device[op.old] = "complete"
  /\ GoTo("deleting")
  /\ UNCHANGED <<durable, op, journaled, shown, seen, ready, result, replaced>>

DeleteOld ==
  /\ stage = "deleting"
  /\ device' = Effect
  /\ History
  /\ GoTo("proving")
  /\ UNCHANGED <<intent, deliveries, tasks, server, inflight, made, op,
                 journaled, shown, seen, ready, result>>

ProveAbsent ==
  /\ stage = "proving"
  /\ device[op.old] = "absent"
  /\ GoTo("reconciling")
  /\ UNCHANGED <<durable, op, journaled, shown, seen, ready, result, replaced>>

\* Seeded faults: a failed removal gets no reason, or is passed over.
RemovalFailsWithoutReason ==
  /\ stage \in {"revalidating", "deleting", "proving"}
  /\ Carried
  /\ History
  /\ GoTo("noting")
  /\ UNCHANGED <<intent, deliveries, tasks, server, inflight, made, op, journaled,
                 shown, seen, ready, result>>

RemovalFailsPassedOver ==
  /\ stage \in {"revalidating", "deleting", "proving"}
  /\ Carried
  /\ History
  /\ GoTo("reconciling")
  /\ UNCHANGED <<intent, deliveries, tasks, server, inflight, made, op, journaled,
                 shown, seen, ready, result>>

RemovalFails ==
  /\ stage \in {"revalidating", "deleting", "proving"}
  /\ Carried
  /\ History
  /\ op' = [op EXCEPT !.reason = "old-copy-cleanup"]
  /\ GoTo("noting")
  /\ UNCHANGED <<intent, deliveries, tasks, server, inflight, made, journaled,
                 shown, seen, ready, result>>

\* recordCleanupRequired: its failure is kept in the result and passed over.
NoteTask ==
  /\ stage = "noting"
  /\ tasks' \in {tasks \cup {op}, tasks}
  /\ GoTo("reconciling")
  /\ UNCHANGED <<device, intent, deliveries, server, inflight, made, op,
                 journaled, shown, seen, ready, result, replaced>>

\* Best effort with a task noted; otherwise it decides the status.
Reconcile ==
  /\ stage = "reconciling"
  /\ \/ /\ op.reason = "none"
        /\ Report("updated", "not-needed")
        /\ ready' = TRUE
        /\ seen' = OnDevice
        /\ shown' = shown
     \/ /\ op.reason = "none"
        /\ Report("updated-reconciliation-required", "not-needed")
        /\ ready' = FALSE
        /\ UNCHANGED <<seen, shown>>
     \/ /\ op.reason \in Reasons
        /\ Report(IF op.reason = "delivery-recording"
                  THEN "new-copy-kept-old-recording-required"
                  ELSE "new-copy-kept-old-cleanup-required", "stored")
        /\ ready' = FALSE
        /\ shown' \in Synchronized
        /\ seen' = seen
  /\ UNCHANGED <<durable, replaced>>

-----------------------------------------------------------------------------
(***************************************************************************)
(* cleanupManagedReplacement.  The task only says where to look: the fresh *)
(* inventory decides what is removed.                                      *)
(***************************************************************************)
StartCleanup(t) ==
  /\ stage = "idle"
  /\ intent = None
  /\ shown' \in Synchronized
  /\ t \in shown'
  /\ ready
  /\ stage' = "inspecting"
  /\ op' = t
  /\ UNCHANGED <<durable, journaled, seen, ready, result, replaced>>

\* Seeded fault: the copy to keep is not looked for.
InspectOnlyRemoval ==
  /\ stage = "inspecting"
  /\ device[Removal(op)] = "complete"
  /\ GoTo("cleaning")
  /\ UNCHANGED <<durable, op, journaled, shown, seen, ready, result, replaced>>

\* Both copies are there, exactly as the task describes them.
InspectBoth ==
  /\ stage = "inspecting"
  /\ device[Retained(op)] = "complete"
  /\ device[Removal(op)] = "complete"
  /\ GoTo("cleaning")
  /\ UNCHANGED <<durable, op, journaled, shown, seen, ready, result, replaced>>

\* The copy to remove is gone already: nothing is left to delete.  (The code
\* calls the outcome already-resolved; it is reported here like a removal.)
InspectResolved ==
  /\ stage = "inspecting"
  /\ device[Retained(op)] = "complete"
  /\ device[Removal(op)] = "absent"
  /\ GoTo("acknowledging")
  /\ UNCHANGED <<durable, op, journaled, shown, seen, ready, result, replaced>>

CleanUp ==
  /\ stage = "cleaning"
  /\ device' = Effect
  /\ GoTo("confirming")
  /\ UNCHANGED <<intent, deliveries, tasks, server, inflight, made, op,
                 journaled, shown, seen, ready, result, replaced>>

ConfirmCleanup ==
  /\ stage = "confirming"
  /\ device[Removal(op)] = "absent"
  /\ device[Retained(op)] = "complete"
  /\ GoTo("acknowledging")
  /\ UNCHANGED <<durable, op, journaled, shown, seen, ready, result, replaced>>

\* Any refusal or failure leaves the task; what the tab knows is read again.
CleanupFails ==
  /\ stage \in {"inspecting", "cleaning", "confirming"}
  /\ Carried
  /\ stage' = "idle"
  /\ op' = NoOp
  /\ ready' \in IF stage = "cleaning" THEN {FALSE} ELSE {FALSE, ready}
  /\ shown' \in Synchronized
  /\ result' = [status |-> "failed", reminder |-> "not-needed"]
  /\ UNCHANGED <<intent, deliveries, tasks, server, inflight, made, journaled,
                 seen, replaced>>

\* Seeded fault: the whole journal is cleared for one finished task.
AcknowledgeAll ==
  /\ stage = "acknowledging"
  /\ op \in tasks
  /\ tasks' = {}
  /\ shown' = {}
  /\ Report("cleaned", "not-needed")
  /\ ready' = TRUE
  /\ seen' = OnDevice
  /\ UNCHANGED <<device, intent, deliveries, server, inflight, made, replaced>>

\* acknowledgeReplacementCleanupRecord removes this exact task, or fails.
Acknowledge ==
  /\ stage = "acknowledging"
  /\ \/ /\ op \in tasks
        /\ tasks' = tasks \ {op}
        /\ shown' \in {tasks', {}}
        /\ Report(IF op.reason = "old-copy-cleanup" THEN "cleaned" ELSE "rolled-back",
                  "not-needed")
        /\ \/ /\ ready' = TRUE
              /\ seen' = OnDevice
           \/ /\ ready' = FALSE
              /\ seen' = seen
     \/ /\ tasks' = tasks
        /\ Report("failed", "not-needed")
        /\ shown' \in Synchronized
        /\ ready' \in {FALSE, ready}
        /\ seen' = seen
  /\ UNCHANGED <<device, intent, deliveries, server, inflight, made, replaced>>

-----------------------------------------------------------------------------
(***************************************************************************)
(* What happens around the operations.                                     *)
(***************************************************************************)
\* A connection or a refresh reads the whole device and the catalog.
Refresh ==
  /\ stage = "idle"
  /\ seen' = OnDevice
  /\ ready' = TRUE
  /\ UNCHANGED <<durable, stage, op, journaled, shown, result, replaced>>

\* The owner says to have inspected the interrupted object.
AcknowledgeIntent ==
  /\ stage = "idle"
  /\ intent # None
  /\ intent' = None
  /\ ready' = FALSE
  /\ UNCHANGED <<device, deliveries, tasks, server, inflight, made, stage, op,
                 journaled, shown, seen, result, replaced>>

\* flushPendingDeliveries runs when the tab starts, beside anything else.
FlushDelivery(c) ==
  /\ c \in deliveries
  /\ \/ /\ server' = server \cup {c}
        /\ deliveries' \in {deliveries, deliveries \ {c}}
        /\ UNCHANGED inflight
     \/ /\ inflight' = inflight \cup {c}
        /\ UNCHANGED <<server, deliveries>>
  /\ UNCHANGED <<device, intent, tasks, made, memory, replaced>>

\* External: a POST the tab gave up on reaches the catalog.
LatePost(c) ==
  /\ c \in inflight
  /\ inflight' = inflight \ {c}
  /\ server' = server \cup {c}
  /\ UNCHANGED <<device, intent, deliveries, tasks, made, memory, replaced>>

\* External: the owner deletes a book on the Kindle.
OwnerRemoves(c) ==
  /\ stage = "idle"
  /\ device[c] # "absent"
  /\ device' = [device EXCEPT ![c] = "absent"]
  /\ UNCHANGED <<intent, deliveries, tasks, server, inflight, made, memory, replaced>>

\* The tab is reloaded or dies; a command or a POST under way may complete.
Reload ==
  /\ Carried
  /\ History
  /\ inflight' \in IF stage = "posting" THEN {inflight, inflight \cup {op.new}}
                   ELSE {inflight}
  /\ made' = IF stage = "creating" THEN op.new ELSE made
  /\ stage' = "idle"
  /\ op' = NoOp
  /\ journaled' = FALSE
  /\ shown' \in {tasks, {}}
  /\ seen' = {}
  /\ ready' = FALSE
  /\ result' = NoResult
  /\ UNCHANGED <<intent, deliveries, tasks, server>>

-----------------------------------------------------------------------------
Upload ==
  \/ CheckPasses \/ CheckFails \/ WriteIntent \/ IntentFails
  \/ CreateObject \/ CreateFails \/ FillObject \/ FillFails
  \/ UploadVerified \/ ReadBackFails \/ Discard \/ DiscardFails
  \/ VerifyNew \/ VerifyFails

Replace ==
  \/ RecordRefused \/ QueueDelivery \/ PostDelivery \/ PostFails
  \/ RevalidateOld \/ DeleteOld \/ ProveAbsent \/ RemovalFails
  \/ NoteTask \/ Reconcile

Cleanup ==
  \/ InspectBoth \/ InspectResolved \/ CleanUp \/ ConfirmCleanup
  \/ CleanupFails \/ Acknowledge

Next ==
  \/ \E c \in Copies : StartUpdate(c) \/ FlushDelivery(c) \/ LatePost(c) \/ OwnerRemoves(c)
  \/ \E t \in Tasks : StartCleanup(t)
  \/ Upload \/ Replace \/ Cleanup
  \/ Refresh \/ AcknowledgeIntent \/ Reload

Spec == Init /\ [][Next]_vars

-----------------------------------------------------------------------------
(***************************************************************************)
(* Properties.                                                             *)
(***************************************************************************)
\* Every variable stays in its range, and an operation has its copies.
TypeOK ==
  /\ device \in [Copies -> {"absent", "partial", "complete"}]
  /\ intent \in Copies \cup {None}
  /\ deliveries \in SUBSET Copies
  /\ tasks \in SUBSET Tasks
  /\ server \in SUBSET Copies
  /\ inflight \in SUBSET Copies
  /\ made \in Copies
  /\ stage \in Stages
  /\ op \in [old : Copies \cup {None}, new : Copies \cup {None}, reason : Reasons \cup {"none"}]
  /\ (stage # "idle") => (op.old # None /\ op.new # None)
  /\ journaled \in BOOLEAN
  /\ shown \in SUBSET Tasks
  /\ seen \in SUBSET Copies
  /\ ready \in BOOLEAN
  /\ result \in [status : Statuses, reminder : Reminders]
  /\ replaced \in SUBSET Copies

\* docs/kindle-experiments.md: at each boundary a known readable old or
\* verified new copy must remain.  A step of an operation, or the tab dying
\* in it, never takes the last complete copy off the Kindle, whatever calls
\* failed before, however often it was retried, and whatever task of an
\* earlier update it works off.
KeepsACopy ==
  [][stage # "idle" /\ ~(Complete \subseteq Complete') => Complete' # {}]_vars

\* The old copy goes only for a new one that is on the device and whose
\* delivery is durable.  From then on its record stays in the journal until
\* the catalog has it, also across flushes and lost acknowledgements
\* (recordVerifiedDelivery: "Must durably accept the verified identity
\* before old-copy deletion").
ReplacementRecorded == replaced \subseteq Recorded

\* A task to remove an old copy exists only for a recorded replacement: what
\* a later connection deletes on its word is the copy the catalog no longer
\* needs.
TasksAreSound ==
  \A t \in tasks : /\ t.old # t.new
                   /\ t.reason = "old-copy-cleanup" => t.new \in Recorded

\* A task leaves the journal only when the copy it names for removal is gone
\* and the other one is there (acknowledgeReplacementCleanupRecord).
TasksAreWorkedOff ==
  [][\A t \in tasks \ tasks' :
        device[Removal(t)] = "absent" /\ device[Retained(t)] = "complete"]_vars

\* What the owner is told is so: updated means the old copy is gone, the new
\* one there and recorded; kept means that the new copy is there, and both
\* when the delivery could not be recorded.
TrueReport ==
  /\ result'.status \in {"updated", "updated-reconciliation-required"} =>
       /\ device'[op.old] = "absent"
       /\ device'[op.new] = "complete"
       /\ op.new \in Recorded'
  /\ result'.status = "new-copy-kept-old-recording-required" =>
       {op.old, op.new} \subseteq Complete'
  /\ result'.status = "new-copy-kept-old-cleanup-required" =>
       op.new \in Complete' /\ op.new \in Recorded'
  /\ result'.status \in {"cleaned", "rolled-back"} =>
       /\ device'[Removal(op)] = "absent"
       /\ device'[Retained(op)] = "complete"

ReportsAreTrue == [][(stage # "idle" /\ stage' = "idle") => TrueReport]_vars

\* No unfinished object is forgotten: an object appears on the Kindle only
\* under a recovery record, and an operation drops the record only when the
\* object is whole or gone, whatever failed or died in between.
ObjectsAreCovered ==
  [][/\ \A c \in Copies : device[c] = "absent" /\ device'[c] # "absent" => intent = c
     /\ (stage # "idle" /\ intent # None /\ intent' = None) => device'[intent] # "partial"]_vars

\* What the journals and the recovery record say is left to do is not lost
\* before it is done.
RecordsAreKept == TasksAreWorkedOff /\ ObjectsAreCovered

\* The message "An exact cleanup reminder was stored" (catalog-managed-update.ts)
\* is given only when the journal has the task.
ReminderIsStored ==
  [][stage = "reconciling" /\ result'.reminder = "stored" => op \in tasks']_vars

\* docs/kindle-experiments.md: ambiguous targets must never authorize
\* deletion.  The copy an update deletes is the only other one on the Kindle.
NoAmbiguousTarget ==
  stage = "deleting" => OnDevice = {op.old, op.new}

=============================================================================
