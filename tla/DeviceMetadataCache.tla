------------------------- MODULE DeviceMetadataCache -------------------------
(***************************************************************************)
(* The metadata cache ShelfSend keeps on the Kindle itself, in two files   *)
(* of the storage root that are rewritten in turn                          *)
(* (client/src/kindle/device-metadata-cache.ts and                         *)
(* KindleDevice.inventory and updateDeviceMetadataCache).                  *)
(*                                                                         *)
(* Several browsers use the same Kindle, one at a time.  An inventory      *)
(* loads both slots, reads the books and then rotates: the older slot is   *)
(* deleted, created again and read back.  A browser can die, the cable can *)
(* be pulled and a request can fail between any two steps; what a browser  *)
(* knows of an unfinished object is in its own recovery record.  MaxGen    *)
(* bounds the generations, MaxFaults what goes wrong, MaxTouches what the  *)
(* owner does to the files.                                                *)
(***************************************************************************)
EXTENDS Naturals

CONSTANTS Hosts, None, MaxGen, MaxFaults, MaxTouches

Slots == {"a", "b"}   \* KINDLE_BRIDGE_DEVICE_METADATA_CACHE_SLOTS
Other(s) == IF s = "a" THEN "b" ELSE "a"

VARIABLES
  root,      \* slot -> the object of that name: [gen, valid], or None
  host,      \* the browser that holds the connection, or None
  tested,    \* selfTestPassed of this connection
  pending,   \* browser -> its recovery record blocks new writes
  op,        \* the inventory under way: [step, loaded, slot, gen, replace], or None
  faults, touches,
  retained   \* history: newest generation loaded or written, and not taken away by the owner

vars == <<root, host, tested, pending, op, faults, touches, retained>>

NoObject == [gen |-> 0, valid |-> FALSE, there |-> FALSE]
Cache(g) == [gen |-> g, valid |-> TRUE, there |-> TRUE]
Junk     == [gen |-> 0, valid |-> FALSE, there |-> TRUE]  \* partial, foreign or corrupt

Newest(slots) ==
  LET gens == {0} \union {slots[s].gen : s \in {t \in Slots : slots[t].valid}}
  IN CHOOSE g \in gens : \A h \in gens : h <= g

Init ==
  /\ root = [s \in Slots |-> NoObject]
  /\ host = None
  /\ tested = FALSE
  /\ pending = [h \in Hosts |-> FALSE]
  /\ op = None
  /\ faults = MaxFaults
  /\ touches = MaxTouches
  /\ retained = 0

Fault == faults > 0 /\ faults' = faults - 1
At(step) == op # None /\ op.step = step
GoTo(step) == op' = [op EXCEPT !.step = step]
Done == op' = None

-----------------------------------------------------------------------------
(* Connections.                                                             *)

\* A record of an interrupted object blocks the byte test and every write of
\* its browser; the inventory is read-only then.
Connect(h) ==
  /\ host = None
  /\ host' = h
  /\ tested' = ~pending[h]
  /\ UNCHANGED <<root, pending, op, faults, touches, retained>>

\* The tab dies, the cable is pulled, or the connection is retired after a
\* fatal failure: what was under way is lost, the recovery record is not.
ConnectionEnds ==
  /\ host # None
  /\ IF op = None THEN UNCHANGED faults ELSE Fault
  /\ host' = None
  /\ tested' = FALSE
  /\ Done
  /\ UNCHANGED <<root, pending, touches, retained>>

\* confirmCleanupInspection: the owner says the object was inspected.  The
\* device lease keeps it away from another browser's writes only; a live
\* connection of this one tests itself again.
Acknowledge(h) ==
  /\ pending[h]
  /\ op = None
  /\ host \in {None, h}
  /\ pending' = [pending EXCEPT ![h] = FALSE]
  /\ tested' = (host = h)
  /\ UNCHANGED <<root, host, op, faults, touches, retained>>

\* The owner removes a file or puts something else in its place.
Touch(s) ==
  /\ host = None
  /\ touches > 0
  /\ touches' = touches - 1
  /\ \E object \in {NoObject, Junk} :
       /\ root[s] # object
       /\ root' = [root EXCEPT ![s] = object]
  /\ retained' = IF root[s].gen = retained THEN Newest(root') ELSE retained
  /\ UNCHANGED <<host, tested, pending, op, faults>>

-----------------------------------------------------------------------------
(* loadKindleBridgeDeviceMetadataCache.                                     *)

\* What the discovery makes of a slot: an object whose information cannot be
\* read is passed over like an absent one; one that is not a valid cache, or
\* cannot be read, blocks its slot.
Seen(s, unreadable, failing) ==
  IF ~root[s].there \/ s \in unreadable THEN "absent"
  ELSE IF s \in failing \/ ~root[s].valid THEN "blocked"
  ELSE "loaded"

\* The newest generation among the slots that were loaded, or 0.
ActiveGeneration(slots) ==
  LET gens == {root[s].gen : s \in {t \in Slots : slots[t] = "loaded"}}
  IN CHOOSE g \in gens \union {0} : \A h \in gens : h <= g

Found(slots) ==
  /\ op' = [step |-> "loaded", slots |-> slots, gen |-> ActiveGeneration(slots), slot |-> "a",
            ambiguous |-> /\ \A s \in Slots : slots[s] = "loaded"
                          /\ root["a"].gen = root["b"].gen]
  /\ retained' = IF ActiveGeneration(slots) > retained THEN ActiveGeneration(slots) ELSE retained

Load ==
  /\ host # None
  /\ op = None
  /\ \E unreadable \in {{}} \union {{s} : s \in Slots}, failing \in {{}} \union {{s} : s \in Slots} :
       /\ IF unreadable \union failing = {} THEN UNCHANGED faults ELSE Fault
       /\ Found([s \in Slots |-> Seen(s, unreadable, failing)])
  /\ UNCHANGED <<root, host, tested, pending, touches>>

\* The books cannot all be read, this connection has not passed its test, or
\* the entries are those the active slot already has.
NothingToWrite ==
  /\ At("loaded")
  /\ Done
  /\ UNCHANGED <<root, host, tested, pending, faults, touches, retained>>

-----------------------------------------------------------------------------
(* planKindleBridgeDeviceMetadataCacheWrite and updateDeviceMetadataCache.  *)

ActiveSlots == {s \in Slots : op.slots[s] = "loaded" /\ root[s].gen = op.gen}

\* A plausible slip: the slot in use is the one that is rewritten.
PlannedSlotInPlace == IF ActiveSlots = {"b"} THEN "b" ELSE "a"

\* The slot that is not in use.
PlannedSlot == IF "a" \in ActiveSlots THEN "b" ELSE "a"

\* A plausible slip: the new file repeats the generation it was made from.
PlannedGenerationAgain == IF op.gen = 0 THEN 1 ELSE op.gen

PlannedGeneration == op.gen + 1

\* No write when the generations are ambiguous or the slot is blocked; the
\* storage must be writable and have room, else the write is skipped.  The
\* operations whose inventory may write are refused while a record exists.
Plan ==
  /\ At("loaded")
  /\ tested /\ ~pending[host]
  /\ PlannedGeneration <= MaxGen
  /\ ~op.ambiguous
  /\ op.slots[PlannedSlot] # "blocked"
  /\ op' = [op EXCEPT !.slot = PlannedSlot, !.gen = PlannedGeneration,
                      !.step = IF op.slots[PlannedSlot] = "loaded" THEN "replacing" ELSE "listing"]
  /\ UNCHANGED <<root, host, tested, pending, faults, touches, retained>>

\* deleteKindleBridgeMetadataCacheObject: read again, deleted, proved absent.
\* A failure that is not fatal skips the write, deleted or not.
DeleteOlder ==
  /\ At("replacing")
  /\ \/ /\ root' = [root EXCEPT ![op.slot] = NoObject]
        /\ GoTo("listing")
        /\ UNCHANGED faults
     \/ /\ Fault
        /\ root' \in {root, [root EXCEPT ![op.slot] = NoObject]}
        /\ Done
  /\ UNCHANGED <<host, tested, pending, touches, retained>>

\* rootFilenamePreflight: the name must be free in a full listing; anything
\* unreadable skips the write.
Preflight ==
  /\ At("listing")
  /\ \/ /\ IF root[op.slot].there THEN Done ELSE GoTo("intent")
        /\ UNCHANGED faults
     \/ Fault /\ Done
  /\ UNCHANGED <<root, host, tested, pending, touches, retained>>

\* createObject: the recovery record is written before the object exists.
Intend ==
  /\ At("intent")
  /\ \/ /\ pending' = [pending EXCEPT ![host] = TRUE]
        /\ GoTo("creating")
        /\ UNCHANGED faults
     \/ Fault /\ Done /\ UNCHANGED pending
  /\ UNCHANGED <<root, host, tested, touches, retained>>

\* SendObjectInfo.  Without a usable handle there is nothing to clean up by,
\* whether or not the device made the object.
Create ==
  /\ At("creating")
  /\ \/ /\ root' = [root EXCEPT ![op.slot] = Junk]
        /\ GoTo("filling")
        /\ UNCHANGED faults
     \/ /\ Fault
        /\ root' \in {root, [root EXCEPT ![op.slot] = Junk]}
        /\ Done
  /\ UNCHANGED <<host, tested, pending, touches, retained>>

\* SendObject: a failed one may have left all of the bytes.
Fill ==
  /\ At("filling")
  /\ \/ /\ root' = [root EXCEPT ![op.slot] = Cache(op.gen)]
        /\ GoTo("reading back")
        /\ UNCHANGED faults
     \/ /\ Fault
        /\ root' \in {root, [root EXCEPT ![op.slot] = Cache(op.gen)]}
        /\ GoTo("discarding")
  /\ UNCHANGED <<host, tested, pending, touches, retained>>

\* verifyObject and the strict read-back; the record is cleared last, and
\* may resist.
ReadBack ==
  /\ At("reading back")
  /\ \/ /\ pending' = [pending EXCEPT ![host] = FALSE]
        /\ retained' = IF op.gen > retained THEN op.gen ELSE retained
        /\ Done
        /\ UNCHANGED faults
     \/ /\ Fault
        /\ retained' = IF op.gen > retained THEN op.gen ELSE retained
        /\ Done
        /\ UNCHANGED pending
     \/ Fault /\ GoTo("discarding") /\ UNCHANGED <<pending, retained>>
  /\ UNCHANGED <<root, host, tested, touches>>

\* cleanupAfterCreateFailure and deleteCreatedAndVerify: the created handle is
\* deleted and proved absent, or the record stays.
Discard ==
  /\ At("discarding")
  /\ Done
  /\ \/ /\ root' = [root EXCEPT ![op.slot] = NoObject]
        /\ pending' = [pending EXCEPT ![host] = FALSE]
        /\ UNCHANGED faults
     \/ /\ Fault
        /\ root' \in {root, [root EXCEPT ![op.slot] = NoObject]}
        /\ UNCHANGED pending
  /\ UNCHANGED <<host, tested, touches, retained>>

Next ==
  \/ \E h \in Hosts : Connect(h) \/ Acknowledge(h)
  \/ ConnectionEnds
  \/ \E s \in Slots : Touch(s)
  \/ Load \/ NothingToWrite \/ Plan \/ DeleteOlder \/ Preflight
  \/ Intend \/ Create \/ Fill \/ ReadBack \/ Discard

Spec == Init /\ [][Next]_vars

-----------------------------------------------------------------------------

TypeOK ==
  /\ \A s \in Slots : root[s] \in {NoObject, Junk} \union {Cache(g) : g \in 1..MaxGen}
  /\ host \in Hosts \union {None}
  /\ pending \in [Hosts -> BOOLEAN]
  /\ op # None => host # None
  /\ retained \in 0..MaxGen

\* Whatever fails between the deletion of the older slot and the read-back of
\* the new one, and whichever browser comes next, the newest generation that
\* was ever loaded or verified stays on the device until a newer one is
\* there (docs/technical-guide.md:156 "Rotation retains a previously verified
\* slot until its replacement has been written and read back exactly").
NewestSlotSurvives == retained > 0 => Newest(root) >= retained

\* The two slots never claim the same generation, which would make both
\* useless: not after failed rotations, unreadable slots or another browser's
\* leftovers (planKindleBridgeDeviceMetadataCacheWrite: generationAmbiguous).
GenerationsDiffer == root["a"].valid /\ root["b"].valid => root["a"].gen # root["b"].gen

=============================================================================
