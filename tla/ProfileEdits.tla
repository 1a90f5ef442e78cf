---------------------------- MODULE ProfileEdits ----------------------------
(***************************************************************************)
(* Two browsers edit the durable state of one profile: the Send-later      *)
(* queue and the order of the shelves in the sidebar.                      *)
(*                                                                         *)
(* Server side (catalog-database.ts, http-server.ts): each collection has  *)
(* a revision, every mutation names the revision it was made from, and a   *)
(* change is announced to all browsers.  Browser side (catalog-browser.ts):*)
(* queue requests with the busy flag, #loadProfileExtras with its epoch,   *)
(* and the sidebar order with its one load, one save and one remembered    *)
(* reload.  Requests, answers and announcements travel independently; a    *)
(* save that was given up may still be handled.  MaxEdits bounds the       *)
(* users' edits, MaxFaults the lost or failing requests.                   *)
(***************************************************************************)
EXTENDS Naturals, SequencesExt

CONSTANTS
  Browsers, Books, None,
  Shelves,             \* the smart shelves, all pinned at first
  Queued,              \* the books queued at first, in order
  MaxEdits, MaxFaults

VARIABLES
  queue,    \* send_queue_state and send_queue_entries: [rev, ids]
  shelves,  \* smart_shelves: shelf -> [rev, rank], rank 0 when not pinned
  saved,    \* shelf_sidebar_order: [rev, ids]
  hints,    \* browser -> announcements on their way to it
  page,     \* browser -> its CatalogBrowser state
  late,     \* order saves given up by their browser and not yet handled
  edits, faults

vars == <<queue, shelves, saved, hints, page, late, edits, faults>>

BuiltIn == "built-in"   \* BUILT_IN_SHELF_IDS: always listed first

\* normalizeShelfSidebarOrder (shared/shelf-order.ts): what was saved and is
\* still available, then what is available and was not saved.
Normalize(ids, available) ==
  SelectSeq(ids, LAMBDA s : s \in Range(available))
  \o SelectSeq(available, LAMBDA s : s \notin Range(ids))

Pinned(list) == {s \in DOMAIN list : list[s].rank > 0}

\* sidebarShelfIds: the built-in shelves and the pinned ones by rank.
SidebarIds(list) ==
  <<BuiltIn>> \o SetToSortSeq(Pinned(list), LAMBDA s, t : list[s].rank < list[t].rank)

\* getShelfSidebarOrder.
Order(theSaved, list) == [rev |-> theSaved.rev, ids |-> Normalize(theSaved.ids, SidebarIds(list))]

NoSave == [at |-> "none", seen |-> None, ids |-> None, answer |-> None]

\* A browser that has loaded the profile.
Loaded ==
  [queue |-> queue, call |-> None, extras |-> "none", got |-> None, shelves |-> shelves,
   order |-> Order(saved, shelves), state |-> "ready", reload |-> FALSE,
   load |-> None, save |-> NoSave, overtaken |-> FALSE]

Init ==
  /\ queue = [rev |-> Len(Queued), ids |-> Queued]
  /\ shelves \in {[s \in Shelves |-> [rev |-> 1, rank |-> f[s]]] : f \in Bijection(Shelves, 1..Cardinality(Shelves))}
  /\ saved = [rev |-> 0, ids |-> << >>]
  /\ hints = [b \in Browsers |-> 0]
  /\ page = [b \in Browsers |-> Loaded]
  /\ late = {}
  /\ edits = MaxEdits
  /\ faults = MaxFaults

Edit == edits > 0 /\ edits' = edits - 1
Fault == faults > 0 /\ faults' = faults - 1
Announce == hints' = [b \in Browsers |-> hints[b] + 1]
Put(b, view) == page' = [page EXCEPT ![b] = view]

\* a request that was made and not yet handled
Waiting(call) == call.answer = None /\ ~call.refused
Asked == [reply |-> None]

-----------------------------------------------------------------------------
(* The Send-later queue.                                                    *)

\* What a user may ask for, from the queue the page shows: add a book, remove
\* one, clear the queue, or move a book up.
Requests(ids) ==
  {[op |-> "add", ids |-> <<x>>] : x \in Books \ Range(ids)}
  \union {[op |-> "remove", ids |-> <<x>>] : x \in Range(ids)}
  \union (IF ids = << >> THEN {} ELSE {[op |-> "clear", ids |-> << >>]})
  \union {[op |-> "replace", ids |-> [ids EXCEPT ![i] = ids[i + 1], ![i + 1] = ids[i]]]
            : i \in 1..(Len(ids) - 1)}

\* #addBooksToSendQueue, removeBookFromSendQueue, clearSendQueue,
\* moveSendQueueBook: one request at a time, made from the queue on the page.
AskQueue(b) ==
  /\ page[b].call = None
  /\ Edit
  /\ \E r \in Requests(page[b].queue.ids) :
       Put(b, [page[b] EXCEPT !.call = [op |-> r.op, ids |-> r.ids, seen |-> page[b].queue,
                                               answer |-> None, refused |-> FALSE]])
  /\ UNCHANGED <<queue, shelves, saved, hints, late, faults>>

\* The entries a mutation leaves.
Mutated(call) ==
  CASE call.op = "add" -> queue.ids \o SelectSeq(call.ids, LAMBDA x : x \notin Range(queue.ids))
    [] call.op = "remove" -> SelectSeq(queue.ids, LAMBDA x : x \notin Range(call.ids))
    [] call.op = "clear" -> << >>
    [] call.op = "replace" -> call.ids

\* A plausible slip: a reorder that is accepted from any revision.
OnlyOthersConflict(call) == call.op # "replace" /\ call.seen.rev # queue.rev

\* The revision check every mutation makes.
QueueConflict(call) == call.seen.rev # queue.rev

\* addSendQueueEntries, removeSendQueueEntry, clearSendQueue, replaceSendQueue
\* and their routes: a stale revision is refused, a change is announced.
HandleQueue(b) ==
  LET call == page[b].call
      ids == Mutated(call)
      next == [rev |-> queue.rev + 1, ids |-> ids]
  IN /\ call # None
     /\ Waiting(call)
     /\ IF QueueConflict(call)
        THEN /\ Put(b, [page[b] EXCEPT !.call.refused = TRUE])
             /\ UNCHANGED <<queue, hints>>
        ELSE IF ids = queue.ids
        THEN /\ Put(b, [page[b] EXCEPT !.call.answer = queue])
             /\ UNCHANGED <<queue, hints>>
        ELSE /\ queue' = next
             /\ Put(b, [page[b] EXCEPT !.call.answer = next])
             /\ Announce
  /\ UNCHANGED <<shelves, saved, late, edits, faults>>

\* The page takes the queue over, with no look at its revision; history: was
\* a newer one shown?
Shown(view, q) ==
  [view EXCEPT !.queue = q, !.overtaken = @ \/ q.rev < view.queue.rev]

\* The answer arrives, or the request or its answer is lost.  After an error
\* an add puts back the queue it started from; the other requests leave the
\* page's queue alone.
AnswerQueue(b) ==
  LET call == page[b].call
      done == [page[b] EXCEPT !.call = None]
      back == IF call.op = "add" THEN Shown(done, call.seen) ELSE done
  IN /\ call # None
     /\ \/ /\ ~Waiting(call)
           /\ Put(b, IF call.refused THEN back ELSE Shown(done, call.answer))
           /\ UNCHANGED faults
        \/ Fault /\ Put(b, back)
     /\ UNCHANGED <<queue, shelves, saved, hints, late, edits>>

-----------------------------------------------------------------------------
(* Loading: queue and shelves together, the sidebar order on its own.       *)

\* A plausible slip: a load that cannot start now is dropped.
WithOrderLoadOnlyNow(view) ==
  IF view.save.at # "none" \/ view.load # None
  THEN view
  ELSE [view EXCEPT !.reload = FALSE, !.load = Asked, !.state = "loading"]

\* #loadSidebarShelfOrder: one load at a time, none while a save is under
\* way; what cannot start now is remembered.
WithOrderLoad(view) ==
  IF view.save.at # "none" \/ view.load # None
  THEN [view EXCEPT !.reload = TRUE]
  ELSE [view EXCEPT !.reload = FALSE, !.load = Asked, !.state = "loading"]

\* A plausible slip: an announcement that arrives while a load runs is
\* thought to be covered by it.
WithExtrasOnce(view) ==
  WithOrderLoad([view EXCEPT !.extras = IF @ = "none" THEN "asked" ELSE @])

\* #loadProfileExtras: a newer load replaces the older one.
WithExtras(view) ==
  WithOrderLoad([view EXCEPT !.extras = "asked", !.got = None])

\* queue.updated or shelf.updated.
Hear(b) ==
  /\ hints[b] > 0
  /\ hints' = [hints EXCEPT ![b] = @ - 1]
  /\ Put(b, WithExtras(page[b]))
  /\ UNCHANGED <<queue, shelves, saved, late, edits, faults>>

\* getSendQueue and listSmartShelves.
ReadExtras(b) ==
  /\ page[b].extras = "asked"
  /\ Put(b, [page[b] EXCEPT !.extras = "read", !.got = [queue |-> queue, shelves |-> shelves]])
  /\ UNCHANGED <<queue, shelves, saved, hints, late, edits, faults>>

\* The end of #loadProfileExtras; it has waited for the order load as well.
ShowExtras(b) ==
  LET view == page[b]
  IN /\ view.extras # "none"
     /\ view.load = None
     /\ \/ /\ view.extras = "read"
           /\ Put(b, [view EXCEPT !.extras = "none", !.got = None, !.queue = view.got.queue,
                                  !.shelves = view.got.shelves, !.overtaken = FALSE])
           /\ UNCHANGED faults
        \/ /\ Fault
           /\ Put(b, [view EXCEPT !.extras = "none", !.got = None, !.overtaken = TRUE])
     /\ UNCHANGED <<queue, shelves, saved, hints, late, edits>>

\* getShelfSidebarOrder.
ReadOrder(b) ==
  /\ page[b].load = Asked
  /\ Put(b, [page[b] EXCEPT !.load.reply = Order(saved, shelves)])
  /\ UNCHANGED <<queue, shelves, saved, hints, late, edits, faults>>

\* One round of the load loop ends; a remembered reload starts the next.
ShowOrder(b) ==
  LET view == page[b]
      again(v) == IF v.reload THEN WithOrderLoad([v EXCEPT !.load = None]) ELSE [v EXCEPT !.load = None]
  IN /\ view.load # None
     /\ \/ /\ view.load.reply # None
           /\ Put(b, again([view EXCEPT !.order = view.load.reply, !.state = "ready"]))
           /\ UNCHANGED faults
        \/ /\ Fault
           /\ Put(b, again([view EXCEPT !.state = "error"]))
     /\ UNCHANGED <<queue, shelves, saved, hints, late, edits>>

-----------------------------------------------------------------------------
(* The order of the shelves in the sidebar.                                 *)

\* reorderSidebarShelf: the complete list with one shelf moved.
AskOrder(b) ==
  LET view == page[b]
      ids == Normalize(view.order.ids, SidebarIds(view.shelves))
  IN /\ view.state = "ready"
     /\ view.extras = "none"
     /\ view.save.at = "none"
     /\ Edit
     /\ \E i \in 1..(Len(ids) - 1) :
          Put(b, [view EXCEPT !.load = None, !.reload = FALSE,
                              !.save = [at |-> "asked", seen |-> view.order, answer |-> None,
                                        ids |-> [ids EXCEPT ![i] = ids[i + 1], ![i + 1] = ids[i]]]])
     /\ UNCHANGED <<queue, shelves, saved, hints, late, faults>>

\* reorderShelfSidebar: the revision and the set of shelves must be current.
OrderConflict(save) ==
  LET current == Order(saved, shelves)
  IN save.seen.rev # current.rev \/ Range(save.ids) # Range(current.ids)

OrderSaved(save) ==
  IF OrderConflict(save) \/ save.ids = Order(saved, shelves).ids
  THEN UNCHANGED <<saved, hints>>
  ELSE saved' = [rev |-> saved.rev + 1, ids |-> save.ids] /\ Announce

HandleOrder(b) ==
  LET save == page[b].save
  IN /\ save.at = "asked"
     /\ OrderSaved(save)
     /\ Put(b, IF OrderConflict(save) THEN [page[b] EXCEPT !.save.at = "refused"]
               ELSE [page[b] EXCEPT !.save.at = "answered", !.save.answer = Order(saved', shelves)])
     /\ UNCHANGED <<queue, shelves, late, edits, faults>>

HandleLate ==
  \E save \in late :
    /\ late' = late \ {save}
    /\ OrderSaved(save)
    /\ UNCHANGED <<queue, shelves, page, edits, faults>>

\* The end of reorderSidebarShelf: a conflict loads everything again, any
\* other failure the order, because it may hide a save that succeeded.
AnswerOrder(b) ==
  LET save == page[b].save
      done == [page[b] EXCEPT !.save = NoSave]
      more(v) == IF v.reload THEN WithOrderLoad(v) ELSE v
  IN /\ save.at # "none"
     /\ \/ /\ save.at # "asked"
           /\ Put(b, IF save.at = "refused"
                     THEN WithExtras([done EXCEPT !.reload = TRUE])
                     ELSE more([done EXCEPT !.order = save.answer, !.state = "ready"]))
           /\ UNCHANGED <<late, faults>>
        \/ /\ Fault
           /\ late' = IF save.at = "asked" THEN late \union {save} ELSE late
           /\ Put(b, WithOrderLoad([done EXCEPT !.reload = TRUE]))
     /\ UNCHANGED <<queue, shelves, saved, hints, edits>>

\* toggleSmartShelfPinned and updateSmartShelf.  Pinning appends a rank; the
\* sidebar order is written again when its list changed
\* (reconcileShelfSidebarOrder).  Nothing depends on the time between this
\* request and its answer, so they are one step.
TogglePin(b, s) ==
  LET view == page[b]
      ranks == {shelves[t].rank : t \in Shelves}
      top == CHOOSE r \in ranks : \A q \in ranks : q <= r
      after == [shelves EXCEPT ![s] = [rev |-> @.rev + 1, rank |-> IF @.rank > 0 THEN 0 ELSE top + 1]]
      before == Order(saved, shelves)
  IN /\ Edit
     /\ IF view.shelves[s].rev # shelves[s].rev
        THEN UNCHANGED <<shelves, saved, hints, page>>
        ELSE /\ shelves' = after
             /\ saved' = [rev |-> saved.rev + 1, ids |-> Normalize(before.ids, SidebarIds(after))]
             /\ Put(b, WithOrderLoad([view EXCEPT !.shelves[s] = after[s]]))
             /\ Announce
     /\ UNCHANGED <<queue, late, faults>>

Next ==
  \/ \E b \in Browsers :
       \/ AskQueue(b) \/ HandleQueue(b) \/ AnswerQueue(b)
       \/ Hear(b) \/ ReadExtras(b) \/ ShowExtras(b) \/ ReadOrder(b) \/ ShowOrder(b)
       \/ AskOrder(b) \/ HandleOrder(b) \/ AnswerOrder(b)
       \/ \E s \in Shelves : TogglePin(b, s)
  \/ HandleLate

Spec == Init /\ [][Next]_vars

-----------------------------------------------------------------------------

\* The parts of the state are well-formed and every page has seen a revision
\* the server has been at.
TypeOK ==
  /\ queue.rev \in 0..(Len(Queued) + MaxEdits)
  /\ IsInjective(queue.ids) /\ Range(queue.ids) \subseteq Books
  /\ saved.rev \in 0..MaxEdits
  /\ \A b \in Browsers : /\ page[b].queue.rev \in 0..queue.rev
                         /\ page[b].order.rev \in 0..saved.rev
                         /\ page[b].state \in {"loading", "ready", "error"}

\* A browser never takes out of the queue an entry it did not show when the
\* user asked, however its request is delayed (catalog-database.ts: "The
\* Send-later queue changed in another browser.").
NothingUnseenIsRemoved ==
  [][\A b \in Browsers :
       HandleQueue(b) => \A x \in Range(queue.ids) \ Range(queue'.ids) :
                            x \in Range(page[b].call.seen.ids)]_vars

\* When nothing is under way a page that says its shelf order is ready shows
\* the server's order, whatever saves were lost, refused or handled late and
\* whatever was announced while they ran (catalog-browser.ts:1951: "A lost
\* response can hide a successful save; fetch current state rather than
\* blindly replaying a mutation or overwriting another browser's changes.").
QuietOrderIsFresh ==
  \A b \in Browsers :
    LET view == page[b]
    IN hints[b] = 0 /\ view.load = None /\ view.save.at = "none" /\ view.state = "ready"
         => view.order = Order(saved, shelves)

\* A page that names the server's revision of the queue shows the server's
\* queue, so what it shows differently is refused when it is edited.  And with
\* nothing under way it is the server's, as every announcement starts a load that
\* replaces the one under way (#loadProfileExtras, catalog-browser.ts:5592),
\* unless since the last load that was shown an older answer overwrote a newer
\* queue or a load failed: then an old queue stays until the next announcement.
QuietQueueIsFresh ==
  \A b \in Browsers :
    LET view == page[b]
    IN /\ view.queue.rev = queue.rev => view.queue = queue
       /\ hints[b] = 0 /\ view.extras = "none" /\ view.call = None /\ ~view.overtaken
            => view.queue = queue

=============================================================================
