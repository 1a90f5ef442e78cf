--------------------------- MODULE ConnectedKindle ----------------------------
(***************************************************************************)
(* One open connection to a Kindle (class ConnectedKindle of               *)
(* device-runtime.ts): the exclusive operations, the optional cover reads  *)
(* that yield to them, the self-test proof, the inventory each operation   *)
(* leaves behind and which inventory cover lookups may use, and the two    *)
(* ways the connection is closed.                                          *)
(*                                                                         *)
(* A native call is one or several MTP transactions.  It succeeds, fails   *)
(* with or without having had its effect, and a fatal failure also closes  *)
(* the session (MtpSession).  A snapshot object is compared by identity in *)
(* the code; a new one is made by every scan, so here "changed" says that  *)
(* the running operation put another one in #inventory, and "eligible"     *)
(* that #inventory and #coverInventory are the same object.                *)
(***************************************************************************)
EXTENDS Naturals, FiniteSets

CONSTANTS Books,   \* book objects that are or can come to be on the device
          NoBook

Kinds == {"self test", "prepare", "refresh", "send once", "send", "update",
          "cleanup", "remove"}
Steps == {"idle", "draining", "proving", "looking", "uploading", "recording",
          "deleting", "looking again"}

\* Operations that are refused without a passed self-test.
Gated == {"send", "update", "cleanup", "remove"}

VARIABLES
  books,      \* the device: its book objects
  session,    \* MtpSession.isOpen, or why not
  closing,    \* disconnect or closeAfterPhysicalDisconnect, how far it is
  op,         \* #operationActive: what runs
  step,       \* where it is
  target,     \* the old copy an update is to replace
  changed,    \* this.#inventory !== priorInventory
  proven,     \* #selfTestResult?.cleanedUp === true
  inventory,  \* #inventory: none, or one snapshot
  eligible,   \* #inventory === #coverInventory
  cover,      \* #coverRead: where it is
  coverBook,  \* the book it reads
  returned    \* the cover the last read returned

usb     == <<books, session, closing>>
running == <<op, step, target, changed>>
known   == <<proven, inventory, eligible>>
reading == <<cover, coverBook, returned>>
vars    == <<books, session, closing, op, step, target, changed, proven, inventory,
             eligible, cover, coverBook, returned>>

Snapshots == [books : SUBSET Books, complete : BOOLEAN]

\* A session just opened by openKindle.
Init ==
  /\ books \in SUBSET Books
  /\ session = "open"
  /\ closing = "no"
  /\ op = "none"
  /\ step = "idle"
  /\ target = NoBook
  /\ changed = FALSE
  /\ proven = FALSE
  /\ inventory = {}
  /\ eligible = FALSE
  /\ cover = "none"
  /\ coverBook = NoBook
  /\ returned = NoBook

Closed == closing # "no"
Usable == ~Closed /\ session = "open"

\* A scan reports every book, or is partial.
Scans == [books : {books}, complete : BOOLEAN]
Lists(b) == \E i \in inventory : i.complete /\ b \in i.books

-----------------------------------------------------------------------------
(***************************************************************************)
(* #runExclusive.                                                          *)
(***************************************************************************)
FirstStep(k) ==
  CASE k \in {"self test", "prepare"}   -> "proving"
    [] k \in {"refresh", "update", "cleanup"} -> "looking"
    [] k \in {"send once", "send"}      -> "uploading"
    [] k = "remove"                     -> "deleting"

\* Seeded fault: no operation asks for the self-test.
EnterUngated(k) ==
  /\ eligible' = (eligible /\ k = "self test")
  /\ proven' = (proven /\ k \notin {"self test", "prepare"})
  /\ changed' = FALSE
  /\ op' = k
  /\ step' = FirstStep(k)

\* The operation's body begins: its gates, and the resets they come with.
Enter(k) ==
  /\ eligible' = (eligible /\ k = "self test")
  /\ proven' = (proven /\ k \notin {"self test", "prepare"})
  /\ changed' = FALSE
  /\ IF /\ k \in Gated => proven
        /\ k = "remove" => \E i \in inventory : i.complete
     THEN /\ op' = k
          /\ step' = FirstStep(k)
     ELSE /\ op' = "none"
          /\ step' = "idle"

\* Seeded fault: an operation does not wait for the running cover read.
BeginAtOnce(k, b) ==
  /\ Usable
  /\ op = "none"
  /\ IF k = "update" THEN Lists(b) ELSE b = NoBook
  /\ target' = b
  /\ Enter(k)
  /\ UNCHANGED <<usb, inventory, reading>>

\* An update names its old copy by a complete inventory before it asks for
\* the lock.
Begin(k, b) ==
  /\ Usable
  /\ op = "none"
  /\ IF k = "update" THEN Lists(b) ELSE b = NoBook
  /\ target' = b
  /\ IF cover = "none"
     THEN Enter(k)
     ELSE /\ op' = k
          /\ step' = "draining"
          /\ UNCHANGED <<changed, proven, eligible>>
  /\ UNCHANGED <<usb, inventory, reading>>

\* Seeded fault: an operation that waited does not see that it is closed.
DrainedIfUsable ==
  /\ step = "draining"
  /\ cover = "none"
  /\ Usable
  /\ Enter(op)
  /\ UNCHANGED <<usb, target, inventory, reading>>

\* The cover read is over; a connection closed meanwhile ends the operation.
Drained ==
  /\ step = "draining"
  /\ cover = "none"
  /\ IF Usable
     THEN Enter(op)
     ELSE /\ op' = "none"
          /\ step' = "idle"
          /\ UNCHANGED <<changed, proven, eligible>>
  /\ UNCHANGED <<usb, target, inventory, reading>>

\* The body returned: what it left in #inventory serves covers when complete.
Return(left, moved) ==
  /\ op' = "none"
  /\ step' = "idle"
  /\ changed' = FALSE
  /\ inventory' = left
  /\ eligible' = IF moved THEN \E i \in left : i.complete ELSE eligible

\* Seeded fault: a failure leaves #operationActive set.
ThrowStaysActive(left, moved) ==
  /\ op' = op
  /\ step' = "idle"
  /\ changed' = FALSE
  /\ inventory' = left
  /\ eligible' = (eligible /\ ~moved)

\* It threw.
Throw(left, moved) ==
  /\ op' = "none"
  /\ step' = "idle"
  /\ changed' = FALSE
  /\ inventory' = left
  /\ eligible' = (eligible /\ ~moved)

GoOn(s) ==
  /\ step' = s
  /\ op' = op

-----------------------------------------------------------------------------
(***************************************************************************)
(* The bodies, native call by native call.                                 *)
(***************************************************************************)
\* runSelfTest leaves the books alone.
SelfTestPasses ==
  /\ step = "proving"
  /\ session = "open"
  /\ proven' = TRUE
  /\ IF op = "self test"
     THEN Return(inventory, changed)
     ELSE /\ GoOn("looking")
          /\ UNCHANGED <<changed, inventory, eligible>>
  /\ UNCHANGED <<usb, target, reading>>

\* The first scan.  An update goes on only when it is complete and has the
\* old copy; a cleanup may find nothing left to do, or refuse.
Look ==
  /\ step = "looking"
  /\ session = "open"
  /\ \E s \in Scans :
       \/ /\ op \in {"prepare", "refresh"}
          /\ Return({s}, TRUE)
       \/ /\ op = "update"
          /\ ~(s.complete /\ target \in s.books)
          /\ Throw({s}, TRUE)
       \/ /\ op = "cleanup"
          /\ Throw({s}, TRUE) \/ (s.complete /\ Return({s}, TRUE))
       \/ /\ s.complete
          /\ \/ op = "update" /\ target \in s.books /\ GoOn("uploading")
             \/ op = "cleanup" /\ GoOn("deleting")
          /\ inventory' = {s}
          /\ changed' = TRUE
          /\ eligible' = FALSE
  /\ UNCHANGED <<usb, target, proven, reading>>

\* A verified new object.
Upload(b) ==
  /\ step = "uploading"
  /\ session = "open"
  /\ b \notin books
  /\ books' = books \cup {b}
  /\ IF op = "send once"
     THEN Return(inventory, changed)
     ELSE /\ GoOn(IF op = "send" THEN "looking again" ELSE "recording")
          /\ UNCHANGED <<changed, inventory, eligible>>
  /\ UNCHANGED <<session, closing, target, proven, reading>>

\* recordVerifiedDelivery; without a record the old copy stays.
Record ==
  /\ step = "recording"
  /\ \E s \in {"deleting", "looking again"} : GoOn(s)
  /\ UNCHANGED <<usb, target, changed, known, reading>>

\* What the operation is there to delete: revalidated, so it is on the device.
Deletable(b) ==
  /\ b \in books
  /\ IF op = "update" THEN b = target ELSE Lists(b)

\* One exact object goes.  A removal may go on with the next one.
Delete(b) ==
  /\ step = "deleting"
  /\ session = "open"
  /\ Deletable(b)
  /\ books' = books \ {b}
  /\ \/ GoOn("looking again") /\ inventory' = {}
     \/ op = "remove" /\ GoOn("deleting") /\ inventory' = inventory
  /\ changed' = TRUE
  /\ eligible' = FALSE
  /\ UNCHANGED <<session, closing, target, proven, reading>>

\* The scan after the change.
LookAgain ==
  /\ step = "looking again"
  /\ session = "open"
  /\ \E s \in Scans : IF op = "cleanup" /\ ~s.complete THEN Throw({s}, TRUE)
                                                       ELSE Return({s}, TRUE)
  /\ UNCHANGED <<usb, target, proven, reading>>

\* What a failed call may have done to the books.  An upload that failed is
\* cleaned up, or its remains stay; a batch may have removed earlier books.
FailureEffects ==
  {books} \cup IF session # "open" THEN {}
               ELSE    {books \cup {b} : b \in {c \in Books : step = "uploading"}}
                  \cup {books \ {b} : b \in {c \in books : step = "deleting" /\ Deletable(c)}}

\* A call fails.  A removal and a cleanup give up the inventory once they
\* may have deleted; the scan after a send, a removal or an update is best
\* effort; an update that could not delete still scans before it returns; a
\* first scan that fails harmlessly leaves the connection prepared.
CallFails ==
  /\ books' \in FailureEffects
  /\ session' \in {session, IF session = "open" THEN "faulted" ELSE session}
  /\ \/ /\ step = "deleting"
        /\ op = "update"
        /\ GoOn("looking again")
        /\ UNCHANGED <<changed, inventory, eligible>>
     \/ /\ step = "deleting"
        /\ op # "update"
        /\ Throw({}, TRUE)
     \/ /\ \/ step = "looking" /\ op = "prepare" /\ session' = "open"
           \/ step = "looking again" /\ op # "cleanup"
        /\ Return(inventory, changed)
     \/ /\ \/ step = "looking" /\ ~(op = "prepare" /\ session' = "open")
           \/ step = "looking again" /\ op = "cleanup"
           \/ step \in {"proving", "uploading"}
        /\ Throw(inventory, changed)
  /\ UNCHANGED <<closing, target, proven, reading>>

-----------------------------------------------------------------------------
(***************************************************************************)
(* readBookCover.                                                          *)
(***************************************************************************)
\* The read is still wanted: isCurrent.
Current == Usable /\ op = "none"

\* Seeded fault: what the inventory says is trusted.
RevalidatedByInventory == Current /\ Lists(coverBook)

\* revalidate: wanted, and the exact object is there.
Revalidated == Current /\ coverBook \in books

StartCover(b) ==
  /\ Usable
  /\ op = "none"
  /\ cover = "none"
  /\ eligible
  /\ Lists(b)
  /\ cover' = "checking"
  /\ coverBook' = b
  /\ UNCHANGED <<usb, running, known, returned>>

EndCover(result) ==
  /\ cover' = "none"
  /\ coverBook' = NoBook
  /\ returned' = result

\* Unread or cached; otherwise no cover.
CheckCover ==
  /\ cover = "checking"
  /\ IF Revalidated
     THEN /\ cover' \in {"reading", "rechecking"}
          /\ UNCHANGED <<coverBook, returned>>
     ELSE EndCover(NoBook)
  /\ UNCHANGED <<usb, running, known>>

\* GetObject runs to its end once it was sent.
ReadCover ==
  /\ cover = "reading"
  /\ session = "open"
  /\ cover' = "rechecking"
  /\ UNCHANGED <<usb, running, known, coverBook, returned>>

RecheckCover ==
  /\ cover = "rechecking"
  /\ IF Revalidated THEN EndCover(coverBook) ELSE EndCover(NoBook)
  /\ UNCHANGED <<usb, running, known>>

\* A fatal failure fails the waiting operation as well; others are no cover.
CoverFails ==
  /\ cover # "none"
  /\ EndCover(NoBook)
  /\ \/ UNCHANGED <<session, op, step>>
     \/ /\ session' = IF session = "open" THEN "faulted" ELSE session
        /\ op' = IF step = "draining" THEN "none" ELSE op
        /\ step' = IF step = "draining" THEN "idle" ELSE step
  /\ UNCHANGED <<books, closing, target, changed, known>>

-----------------------------------------------------------------------------
(***************************************************************************)
(* Closing.                                                                *)
(***************************************************************************)
Disconnect ==
  /\ ~Closed
  /\ closing' = "draining"
  /\ UNCHANGED <<books, session, running, known, reading>>

CloseSessionIfOpen ==
  /\ closing = "draining"
  /\ cover = "none"
  /\ session = "open"
  /\ closing' = "closing transport"
  /\ session' \in {"closed", "faulted", "open"}
  /\ UNCHANGED <<books, running, known, reading>>

\* CloseSession; a rejected one leaves the session open.
CloseSession ==
  /\ closing = "draining"
  /\ cover = "none"
  /\ closing' = "closing transport"
  /\ session' \in IF session = "open" THEN {"closed", "faulted", "open"} ELSE {session}
  /\ UNCHANGED <<books, running, known, reading>>

\* The device is gone: no CloseSession, and every call fails from here on, which
\* is all that the session is good for.
Unplug ==
  /\ ~Closed
  /\ closing' = "closing transport"
  /\ session' = IF session = "open" THEN "faulted" ELSE session
  /\ UNCHANGED <<books, running, known, reading>>

CloseTransport ==
  /\ closing = "closing transport"
  /\ closing' = "closed"
  /\ session' = IF session = "open" THEN "faulted" ELSE session
  /\ UNCHANGED <<books, running, known, reading>>

-----------------------------------------------------------------------------
Body  == \/ SelfTestPasses \/ Look \/ Record \/ LookAgain \/ CallFails
         \/ \E b \in Books : Upload(b) \/ Delete(b)
Cover == CheckCover \/ ReadCover \/ RecheckCover \/ CoverFails
Close == CloseSession \/ CloseTransport

Next ==
  \/ \E k \in Kinds, b \in Books \cup {NoBook} : Begin(k, b)
  \/ Drained \/ Body
  \/ \E b \in Books : StartCover(b)
  \/ Cover
  \/ Disconnect \/ Unplug \/ Close

Spec == Init /\ [][Next]_vars

\* Every native call settles or runs into its deadline, and a promise
\* continuation that is ready runs.
FairSpec == /\ Spec
            /\ WF_vars(Drained) /\ WF_vars(Body) /\ WF_vars(Cover) /\ WF_vars(Close)

-----------------------------------------------------------------------------
(***************************************************************************)
(* Properties.                                                             *)
(***************************************************************************)
TypeOK ==
  /\ books \in SUBSET Books
  /\ session \in {"open", "faulted", "closed"}
  /\ closing \in {"no", "draining", "closing transport", "closed"}
  /\ op \in Kinds \cup {"none"}
  /\ step \in Steps
  /\ op = "none" <=> step = "idle"
  /\ target \in Books \cup {NoBook}
  /\ changed \in BOOLEAN
  /\ proven \in BOOLEAN
  /\ inventory \in SUBSET Snapshots /\ Cardinality(inventory) <= 1
  /\ eligible \in BOOLEAN
  /\ cover \in {"none", "checking", "reading", "rechecking"}
  /\ coverBook \in Books \cup {NoBook}
  /\ returned \in Books \cup {NoBook}

\* A cover read never shares the device with an operation: an operation that
\* arrived during a read waits for it, and no read enters past a waiting one
\* ("No later cover can enter ahead of a transfer or scan").
ReadsAlone == cover # "none" => step \in {"idle", "draining"}

\* The book of a cover that is returned is on the Kindle at that moment,
\* however old the inventory is through which it was found.
CoversAreLive ==
  [][cover # "none" /\ cover' = "none" /\ returned' # NoBook => returned' \in books]_vars

\* The response of a cover read is drained before CloseSession is sent.
SessionClosesQuietly ==
  [][session = "open" /\ session' = "closed" => cover = "none"]_vars

\* Whatever an operation that needs the self-test does to the books, the
\* last self-test of this connection has passed, also after failed operations
\* and repeated self-tests.
ProvenWrites ==
  [][books' # books => op = "send once" \/ proven]_vars

\* A foreground operation is not starved: it ends, also when it had to wait
\* for a cover read and when the connection is closed under it.
OperationsEnd == op # "none" ~> op = "none"

\* A disconnect reaches the release of the lease, whatever was running.
DisconnectEnds == Closed ~> closing = "closed"

\* device-runtime.ts #runExclusive: "A failed scan or a mutation without a
\* completed refresh cannot leave the former hierarchy eligible for optional
\* cached cover lookups."
CoversUseTheLatestHierarchy ==
  op = "none" /\ eligible => \A i \in inventory : i.books = books

=============================================================================
