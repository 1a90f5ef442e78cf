----------------------------- MODULE DeviceLease -----------------------------
(***************************************************************************)
(* The life of a Kindle connection in several browser documents: the       *)
(* cross-tab lease (kindle/device-lease.ts), the WebUSB transport's        *)
(* connect, transfers and close (usb/bulk-transport.ts), and openKindle    *)
(* and ConnectedKindle's disconnect (device-runtime.ts) that tie them      *)
(* together.                                                               *)
(*                                                                         *)
(* A native WebUSB call cannot be cancelled: a timeout or an abort rejects *)
(* the JavaScript promise that waits for it, and the call itself settles   *)
(* later or never.  `native' holds the calls that were started and have    *)
(* not settled, each tagged with the connection attempt that started it,   *)
(* and `awaiting' the one the document's control flow waits for.           *)
(*                                                                         *)
(* The Web Locks manager, the WebUSB stack and the end of a document are   *)
(* external.                                                               *)
(***************************************************************************)
EXTENDS Naturals, FiniteSets

CONSTANTS Tabs,          \* browser documents that can run ShelfSend
          NoTab,         \* no document
          MaxAttempts    \* bound: calls of openKindle in all documents

ASSUME LeaseConstants ==
  /\ NoTab \notin Tabs
  /\ MaxAttempts \in Nat

VARIABLES
  lock,        \* holder of the Web Lock "kindle-bridge:webusb-device"
  pc,          \* where each document's openKindle / disconnect stands
  aborted,     \* the AbortSignal given to openKindle has fired
  attempts,    \* number of openKindle calls so far
  attempt,     \* the current (or last) openKindle call of each document
  handed,      \* attempts whose connect() returned a transport
  native,      \* unsettled native WebUSB calls, as <<attempt, call>>
  awaiting,    \* the call the control flow waits for, or "none"
  opened,      \* UsbDevice.opened
  claimed,     \* transport.claimed
  closed,      \* transport.closed
  gone,        \* transport.disconnectController has fired
  sessionOpen, \* MtpSession.isOpen
  closer,      \* progress of transport.performClose
  quiescing    \* attempt whose lease waits for its native calls, or 0

ctlVars == <<pc, aborted, attempts, attempt, handed, sessionOpen, quiescing>>
usbVars == <<native, awaiting, opened, claimed, closed, gone, closer>>
vars == <<lock, ctlVars, usbVars>>

(***************************************************************************)
(* The calls of connect() in order, the three transactions with which      *)
(* openKindle prepares the session, and the control points.                *)
(***************************************************************************)
ConnectSteps == {"open", "selectConfiguration", "claimInterface",
                 "selectAlternateInterface"}
SetupSteps   == {"getDeviceInfo", "openSession", "inspect"}
CloseSteps   == {"releaseInterface", "close"}
Calls        == ConnectSteps \cup SetupSteps \cup CloseSteps
                  \cup {"transfer", "closeSession", "lateClose"}

AwaitPoints  == ConnectSteps \cup SetupSteps \cup {"ready", "closeSession"}
HoldPoints   == AwaitPoints \cup {"granted", "closeTransport", "releaseLease"}
Points       == HoldPoints \cup {"idle", "requested"}

\* Where connect() and the session setup go when a call succeeds.
After(step) ==
  CASE step = "open"                     -> "selectConfiguration"
    [] step = "selectConfiguration"      -> "claimInterface"
    [] step = "claimInterface"           -> "selectAlternateInterface"
    [] step = "selectAlternateInterface" -> "getDeviceInfo"
    [] step = "getDeviceInfo"            -> "openSession"
    [] step = "openSession"              -> "inspect"
    [] step = "inspect"                  -> "ready"

Call(t, op)  == <<attempt[t], op>>
Connected(t) == attempt[t] \in handed[t]

\* transport.hasPendingNativeOperations; the close() issued for a late open
\* success is not tracked by the transport.
Pending(t, a) == {c \in native[t] : c[1] = a /\ c[2] # "lateClose"}

Init ==
  /\ lock = NoTab
  /\ pc = [t \in Tabs |-> "idle"]
  /\ aborted = [t \in Tabs |-> FALSE]
  /\ attempts = 0
  /\ attempt = [t \in Tabs |-> 0]
  /\ handed = [t \in Tabs |-> {}]
  /\ native = [t \in Tabs |-> {}]
  /\ awaiting = [t \in Tabs |-> "none"]
  /\ opened = [t \in Tabs |-> FALSE]
  /\ claimed = [t \in Tabs |-> FALSE]
  /\ closed = [t \in Tabs |-> FALSE]
  /\ gone = [t \in Tabs |-> FALSE]
  /\ sessionOpen = [t \in Tabs |-> FALSE]
  /\ closer = [t \in Tabs |-> "none"]
  /\ quiescing = [t \in Tabs |-> 0]

-----------------------------------------------------------------------------
(***************************************************************************)
(* The lease.                                                              *)
(***************************************************************************)

\* openKindle asks for the lock with ifAvailable.
RequestLease(t) ==
  /\ pc[t] = "idle"
  /\ attempts < MaxAttempts
  /\ attempts' = attempts + 1
  /\ attempt' = [attempt EXCEPT ![t] = attempts + 1]
  /\ pc' = [pc EXCEPT ![t] = "requested"]
  /\ aborted' = [aborted EXCEPT ![t] = FALSE]
  /\ sessionOpen' = [sessionOpen EXCEPT ![t] = FALSE]
  /\ UNCHANGED <<lock, handed, quiescing, usbVars>>

\* The lock manager runs the callback: the lock is granted, or null is passed
\* and acquire rejects with KINDLE_DEVICE_BUSY.
LockCallback(t) ==
  /\ pc[t] = "requested"
  /\ \/ /\ lock = NoTab
        /\ lock' = t
        /\ pc' = [pc EXCEPT ![t] = "granted"]
     \/ /\ lock # NoTab
        /\ pc' = [pc EXCEPT ![t] = "idle"]
        /\ UNCHANGED lock
  /\ UNCHANGED <<aborted, attempts, attempt, handed, sessionOpen, quiescing, usbVars>>

\* The connect signal fires.  While the request is pending it rejects the
\* acquisition, and the callback that comes later refuses the grant.  Later it
\* is noticed at the next check of the signal.
Abort(t) ==
  /\ pc[t] \in {"requested", "granted"} \cup ConnectSteps \cup SetupSteps
  /\ ~aborted[t]
  /\ aborted' = [aborted EXCEPT ![t] = TRUE]
  /\ pc' = [pc EXCEPT ![t] = IF @ = "requested" THEN "idle" ELSE @]
  /\ UNCHANGED <<lock, attempts, attempt, handed, sessionOpen, quiescing, usbVars>>

\* Seeded fault: an abort that won the race keeps the lock.
ReceiveLeaseKeepsAborted(t) ==
  /\ pc[t] = "granted"
  /\ pc' = [pc EXCEPT ![t] = IF aborted[t] THEN "idle"
                             ELSE IF opened[t] THEN "selectConfiguration" ELSE "open"]
  /\ UNCHANGED <<lock, aborted, attempts, attempt, handed, sessionOpen, quiescing, usbVars>>

\* The continuation after the grant: an abort that won the race gives the lock
\* back, otherwise a transport is constructed and connect() begins.
ReceiveLease(t) ==
  /\ pc[t] = "granted"
  /\ \/ /\ aborted[t]
        /\ lock' = NoTab
        /\ pc' = [pc EXCEPT ![t] = "idle"]
     \/ /\ ~aborted[t]
        /\ pc' = [pc EXCEPT ![t] =
                    IF opened[t] THEN "selectConfiguration" ELSE "open"]
        /\ UNCHANGED lock
  /\ UNCHANGED <<aborted, attempts, attempt, handed, sessionOpen, quiescing, usbVars>>

-----------------------------------------------------------------------------
(***************************************************************************)
(* performClose: release the interface, then close the device, each as a   *)
(* native call that is waited for up to a timeout.                         *)
(***************************************************************************)
FirstCloseStep(t) ==
  IF ~opened[t] THEN "done"
  ELSE IF claimed[t] THEN "releaseInterface" ELSE "close"

StartCloseStep(t, step, calls) ==
  /\ closer' = [closer EXCEPT ![t] = step]
  /\ native' = [native EXCEPT ![t] =
                  calls \cup (IF step = "done" THEN {} ELSE {Call(t, step)})]

\* The control flow leaves for cleanup.  `calls' is what is still unsettled.
\* connect()'s own failure path does not wait for a close that a physical
\* disconnect already began.
BeginClose(t, calls) ==
  /\ awaiting' = [awaiting EXCEPT ![t] = "none"]
  /\ closed' = [closed EXCEPT ![t] = TRUE]
  /\ IF closed[t] THEN /\ native' = [native EXCEPT ![t] = calls]
                       /\ UNCHANGED closer
                  ELSE StartCloseStep(t, FirstCloseStep(t), calls)
  /\ pc' = [pc EXCEPT ![t] = IF closed[t] /\ ~Connected(t) THEN "releaseLease"
                                                          ELSE "closeTransport"]

\* One bounded cleanup step ends: the call settles, fails, or the wait for it
\* times out and leaves it unsettled.
CloseStepEnds(t) ==
  /\ closer[t] \in CloseSteps
  /\ \E settles, works \in BOOLEAN :
       /\ works => settles /\ Call(t, closer[t]) \in native[t]
       /\ opened' = [opened EXCEPT ![t] = @ /\ ~(works /\ closer[t] = "close")]
       /\ StartCloseStep(t,
            IF closer[t] = "releaseInterface" /\ opened[t] THEN "close" ELSE "done",
            native[t] \ (IF settles THEN {Call(t, closer[t])} ELSE {}))
  /\ claimed' = [claimed EXCEPT ![t] = @ /\ closer[t] # "releaseInterface"]
  /\ UNCHANGED <<lock, ctlVars, awaiting, closed, gone>>

\* transport.close() resolves or rejects; either way the lease is next.
TransportClosed(t) ==
  /\ pc[t] = "closeTransport"
  /\ closer[t] = "done"
  /\ pc' = [pc EXCEPT ![t] = "releaseLease"]
  /\ UNCHANGED <<lock, aborted, attempts, attempt, handed, sessionOpen, quiescing, usbVars>>

\* releaseLeaseAfterUsbQuiesces when openKindle holds a transport; a plain
\* release when connect() never returned one.  The transport is garbage then.
ReleaseLease(t) ==
  /\ pc[t] = "releaseLease"
  /\ pc' = [pc EXCEPT ![t] = "idle"]
  /\ IF Connected(t) /\ Pending(t, attempt[t]) # {}
       THEN /\ quiescing' = [quiescing EXCEPT ![t] = attempt[t]]
            /\ UNCHANGED lock
       ELSE /\ lock' = NoTab
            /\ UNCHANGED quiescing
  /\ aborted' = [aborted EXCEPT ![t] = FALSE]
  /\ claimed' = [claimed EXCEPT ![t] = FALSE]
  /\ closed' = [closed EXCEPT ![t] = FALSE]
  /\ gone' = [gone EXCEPT ![t] = FALSE]
  /\ closer' = [closer EXCEPT ![t] = "none"]
  /\ UNCHANGED <<attempts, attempt, handed, sessionOpen, native, awaiting, opened>>

\* Seeded fault: the last unsettled call of the transport is overlooked.
QuiescedEarly(t) ==
  /\ quiescing[t] # 0
  /\ Cardinality(Pending(t, quiescing[t])) <= 1
  /\ lock' = NoTab
  /\ quiescing' = [quiescing EXCEPT ![t] = 0]
  /\ UNCHANGED <<pc, aborted, attempts, attempt, handed, sessionOpen, usbVars>>

\* waitForNativeOperations resolves and the poisoned lease is released.
Quiesced(t) ==
  /\ quiescing[t] # 0
  /\ Pending(t, quiescing[t]) = {}
  /\ lock' = NoTab
  /\ quiescing' = [quiescing EXCEPT ![t] = 0]
  /\ UNCHANGED <<pc, aborted, attempts, attempt, handed, sessionOpen, usbVars>>

-----------------------------------------------------------------------------
(***************************************************************************)
(* Native calls of connect(), of the session setup, of operations and of   *)
(* CloseSession.  One call stands for the transfers of one transaction.    *)
(***************************************************************************)
\* Seeded fault: an operation's transfer is not told from the control point.
CallAtPoint(t) == pc[t]

CallAt(t) == IF pc[t] = "ready" THEN "transfer" ELSE pc[t]

StartCall(t) ==
  /\ pc[t] \in AwaitPoints
  /\ awaiting[t] = "none"
  /\ ~gone[t] /\ (opened[t] \/ pc[t] = "open")
  /\ pc[t] \in SetupSteps => ~aborted[t]
  /\ pc[t] \in {"ready", "closeSession"} => sessionOpen[t]
  /\ awaiting' = [awaiting EXCEPT ![t] = CallAt(t)]
  /\ native' = [native EXCEPT ![t] = @ \cup {Call(t, CallAt(t))}]
  /\ UNCHANGED <<lock, ctlVars, opened, claimed, closed, gone, closer>>

\* The configuration or alternate setting is already the selected one.
SkipCall(t) ==
  /\ pc[t] \in {"selectConfiguration", "selectAlternateInterface"}
  /\ awaiting[t] = "none"
  /\ pc' = [pc EXCEPT ![t] = After(@)]
  /\ handed' = [handed EXCEPT ![t] =
                  @ \cup (IF pc[t] = "selectAlternateInterface"
                            THEN {attempt[t]} ELSE {})]
  /\ UNCHANGED <<lock, aborted, attempts, attempt, sessionOpen, quiescing, usbVars>>

\* The awaited call settles with success.
CallSucceeds(t) ==
  /\ awaiting[t] # "none"
  /\ ~gone[t]
  /\ opened' = [opened EXCEPT ![t] = @ \/ awaiting[t] = "open"]
  /\ claimed' = [claimed EXCEPT ![t] = @ \/ awaiting[t] = "claimInterface"]
  /\ handed' = [handed EXCEPT ![t] =
                  @ \cup (IF awaiting[t] = "selectAlternateInterface"
                            THEN {attempt[t]} ELSE {})]
  /\ IF awaiting[t] = "closeSession"
       THEN /\ BeginClose(t, native[t] \ {Call(t, awaiting[t])})
            /\ sessionOpen' = [sessionOpen EXCEPT ![t] = FALSE]
       ELSE /\ pc' = [pc EXCEPT ![t] =
                        IF @ \in ConnectSteps \cup SetupSteps THEN After(@) ELSE @]
            /\ awaiting' = [awaiting EXCEPT ![t] = "none"]
            /\ native' = [native EXCEPT ![t] = @ \ {Call(t, awaiting[t])}]
            /\ sessionOpen' = [sessionOpen EXCEPT ![t] = @ \/ awaiting[t] = "openSession"]
            /\ UNCHANGED <<closed, closer>>
  /\ UNCHANGED <<lock, aborted, attempts, attempt, quiescing, gone>>

\* The awaited call fails, or its timer, the abort signal or the disconnect
\* event gives up on it and leaves it unsettled (`settles' FALSE).  Before the
\* connection is ready the caller cleans up; afterwards the session is faulted.
CallFails(t) ==
  /\ awaiting[t] # "none"
  /\ \E settles \in BOOLEAN :
       LET left == native[t] \ (IF settles THEN {Call(t, awaiting[t])} ELSE {}) IN
       IF awaiting[t] = "transfer"
         THEN /\ awaiting' = [awaiting EXCEPT ![t] = "none"]
              /\ native' = [native EXCEPT ![t] = left]
              /\ UNCHANGED <<pc, closed, closer>>
         ELSE BeginClose(t, left)
  /\ sessionOpen' = [sessionOpen EXCEPT ![t] = FALSE]
  /\ UNCHANGED <<lock, aborted, attempts, attempt, handed, quiescing, opened, claimed, gone>>

\* Seeded fault: an abort between two commands of the setup is not noticed.
SetupRejectedOnlyByDevice(t) ==
  /\ pc[t] \in ConnectSteps \cup SetupSteps
  /\ awaiting[t] = "none"
  /\ gone[t] \/ (~opened[t] /\ pc[t] # "open")
  /\ IF sessionOpen[t]
       THEN /\ pc' = [pc EXCEPT ![t] = "closeSession"]
            /\ UNCHANGED <<native, awaiting, closed, closer>>
       ELSE BeginClose(t, native[t])
  /\ UNCHANGED <<lock, aborted, attempts, attempt, handed, sessionOpen, quiescing,
                 opened, claimed, gone>>

\* No call is in flight and the step cannot be taken: the signal fired, the
\* device left, or the device refused an operation of the setup with an MTP
\* error response (the session survives that and is closed by CloseSession).
SetupRejected(t) ==
  /\ pc[t] \in ConnectSteps \cup SetupSteps
  /\ awaiting[t] = "none"
  /\ \/ gone[t] \/ (~opened[t] /\ pc[t] # "open")
     \/ pc[t] \in SetupSteps
  /\ IF sessionOpen[t]
       THEN /\ pc' = [pc EXCEPT ![t] = "closeSession"]
            /\ UNCHANGED <<native, awaiting, closed, closer>>
       ELSE BeginClose(t, native[t])
  /\ UNCHANGED <<lock, aborted, attempts, attempt, handed, sessionOpen, quiescing,
                 opened, claimed, gone>>

\* A call nobody waits for any more settles.  A late open success on a closed
\* transport closes the device again, with a call the transport does not track.
LateSettle(t) ==
  /\ \E c \in native[t] :
       /\ c # Call(t, awaiting[t])
       /\ c # Call(t, closer[t])
       /\ \E works \in BOOLEAN :
            /\ opened' = [opened EXCEPT ![t] =
                            IF works /\ c[2] = "open" THEN TRUE
                            ELSE IF works /\ c[2] \in {"close", "lateClose"} THEN FALSE
                            ELSE @]
            /\ native' = [native EXCEPT ![t] = (@ \ {c}) \cup
                            (IF works /\ c[2] = "open" THEN {<<c[1], "lateClose">>} ELSE {})]
  /\ UNCHANGED <<lock, ctlVars, awaiting, claimed, closed, gone, closer>>

-----------------------------------------------------------------------------
(***************************************************************************)
(* Ending a connection.                                                    *)
(***************************************************************************)

\* ConnectedKindle.disconnect: CloseSession waits behind the running
\* transaction in the session's queue; a session that is not open is skipped.
Disconnect(t) ==
  /\ pc[t] = "ready"
  /\ IF sessionOpen[t]
       THEN /\ pc' = [pc EXCEPT ![t] = "closeSession"]
            /\ UNCHANGED <<native, awaiting, closed, closer>>
       ELSE /\ awaiting[t] = "none"
            /\ BeginClose(t, native[t])
  /\ UNCHANGED <<lock, aborted, attempts, attempt, handed, sessionOpen, quiescing,
                 opened, claimed, gone>>

\* Seeded fault: a faulted session is waited for although nothing is sent.
CloseSessionWaits(t) ==
  /\ pc[t] = "closeSession"
  /\ awaiting[t] = "none"
  /\ gone[t] \/ ~opened[t]
  /\ BeginClose(t, native[t])
  /\ sessionOpen' = [sessionOpen EXCEPT ![t] = FALSE]
  /\ UNCHANGED <<lock, aborted, attempts, attempt, handed, quiescing, opened, claimed, gone>>

\* The queued CloseSession finds the session faulted or the device gone.
CloseSessionRejected(t) ==
  /\ pc[t] = "closeSession"
  /\ awaiting[t] = "none"
  /\ ~sessionOpen[t] \/ gone[t] \/ ~opened[t]
  /\ BeginClose(t, native[t])
  /\ sessionOpen' = [sessionOpen EXCEPT ![t] = FALSE]
  /\ UNCHANGED <<lock, aborted, attempts, attempt, handed, quiescing, opened, claimed, gone>>

\* The disconnect event: the transport rejects what is awaited and closes
\* itself; the browser has already marked the device as not opened.
Unplug(t) ==
  /\ pc[t] \in AwaitPoints
  /\ ~gone[t]
  /\ gone' = [gone EXCEPT ![t] = TRUE]
  /\ opened' = [opened EXCEPT ![t] = FALSE]
  /\ closed' = [closed EXCEPT ![t] = TRUE]
  /\ closer' = [closer EXCEPT ![t] = "done"]
  /\ UNCHANGED <<lock, ctlVars, native, awaiting, claimed>>

\* closeAfterPhysicalDisconnect, called by the controller on the same event.
CloseAfterUnplug(t) ==
  /\ pc[t] = "ready"
  /\ gone[t]
  /\ BeginClose(t, native[t])
  /\ UNCHANGED <<lock, aborted, attempts, attempt, handed, sessionOpen, quiescing,
                 opened, claimed, gone>>

\* The document goes away: the browser drops its lock, its calls and its device.
Teardown(t) ==
  /\ pc[t] # "idle" \/ native[t] # {}
  /\ lock' = IF lock = t THEN NoTab ELSE lock
  /\ pc' = [pc EXCEPT ![t] = "idle"]
  /\ native' = [native EXCEPT ![t] = {}]
  /\ awaiting' = [awaiting EXCEPT ![t] = "none"]
  /\ opened' = [opened EXCEPT ![t] = FALSE]
  /\ claimed' = [claimed EXCEPT ![t] = FALSE]
  /\ sessionOpen' = [sessionOpen EXCEPT ![t] = FALSE]
  /\ closer' = [closer EXCEPT ![t] = "none"]
  /\ quiescing' = [quiescing EXCEPT ![t] = 0]
  /\ aborted' = [aborted EXCEPT ![t] = FALSE]
  /\ closed' = [closed EXCEPT ![t] = FALSE]
  /\ gone' = [gone EXCEPT ![t] = FALSE]
  /\ UNCHANGED <<attempts, attempt, handed>>

-----------------------------------------------------------------------------
LeaseStep(t)   == RequestLease(t) \/ LockCallback(t) \/ ReceiveLease(t)
CloseStep(t)   == CloseStepEnds(t) \/ TransportClosed(t) \/ ReleaseLease(t) \/ Quiesced(t)
CallStep(t)    == StartCall(t) \/ SkipCall(t) \/ CallSucceeds(t) \/ CallFails(t)
                    \/ SetupRejected(t)
EndStep(t)     == Disconnect(t) \/ CloseSessionRejected(t) \/ CloseAfterUnplug(t)
OutsideStep(t) == Abort(t) \/ LateSettle(t) \/ Unplug(t) \/ Teardown(t)

Next == \E t \in Tabs : LeaseStep(t) \/ CloseStep(t) \/ CallStep(t)
                          \/ EndStep(t) \/ OutsideStep(t)

Spec == Init /\ [][Next]_vars

\* The steps of a document's own control flow, one after the other
Control(t) ==
  \/ LockCallback(t) \/ ReceiveLease(t)
  \/ (pc[t] # "ready" /\ StartCall(t)) \/ SkipCall(t) \/ CallSucceeds(t) \/ CallFails(t)
  \/ SetupRejected(t) \/ CloseSessionRejected(t) \/ CloseAfterUnplug(t)
  \/ CloseStepEnds(t) \/ TransportClosed(t) \/ ReleaseLease(t)

\* Timers bound every wait of the control flow, so its next step happens; that
\* a native call settles in the end is the assumption of the comment in
\* releaseLeaseAfterUsbQuiesces.  Nothing obliges a user to connect or abort,
\* or a device to be unplugged.
Fairness ==
  \A t \in Tabs : WF_vars(Control(t)) /\ WF_vars(Quiesced(t)) /\ WF_vars(LateSettle(t))

FairSpec == Spec /\ Fairness

-----------------------------------------------------------------------------
(***************************************************************************)
(* Properties.                                                             *)
(***************************************************************************)
TypeOK ==
  /\ lock \in Tabs \cup {NoTab}
  /\ pc \in [Tabs -> Points]
  /\ aborted \in [Tabs -> BOOLEAN]
  /\ attempts \in 0..MaxAttempts
  /\ attempt \in [Tabs -> 0..MaxAttempts]
  /\ handed \in [Tabs -> SUBSET (1..MaxAttempts)]
  /\ native \in [Tabs -> SUBSET ((1..MaxAttempts) \X Calls)]
  /\ awaiting \in [Tabs -> Calls \cup {"none"}]
  /\ opened \in [Tabs -> BOOLEAN]
  /\ claimed \in [Tabs -> BOOLEAN]
  /\ closed \in [Tabs -> BOOLEAN]
  /\ gone \in [Tabs -> BOOLEAN]
  /\ sessionOpen \in [Tabs -> BOOLEAN]
  /\ closer \in [Tabs -> CloseSteps \cup {"none", "done"}]
  /\ quiescing \in [Tabs -> 0..MaxAttempts]

\* Calls of a transport that openKindle received.
HandedCalls(t) == {c \in native[t] : c[1] \in handed[t] /\ c[2] # "lateClose"}

\* The document is between the grant and the release of the lease, or its
\* release waits for native calls.
Holding(t) == pc[t] \in HoldPoints \/ quiescing[t] # 0

\* At most one document is connecting to, using or closing the device, and a
\* document never has an old connection quiescing beside a new one.
OneConnection ==
  /\ \A t, u \in Tabs : Holding(t) /\ Holding(u) => t = u
  /\ \A t \in Tabs : pc[t] \in HoldPoints => quiescing[t] = 0

\* No call of a transport that connect() returned is unsettled in a document
\* that no longer holds the lease: the lease stays "poisoned" until every
\* native operation really settles.
LeaseCoversTransport ==
  \A t \in Tabs : HandedCalls(t) # {} => lock = t

\* The lease is never leaked: the lock is held only by a document that will
\* release it, also when an abort races the grant.
NoLeakedLease ==
  \A t \in Tabs : lock = t => Holding(t)

\* One connection at a time, under a lease that is held as long as there is
\* something to hold it for, and given back afterwards.
LeaseIsKept == OneConnection /\ LeaseCoversTransport /\ NoLeakedLease

\* The comment at device-runtime.ts:438 without the restriction to transports
\* that connect() returned: also a connect() that timed out keeps the lease
\* while its native call is unsettled.
LeaseCoversEveryCall ==
  \A t \in Tabs : \A a \in 1..MaxAttempts : Pending(t, a) # {} => lock = t

\* A document that ends its connection, or whose openKindle is aborted, gives
\* the lease back, if native calls settle; an aborted openKindle may complete
\* instead.
LeaseComesBack ==
  \A t \in Tabs :
    lock = t /\ (aborted[t] \/ quiescing[t] # 0 \/ pc[t] \in {"closeSession", "closeTransport"})
      ~> lock # t \/ pc[t] = "ready"

\* Ownership as other documents see it.
Ownership == INSTANCE DeviceOwnership
               WITH owner <- lock,
                    busy <- {t \in Tabs : HandedCalls(t) # {}}

\* The lease and the transport implement exclusive ownership of the device.
ImplementsOwnership == Ownership!OwnSpec
==============================================================================
