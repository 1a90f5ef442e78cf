--------------------------- MODULE DeviceOwnership ---------------------------
(***************************************************************************)
(* What the cross-tab lease promises to whoever talks to the Kindle: one   *)
(* document at a time owns the device, only its owner has USB calls in     *)
(* flight, and ownership is never given up under a call that can still     *)
(* settle.  The detailed protocol is module DeviceLease, which implements  *)
(* this specification for every transport handed out by                    *)
(* WebUsbBulkTransport.connect.                                            *)
(***************************************************************************)
CONSTANTS Tabs,     \* browser documents that can run ShelfSend
          NoTab     \* no document

VARIABLES owner,    \* the document that owns the device
          busy      \* documents with a USB call in flight

ownershipVars == <<owner, busy>>

OwnInit ==
  /\ owner = NoTab
  /\ busy = {}

Take(t) ==
  /\ owner = NoTab
  /\ owner' = t
  /\ UNCHANGED busy

\* One or more calls start or settle in the owning document.
Work(t) ==
  /\ owner = t
  /\ busy' \in {busy \cup {t}, busy \ {t}}
  /\ UNCHANGED owner

GiveUp(t) ==
  /\ owner = t
  /\ t \notin busy
  /\ owner' = NoTab
  /\ UNCHANGED busy

\* The document is torn down: the browser frees its lock and its USB calls.
Vanish(t) ==
  /\ owner' = IF owner = t THEN NoTab ELSE owner
  /\ busy' = busy \ {t}

OwnNext == \E t \in Tabs : Take(t) \/ Work(t) \/ GiveUp(t) \/ Vanish(t)

OwnSpec == OwnInit /\ [][OwnNext]_ownershipVars
==============================================================================
