----------------------------- MODULE MtpSession ------------------------------
(***************************************************************************)
(* One MTP session over a bulk transport (mtp/session.ts): a promise queue *)
(* serialises the callers' requests, and each request becomes a            *)
(* transaction of a command phase, an optional data phase and a response   *)
(* phase.  Every read or write of a phase can end in a timeout, an abort   *)
(* or a transport error at any moment; a fatal error after the command was *)
(* started faults the session for good, an MTP error response does not.    *)
(*                                                                         *)
(* The device is external.  It is slow, may answer with an error, may stop *)
(* answering, and may send containers that belong to no transaction        *)
(* (MaxNoise bounds them; they carry the reserved number MaxTid + 1, a     *)
(* device that forges the number of a later transaction is not modelled).  *)
(* Bytes are abstracted to whole containers: a malformed or truncated one  *)
(* is a failed read.                                                       *)
(***************************************************************************)
EXTENDS Naturals, Sequences

CONSTANTS MaxTid,       \* MAX_MTP_TRANSACTION_ID
          MaxRequests,  \* bound: requests submitted in a behaviour
          MaxNoise      \* bound: containers the device makes up

ASSUME SessionConstants ==
  MaxTid \in Nat /\ MaxRequests \in Nat /\ MaxNoise \in Nat

\* getDeviceInfo, open, close, and execute with data in, data out or no data.
Kinds     == {"info", "open", "close", "read", "write", "plain"}
WithData  == {"info", "read"}
States    == {"idle", "opening", "open", "closing", "faulted"}
Phases    == {"command", "dataOut", "dataIn", "response"}
Outcomes  == {"ok", "error", "rejected", "fatal"}
Tids      == 0..MaxTid
Codes     == {"ok", "error", "badParameters"}
Types     == {"data", "response", "event"}
Containers == [type : Types, tid : 0..(MaxTid + 1), code : Codes]
Noise      == [type : Types, tid : {MaxTid + 1}, code : {"ok"}]

VARIABLES
  state,    \* stateValue
  nextTid,  \* nextTransactionId
  queue,    \* submitted requests in order; the head is the running one
  current,  \* the running transaction, as a set of at most one record
  settled,  \* outcomes of the requests that are over, in order
  device,   \* the command the device works on, as a set of at most one record
  devOpen,  \* the device has the session open
  wire,     \* containers the device sent and the host has not read
  noise,    \* containers the device made up so far
  executed  \* history: requests (by position) the device carried out

vars == <<state, nextTid, queue, current, settled, device, devOpen, wire, noise,
          executed>>

Requests     == [kind : Kinds, aborted : BOOLEAN]
Transactions == [kind : Kinds, tid : Tids, phase : Phases]
DeviceWork   == [kind : Kinds, tid : Tids, sent : BOOLEAN, req : 1..MaxRequests]

Init ==
  /\ state = "idle"
  /\ nextTid = 0
  /\ queue = <<>>
  /\ current = {}
  /\ settled = <<>>
  /\ device = {}
  /\ devOpen = FALSE
  /\ wire = <<>>
  /\ noise = 0
  /\ executed = {}

-----------------------------------------------------------------------------
(***************************************************************************)
(* Callers.                                                                *)
(***************************************************************************)
Submit(k) ==
  /\ Len(queue) + Len(settled) < MaxRequests
  /\ queue' = Append(queue, [kind |-> k, aborted |-> FALSE])
  /\ UNCHANGED <<state, nextTid, current, settled, device, devOpen, wire, noise, executed>>

Abort(i) ==
  /\ i \in DOMAIN queue
  /\ ~queue[i].aborted
  /\ queue' = [queue EXCEPT ![i].aborted = TRUE]
  /\ UNCHANGED <<state, nextTid, current, settled, device, devOpen, wire, noise, executed>>

-----------------------------------------------------------------------------
(***************************************************************************)
(* The head of the queue starts.                                           *)
(***************************************************************************)
Waiting == queue # <<>> /\ current = {}
Req     == Head(queue)

Accepts(k) ==
  CASE k = "open" -> state = "idle"
    [] k = "info" -> state \in {"idle", "open"}
    [] OTHER      -> state = "open"

\* open() and a getDeviceInfo before the session start the numbering at zero.
TidFor(k) == IF k \in {"open", "info"} /\ state = "idle" THEN 0 ELSE nextTid

\* The request leaves the queue and its promise settles.
Settle(outcome) ==
  /\ queue' = Tail(queue)
  /\ settled' = Append(settled, outcome)

\* Seeded fault: a request queued behind a fault is left waiting.
RejectOnlyUnfaulted ==
  /\ Waiting
  /\ ~Accepts(Req.kind)
  /\ state # "faulted"
  /\ Settle("rejected")
  /\ UNCHANGED <<state, nextTid, current, device, devOpen, wire, noise, executed>>

\* MTP_INVALID_STATE: nothing is sent.
RejectInvalidState ==
  /\ Waiting
  /\ ~Accepts(Req.kind)
  /\ Settle("rejected")
  /\ UNCHANGED <<state, nextTid, current, device, devOpen, wire, noise, executed>>

\* The signal fired while the request was queued: not fatal, no number used.
RejectAborted ==
  /\ Waiting
  /\ Accepts(Req.kind)
  /\ Req.aborted
  /\ Settle("rejected")
  /\ nextTid' = TidFor(Req.kind)
  /\ UNCHANGED <<state, current, device, devOpen, wire, noise, executed>>

\* MTP_TRANSACTION_ID_EXHAUSTED is fatal, but it is thrown before the command
\* starts: only close() turns it into a faulted session.
RejectExhausted ==
  /\ Waiting
  /\ Accepts(Req.kind)
  /\ ~Req.aborted
  /\ TidFor(Req.kind) > MaxTid
  /\ Settle("fatal")
  /\ state' = IF Req.kind = "close" THEN "faulted" ELSE state
  /\ UNCHANGED <<nextTid, current, device, devOpen, wire, noise, executed>>

StartTransaction ==
  /\ Waiting
  /\ Accepts(Req.kind)
  /\ ~Req.aborted
  /\ TidFor(Req.kind) <= MaxTid
  /\ current' = {[kind |-> Req.kind, tid |-> TidFor(Req.kind), phase |-> "command"]}
  /\ nextTid' = TidFor(Req.kind) + 1
  /\ state' = CASE Req.kind = "open"  -> "opening"
                [] Req.kind = "close" -> "closing"
                [] OTHER              -> state
  /\ UNCHANGED <<queue, settled, device, devOpen, wire, noise, executed>>

-----------------------------------------------------------------------------
(***************************************************************************)
(* The running transaction.  Each performIo checks the signal first.       *)
(***************************************************************************)
EnterPhase(c, phase) == current' = {[c EXCEPT !.phase = phase]}

\* The device has the whole command.
Received(c) == {[kind |-> c.kind, tid |-> c.tid, sent |-> FALSE, req |-> Len(settled) + 1]}

SendCommand ==
  \E c \in current :
    /\ c.phase = "command"
    /\ ~Req.aborted
    /\ device' = Received(c)
    /\ EnterPhase(c, CASE c.kind = "write"       -> "dataOut"
                       [] c.kind \in WithData    -> "dataIn"
                       [] OTHER                  -> "response")
    /\ UNCHANGED <<state, nextTid, queue, settled, devOpen, wire, noise, executed>>

SendData ==
  \E c \in current :
    /\ c.phase = "dataOut"
    /\ ~Req.aborted
    /\ EnterPhase(c, "response")
    /\ UNCHANGED <<state, nextTid, queue, settled, device, devOpen, wire, noise, executed>>

\* Seeded fault: the transaction number of a response is not compared.
VerdictAnyTid(c, m) ==
  IF m.type = "event"                               THEN "fatal"
  ELSE IF m.type = "data"
         THEN IF c.phase = "dataIn" THEN "more" ELSE "fatal"
  ELSE IF m.code = "error"                          THEN "error"
  ELSE IF c.phase = "dataIn" \/ m.code # "ok"       THEN "fatal"
  ELSE "ok"

\* What the next container means to the transaction that waits for it.
Verdict(c, m) ==
  IF m.tid # c.tid \/ m.type = "event"              THEN "fatal"
  ELSE IF m.type = "data"
         THEN IF c.phase = "dataIn" THEN "more" ELSE "fatal"
  ELSE IF m.code = "error"                          THEN "error"
  ELSE IF c.phase = "dataIn" \/ m.code # "ok"       THEN "fatal"
  ELSE "ok"

\* Success: open() and close() move the session, close() resets the numbering.
Succeed(c) ==
  /\ Settle("ok")
  /\ current' = {}
  /\ state' = CASE c.kind = "open"  -> "open"
                [] c.kind = "close" -> "idle"
                [] OTHER            -> state
  /\ nextTid' = IF c.kind = "close" THEN 0 ELSE nextTid

\* Seeded fault: a refused CloseSession is taken for a closed session.
ErrorResponseCloses(c) ==
  /\ Settle("error")
  /\ current' = {}
  /\ state' = IF c.kind \in {"open", "close"} THEN "idle" ELSE state
  /\ UNCHANGED nextTid

\* An MTP error response: the session is as it was before the request.
ErrorResponse(c) ==
  /\ Settle("error")
  /\ current' = {}
  /\ state' = CASE c.kind = "open"  -> "idle"
                [] c.kind = "close" -> "open"
                [] OTHER            -> state
  /\ UNCHANGED nextTid

\* A fatal error: the session is faulted.
Fault ==
  /\ Settle("fatal")
  /\ current' = {}
  /\ state' = "faulted"
  /\ UNCHANGED nextTid

ReadContainer ==
  \E c \in current :
    /\ c.phase \in {"dataIn", "response"}
    /\ ~Req.aborted
    /\ wire # <<>>
    /\ wire' = Tail(wire)
    /\ CASE Verdict(c, Head(wire)) = "more"  -> /\ EnterPhase(c, "response")
                                                /\ UNCHANGED <<state, nextTid, queue, settled>>
         [] Verdict(c, Head(wire)) = "ok"    -> Succeed(c)
         [] Verdict(c, Head(wire)) = "error" -> ErrorResponse(c)
         [] OTHER                            -> Fault
    /\ UNCHANGED <<device, devOpen, noise, executed>>

\* A timeout, an abort, a transport failure, a bad chunk or a source error.
\* The device may or may not have received the command being written.
IoFails ==
  /\ current # {}
  /\ Fault
  /\ \/ UNCHANGED device
     \/ \E c \in current : /\ c.phase = "command"
                           /\ device' = Received(c)
  /\ UNCHANGED <<devOpen, wire, noise, executed>>

-----------------------------------------------------------------------------
(***************************************************************************)
(* The device.                                                             *)
(***************************************************************************)
Container(type, tid, code) == [type |-> type, tid |-> tid, code |-> code]

\* A data phase precedes the response of a successful read.
DeviceSendsData ==
  \E d \in device :
    /\ d.kind \in WithData
    /\ ~d.sent
    /\ wire' = Append(wire, Container("data", d.tid, "ok"))
    /\ device' = {[d EXCEPT !.sent = TRUE]}
    /\ UNCHANGED <<state, nextTid, queue, current, settled, devOpen, noise, executed>>

\* OpenSession and CloseSession take effect when they are answered with OK,
\* whatever parameters the response carries.
DeviceResponds(code) ==
  \E d \in device :
    /\ code # "error" => d.sent \/ d.kind \notin WithData
    /\ \A c \in current : c.phase # "dataOut"
    /\ wire' = Append(wire, Container("response", d.tid, code))
    /\ device' = {}
    /\ devOpen' = IF code = "error" THEN devOpen
                  ELSE (devOpen \/ d.kind = "open") /\ d.kind # "close"
    /\ executed' = executed \cup (IF code = "error" THEN {} ELSE {d.req})
    /\ UNCHANGED <<state, nextTid, queue, current, settled, noise>>

\* A container that is not part of the protocol's exchange.
DeviceMakesNoise(m) ==
  /\ noise < MaxNoise
  /\ noise' = noise + 1
  /\ wire' = Append(wire, m)
  /\ UNCHANGED <<state, nextTid, queue, current, settled, device, devOpen, executed>>

-----------------------------------------------------------------------------
Reject   == RejectInvalidState \/ RejectAborted \/ RejectExhausted
HostStep == Reject \/ StartTransaction \/ SendCommand \/ SendData \/ ReadContainer \/ IoFails
Device   == DeviceSendsData \/ \E code \in Codes : DeviceResponds(code)

Next ==
  \/ \E k \in Kinds : Submit(k)
  \/ \E i \in 1..MaxRequests : Abort(i)
  \/ HostStep
  \/ Device
  \/ \E m \in Noise : DeviceMakesNoise(m)

Spec == Init /\ [][Next]_vars

\* The host's own steps happen: a queued request starts when its turn comes,
\* and the command deadline ends a transaction whose device stays silent.  The
\* device owes nothing.
FairSpec == Spec /\ WF_vars(HostStep)

-----------------------------------------------------------------------------
(***************************************************************************)
(* Properties.                                                             *)
(***************************************************************************)
TypeOK ==
  /\ state \in States
  /\ nextTid \in 0..(MaxTid + 1)
  /\ queue \in Seq(Requests)
  /\ current \in SUBSET Transactions
  /\ settled \in Seq(Outcomes)
  /\ device \in SUBSET DeviceWork
  /\ devOpen \in BOOLEAN
  /\ wire \in Seq(Containers)
  /\ noise \in 0..MaxNoise
  /\ executed \in SUBSET (1..MaxRequests)

\* A command is never written to a device that is still working on an earlier
\* one: whatever was aborted or timed out has faulted the session.
NoOverlap ==
  \A c \in current : c.phase = "command" => device = {}

\* When a transaction starts nothing the device said in answer to an earlier
\* one is left to be read, so no answer can reach the wrong caller.
CleanStart ==
  noise = 0 => \A c \in current : c.phase = "command" => wire = <<>>

\* Between transactions host and device agree whether the session is open.
SessionAgreement ==
  current = {} =>
    /\ state = "open" => devOpen
    /\ state = "idle" => ~devOpen

\* What a caller is told is true: a request that succeeded was carried out, one
\* that was refused by the device or never sent was not and will not be.
OutcomesTruthful ==
  \A i \in DOMAIN settled :
    /\ settled[i] = "ok" => i \in executed
    /\ settled[i] \in {"error", "rejected"} => i \notin executed

\* What the host says of the session and of its requests is so.
AnswersAreTrue == SessionAgreement /\ OutcomesTruthful

\* At most one request is in doubt: once a transaction failed fatally nothing
\* after it reaches the device.
NothingAfterFault ==
  \A i \in DOMAIN settled : settled[i] = "fatal" => \A j \in executed : j <= i

\* One transaction at a time, and none has to do with an earlier one.
TransactionsApart == NoOverlap /\ CleanStart /\ NothingAfterFault

\* Every request settles, whatever the device does.
EveryRequestSettles ==
  \A n \in 1..MaxRequests : Len(queue) + Len(settled) >= n ~> Len(settled) >= n
==============================================================================
