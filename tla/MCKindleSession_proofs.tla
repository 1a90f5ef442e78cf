----------------------- MODULE MCKindleSession_proofs -----------------------
(***************************************************************************)
(* Proofs about MCKindleSession: for any number of requests, transaction   *)
(* numbers, books, tabs, tasks and workers, the safety of the MTP session, *)
(* of the operations of a connected Kindle and of the pool of workers.     *)
(*                                                                         *)
(* Each part has an inductive invariant of its own over its own variables; *)
(* a step of another part leaves them unchanged.                           *)
(***************************************************************************)
EXTENDS MCKindleSession, TLAPS

-----------------------------------------------------------------------------
(***************************************************************************)
(* Sequences.                                                              *)
(***************************************************************************)

LEMMA AppendIs ==
  ASSUME NEW S, NEW s \in Seq(S), NEW e \in S
  PROVE  /\ Append(s, e) \in Seq(S)
         /\ Len(Append(s, e)) = Len(s) + 1
         /\ Append(s, e) # <<>>
         /\ DOMAIN Append(s, e) = 1..(Len(s) + 1)
         /\ \A i \in DOMAIN s : Append(s, e)[i] = s[i]
         /\ Append(s, e)[Len(s) + 1] = e
  OBVIOUS

LEMMA ReplaceIs ==
  ASSUME NEW S, NEW s \in Seq(S), NEW i \in 1..Len(s), NEW e \in S
  PROVE  [s EXCEPT ![i] = e] \in Seq(S) /\ Len([s EXCEPT ![i] = e]) = Len(s)
  OBVIOUS

LEMMA TailIs ==
  ASSUME NEW S, NEW s \in Seq(S), s # <<>>
  PROVE  /\ Head(s) = s[1] /\ Head(s) \in S
         /\ 1 \in DOMAIN s
         /\ Len(s) \in Nat /\ Len(s) >= 1
         /\ DOMAIN s = 1..Len(s)
         /\ Tail(s) \in Seq(S)
         /\ Len(Tail(s)) = Len(s) - 1
         /\ DOMAIN Tail(s) = 1..(Len(s) - 1)
         /\ \A i \in 1..(Len(s) - 1) : i + 1 \in DOMAIN s /\ Tail(s)[i] = s[i + 1]
  OBVIOUS

-----------------------------------------------------------------------------
(***************************************************************************)
(* The MTP session.                                                        *)
(*                                                                         *)
(* A container on the wire is noise or belongs to the running transaction. *)
(* An answer that is read is the answer to the request that waits for it,  *)
(* because a transaction starts only when the device is silent: whatever   *)
(* could leave something under way has failed the session for good.        *)
(***************************************************************************)

\* Containers the running transaction has to do with; the others are noise.
Own(i) == wire[i].tid # MaxTid + 1

\* The position of the request whose turn it is.
Turn == Len(settled) + 1

\* One transaction at a time, here and at the device.
Single ==
  /\ \A c, d \in current : c = d
  /\ \A c, d \in device : c = d

\* Every submitted request is queued or settled, and only those whose turn has
\* come were carried out.
Requested ==
  /\ Len(queue) + Len(settled) <= MaxRequests
  /\ current # {} => queue # <<>>
  /\ executed \subseteq 1..(IF current = {} THEN Len(settled) ELSE Turn)
  /\ \A i \in DOMAIN wire : noise = 0 => Own(i)

\* Between transactions a session that has not failed has nothing under way.
\* What the device still works on after a fault is the first request that
\* ended in doubt; a number that ran out ends every later request as well.
BetweenTransactions ==
  current = {} =>
    /\ state \notin {"opening", "closing"}
    /\ state # "faulted" => device = {} /\ \A i \in DOMAIN wire : ~Own(i)
    /\ state # "faulted" => \A i \in DOMAIN settled :
         settled[i] = "fatal" => state = "open" /\ nextTid > MaxTid
    /\ \A d \in device :
         /\ d.req \in DOMAIN settled
         /\ settled[d.req] = "fatal"
         /\ \A i \in DOMAIN settled : settled[i] = "fatal" => d.req <= i

\* The running transaction, the state of the session, and the session as the
\* device has it.
Running(c) ==
  /\ state # "faulted"
  /\ \A i \in DOMAIN settled : settled[i] # "fatal"
  /\ c.kind = "open" <=> state = "opening"
  /\ c.kind = "close" <=> state = "closing"
  /\ state = "idle" => c.kind = "info"
  /\ devOpen <=> state \in {"open", IF Turn \in executed THEN "opening" ELSE "closing"}
  /\ c.phase = "dataIn" => c.kind \in WithData
  /\ c.phase = "dataOut" => c.kind = "write"

\* What the device may be doing in a phase of the transaction c.
Phased(c) ==
  /\ c.phase = "command" => device = {} /\ Turn \notin executed /\ \A i \in DOMAIN wire : ~Own(i)
  /\ c.phase = "response" /\ c.kind \in WithData => \A d \in device : d.sent
  /\ \A d \in device : d.req = Turn /\ d.tid = c.tid /\ d.kind = c.kind /\ Turn \notin executed

\* What may be on the wire for it: data, then a response, which tells the truth.
Answered(c) ==
  /\ \A i \in DOMAIN wire : Own(i) =>
       /\ wire[i].tid = c.tid
       /\ wire[i].type \in {"data", "response"}
       /\ wire[i].type = "data" => c.phase = "dataIn" /\ \A d \in device : d.sent
       /\ wire[i].type = "response" => device = {} /\ (wire[i].code = "error" <=> Turn \notin executed)
  /\ \A i, j \in DOMAIN wire : i < j /\ Own(i) /\ Own(j) =>
       wire[i].type = "data" /\ wire[j].type = "response"

\* The inductive invariant of the session.
SessionInv ==
  /\ TypeOK /\ Single /\ Requested /\ BetweenTransactions
  /\ \A c \in current : Running(c) /\ Phased(c) /\ Answered(c)
  /\ OutcomesTruthful /\ NothingAfterFault /\ SessionAgreement

LEMMA SessionStart == Init => SessionInv
  <1> SUFFICES ASSUME Init
               PROVE  SessionInv
    OBVIOUS
  <1> USE SessionConstants
  <1>1. TypeOK
    <2>1. queue \in Seq(Requests) /\ settled \in Seq(Outcomes) /\ wire \in Seq(Containers)
      BY DEF Init
    <2>2. nextTid \in 0..(MaxTid + 1) /\ noise \in 0..MaxNoise
      BY DEF Init
    <2> QED
      BY <2>1, <2>2 DEF Init, TypeOK, States
  <1>2. Single /\ Requested /\ BetweenTransactions
    BY DEF Init, Single, Requested, BetweenTransactions
  <1>3. OutcomesTruthful /\ NothingAfterFault /\ SessionAgreement
    BY DEF Init, OutcomesTruthful, NothingAfterFault, SessionAgreement
  <1> QED
    BY <1>1, <1>2, <1>3 DEF Init, SessionInv

LEMMA SubmitKeeps ==
  ASSUME SessionInv, NEW k \in Kinds, Submit(k)
  PROVE  SessionInv'
  <1> USE SessionConstants DEF SessionInv
  <1>1. [kind |-> k, aborted |-> FALSE] \in Requests
    BY DEF Requests
  <1>2. queue' \in Seq(Requests) /\ Len(queue') = Len(queue) + 1 /\ queue' # <<>>
    BY <1>1, AppendIs DEF Submit, TypeOK
  <1>3. UNCHANGED <<state, nextTid, current, settled, device, devOpen, wire, noise, executed>>
    BY DEF Submit
  <1>4. Len(queue') + Len(settled) <= MaxRequests
    BY <1>2 DEF Submit, TypeOK
  <1> QED
    BY <1>2, <1>3, <1>4 DEF TypeOK, Single, Requested, BetweenTransactions, Running, Phased, Answered, Own,
       Turn, OutcomesTruthful, NothingAfterFault, SessionAgreement

LEMMA AbortKeeps ==
  ASSUME SessionInv, NEW i \in 1..MaxRequests, Abort(i)
  PROVE  SessionInv'
  <1> USE SessionConstants DEF SessionInv
  <1>2. queue' \in Seq(Requests) /\ Len(queue') = Len(queue) /\ (queue # <<>> => queue' # <<>>)
    <2>1. i \in DOMAIN queue /\ queue \in Seq(Requests) /\ queue' = [queue EXCEPT ![i].aborted = TRUE]
      BY DEF Abort, TypeOK
    <2>2. [queue[i] EXCEPT !.aborted = TRUE] \in Requests
      <3>1. queue[i] \in Requests
        BY <2>1
      <3> QED
        BY <3>1 DEF Requests
    <2>3. queue' = [queue EXCEPT ![i] = [queue[i] EXCEPT !.aborted = TRUE]]
      BY <2>1
    <2>4. i \in 1..Len(queue) /\ queue # <<>>
      BY <2>1
    <2> DEFINE e == [queue[i] EXCEPT !.aborted = TRUE]
    <2>5. e \in Requests
      BY <2>2
    <2> HIDE DEF e
    <2>6. queue' = [queue EXCEPT ![i] = e]
      BY <2>3 DEF e
    <2>7. queue \in Seq(Requests)
      BY <2>1
    <2>8. [queue EXCEPT ![i] = e] \in Seq(Requests) /\ Len([queue EXCEPT ![i] = e]) = Len(queue)
      BY <2>4, <2>5, <2>7, ReplaceIs
    <2> QED
      BY <2>4, <2>6, <2>8
  <1>3. UNCHANGED <<state, nextTid, current, settled, device, devOpen, wire, noise, executed>>
    BY DEF Abort
  <1> QED
    BY <1>2, <1>3 DEF TypeOK, Single, Requested, BetweenTransactions, Running, Phased, Answered, Own,
       Turn, OutcomesTruthful, NothingAfterFault, SessionAgreement

\* A request that settles without having been sent.
LEMMA SettleUnsent ==
  ASSUME SessionInv, Waiting, NEW o \in {"rejected", "fatal"}, Settle(o),
         UNCHANGED <<current, device, devOpen, wire, noise, executed>>,
         nextTid' \in 0..(MaxTid + 1), state' \in {state, "faulted"},
         nextTid > MaxTid /\ state = "open" => nextTid' > MaxTid,
         o = "fatal" => state = "open" /\ nextTid' > MaxTid
  PROVE  SessionInv'
  <1> USE SessionConstants DEF SessionInv
  <1>1. current = {} /\ current' = {}
    BY DEF Waiting
  <1>2. o \in Outcomes
    BY DEF Outcomes
  <1>3. /\ settled' \in Seq(Outcomes) /\ Len(settled') = Len(settled) + 1
        /\ DOMAIN settled' = 1..(Len(settled) + 1)
        /\ \A i \in DOMAIN settled : settled'[i] = settled[i]
        /\ settled'[Len(settled) + 1] = o
    BY <1>2, AppendIs DEF Settle, TypeOK
  <1>4. queue' \in Seq(Requests) /\ Len(queue') = Len(queue) - 1 /\ Len(queue) >= 1
    BY TailIs DEF Settle, TypeOK, Waiting
  <1>5. Len(settled) \in Nat /\ Len(queue) \in Nat /\ DOMAIN settled = 1..Len(settled)
    BY DEF TypeOK
  <1>6. TypeOK'
    BY <1>3, <1>4 DEF TypeOK, States
  <1>7. Single' /\ Requested'
    <2>1. Len(queue') + Len(settled') <= MaxRequests
      BY <1>3, <1>4, <1>5 DEF Requested
    <2>2. executed' \subseteq 1..Len(settled')
      BY <1>1, <1>3, <1>5 DEF Requested
    <2> QED
      BY <1>1, <2>1, <2>2 DEF Single, Requested, Own
  <1>8. BetweenTransactions'
    <2>1. state' \notin {"opening", "closing"}
      BY <1>1 DEF BetweenTransactions
    <2>2. state' # "faulted" => device' = {} /\ \A i \in DOMAIN wire' : ~Own(i)'
      BY <1>1 DEF BetweenTransactions, Own
    <2>3. state' # "faulted" => \A i \in DOMAIN settled' :
            settled'[i] = "fatal" => state' = "open" /\ nextTid' > MaxTid
      BY <1>1, <1>3, <1>5 DEF BetweenTransactions
    <2>4. ASSUME NEW d \in device'
          PROVE  /\ d.req \in DOMAIN settled'
                 /\ settled'[d.req] = "fatal"
                 /\ \A i \in DOMAIN settled' : settled'[i] = "fatal" => d.req <= i
      BY <1>1, <1>3, <1>5, <2>4 DEF BetweenTransactions
    <2> QED
      BY <2>1, <2>2, <2>3, <2>4 DEF BetweenTransactions
  <1>9. OutcomesTruthful' /\ NothingAfterFault'
    BY <1>1, <1>3, <1>5 DEF OutcomesTruthful, NothingAfterFault, Requested
  <1>10. SessionAgreement'
    BY <1>1 DEF SessionAgreement
  <1> QED
    BY <1>1, <1>6, <1>7, <1>8, <1>9, <1>10

LEMMA RejectKeeps ==
  ASSUME SessionInv, Reject
  PROVE  SessionInv'
  <1> USE SessionConstants
  <1>1. TypeOK /\ TidFor(Req.kind) \in 0..(MaxTid + 1)
    BY DEF SessionInv, TypeOK, TidFor
  <1>2. CASE RejectInvalidState
    BY <1>1, <1>2, SettleUnsent DEF RejectInvalidState, TypeOK
  <1>3. CASE RejectAborted
    BY <1>1, <1>3, SettleUnsent DEF RejectAborted, TidFor, TypeOK
  <1>4. CASE RejectExhausted
    <2>1. state = "open" /\ nextTid > MaxTid
      BY <1>1, <1>4 DEF RejectExhausted, TidFor, Accepts
    <2> QED
      BY <1>1, <1>4, <2>1, SettleUnsent DEF RejectExhausted, TypeOK
  <1> QED
    BY <1>2, <1>3, <1>4 DEF Reject

LEMMA StartKeeps ==
  ASSUME SessionInv, StartTransaction
  PROVE  SessionInv'
  <1> USE SessionConstants DEF SessionInv
  <1>0. PICK c : c = [kind |-> Req.kind, tid |-> TidFor(Req.kind), phase |-> "command"]
    OBVIOUS
  <1>1. /\ current = {} /\ queue # <<>> /\ current' = {c}
        /\ UNCHANGED <<queue, settled, device, devOpen, wire, noise, executed>>
        /\ nextTid' = TidFor(Req.kind) + 1
        /\ TidFor(Req.kind) <= MaxTid
        /\ Accepts(Req.kind)
    BY <1>0 DEF StartTransaction, Waiting
  <1>2. Req.kind \in Kinds /\ TidFor(Req.kind) \in Tids
    <2>1. Req \in Requests
      BY <1>1, TailIs DEF Req, TypeOK
    <2>2. TidFor(Req.kind) \in Nat
      BY DEF TypeOK, TidFor
    <2> QED
      BY <1>1, <2>1, <2>2 DEF Requests, Tids
  <1>3. c \in Transactions /\ c.kind = Req.kind /\ c.tid = TidFor(Req.kind) /\ c.phase = "command"
    BY <1>0, <1>2 DEF Transactions, Phases
  <1>4. state' = CASE Req.kind = "open"  -> "opening"
                   [] Req.kind = "close" -> "closing"
                   [] OTHER              -> state
    BY DEF StartTransaction
  <1>5. /\ state \in {"idle", "open"}
        /\ Req.kind = "open" => state = "idle"
        /\ state = "idle" => Req.kind \in {"open", "info"}
    BY <1>1 DEF Accepts
  <1>6. TypeOK'
    BY <1>1, <1>2, <1>3, <1>4 DEF TypeOK, States, Tids
  <1>7. Single' /\ Requested' /\ BetweenTransactions'
    <2>1. Single' /\ BetweenTransactions'
      BY <1>1 DEF Single, BetweenTransactions
    <2>2. executed \subseteq 1..Len(settled) /\ Len(settled) \in Nat
      BY <1>1 DEF Requested, TypeOK
    <2>3. executed \subseteq 1..(Len(settled) + 1)
      BY <2>2
    <2> QED
      BY <1>1, <2>1, <2>3 DEF Requested, Own, Turn
  <1>8. device = {} /\ \A i \in DOMAIN wire : ~Own(i)
    BY <1>1, <1>5 DEF BetweenTransactions
  <1>9. Turn \notin executed
    BY <1>1 DEF Turn, Requested, TypeOK
  <1>10. Running(c)'
    <2>1. \A i \in DOMAIN settled : settled[i] # "fatal"
      BY <1>1, <1>2, <1>5 DEF BetweenTransactions, TidFor, TypeOK
    <2>2. devOpen <=> state = "open"
      BY <1>1, <1>5 DEF SessionAgreement
    <2> QED
      BY <1>1, <1>2, <1>3, <1>4, <1>5, <1>9, <2>1, <2>2 DEF Running, Turn
  <1>11. Phased(c)' /\ Answered(c)'
    BY <1>1, <1>3, <1>8, <1>9 DEF Phased, Answered, Own, Turn
  <1>12. OutcomesTruthful' /\ NothingAfterFault' /\ SessionAgreement'
    BY <1>1 DEF OutcomesTruthful, NothingAfterFault, SessionAgreement
  <1> QED
    BY <1>1, <1>6, <1>7, <1>10, <1>11, <1>12

\* A running transaction goes on to another phase.
LEMMA PhaseKeeps ==
  ASSUME SessionInv, NEW c \in current, NEW p \in Phases, EnterPhase(c, p),
         UNCHANGED <<state, nextTid, queue, settled, devOpen, noise, executed>>,
         wire' \in Seq(Containers), device' \in SUBSET DeviceWork,
         \A i \in DOMAIN wire' : noise' = 0 => Own(i)',
         \A d, e \in device' : d = e,
         p = "dataIn" => c.kind \in WithData,
         p = "dataOut" => c.kind = "write",
         Phased([c EXCEPT !.phase = p])', Answered([c EXCEPT !.phase = p])'
  PROVE  SessionInv'
  <1> USE SessionConstants DEF SessionInv
  <1> DEFINE k == [c EXCEPT !.phase = p]
  <1>1. current' = {k} /\ k \in Transactions /\ k.kind = c.kind /\ k.phase = p
    BY DEF EnterPhase, TypeOK, Transactions
  <1> HIDE DEF k
  <1>2. TypeOK' /\ Single' /\ Requested' /\ BetweenTransactions'
    BY <1>1 DEF TypeOK, Single, Requested, BetweenTransactions, Turn
  <1>3. Running(k)'
    BY <1>1 DEF Running, Turn
  <1>4. OutcomesTruthful' /\ NothingAfterFault' /\ SessionAgreement'
    BY <1>1 DEF OutcomesTruthful, NothingAfterFault, SessionAgreement
  <1> QED
    BY <1>1, <1>2, <1>3, <1>4 DEF k

LEMMA SendCommandKeeps ==
  ASSUME SessionInv, SendCommand
  PROVE  SessionInv'
  <1> USE SessionConstants
  <1>1. PICK c \in current : /\ c.phase = "command"
                             /\ device' = Received(c)
                             /\ EnterPhase(c, CASE c.kind = "write"    -> "dataOut"
                                                [] c.kind \in WithData -> "dataIn"
                                                [] OTHER               -> "response")
                             /\ UNCHANGED <<state, nextTid, queue, settled, devOpen, wire, noise, executed>>
    BY DEF SendCommand
  <1> DEFINE p == CASE c.kind = "write"    -> "dataOut"
                    [] c.kind \in WithData -> "dataIn"
                    [] OTHER               -> "response"
             k == [c EXCEPT !.phase = p]
  <1>2. c \in Transactions /\ k.phase = p /\ k.kind = c.kind /\ k.tid = c.tid
    BY DEF SessionInv, TypeOK, Transactions
  <1>3. p \in Phases /\ (p = "dataIn" => c.kind \in WithData) /\ (p = "response" => c.kind \notin WithData)
        /\ (p = "dataOut" => c.kind = "write")
    BY DEF Phases, WithData
  <1>4. Received(c) \in SUBSET DeviceWork
    <2>1. Len(settled) + 1 \in 1..MaxRequests
      BY DEF SessionInv, Requested, TypeOK
    <2> QED
      BY <1>2, <2>1 DEF Received, DeviceWork, Transactions
  <1>5. Phased(c) /\ Answered(c) /\ Requested
    BY DEF SessionInv
  <1>6. Phased(k)'
    BY <1>1, <1>2, <1>3, <1>5 DEF Phased, Received, Turn
  <1>7. Answered(k)'
    BY <1>1, <1>2, <1>5 DEF Phased, Answered, Own, Turn
  <1>8. /\ wire' \in Seq(Containers)
        /\ \A i \in DOMAIN wire' : noise' = 0 => Own(i)'
        /\ \A d, e \in device' : d = e
    BY <1>1, <1>5 DEF SessionInv, TypeOK, Requested, Own, Received
  <1> QED
    BY <1>1, <1>3, <1>4, <1>6, <1>7, <1>8, PhaseKeeps

LEMMA SendDataKeeps ==
  ASSUME SessionInv, SendData
  PROVE  SessionInv'
  <1>1. PICK c \in current : /\ c.phase = "dataOut"
                             /\ EnterPhase(c, "response")
                             /\ UNCHANGED <<state, nextTid, queue, settled, device, devOpen, wire, noise, executed>>
    BY DEF SendData
  <1> DEFINE k == [c EXCEPT !.phase = "response"]
  <1>2. c \in Transactions /\ k.phase = "response" /\ k.kind = c.kind /\ k.tid = c.tid
    BY DEF SessionInv, TypeOK, Transactions
  <1>3. Running(c) /\ Phased(c) /\ Answered(c) /\ Requested
    BY DEF SessionInv
  <1>4. Phased(k)' /\ Answered(k)'
    BY <1>1, <1>2, <1>3 DEF Running, Phased, Answered, Own, Turn, WithData
  <1>5. /\ wire' \in Seq(Containers) /\ device' \in SUBSET DeviceWork
        /\ \A i \in DOMAIN wire' : noise' = 0 => Own(i)'
        /\ \A d, e \in device' : d = e
    BY <1>1, <1>3 DEF SessionInv, TypeOK, Requested, Single, Own
  <1> QED
    BY <1>1, <1>4, <1>5, PhaseKeeps DEF Phases

\* The running transaction ends: its request has the outcome o.
LEMMA EndKeeps ==
  ASSUME SessionInv, NEW c \in current, NEW o \in Outcomes, Settle(o), current' = {},
         UNCHANGED <<devOpen, noise, executed>>,
         nextTid' \in 0..(MaxTid + 1), state' \in States \ {"opening", "closing"},
         wire' \in Seq(Containers), device' \in SUBSET DeviceWork,
         \A i \in DOMAIN wire' : noise' = 0 => Own(i)',
         \A d, e \in device' : d = e,
         \A d \in device' : d.req = Turn,
         o = "ok" => Turn \in executed,
         o \in {"error", "rejected"} => Turn \notin executed,
         o = "fatal" <=> state' = "faulted",
         state' # "faulted" => device' = {} /\ \A i \in DOMAIN wire' : ~Own(i)',
         (state' = "open" => devOpen) /\ (state' = "idle" => ~devOpen)
  PROVE  SessionInv'
  <1> USE SessionConstants DEF SessionInv
  <1>1. /\ settled' \in Seq(Outcomes) /\ Len(settled') = Len(settled) + 1
        /\ DOMAIN settled' = 1..(Len(settled) + 1)
        /\ \A i \in DOMAIN settled : settled'[i] = settled[i]
        /\ settled'[Len(settled) + 1] = o
    BY AppendIs DEF Settle, TypeOK
  <1>2. queue' \in Seq(Requests) /\ Len(queue') = Len(queue) - 1 /\ Len(queue) >= 1
    BY TailIs DEF Settle, TypeOK, Requested
  <1>3. Len(settled) \in Nat /\ Len(queue) \in Nat /\ DOMAIN settled = 1..Len(settled)
    BY DEF TypeOK
  <1>4. executed \subseteq 1..(Len(settled) + 1) /\ \A i \in DOMAIN settled : settled[i] # "fatal"
    BY DEF Requested, Turn, Running
  <1>5. TypeOK'
    BY <1>1, <1>2 DEF TypeOK, States
  <1>6. Single' /\ Requested'
    <2>1. Len(queue') + Len(settled') <= MaxRequests
      BY <1>1, <1>2, <1>3 DEF Requested
    <2> QED
      BY <1>1, <1>3, <1>4, <2>1 DEF Single, Requested
  <1>7. BetweenTransactions'
    <2>1. state' # "faulted" => \A i \in DOMAIN settled' : settled'[i] # "fatal"
      BY <1>1, <1>3, <1>4
    <2>2. ASSUME NEW d \in device'
          PROVE  /\ d.req \in DOMAIN settled'
                 /\ settled'[d.req] = "fatal"
                 /\ \A i \in DOMAIN settled' : settled'[i] = "fatal" => d.req <= i
      BY <1>1, <1>3, <1>4, <2>2 DEF Turn
    <2> QED
      BY <2>1, <2>2 DEF BetweenTransactions
  <1>8. OutcomesTruthful' /\ NothingAfterFault'
    BY <1>1, <1>3, <1>4 DEF OutcomesTruthful, NothingAfterFault, Turn
  <1> QED
    BY <1>5, <1>6, <1>7, <1>8 DEF SessionAgreement

\* A container taken off the wire.
LEMMA TakenOff ==
  ASSUME SessionInv, NEW c \in current, wire # <<>>, wire' = Tail(wire), noise' = noise
  PROVE  /\ Head(wire) = wire[1] /\ Head(wire) \in Containers /\ 1 \in DOMAIN wire
         /\ wire' \in Seq(Containers)
         /\ DOMAIN wire' = 1..(Len(wire) - 1)
         /\ \A i \in DOMAIN wire' : i + 1 \in DOMAIN wire /\ wire'[i] = wire[i + 1]
         /\ \A i \in DOMAIN wire' : Own(i)' <=> Own(i + 1)
         /\ \A i \in DOMAIN wire' : noise' = 0 => Own(i)'
  <1>1. wire \in Seq(Containers) /\ Requested
    BY DEF SessionInv, TypeOK
  <1>2. /\ Head(wire) = wire[1] /\ Head(wire) \in Containers /\ 1 \in DOMAIN wire
        /\ wire' \in Seq(Containers)
        /\ DOMAIN wire' = 1..(Len(wire) - 1)
        /\ \A i \in DOMAIN wire' : i + 1 \in DOMAIN wire /\ wire'[i] = wire[i + 1]
    BY <1>1, TailIs
  <1>3. \A i \in DOMAIN wire' : Own(i)' <=> Own(i + 1)
    BY <1>2 DEF Own
  <1> QED
    BY <1>1, <1>2, <1>3 DEF Requested

LEMMA ReadKeeps ==
  ASSUME SessionInv, ReadContainer
  PROVE  SessionInv'
  <1> USE SessionConstants
  <1>1. PICK c \in current :
          /\ c.phase \in {"dataIn", "response"}
          /\ wire # <<>>
          /\ wire' = Tail(wire)
          /\ CASE Verdict(c, Head(wire)) = "more"  -> /\ EnterPhase(c, "response")
                                                      /\ UNCHANGED <<state, nextTid, queue, settled>>
               [] Verdict(c, Head(wire)) = "ok"    -> Succeed(c)
               [] Verdict(c, Head(wire)) = "error" -> ErrorResponse(c)
               [] OTHER                            -> Fault
          /\ UNCHANGED <<device, devOpen, noise, executed>>
    BY DEF ReadContainer
  <1> DEFINE m == Head(wire)
  <1>2. /\ m = wire[1] /\ m \in Containers /\ 1 \in DOMAIN wire
        /\ wire' \in Seq(Containers)
        /\ DOMAIN wire' = 1..(Len(wire) - 1)
        /\ \A i \in DOMAIN wire' : i + 1 \in DOMAIN wire /\ wire'[i] = wire[i + 1]
        /\ \A i \in DOMAIN wire' : Own(i)' <=> Own(i + 1)
        /\ \A i \in DOMAIN wire' : noise' = 0 => Own(i)'
    BY <1>1, TakenOff
  <1>3. c \in Transactions /\ TypeOK /\ Running(c) /\ Phased(c) /\ Answered(c) /\ Single
    BY DEF SessionInv, TypeOK
  <1>4. device' \in SUBSET DeviceWork /\ \A d, e \in device' : d = e
    BY <1>1, <1>3 DEF TypeOK, Single
  <1>5. m.tid = c.tid => Own(1)
    BY <1>2, <1>3 DEF Own, Transactions, Tids
  <1>6. CASE Verdict(c, m) = "more"
    <2> DEFINE k == [c EXCEPT !.phase = "response"]
    <2>1. k.phase = "response" /\ k.kind = c.kind /\ k.tid = c.tid
      BY <1>3 DEF Transactions
    <2>2. m.tid = c.tid /\ m.type = "data" /\ c.phase = "dataIn"
      BY <1>6 DEF Verdict
    <2>3. /\ EnterPhase(c, "response")
          /\ UNCHANGED <<state, nextTid, queue, settled>>
      BY <1>1, <1>6
    <2>4. Phased(k)'
      BY <1>1, <1>2, <1>3, <1>5, <2>1, <2>2, <2>3 DEF Phased, Answered, Turn
    <2>5. Answered(k)'
      BY <1>1, <1>2, <1>3, <1>5, <2>1, <2>2, <2>3 DEF Answered, Turn
    <2> QED
      BY <1>1, <1>2, <1>4, <2>3, <2>4, <2>5, PhaseKeeps DEF Phases
  <1>7. CASE Verdict(c, m) \in {"ok", "error"}
    <2>1. m.tid = c.tid /\ m.type = "response" /\ (m.code = "error" <=> Verdict(c, m) = "error")
      BY <1>2, <1>7 DEF Verdict, Containers, Types
    <2>2. device' = {} /\ (m.code = "error" <=> Turn \notin executed)
      BY <1>1, <1>2, <1>3, <1>5, <2>1 DEF Answered
    <2>3. \A i \in DOMAIN wire' : ~Own(i)'
      BY <1>2, <1>3, <1>5, <2>1 DEF Answered, TypeOK
    <2>4. CASE Verdict(c, m) = "ok"
      <3>1. Succeed(c)
        BY <1>1, <2>4
      <3>2. nextTid' \in 0..(MaxTid + 1) /\ state' \in {"open", "idle"}
            /\ (state' = "open" => devOpen) /\ (state' = "idle" => ~devOpen)
        BY <1>3, <2>1, <2>2, <2>4, <3>1 DEF Succeed, TypeOK, States, Running
      <3> QED
        BY <1>1, <1>2, <1>4, <2>1, <2>2, <2>3, <2>4, <3>1, <3>2, EndKeeps DEF Succeed, Outcomes, States
    <2>5. CASE Verdict(c, m) = "error"
      <3>1. ErrorResponse(c)
        BY <1>1, <2>5
      <3>2. nextTid' \in 0..(MaxTid + 1) /\ state' \in {"open", "idle"}
            /\ (state' = "open" => devOpen) /\ (state' = "idle" => ~devOpen)
        BY <1>3, <2>1, <2>2, <2>5, <3>1 DEF ErrorResponse, TypeOK, States, Running
      <3> QED
        BY <1>1, <1>2, <1>4, <2>1, <2>2, <2>3, <2>5, <3>1, <3>2, EndKeeps DEF ErrorResponse, Outcomes, States
    <2> QED
      BY <1>7, <2>4, <2>5
  <1>8. CASE Verdict(c, m) \notin {"more", "ok", "error"}
    <2>1. Fault
      BY <1>1, <1>8
    <2>2. \A d \in device' : d.req = Turn
      BY <1>1, <1>3 DEF Phased
    <2> QED
      BY <1>1, <1>2, <1>3, <1>4, <2>1, <2>2, EndKeeps DEF Fault, Outcomes, States, TypeOK
  <1> QED
    BY <1>6, <1>7, <1>8

LEMMA FailKeeps ==
  ASSUME SessionInv, IoFails
  PROVE  SessionInv'
  <1> USE SessionConstants
  <1>1. /\ Fault /\ UNCHANGED <<devOpen, wire, noise, executed>>
        /\ \E c \in current : device' = device \/ device' = Received(c)
    BY DEF IoFails
  <1>2. PICK c \in current : device' = device \/ device' = Received(c)
    BY <1>1
  <1>3. c \in Transactions /\ TypeOK /\ Requested /\ Phased(c) /\ Single
    BY DEF SessionInv, TypeOK
  <1>4. Received(c) \in SUBSET DeviceWork
    <2>1. Len(settled) + 1 \in 1..MaxRequests
      BY <1>3 DEF Requested, TypeOK
    <2> QED
      BY <1>3, <2>1 DEF Received, DeviceWork, Transactions
  <1>5. /\ device' \in SUBSET DeviceWork
        /\ \A d, e \in device' : d = e
        /\ \A d \in device' : d.req = Turn
    <2>1. CASE device' = device
      BY <1>3, <2>1 DEF TypeOK, Single, Phased
    <2>2. CASE device' = Received(c)
      BY <1>4, <2>2 DEF Received, Turn
    <2> QED
      BY <1>2, <2>1, <2>2
  <1>6. wire' \in Seq(Containers) /\ \A i \in DOMAIN wire' : noise' = 0 => Own(i)'
    BY <1>1, <1>3 DEF TypeOK, Requested, Own
  <1> QED
    BY <1>1, <1>3, <1>5, <1>6, EndKeeps DEF Fault, Outcomes, States, TypeOK


\* A container arrives on the wire.
LEMMA PutOn ==
  ASSUME TypeOK, NEW m \in Containers, wire' = Append(wire, m)
  PROVE  /\ wire' \in Seq(Containers)
         /\ DOMAIN wire = 1..Len(wire) /\ Len(wire) \in Nat
         /\ DOMAIN wire' = 1..(Len(wire) + 1)
         /\ \A i \in DOMAIN wire : wire'[i] = wire[i] /\ (Own(i)' <=> Own(i))
         /\ \A i \in DOMAIN wire' \ DOMAIN wire :
              i = Len(wire) + 1 /\ wire'[i] = m /\ (Own(i)' <=> m.tid # MaxTid + 1)
  <1>1. wire \in Seq(Containers)
    BY DEF TypeOK
  <1>2. /\ wire' \in Seq(Containers)
        /\ DOMAIN wire = 1..Len(wire) /\ Len(wire) \in Nat
        /\ DOMAIN wire' = 1..(Len(wire) + 1)
        /\ \A i \in DOMAIN wire : wire'[i] = wire[i]
        /\ wire'[Len(wire) + 1] = m
    BY <1>1, AppendIs
  <1> QED
    BY <1>2 DEF Own

\* The device does something: the host's state stays, nothing is executed
\* that has an outcome other than "fatal".
LEMMA DeviceKeeps ==
  ASSUME SessionInv, UNCHANGED <<state, nextTid, queue, current, settled>>,
         wire' \in Seq(Containers), device' \in SUBSET DeviceWork, devOpen' \in BOOLEAN,
         noise' \in 0..MaxNoise,
         \A i \in DOMAIN wire' : noise' = 0 => Own(i)',
         \A d, e \in device' : d = e,
         \A d \in device' : \E e \in device : d.req = e.req,
         executed' \subseteq executed \cup {d.req : d \in device},
         executed \subseteq executed',
         current = {} => (state # "faulted" => devOpen' = devOpen /\ \A i \in DOMAIN wire' : ~Own(i)'),
         \A c \in current : Running(c)' /\ Phased(c)' /\ Answered(c)'
  PROVE  SessionInv'
  <1> USE SessionConstants DEF SessionInv
  <1>1. \A d \in device : current # {} => d.req = Turn
    BY DEF Phased
  <1>2. Len(settled) \in Nat /\ DOMAIN settled = 1..Len(settled)
    BY DEF TypeOK
  <1>3. \A d \in device : current = {} => d.req \in DOMAIN settled
    BY DEF BetweenTransactions
  <1>4. executed' \subseteq 1..(IF current = {} THEN Len(settled) ELSE Turn)
    BY <1>1, <1>2, <1>3 DEF Requested, Turn
  <1>5. TypeOK'
    <2>1. executed' \subseteq 1..MaxRequests
      BY <1>2, <1>4 DEF Requested, Turn, TypeOK
    <2> QED
      BY <2>1 DEF TypeOK
  <1>6. Single' /\ Requested'
    BY <1>4 DEF Single, Requested, Turn
  <1>7. BetweenTransactions'
    <2> SUFFICES ASSUME current = {}
                 PROVE  BetweenTransactions'
      BY DEF BetweenTransactions
    <2>1. state # "faulted" => device' = {}
      BY DEF BetweenTransactions
    <2>2. ASSUME NEW d \in device'
          PROVE  /\ d.req \in DOMAIN settled
                 /\ settled[d.req] = "fatal"
                 /\ \A i \in DOMAIN settled : settled[i] = "fatal" => d.req <= i
      BY <2>2 DEF BetweenTransactions
    <2> QED
      BY <2>1, <2>2 DEF BetweenTransactions
  <1>8. OutcomesTruthful' /\ NothingAfterFault'
    <2>1. CASE current = {}
      BY <2>1, <1>2 DEF OutcomesTruthful, NothingAfterFault, BetweenTransactions
    <2>2. CASE current # {}
      BY <2>2, <1>1, <1>2 DEF OutcomesTruthful, NothingAfterFault, Running, Turn
    <2> QED
      BY <2>1, <2>2
  <1>9. SessionAgreement'
    BY DEF SessionAgreement
  <1> QED
    BY <1>5, <1>6, <1>7, <1>8, <1>9

LEMMA SendsDataKeeps ==
  ASSUME SessionInv, DeviceSendsData
  PROVE  SessionInv'
  <1> USE SessionConstants
  <1>1. PICK d \in device :
          /\ d.kind \in WithData
          /\ ~d.sent
          /\ wire' = Append(wire, Container("data", d.tid, "ok"))
          /\ device' = {[d EXCEPT !.sent = TRUE]}
          /\ UNCHANGED <<state, nextTid, queue, current, settled, devOpen, noise, executed>>
    BY DEF DeviceSendsData
  <1> DEFINE m == Container("data", d.tid, "ok")
             e == [d EXCEPT !.sent = TRUE]
  <1>2. d \in DeviceWork /\ TypeOK /\ Single /\ Requested
    BY DEF SessionInv, TypeOK
  <1>3. m \in Containers /\ m.tid = d.tid /\ m.type = "data" /\ m.tid # MaxTid + 1
    BY <1>2 DEF Container, Containers, Types, Codes, DeviceWork, Tids
  <1>4. e \in DeviceWork /\ e.sent /\ e.req = d.req /\ e.tid = d.tid /\ e.kind = d.kind
    BY <1>2 DEF DeviceWork
  <1> HIDE DEF m, e
  <1>5. /\ wire' \in Seq(Containers)
        /\ DOMAIN wire = 1..Len(wire) /\ Len(wire) \in Nat
        /\ DOMAIN wire' = 1..(Len(wire) + 1)
        /\ \A i \in DOMAIN wire : wire'[i] = wire[i] /\ (Own(i)' <=> Own(i))
        /\ \A i \in DOMAIN wire' \ DOMAIN wire : i = Len(wire) + 1 /\ wire'[i] = m /\ Own(i)'
    BY <1>1, <1>2, <1>3, PutOn DEF m
  <1>6. ASSUME NEW c \in current
        PROVE  Running(c)' /\ Phased(c)' /\ Answered(c)'
    <2>1. Running(c) /\ Phased(c) /\ Answered(c)
      BY DEF SessionInv
    <2>2. device' = {e}
      BY <1>1 DEF e
    <2>3. d.tid = c.tid /\ d.kind = c.kind /\ d.req = Turn /\ c \in Transactions
      BY <2>1, <1>2 DEF Phased, TypeOK
    <2>4. c.phase = "dataIn"
      BY <1>1, <2>1, <2>3 DEF Phased, Running, WithData, Transactions, Phases
    <2>5. \A i \in DOMAIN wire : ~Own(i)
      BY <1>1, <2>1 DEF Answered
    <2>6. Running(c)' /\ Phased(c)'
      BY <1>1, <1>4, <2>1, <2>2, <2>3, <2>4 DEF Running, Phased, Turn
    <2>7. Answered(c)'
      BY <1>1, <1>3, <1>4, <1>5, <2>1, <2>2, <2>3, <2>4, <2>5 DEF Answered, Turn
    <2> QED
      BY <2>6, <2>7
  <1>7. current = {} => state = "faulted"
    BY DEF SessionInv, BetweenTransactions
  <1>8. \A i \in DOMAIN wire' : noise' = 0 => Own(i)'
    BY <1>1, <1>2, <1>5 DEF Requested
  <1>9. device' = {e}
    BY <1>1 DEF e
  <1> QED
    BY <1>1, <1>2, <1>4, <1>5, <1>6, <1>7, <1>8, <1>9, DeviceKeeps DEF TypeOK

LEMMA RespondsKeeps ==
  ASSUME SessionInv, NEW code \in Codes, DeviceResponds(code)
  PROVE  SessionInv'
  <1> USE SessionConstants
  <1>1. PICK d \in device :
          /\ code # "error" => d.sent \/ d.kind \notin WithData
          /\ \A c \in current : c.phase # "dataOut"
          /\ wire' = Append(wire, Container("response", d.tid, code))
          /\ device' = {}
          /\ devOpen' = IF code = "error" THEN devOpen
                        ELSE (devOpen \/ d.kind = "open") /\ d.kind # "close"
          /\ executed' = executed \cup (IF code = "error" THEN {} ELSE {d.req})
          /\ UNCHANGED <<state, nextTid, queue, current, settled, noise>>
    BY DEF DeviceResponds
  <1> DEFINE m == Container("response", d.tid, code)
  <1>2. d \in DeviceWork /\ TypeOK /\ Single /\ Requested
    BY DEF SessionInv, TypeOK
  <1>3. m \in Containers /\ m.tid = d.tid /\ m.type = "response" /\ m.code = code /\ m.tid # MaxTid + 1
    BY <1>2 DEF Container, Containers, Types, Codes, DeviceWork, Tids
  <1> HIDE DEF m
  <1>4. /\ wire' \in Seq(Containers)
        /\ DOMAIN wire = 1..Len(wire) /\ Len(wire) \in Nat
        /\ DOMAIN wire' = 1..(Len(wire) + 1)
        /\ \A i \in DOMAIN wire : wire'[i] = wire[i] /\ (Own(i)' <=> Own(i))
        /\ \A i \in DOMAIN wire' \ DOMAIN wire : i = Len(wire) + 1 /\ wire'[i] = m /\ Own(i)'
    BY <1>1, <1>2, <1>3, PutOn DEF m
  <1>5. ASSUME NEW c \in current
        PROVE  Running(c)' /\ Phased(c)' /\ Answered(c)'
    <2>1. Running(c) /\ Phased(c) /\ Answered(c)
      BY DEF SessionInv
    <2>2. d.tid = c.tid /\ d.kind = c.kind /\ d.req = Turn /\ Turn \notin executed /\ c.phase # "command"
      BY <1>1, <2>1 DEF Phased
    <2>3. Turn' = Turn /\ (Turn \in executed' <=> code # "error")
      BY <1>1, <2>2 DEF Turn
    <2>4. Running(c)'
      BY <1>1, <1>2, <2>1, <2>2, <2>3 DEF Running, TypeOK, States
    <2>5. Phased(c)'
      BY <1>1, <2>2 DEF Phased
    <2>6. \A i \in DOMAIN wire : Own(i) => wire[i].type = "data" /\ wire[i].tid = c.tid /\ c.phase = "dataIn"
      BY <1>1, <2>1 DEF Answered
    <2>7. \A i, j \in DOMAIN wire : i < j /\ Own(i) => ~Own(j)
      BY <2>1, <2>6 DEF Answered
    <2>8. Answered(c)'
      <3>1. ASSUME NEW i \in DOMAIN wire', Own(i)'
            PROVE  /\ wire'[i].tid = c.tid
                   /\ wire'[i].type \in {"data", "response"}
                   /\ wire'[i].type = "data" => c.phase = "dataIn" /\ \A x \in device' : x.sent
                   /\ wire'[i].type = "response" => device' = {} /\ (wire'[i].code = "error" <=> Turn' \notin executed')
        BY <1>1, <1>3, <1>4, <2>2, <2>3, <2>6, <3>1
      <3>2. ASSUME NEW i \in DOMAIN wire', NEW j \in DOMAIN wire', i < j, Own(i)', Own(j)'
            PROVE  wire'[i].type = "data" /\ wire'[j].type = "response"
        BY <1>3, <1>4, <2>6, <2>7, <3>2
      <3> QED
        BY <3>1, <3>2 DEF Answered
    <2> QED
      BY <2>4, <2>5, <2>8
  <1>6. current = {} => state = "faulted"
    BY DEF SessionInv, BetweenTransactions
  <1>7. \A i \in DOMAIN wire' : noise' = 0 => Own(i)'
    BY <1>1, <1>2, <1>4 DEF Requested
  <1>8. /\ executed' \subseteq executed \cup {x.req : x \in device}
        /\ executed \subseteq executed' /\ devOpen' \in BOOLEAN
    BY <1>1, <1>2 DEF TypeOK
  <1> QED
    BY <1>1, <1>2, <1>4, <1>5, <1>6, <1>7, <1>8, DeviceKeeps DEF TypeOK

LEMMA NoiseKeeps ==
  ASSUME SessionInv, NEW m \in Noise, DeviceMakesNoise(m)
  PROVE  SessionInv'
  <1> USE SessionConstants
  <1>1. /\ wire' = Append(wire, m) /\ noise < MaxNoise /\ noise' = noise + 1
        /\ UNCHANGED <<state, nextTid, queue, current, settled, device, devOpen, executed>>
    BY DEF DeviceMakesNoise
  <1>2. m \in Containers /\ m.tid = MaxTid + 1
    BY DEF Noise, Containers, Codes, Types
  <1>3. TypeOK /\ Single /\ Requested /\ noise' \in 0..MaxNoise /\ noise' # 0
    BY <1>1 DEF SessionInv, TypeOK
  <1>4. /\ wire' \in Seq(Containers)
        /\ DOMAIN wire = 1..Len(wire) /\ Len(wire) \in Nat
        /\ DOMAIN wire' = 1..(Len(wire) + 1)
        /\ \A i \in DOMAIN wire : wire'[i] = wire[i] /\ (Own(i)' <=> Own(i))
        /\ \A i \in DOMAIN wire' \ DOMAIN wire : i = Len(wire) + 1 /\ wire'[i] = m /\ ~Own(i)'
    BY <1>1, <1>2, <1>3, PutOn
  <1>5. ASSUME NEW c \in current
        PROVE  Running(c)' /\ Phased(c)' /\ Answered(c)'
    <2>1. Running(c) /\ Phased(c) /\ Answered(c)
      BY DEF SessionInv
    <2> QED
      BY <1>1, <1>4, <2>1 DEF Running, Phased, Answered, Turn
  <1>6. current = {} => (state # "faulted" => \A i \in DOMAIN wire' : ~Own(i)')
    BY <1>4 DEF SessionInv, BetweenTransactions
  <1> QED
    BY <1>1, <1>3, <1>4, <1>5, <1>6, DeviceKeeps DEF TypeOK, Single

LEMMA SessionStep ==
  ASSUME SessionInv, Next
  PROVE  SessionInv'
  BY SubmitKeeps, AbortKeeps, RejectKeeps, StartKeeps, SendCommandKeeps, SendDataKeeps, ReadKeeps,
     FailKeeps, SendsDataKeeps, RespondsKeeps, NoiseKeeps DEF Next, HostStep, Device

LEMMA SessionStutter ==
  ASSUME SessionInv, UNCHANGED vars
  PROVE  SessionInv'
  BY DEF vars, SessionInv, TypeOK, Single, Requested, BetweenTransactions, Running, Phased, Answered, Own,
       Turn, OutcomesTruthful, NothingAfterFault, SessionAgreement

LEMMA SessionSafe == SessionInv => TransactionsApart /\ AnswersAreTrue
  <1> SUFFICES ASSUME SessionInv
               PROVE  TransactionsApart /\ AnswersAreTrue
    OBVIOUS
  <1>1. NoOverlap
    BY DEF SessionInv, Phased, NoOverlap
  <1>2. CleanStart
    <2> SUFFICES ASSUME noise = 0, NEW c \in current, c.phase = "command", wire # <<>>
                 PROVE  FALSE
      BY DEF CleanStart
    <2>1. 1 \in DOMAIN wire
      BY TailIs DEF SessionInv, TypeOK
    <2> QED
      BY <2>1 DEF SessionInv, Phased, Requested
  <1> QED
    BY <1>1, <1>2 DEF SessionInv, TransactionsApart, AnswersAreTrue

-----------------------------------------------------------------------------
(***************************************************************************)
(* The operations of a connected Kindle.                                   *)
(***************************************************************************)

\* A running body has the device to itself, what it writes belongs to an
\* operation that writes, and a gated operation has passed its gate.
KindleInv ==
  /\ kindleOp \in Kindle!Kinds \cup {"none"}
  /\ kindleStep \in Kindle!Steps
  /\ kindleOp = "none" <=> kindleStep = "idle"
  /\ Kindle!ReadsAlone
  /\ kindleStep \in {"uploading", "recording", "deleting", "looking again"} =>
       kindleOp \in Kindle!Gated \cup {"send once"}
  /\ kindleOp \in Kindle!Gated /\ kindleStep # "draining" => kindleProven

LEMMA KindleStart == Kindle!Init => KindleInv
  BY DEF Kindle!Init, KindleInv, Kindle!Kinds, Kindle!Steps, Kindle!ReadsAlone, Kindle!Gated

LEMMA KindleStep ==
  ASSUME KindleInv, Kindle!Next
  PROVE  KindleInv'
  <1> USE DEF KindleInv, Kindle!Kinds, Kindle!Steps, Kindle!ReadsAlone, Kindle!Gated
  <1>1. ASSUME NEW k \in Kindle!Kinds, Kindle!Enter(k), UNCHANGED kindleCover, kindleCover = "none"
        PROVE  KindleInv'
    BY <1>1 DEF Kindle!Enter, Kindle!FirstStep
  <1>2. ASSUME NEW k \in Kindle!Kinds, NEW b, Kindle!Begin(k, b)
        PROVE  KindleInv'
    <2>1. kindleOp = "none" /\ UNCHANGED kindleCover
      BY <1>2 DEF Kindle!Begin, Kindle!reading
    <2>2. CASE kindleCover = "none"
      BY <1>1, <1>2, <2>1, <2>2 DEF Kindle!Begin
    <2>3. CASE kindleCover # "none"
      BY <1>2, <2>1, <2>3 DEF Kindle!Begin
    <2> QED
      BY <2>2, <2>3
  <1>3. CASE Kindle!Drained
    <2>1. kindleOp \in Kindle!Kinds /\ kindleCover = "none" /\ UNCHANGED kindleCover
      BY <1>3 DEF Kindle!Drained, Kindle!reading
    <2>2. CASE Kindle!Enter(kindleOp)
      BY <1>1, <2>1, <2>2
    <2>3. CASE kindleOp' = "none" /\ kindleStep' = "idle"
      BY <2>1, <2>3
    <2> QED
      BY <1>3, <2>2, <2>3 DEF Kindle!Drained
  <1>4. CASE Kindle!SelfTestPasses
    BY <1>4 DEF Kindle!SelfTestPasses, Kindle!Return, Kindle!GoOn, Kindle!reading
  <1>5. CASE Kindle!Look
    BY <1>5 DEF Kindle!Look, Kindle!Return, Kindle!Throw, Kindle!GoOn, Kindle!reading
  <1>6. ASSUME NEW b \in Books, Kindle!Upload(b)
        PROVE  KindleInv'
    BY <1>6 DEF Kindle!Upload, Kindle!Return, Kindle!GoOn, Kindle!reading
  <1>7. CASE Kindle!Record
    BY <1>7 DEF Kindle!Record, Kindle!GoOn, Kindle!reading, Kindle!known
  <1>8. ASSUME NEW b \in Books, Kindle!Delete(b)
        PROVE  KindleInv'
    BY <1>8 DEF Kindle!Delete, Kindle!GoOn, Kindle!reading
  <1>9. CASE Kindle!LookAgain
    BY <1>9 DEF Kindle!LookAgain, Kindle!Return, Kindle!Throw, Kindle!reading
  <1>10. CASE Kindle!CallFails
    BY <1>10 DEF Kindle!CallFails, Kindle!Return, Kindle!Throw, Kindle!GoOn, Kindle!reading
  <1>11. ASSUME NEW b \in Books, Kindle!StartCover(b)
         PROVE  KindleInv'
    BY <1>11 DEF Kindle!StartCover, Kindle!running, Kindle!known
  <1>12. CASE Kindle!CheckCover \/ Kindle!ReadCover \/ Kindle!RecheckCover
    BY <1>12 DEF Kindle!CheckCover, Kindle!ReadCover, Kindle!RecheckCover, Kindle!EndCover,
       Kindle!running, Kindle!known
  <1>13. CASE Kindle!CoverFails
    BY <1>13 DEF Kindle!CoverFails, Kindle!EndCover, Kindle!known
  <1>14. CASE Kindle!Disconnect \/ Kindle!Unplug \/ Kindle!Close
    BY <1>14 DEF Kindle!Disconnect, Kindle!Unplug, Kindle!Close, Kindle!CloseSession,
       Kindle!CloseTransport, Kindle!running, Kindle!known, Kindle!reading
  <1> QED
    BY <1>2, <1>3, <1>4, <1>5, <1>6, <1>7, <1>8, <1>9, <1>10, <1>11, <1>12, <1>13, <1>14
       DEF Kindle!Next, Kindle!Body, Kindle!Cover

LEMMA KindleStutter ==
  ASSUME KindleInv, UNCHANGED kindleVars
  PROVE  KindleInv'
  BY DEF KindleInv, kindleVars, Kindle!ReadsAlone

\* Only an upload, a deletion and a failing call change the books.
LEMMA WritesProven ==
  ASSUME KindleInv, Kindle!Next, kindleBooks' # kindleBooks
  PROVE  kindleOp = "send once" \/ kindleProven
  <1> USE DEF KindleInv, Kindle!Gated
  <1>1. kindleStep \in {"uploading", "deleting"}
    <2>1. CASE Kindle!CallFails
      BY <2>1 DEF Kindle!CallFails, Kindle!FailureEffects
    <2>2. ASSUME NEW b \in Books, Kindle!Upload(b) \/ Kindle!Delete(b)
          PROVE  kindleStep \in {"uploading", "deleting"}
      BY <2>2 DEF Kindle!Upload, Kindle!Delete
    <2> QED
      BY <2>1, <2>2 DEF Kindle!Next, Kindle!Begin, Kindle!Drained, Kindle!Body, Kindle!SelfTestPasses,
         Kindle!Look, Kindle!Record, Kindle!LookAgain, Kindle!StartCover, Kindle!Cover, Kindle!CheckCover,
         Kindle!ReadCover, Kindle!RecheckCover, Kindle!CoverFails, Kindle!Disconnect, Kindle!Unplug,
         Kindle!Close, Kindle!CloseSession, Kindle!CloseTransport, Kindle!usb
  <1> QED
    BY <1>1

\* A cover is returned only by the recheck, which has just seen its book, and
\* only CloseSession closes the session, when no cover is read.
LEMMA CoversBeside ==
  ASSUME Kindle!Next
  PROVE  /\ kindleCover # "none" /\ kindleCover' = "none" /\ kindleReturned' # NoBook =>
              kindleReturned' \in kindleBooks
         /\ kindleSession = "open" /\ kindleSession' = "closed" => kindleCover = "none"
  <1>1. CASE Kindle!CheckCover \/ Kindle!RecheckCover \/ Kindle!CoverFails
    BY <1>1 DEF Kindle!CheckCover, Kindle!RecheckCover, Kindle!CoverFails, Kindle!EndCover,
       Kindle!Revalidated, Kindle!usb
  <1>2. CASE Kindle!CloseSession
    BY <1>2 DEF Kindle!CloseSession, Kindle!reading
  <1>3. CASE Kindle!Body
    <2>1. UNCHANGED kindleCover /\ kindleSession' \in {kindleSession, "faulted"}
      BY <1>3 DEF Kindle!Body, Kindle!SelfTestPasses, Kindle!Look, Kindle!Record, Kindle!LookAgain,
         Kindle!CallFails, Kindle!Upload, Kindle!Delete, Kindle!usb, Kindle!reading
    <2> QED
      BY <2>1
  <1>4. ASSUME NEW k \in Kindle!Kinds, NEW b \in Books \cup {NoBook}, Kindle!Begin(k, b)
        PROVE  UNCHANGED <<kindleCover, kindleSession>>
    BY <1>4 DEF Kindle!Begin, Kindle!usb, Kindle!reading
  <1>5. CASE \/ Kindle!Drained \/ Kindle!ReadCover \/ Kindle!Disconnect \/ Kindle!Unplug \/ Kindle!CloseTransport
             \/ \E b \in Books : Kindle!StartCover(b)
    BY <1>5 DEF Kindle!Drained, Kindle!StartCover, Kindle!ReadCover, Kindle!Disconnect, Kindle!Unplug,
       Kindle!CloseTransport, Kindle!usb, Kindle!reading
  <1> QED
    BY <1>1, <1>2, <1>3, <1>4, <1>5 DEF Kindle!Next, Kindle!Cover, Kindle!Close
-----------------------------------------------------------------------------
(***************************************************************************)
(* The pool of workers.                                                    *)
(***************************************************************************)

\* A worker in the pool works on the task of its slot and on no other, and has
\* not answered it already.
PoolUnits(s, h, b, r) ==
  \A w \in s, t \in Tasks :
    /\ t \in b[w] \/ <<w, t>> \in r => h[w] = t
    /\ ~(t \in b[w] /\ <<w, t>> \in r)

PoolInv == Pool!TypeOK /\ PoolUnits(poolSlots, poolHeld, poolInbox, poolReplies)

LEMMA PoolStart == Pool!Init => PoolInv
  <1> SUFFICES ASSUME Pool!Init
               PROVE  PoolInv
    OBVIOUS
  <1>1. Pool!TypeOK
    <2>1. poolQueue \in Seq(Tasks) /\ poolSlots \subseteq Workers
      BY DEF Pool!Init
    <2>2. poolHeld \in [Workers -> Tasks \cup {NoBook}] /\ \A w \in Workers \ poolSlots : poolHeld[w] = NoBook
      BY DEF Pool!Init
    <2>3. poolAlive \subseteq Workers /\ poolInbox \in [Workers -> SUBSET Tasks]
      BY DEF Pool!Init
    <2>4. poolReplies \subseteq Workers \X Tasks
      BY DEF Pool!Init
    <2>5. poolOutcome \in [Tasks -> {"new", "waiting"} \cup Pool!Settled]
      BY DEF Pool!Init
    <2> QED
      BY <2>1, <2>2, <2>3, <2>4, <2>5 DEF Pool!Init, Pool!TypeOK
  <1>2. PoolUnits(poolSlots, poolHeld, poolInbox, poolReplies)
    BY DEF Pool!Init, PoolUnits
  <1> QED
    BY <1>1, <1>2 DEF PoolInv

LEMMA PoolDispatch ==
  ASSUME NEW q \in Seq(Tasks), NEW s \in SUBSET Workers,
         NEW h \in [Workers -> Tasks \cup {NoBook}],
         \A w \in Workers \ s : h[w] = NoBook,
         NEW r \in SUBSET poolReplies,
         poolAlive \subseteq Workers,
         poolInbox \in [Workers -> SUBSET Tasks],
         PoolUnits(s, h, poolInbox, r),
         Pool!Dispatch(q, s, h)
  PROVE  /\ poolQueue' \in Seq(Tasks)
         /\ poolSlots' \subseteq Workers
         /\ poolHeld' \in [Workers -> Tasks \cup {NoBook}]
         /\ \A w \in Workers \ poolSlots' : poolHeld'[w] = NoBook
         /\ poolAlive' \subseteq Workers
         /\ poolInbox' \in [Workers -> SUBSET Tasks]
         /\ PoolUnits(poolSlots', poolHeld', poolInbox', r)
  <1> USE NothingIsApart
  <1>1. CASE poolQueue' = q /\ poolSlots' = s /\ poolHeld' = h
              /\ poolAlive' = poolAlive /\ poolInbox' = poolInbox
    BY <1>1
  <1>2. CASE /\ q # << >>
             /\ \E w \in s : h[w] = NoBook /\ Pool!Post(w, Head(q), h, poolInbox)
             /\ poolQueue' = Tail(q)
             /\ poolSlots' = s
             /\ poolAlive' = poolAlive
    <2>1. Head(q) \in Tasks /\ Tail(q) \in Seq(Tasks)
      BY <1>2
    <2> QED
      BY <1>2, <2>1 DEF Pool!Post, PoolUnits
  <1>3. CASE /\ q # << >>
             /\ poolQueue' = Tail(q)
             /\ \E w \in Workers :
                  /\ Pool!Fresh(w)
                  /\ poolSlots' = s \cup {w}
                  /\ poolAlive' = poolAlive \cup {w}
                  /\ Pool!Post(w, Head(q), h, poolInbox)
    <2>1. Head(q) \in Tasks /\ Tail(q) \in Seq(Tasks)
      BY <1>3
    <2> QED
      BY <1>3, <2>1 DEF Pool!Post, Pool!Fresh, PoolUnits
  <1> QED
    BY <1>1, <1>2, <1>3 DEF Pool!Dispatch

LEMMA PoolStep ==
  ASSUME PoolInv, Pool!Next
  PROVE  PoolInv'
  <1> USE NothingIsApart
  <1> USE DEF PoolInv, Pool!TypeOK
  <1>1. ASSUME NEW t \in Tasks, Pool!Extract(t)
        PROVE  PoolInv'
    <2>1. Append(poolQueue, t) \in Seq(Tasks)
      OBVIOUS
    <2>2. Pool!Dispatch(Append(poolQueue, t), poolSlots, poolHeld)
      BY <1>1 DEF Pool!Extract
    <2>3. poolReplies' = poolReplies /\ poolClosed' \in BOOLEAN
          /\ poolOutcome' \in [Tasks -> {"new", "waiting"} \cup Pool!Settled]
      BY <1>1 DEF Pool!Extract
    <2> QED
      BY <2>1, <2>2, <2>3, PoolDispatch
  <1>2. ASSUME NEW t \in Tasks, Pool!ExtractClosed(t)
        PROVE  PoolInv'
    BY <1>2 DEF Pool!ExtractClosed, Pool!Settled
  <1>3. ASSUME NEW w \in Workers, NEW t \in Tasks, Pool!Answer(w, t)
        PROVE  PoolInv'
    <2>1. Pool!TypeOK'
      BY <1>3 DEF Pool!Answer
    <2>2. PoolUnits(poolSlots, poolHeld, poolInbox, poolReplies)'
      BY <1>3 DEF Pool!Answer, PoolUnits
    <2> QED
      BY <2>1, <2>2
  <1>4. ASSUME NEW w \in Workers, NEW t \in Tasks, Pool!Complete(w, t)
        PROVE  PoolInv'
    <2> DEFINE r == poolReplies \ {<<w, t>>}
    <2>1. poolReplies' = r /\ poolClosed' \in BOOLEAN
      BY <1>4 DEF Pool!Complete
    <2>2. CASE poolHeld[w] = t
      <3> DEFINE h == [poolHeld EXCEPT ![w] = NoBook]
      <3>1. Pool!Dispatch(poolQueue, poolSlots, h)
        BY <1>4, <2>2 DEF Pool!Complete
      <3>2. PoolUnits(poolSlots, h, poolInbox, r)
        BY <1>4 DEF Pool!Complete, PoolUnits
      <3>3. h \in [Workers -> Tasks \cup {NoBook}] /\ \A u \in Workers \ poolSlots : h[u] = NoBook
        OBVIOUS
      <3>4. poolOutcome' \in [Tasks -> {"new", "waiting"} \cup Pool!Settled]
        BY <1>4, <2>2 DEF Pool!Complete, Pool!Settled
      <3>5. r \in SUBSET poolReplies /\ r \subseteq Workers \X Tasks
        OBVIOUS
      <3> HIDE DEF h, r
      <3> QED
        BY <2>1, <3>1, <3>2, <3>3, <3>4, <3>5, PoolDispatch
    <2>3. CASE poolHeld[w] # t
      BY <1>4, <2>1, <2>3 DEF Pool!Complete, PoolUnits
    <2> QED
      BY <2>2, <2>3
  <1>5. ASSUME NEW w \in Workers, Pool!ThreadEnds(w)
        PROVE  PoolInv'
    BY <1>5 DEF Pool!ThreadEnds, PoolUnits
  <1>6. ASSUME NEW w \in Workers, Pool!Timeout(w) \/ Pool!FailSlot(w)
        PROVE  PoolInv'
    <2> DEFINE h == [poolHeld EXCEPT ![w] = NoBook]
               s == poolSlots \ {w}
    <2>1. Pool!Dispatch(poolQueue, s, h)
      BY <1>6 DEF Pool!Timeout, Pool!FailSlot
    <2>2. PoolUnits(s, h, poolInbox, poolReplies)
      BY DEF PoolUnits
    <2>3. h \in [Workers -> Tasks \cup {NoBook}] /\ \A u \in Workers \ s : h[u] = NoBook
      OBVIOUS
    <2>4. poolOutcome' \in [Tasks -> {"new", "waiting"} \cup Pool!Settled]
      BY <1>6 DEF Pool!Timeout, Pool!FailSlot, Pool!Settled
    <2>5. poolReplies' = poolReplies /\ poolClosed' \in BOOLEAN
      BY <1>6 DEF Pool!Timeout, Pool!FailSlot
    <2> HIDE DEF h
    <2> QED
      BY <2>1, <2>2, <2>3, <2>4, <2>5, PoolDispatch
  <1>7. CASE Pool!Close
    <2>1. poolOutcome' \in [Tasks -> {"new", "waiting"} \cup Pool!Settled]
      BY <1>7 DEF Pool!Close, Pool!Settled
    <2>2. poolQueue' \in Seq(Tasks) /\ poolSlots' = {} /\ poolClosed' \in BOOLEAN
      BY <1>7 DEF Pool!Close
    <2>3. UNCHANGED <<poolAlive, poolInbox, poolReplies>>
      BY <1>7 DEF Pool!Close
    <2>4. poolHeld' = [w \in Workers |-> NoBook]
      BY <1>7 DEF Pool!Close
    <2> QED
      BY <2>1, <2>2, <2>3, <2>4 DEF PoolUnits
  <1> QED
    BY <1>1, <1>2, <1>3, <1>4, <1>5, <1>6, <1>7 DEF Pool!Next

LEMMA PoolStutter ==
  ASSUME PoolInv, UNCHANGED poolVars
  PROVE  PoolInv'
  BY DEF poolVars, PoolInv, Pool!TypeOK, PoolUnits

-----------------------------------------------------------------------------
(***************************************************************************)
(* The theorems.                                                           *)
(***************************************************************************)

\* A step of the composition is a step of one part and stutters in the others.
LEMMA StepOfAPart ==
  ASSUME [PartsNext]_allVars
  PROVE  /\ Next \/ UNCHANGED vars
         /\ Kindle!Next \/ UNCHANGED kindleVars
         /\ Pool!Next \/ UNCHANGED poolVars
  BY DEF PartsNext, allVars, sessionVars, vars

LEMMA SessionAlways == PartsSpec => []SessionInv
  <1>1. PartsInit => SessionInv
    BY SessionStart DEF PartsInit
  <1>2. SessionInv /\ [PartsNext]_allVars => SessionInv'
    BY SessionStep, SessionStutter, StepOfAPart
  <1> QED
    BY <1>1, <1>2, PTL DEF PartsSpec

LEMMA KindleAlways == PartsSpec => []KindleInv
  <1>1. PartsInit => KindleInv
    BY KindleStart DEF PartsInit
  <1>2. KindleInv /\ [PartsNext]_allVars => KindleInv'
    BY KindleStep, KindleStutter, StepOfAPart
  <1> QED
    BY <1>1, <1>2, PTL DEF PartsSpec

\* No answer of an earlier, failed or aborted transaction reaches a later one,
\* and nothing is carried out after a transaction that ended in doubt
\* (mtp/session.ts).
THEOREM TransactionsStayApart == PartsSpec => []TransactionsApart
  <1>1. SessionInv => TransactionsApart
    BY SessionSafe
  <1> QED
    BY <1>1, SessionAlways, PTL

\* The session is open at the device when the host takes it for open, and a
\* caller is told the truth about its request (mtp/session.ts).
THEOREM AnswersStayTrue == PartsSpec => []AnswersAreTrue
  <1>1. SessionInv => AnswersAreTrue
    BY SessionSafe
  <1> QED
    BY <1>1, SessionAlways, PTL

\* What a request is told is what the device did, and the device has been asked
\* for nothing else (mtp/session.ts).
THEOREM SessionStaysTrue == PartsSpec => []SessionIsTrue
  BY TransactionsStayApart, AnswersStayTrue, PTL DEF SessionIsTrue

\* Cover reads and the bodies of operations exclude each other
\* (device-runtime.ts #runExclusive).
THEOREM CoversReadOnTheirOwn == PartsSpec => []CoversReadAlone
  <1>1. KindleInv => CoversReadAlone
    BY DEF KindleInv, CoversReadAlone
  <1> QED
    BY <1>1, KindleAlways, PTL

\* A cover that is returned is of a book on the Kindle, and CloseSession waits
\* for the read (device-runtime.ts readBookCover, disconnect).
THEOREM CoversKeepBeside == PartsSpec => CoversStayBeside
  <1>1. [PartsNext]_allVars =>
          /\ [kindleCover # "none" /\ kindleCover' = "none" /\ kindleReturned' # NoBook =>
                kindleReturned' \in kindleBooks]_(Kindle!vars)
          /\ [kindleSession = "open" /\ kindleSession' = "closed" => kindleCover = "none"]_(Kindle!vars)
    BY CoversBeside, StepOfAPart DEF kindleVars, Kindle!vars
  <1> QED
    BY <1>1, PTL DEF PartsSpec, CoversStayBeside, Kindle!CoversAreLive, Kindle!SessionClosesQuietly

\* An operation that needs the self-test writes only after it has passed in
\* this connection (device-runtime.ts #requireSafeWrite).
THEOREM WritesStayProven == PartsSpec => ProvenWrites
  <1>1. KindleInv /\ [PartsNext]_allVars =>
          [kindleBooks' # kindleBooks => kindleOp = "send once" \/ kindleProven]_(Kindle!vars)
    BY WritesProven, StepOfAPart DEF kindleVars, Kindle!vars
  <1> QED
    BY <1>1, KindleAlways, PTL DEF PartsSpec, ProvenWrites, Kindle!ProvenWrites

\* A cover that is returned is of a book that is on the Kindle at that moment, the
\* session is not closed while a cover is read, and the books of the Kindle change
\* only by the one-off send or when the last self-test of this connection has passed
\* (device-runtime.ts readBookCover, disconnect, #requireSafeWrite).
THEOREM OperationsStayOrderly == PartsSpec => OperationsAreOrderly
  BY CoversKeepBeside, WritesStayProven DEF OperationsAreOrderly

\* No book is handed to a worker that has something else to do, and no late
\* answer meets a later task (metadata-worker-pool.ts).
THEOREM FreeSlotsStayIdle == PartsSpec => []FreeSlotsAreIdle
  <1>1. PartsInit => PoolInv
    BY PoolStart DEF PartsInit
  <1>2. PoolInv /\ [PartsNext]_allVars => PoolInv'
    BY PoolStep, PoolStutter, StepOfAPart
  <1>3. PoolInv => FreeSlotsAreIdle
    BY NothingIsApart DEF PoolInv, PoolUnits, FreeSlotsAreIdle, Pool!FreeSlotsAreIdle, Pool!TypeOK
  <1> QED
    BY <1>1, <1>2, <1>3, PTL DEF PartsSpec
=============================================================================
