-------------------------- MODULE MCKindleSession ---------------------------
(***************************************************************************)
(* What must eventually happen below and above a connection: the MTP       *)
(* session, the lease of the device, the operations of a connected Kindle, *)
(* and the pool of metadata workers, in one run.  Each has its own         *)
(* abstraction of the others, so they share no state here: a behaviour is  *)
(* one of a single component, chosen at the start and named by part.       *)
(***************************************************************************)
EXTENDS MtpSession

CONSTANTS
  Books, NoBook, Tabs, MaxAttempts, Tasks, Workers, PoolSize

\* NoBook stands for no book, no tab and no task.
ASSUME NothingIsApart == NoBook \notin Books \cup Tabs \cup Tasks

VARIABLES
  part,  \* the component this behaviour is of
  leaseLock, leasePc, leaseAborted, leaseAttempts, leaseAttempt, leaseHanded, leaseNative,
  leaseAwaiting, leaseOpened, leaseClaimed, leaseClosed, leaseGone, leaseSessionOpen, leaseCloser,
  leaseQuiescing,
  kindleBooks, kindleSession, kindleClosing, kindleOp, kindleStep, kindleTarget, kindleChanged,
  kindleProven, kindleInventory, kindleEligible, kindleCover, kindleCoverBook, kindleReturned,
  poolQueue, poolSlots, poolHeld, poolAlive, poolInbox, poolReplies, poolOutcome, poolClosed

Lease == INSTANCE DeviceLease WITH
  Tabs <- Tabs, NoTab <- NoBook, MaxAttempts <- MaxAttempts, lock <- leaseLock, pc <- leasePc,
  aborted <- leaseAborted, attempts <- leaseAttempts, attempt <- leaseAttempt,
  handed <- leaseHanded, native <- leaseNative, awaiting <- leaseAwaiting, opened <- leaseOpened,
  claimed <- leaseClaimed, closed <- leaseClosed, gone <- leaseGone,
  sessionOpen <- leaseSessionOpen, closer <- leaseCloser, quiescing <- leaseQuiescing

Kindle == INSTANCE ConnectedKindle WITH
  Books <- Books, NoBook <- NoBook, books <- kindleBooks, session <- kindleSession,
  closing <- kindleClosing, op <- kindleOp, step <- kindleStep, target <- kindleTarget,
  changed <- kindleChanged, proven <- kindleProven, inventory <- kindleInventory,
  eligible <- kindleEligible, cover <- kindleCover, coverBook <- kindleCoverBook,
  returned <- kindleReturned

Pool == INSTANCE MetadataPool WITH
  Tasks <- Tasks, Workers <- Workers, Size <- PoolSize, None <- NoBook, queue <- poolQueue,
  slots <- poolSlots, held <- poolHeld, alive <- poolAlive, inbox <- poolInbox,
  replies <- poolReplies, outcome <- poolOutcome, closed <- poolClosed

sessionVars == <<state, nextTid, queue, current, settled, device, devOpen, wire, noise, executed>>
leaseVars == <<leaseLock, leasePc, leaseAborted, leaseAttempts, leaseAttempt, leaseHanded, leaseNative,
    leaseAwaiting, leaseOpened, leaseClaimed, leaseClosed, leaseGone, leaseSessionOpen,
    leaseCloser, leaseQuiescing>>
kindleVars == <<kindleBooks, kindleSession, kindleClosing, kindleOp, kindleStep, kindleTarget, kindleChanged,
    kindleProven, kindleInventory, kindleEligible, kindleCover, kindleCoverBook, kindleReturned>>
poolVars == <<poolQueue, poolSlots, poolHeld, poolAlive, poolInbox, poolReplies, poolOutcome, poolClosed>>
allVars == <<part, sessionVars, leaseVars, kindleVars, poolVars>>

PartsInit ==
  /\ part \in {"session", "lease", "kindle", "pool"}
  /\ Init
  /\ Lease!Init
  /\ Kindle!Init
  /\ Pool!Init
  /\ part # "kindle" => kindleBooks = {}

PartsNext ==
  \/ /\ part = "session" /\ Next
     /\ UNCHANGED <<part, leaseVars, kindleVars, poolVars>>
  \/ /\ part = "lease" /\ Lease!Next
     /\ UNCHANGED <<part, sessionVars, kindleVars, poolVars>>
  \/ /\ part = "kindle" /\ Kindle!Next
     /\ UNCHANGED <<part, sessionVars, leaseVars, poolVars>>
  \/ /\ part = "pool" /\ Pool!Next
     /\ UNCHANGED <<part, sessionVars, leaseVars, kindleVars>>

PartsSpec == PartsInit /\ [][PartsNext]_allVars

\* The fairness of each component, as its own specification states it, for the
\* behaviours that are of that component
PartsFairSpec ==
  /\ PartsSpec
  /\ WF_sessionVars(part = "session" /\ HostStep)
  /\ WF_kindleVars(part = "kindle" /\ Kindle!Drained)
  /\ WF_kindleVars(part = "kindle" /\ Kindle!Body)
  /\ WF_kindleVars(part = "kindle" /\ Kindle!Cover)
  /\ WF_kindleVars(part = "kindle" /\ Kindle!Close)
  /\ \A t \in Tabs :
       /\ WF_leaseVars(part = "lease" /\ Lease!Control(t))
       /\ WF_leaseVars(part = "lease" /\ Lease!Quiesced(t))
       /\ WF_leaseVars(part = "lease" /\ Lease!LateSettle(t))
  /\ \A w \in Workers : WF_poolVars(part = "pool" /\ Pool!Timeout(w))

-----------------------------------------------------------------------------

\* The exact check and the retrieval of a cover never share the session
\* with the body of an operation (device-runtime.ts #runExclusive).
CoversReadAlone == Kindle!ReadsAlone

\* What a cover read returns is a cover of a book that is on the Kindle,
\* and its answer is drained before CloseSession (device-runtime.ts
\* readBookCover, disconnect).
CoversStayBeside == Kindle!CoversAreLive /\ Kindle!SessionClosesQuietly

\* A connection that ends, and an openKindle that is aborted without
\* completing, frees the lease if native calls settle (device-runtime.ts
\* openKindle, releaseLeaseAfterUsbQuiesces).
LeaseComesBack == part = "lease" => Lease!LeaseComesBack

\* Whatever an operation that needs the self-test does to the books, the
\* last self-test of this connection has passed (device-runtime.ts
\* #requireSafeWrite).
ProvenWrites == Kindle!ProvenWrites

\* An operation ends, also when it had to wait for a cover read or the
\* connection is closed under it, and a disconnect reaches the release of
\* the lease, whatever was running (device-runtime.ts #runExclusive,
\* disconnect).
OperationsEnd == part = "kindle" => Kindle!OperationsEnd /\ Kindle!DisconnectEnds

\* What a request is told is what the device did, and the device has been
\* asked for nothing else (mtp/session.ts).
SessionIsTrue == TransactionsApart /\ AnswersAreTrue

\* A slot of the worker pool that counts as free has a worker with nothing
\* to do and nothing on its way, so no book waits behind a parser that was
\* given up and no late answer meets a later task (metadata-worker-
\* pool.ts:180-214).
FreeSlotsAreIdle == Pool!FreeSlotsAreIdle

\* What cover reads and operations promise across their awaits: a cover that
\* is returned is of a book that is still on the Kindle, CloseSession is not
\* sent beside a read, and books change only on the proof of this connection
\* or by the one-off send (device-runtime.ts readBookCover, #requireSafeWrite).
OperationsAreOrderly == CoversStayBeside /\ ProvenWrites

\* Every call of extract is settled, whatever parsers and threads do: the
\* indexer awaits it without a timer of its own.
EveryTaskSettles == part = "pool" => Pool!EveryTaskSettles

=============================================================================
