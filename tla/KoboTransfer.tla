---------------------------- MODULE KoboTransfer ----------------------------
(***************************************************************************)
(* Sending books to a Kobo, a mounted drive the page reaches through a     *)
(* directory handle (src/client/src/kobo/device.ts), and the comparison    *)
(* and send session on top of it (src/client/src/kobo/catalog-session.ts). *)
(*                                                                         *)
(* Several tabs of one browser share the drive, one exclusive Web Lock and *)
(* one recovery record in local storage.  A copy is written under a fresh  *)
(* name; the record is stored before the file is created and removed when  *)
(* the bytes were read back or the file was removed again.  A tab may die  *)
(* at any await; MaxCrashes, MaxFaults, MaxEdits and MaxFiles bound the    *)
(* crashes, the failing browser calls, the edits of the one book followed  *)
(* here and the files created.                                             *)
(***************************************************************************)
EXTENDS Naturals, FiniteSets

CONSTANTS Tabs, None, MaxFiles, MaxEdits, MaxFaults, MaxCrashes

VARIABLES
  edition,  \* the edition of the book the catalog serves now
  files,    \* ShelfSend's files on the drive: name -> [edition, state]
  seen,     \* names the user has been asked to inspect and has confirmed
  stored,   \* the recovery record in local storage: a name, or 0
  lock,     \* the tab that holds the Web Lock, or None
  tab,      \* tab -> the KoboDevice and KoboCatalogSession it runs
  faults,   \* failing browser calls left
  crashes   \* tabs that may still die

vars == <<edition, files, seen, stored, lock, tab, faults, crashes>>

Names == 1..MaxFiles
Editions == 1..(MaxEdits + 1)

\* await points of the session ("index" .. "recheck") and of KoboDevice.send
ReadPoints == {"index", "compare"}
LoadPoints == {"book", "source", "prepare", "rescan", "recheck"}
WritePoints == {"find", "name", "create", "own", "write", "close", "verify", "cleanup"}

NoTab ==
  [device |-> "none", point |-> "idle", wanted |-> FALSE, ready |-> FALSE,
   index |-> 0, status |-> "unknown", record |-> 0, unsure |-> FALSE,
   sending |-> 0, name |-> 0, owns |-> FALSE, aborted |-> FALSE, says |-> "nothing"]

Init ==
  /\ edition = 1
  /\ files = << >>
  /\ seen = {}
  /\ stored = 0
  /\ lock = None
  /\ tab = [t \in Tabs |-> NoTab]
  /\ faults = MaxFaults
  /\ crashes = MaxCrashes

Put(t, new) == tab' = [tab EXCEPT ![t] = new]
Go(t, next) == Put(t, [tab[t] EXCEPT !.point = next])

\* a browser call that is refused or throws
Fault == faults > 0 /\ faults' = faults - 1
NoFault == UNCHANGED faults

Loading(t) == tab[t].point \in LoadPoints
Sending(t) == tab[t].point \in WritePoints
Busy(t) == tab[t].point # "idle"
Recovery(t) == tab[t].record # 0 \/ tab[t].unsure

Copies(e) == {n \in DOMAIN files : files[n].edition = e}
Intact(n) == files[n].state = "full"
Without(n) == [m \in DOMAIN files \ {n} |-> files[m]]

-----------------------------------------------------------------------------
(* The connection: lock, then the durable record, then the session.         *)

\* KoboDevice.connect: the lock is asked for with ifAvailable, and the record
\* is read only by its holder.
Connect(t) ==
  /\ tab[t].device = "none"
  /\ ~Busy(t)
  /\ lock = None
  /\ lock' = t
  /\ Put(t, [tab[t] EXCEPT !.device = "open", !.record = stored, !.unsure = FALSE, !.wanted = TRUE,
                           !.ready = FALSE, !.status = "unknown", !.index = 0])
  /\ NoFault
  /\ UNCHANGED <<edition, files, seen, stored, crashes>>

\* AppController.disconnectKobo (only when not busy) and #closeKoboSession (a
\* page that is going away): abort the session, close the device, and keep
\* the lock while a write is under way.
Disconnect(t) ==
  /\ tab[t].device = "open"
  /\ Put(t, [tab[t] EXCEPT !.device = IF Sending(t) THEN "closed" ELSE "none",
                           !.aborted = Loading(t) \/ Sending(t), !.ready = FALSE, !.wanted = FALSE,
                           !.index = 0, !.status = "unknown",
                           !.point = IF tab[t].point \in ReadPoints THEN "idle" ELSE tab[t].point])
  /\ lock' = IF Sending(t) THEN lock ELSE None
  /\ NoFault
  /\ UNCHANGED <<edition, files, seen, stored, crashes>>

\* The timeout of a send or the user's cancel.
Cancel(t) ==
  /\ Loading(t) \/ Sending(t)
  /\ ~tab[t].aborted
  /\ Put(t, [tab[t] EXCEPT !.aborted = TRUE])
  /\ NoFault
  /\ UNCHANGED <<edition, files, seen, stored, lock, crashes>>

\* KoboDevice.#validate outside cleanup: open, not aborted, same drive.
Valid(t) == tab[t].device = "open" /\ ~tab[t].aborted

-----------------------------------------------------------------------------
(* Comparing the library with the drive.                                    *)

\* KoboCatalogSession.refresh: a request while busy is remembered.
Refresh(t) ==
  /\ tab[t].device = "open"
  /\ ~tab[t].wanted
  /\ Put(t, [tab[t] EXCEPT !.wanted = TRUE])
  /\ NoFault
  /\ UNCHANGED <<edition, files, seen, stored, lock, crashes>>

\* The loop of refresh, also entered from the end of send.
RefreshBegins(t) ==
  /\ tab[t].device = "open"
  /\ tab[t].wanted
  /\ ~Busy(t)
  /\ Put(t, [tab[t] EXCEPT !.wanted = FALSE, !.ready = FALSE, !.point = "index",
                           !.says = "nothing"])
  /\ NoFault
  /\ UNCHANGED <<edition, files, seen, stored, lock, crashes>>

\* #refresh: getMatchIndex.
ReadIndex(t) ==
  /\ tab[t].point = "index"
  /\ \/ NoFault /\ Put(t, [tab[t] EXCEPT !.point = "compare", !.sending = edition])
     \/ Fault /\ Go(t, "idle")
  /\ UNCHANGED <<edition, files, seen, stored, lock, crashes>>

\* The verdict of #refresh for the book: one managed copy whose bytes match
\* its name confirms it, several or a damaged one leave it unknown.
Verdict(e) ==
  CASE Copies(e) = {} -> "absent"
    [] Cardinality(Copies(e)) = 1 /\ \A n \in Copies(e) : Intact(n) -> "confirmed"
    [] OTHER -> "unknown"

\* #refresh: scan, verifyEntry, and the new snapshot.
Compare(t) ==
  /\ tab[t].point = "compare"
  /\ \/ /\ NoFault
        /\ Put(t, [tab[t] EXCEPT !.point = "idle", !.ready = TRUE, !.sending = 0,
                                 !.index = tab[t].sending, !.status = Verdict(tab[t].sending)])
     \/ Fault /\ Put(t, [tab[t] EXCEPT !.point = "idle", !.sending = 0])
  /\ UNCHANGED <<edition, files, seen, stored, lock, crashes>>

-----------------------------------------------------------------------------
(* Sending: the session's part.                                             *)

\* KoboCatalogSession.send, its guards.  The page offers the edition that was
\* compared; anything else is refused there.
Send(t) ==
  /\ tab[t].device = "open"
  /\ ~Busy(t)
  /\ tab[t].ready
  /\ ~Recovery(t)
  /\ tab[t].status \in {"absent", "confirmed"}
  /\ Put(t, [tab[t] EXCEPT !.point = "book", !.sending = tab[t].index, !.name = 0, !.owns = FALSE,
                           !.aborted = FALSE, !.says = "nothing"])
  /\ NoFault
  /\ UNCHANGED <<edition, files, seen, stored, lock, crashes>>

\* What the page is told when a send ends without a copy.
Regret(t) == IF tab[t].aborted /\ ~Recovery(t) THEN "cancelled" ELSE "failed"

\* The catch of KoboCatalogSession.send before the device took over.
GiveUp(t) ==
  Put(t, [tab[t] EXCEPT !.point = "idle", !.sending = 0, !.aborted = FALSE, !.says = Regret(t),
                        !.ready = tab[t].ready /\ ~Recovery(t)])

StillCompared(t) == edition = tab[t].sending

\* One awaited read of the session: #assertBook, the source with its ETag, the
\* artifact prepared from it, #assertBook again.
SessionStep(t, here, next, accepts) ==
  /\ tab[t].point = here
  /\ IF tab[t].aborted \/ ~accepts
     THEN NoFault /\ GiveUp(t)
     ELSE \/ NoFault /\ Go(t, next)
          \/ Fault /\ GiveUp(t)
  /\ UNCHANGED <<edition, files, seen, stored, lock, crashes>>

ReadBook(t) == SessionStep(t, "book", "source", StillCompared(t))
ReadSource(t) == SessionStep(t, "source", "prepare", StillCompared(t))
Prepare(t) == SessionStep(t, "prepare", "rescan", TRUE)
ReadBookAgain(t) == SessionStep(t, "recheck", "find", StillCompared(t))

\* The second scan of the drive, which refuses several copies.
ScanAgain(t) == SessionStep(t, "rescan", "recheck", Cardinality(Copies(tab[t].sending)) <= 1)

-----------------------------------------------------------------------------
(* KoboDevice.send.                                                         *)

\* The end of KoboDevice.send and of the session's send: the lock of a closed
\* device is released.
Finish(t, new) ==
  /\ lock' = IF tab[t].device = "closed" THEN None ELSE lock
  /\ Put(t, [new EXCEPT !.point = "idle", !.name = 0, !.owns = FALSE, !.sending = 0,
                         !.aborted = FALSE,
                         !.device = IF tab[t].device = "closed" THEN "none" ELSE tab[t].device])

\* Mutant: an aborted send is always reported as cancelled.
FailedByAbort(t, record, unsure) ==
  Finish(t, [tab[t] EXCEPT !.record = record, !.unsure = unsure,
                           !.says = IF tab[t].aborted THEN "cancelled" ELSE "failed",
                           !.ready = tab[t].ready /\ record = 0 /\ ~unsure /\ tab[t].device = "open"])

\* The catch of KoboDevice.send and of the session's send.
Failed(t, record, unsure) ==
  Finish(t, [tab[t] EXCEPT !.record = record, !.unsure = unsure,
                           !.says = IF tab[t].aborted /\ record = 0 /\ ~unsure THEN "cancelled" ELSE "failed",
                           !.ready = tab[t].ready /\ record = 0 /\ ~unsure /\ tab[t].device = "open"])

Succeeded(t) ==
  Finish(t, [tab[t] EXCEPT !.record = 0, !.status = "confirmed", !.says = "complete"])

\* Mutant: the comparison of the session is trusted instead of find.
FindCopySkipped(t) ==
  /\ tab[t].point = "find"
  /\ Go(t, "name")
  /\ NoFault
  /\ UNCHANGED <<edition, files, seen, stored, lock, crashes>>

\* find and verifyEntry of the identity about to be sent.
FindCopy(t) ==
  /\ tab[t].point = "find"
  /\ LET verdict == Verdict(tab[t].sending) IN
     \/ ~Valid(t) /\ NoFault /\ Failed(t, tab[t].record, tab[t].unsure)
     \/ Fault /\ Failed(t, tab[t].record, tab[t].unsure)
     \/ /\ Valid(t)
        /\ NoFault
        /\ CASE verdict = "unknown" -> Failed(t, tab[t].record, tab[t].unsure)
             [] verdict = "confirmed" -> Succeeded(t)
             [] verdict = "absent" -> Go(t, "name") /\ UNCHANGED lock
  /\ UNCHANGED <<edition, files, seen, stored, crashes>>

\* Random names never meet; one fresh one stands for all of them.
Fresh == Names \ (DOMAIN files \cup seen \cup {stored})
NewName == CHOOSE n \in Fresh : TRUE

\* #saveRecovery of a record: local storage may refuse, or keep it and throw.
Journal(t) ==
  /\ tab[t].point = "name"
  /\ Fresh # {}
  /\ LET n == NewName IN
     \/ /\ ~Valid(t)
        /\ NoFault
        /\ Failed(t, tab[t].record, tab[t].unsure)
        /\ UNCHANGED stored
     \/ /\ Valid(t)
        /\ NoFault
        /\ stored' = n
        /\ Put(t, [tab[t] EXCEPT !.point = "create", !.name = n, !.record = n])
        /\ UNCHANGED lock
     \/ /\ Valid(t)
        /\ Fault
        /\ stored' \in {stored, n}
        /\ Failed(t, tab[t].record, TRUE)
  /\ UNCHANGED <<edition, files, seen, crashes>>

\* getFileHandle with create: on failure the file may exist all the same.
Created(t) ==
  [n \in DOMAIN files \cup {tab[t].name} |->
     IF n = tab[t].name THEN [edition |-> tab[t].sending, state |-> "empty"] ELSE files[n]]

CreateFile(t) ==
  /\ tab[t].point = "create"
  /\ \/ NoFault /\ files' = Created(t) /\ Go(t, "own")
     \/ Fault /\ files' \in {files, Created(t)} /\ Go(t, "cleanup")
  /\ UNCHANGED <<edition, seen, stored, lock, crashes>>

\* The empty size and the same entry are checked, createWritable opened.
OwnFile(t) ==
  /\ tab[t].point = "own"
  /\ \/ Fault /\ \E checked \in BOOLEAN :
                    Put(t, [tab[t] EXCEPT !.point = "cleanup", !.owns = checked])
     \/ /\ NoFault
        /\ Put(t, [tab[t] EXCEPT !.owns = TRUE, !.point = IF Valid(t) THEN "write" ELSE "cleanup"])
  /\ UNCHANGED <<edition, files, seen, stored, lock, crashes>>

\* The chunks.  When abort of the writer fails too, the file is not owned any
\* more: a native writer might still complete it.
WriteChunks(t) ==
  /\ tab[t].point = "write"
  /\ IF Valid(t)
     THEN \/ NoFault /\ Go(t, "close")
          \/ Fault /\ \E aborts \in BOOLEAN :
                      Put(t, [tab[t] EXCEPT !.point = "cleanup", !.owns = aborts])
     ELSE \/ NoFault /\ Go(t, "cleanup")
          \/ Fault /\ Put(t, [tab[t] EXCEPT !.point = "cleanup", !.owns = FALSE])
  /\ UNCHANGED <<edition, files, seen, stored, lock, crashes>>

InState(n, state) == [files EXCEPT ![n].state = state]

\* writer.close: the bytes arrive whole, or the call fails and leaves anything.
CloseFile(t) ==
  /\ tab[t].point = "close"
  /\ \/ /\ NoFault
        /\ files' = InState(tab[t].name, "full")
        /\ Go(t, "verify")
     \/ /\ Fault
        /\ \E state \in {"empty", "part", "full"} : files' = InState(tab[t].name, state)
        /\ \E aborts \in BOOLEAN : Put(t, [tab[t] EXCEPT !.point = "cleanup", !.owns = aborts])
  /\ UNCHANGED <<edition, seen, stored, lock, crashes>>

\* The read-back and #saveRecovery([]): storage may throw although it cleared.
VerifyFile(t) ==
  /\ tab[t].point = "verify"
  /\ \/ /\ Valid(t)
        /\ NoFault
        /\ stored' = 0
        /\ Succeeded(t)
     \/ /\ Valid(t)
        /\ Fault
        /\ stored' \in {0, stored}
        /\ Put(t, [tab[t] EXCEPT !.point = "cleanup", !.unsure = TRUE])
        /\ UNCHANGED lock
     \/ /\ \/ ~Valid(t) /\ NoFault
           \/ Fault
        /\ Go(t, "cleanup")
        /\ UNCHANGED <<stored, lock>>
  /\ UNCHANGED <<edition, files, seen, crashes>>

\* Mutant: the record is removed even when the file could not be.
CleanUpForgets(t) ==
  /\ tab[t].point = "cleanup"
  /\ NoFault
  /\ files' = IF tab[t].owns THEN Without(tab[t].name) ELSE files
  /\ stored' = 0
  /\ Failed(t, 0, tab[t].unsure)
  /\ UNCHANGED <<edition, seen, crashes>>

\* #cleanup of the one file this send owns, then #saveRecovery([]).  A file
\* that is not owned, or whose removal cannot be confirmed, keeps its record.
CleanUp(t) ==
  /\ tab[t].point = "cleanup"
  /\ \/ /\ tab[t].owns
        /\ NoFault
        /\ files' = Without(tab[t].name)
        /\ stored' = 0
        /\ Failed(t, 0, tab[t].unsure)
     \/ /\ tab[t].owns
        /\ Fault
        /\ \/ /\ files' \in {files, Without(tab[t].name)}
              /\ UNCHANGED stored
              /\ Failed(t, tab[t].name, tab[t].unsure)
           \/ /\ files' = Without(tab[t].name)
              /\ stored' \in {0, stored}
              /\ Failed(t, tab[t].name, TRUE)
     \/ /\ ~tab[t].owns
        /\ NoFault
        /\ Failed(t, tab[t].name, tab[t].unsure)
        /\ UNCHANGED <<files, stored>>
  /\ UNCHANGED <<edition, seen, crashes>>

-----------------------------------------------------------------------------
(* The user, the library and the end of a tab.                              *)

\* The user inspects the folder, removes a damaged file the record names, and
\* confirms: KoboDevice.acknowledgeRecovery, then a refresh.
Acknowledge(t) ==
  /\ tab[t].device = "open"
  /\ ~Busy(t)
  /\ Recovery(t)
  /\ seen' = IF stored = 0 THEN seen ELSE seen \cup {stored}
  /\ \/ files' = [n \in {m \in DOMAIN files : Intact(m) \/ m # stored} |-> files[n]]
     \/ UNCHANGED files
  /\ \/ /\ NoFault
        /\ stored' = 0
        /\ Put(t, [tab[t] EXCEPT !.record = 0, !.unsure = FALSE, !.wanted = TRUE])
     \/ Fault /\ stored' \in {0, stored} /\ UNCHANGED tab
  /\ UNCHANGED <<edition, lock, crashes>>

\* A scan or a metadata edit changes the book.
EditBook ==
  /\ edition <= MaxEdits
  /\ edition' = edition + 1
  /\ NoFault
  /\ UNCHANGED <<files, seen, stored, lock, tab, crashes>>

\* What the call in flight may still do to the drive when its tab dies.
LateEffects(t) ==
  CASE tab[t].point = "create" -> {files, Created(t)}
    [] tab[t].point = "close" ->
         {files} \cup {InState(tab[t].name, s) : s \in {"part", "full"}}
    [] tab[t].point = "cleanup" /\ tab[t].owns -> {files, Without(tab[t].name)}
    [] OTHER -> {files}

Crash(t) ==
  /\ crashes > 0
  /\ tab[t].device # "none" \/ Busy(t)
  /\ crashes' = crashes - 1
  /\ files' \in LateEffects(t)
  /\ tab' = [tab EXCEPT ![t] = NoTab]
  /\ lock' = IF lock = t THEN None ELSE lock
  /\ NoFault
  /\ UNCHANGED <<edition, seen, stored>>

SendSteps(t) ==
  \/ ReadBook(t) \/ ReadSource(t) \/ Prepare(t) \/ ScanAgain(t) \/ ReadBookAgain(t)
  \/ FindCopy(t) \/ Journal(t) \/ CreateFile(t) \/ OwnFile(t)
  \/ WriteChunks(t) \/ CloseFile(t) \/ VerifyFile(t) \/ CleanUp(t)

Next ==
  \/ \E t \in Tabs :
       \/ Connect(t) \/ Disconnect(t) \/ Cancel(t)
       \/ Refresh(t) \/ RefreshBegins(t) \/ ReadIndex(t) \/ Compare(t)
       \/ Send(t) \/ SendSteps(t) \/ Acknowledge(t) \/ Crash(t)
  \/ EditBook

Spec == Init /\ [][Next]_vars

-----------------------------------------------------------------------------
(* Properties.                                                              *)

\* The variables have their types; a busy tab has its session and the lock is
\* held by a connected tab.
TypeOK ==
  /\ edition \in Editions
  /\ DOMAIN files \subseteq Names
  /\ \A n \in DOMAIN files :
       files[n] \in [edition : Editions, state : {"empty", "part", "full"}]
  /\ seen \subseteq Names
  /\ stored \in Names \cup {0}
  /\ lock \in Tabs \cup {None}
  /\ \A t \in Tabs :
       /\ tab[t].device \in {"none", "open", "closed"}
       /\ tab[t].point \in {"idle"} \cup ReadPoints \cup LoadPoints \cup WritePoints
       /\ tab[t].says \in {"nothing", "complete", "cancelled", "failed"}
       /\ tab[t].record \in Names \cup {0}
       /\ tab[t].device # "none" <=> lock = t
  /\ faults \in 0..MaxFaults
  /\ crashes \in 0..MaxCrashes

\* Whatever dies or fails on the way, a file that is not a whole book is named
\* by the record in local storage until the user has confirmed inspecting it
\* (device.ts:342-344: the record is written before the file is created).
LeftoversAreNamed ==
  \A n \in DOMAIN files : ~Intact(n) /\ n \notin seen => stored = n

\* No two whole copies of one edition: find, the lock and the record together
\* keep a second tab, a retry and a send after a crash from adding one.
OneCopyPerEdition ==
  \A e \in Editions : Cardinality({n \in Copies(e) : Intact(n)}) <= 1

\* A step that tells the user "Transfer cancelled. No new book was left on
\* Kobo." leaves no file of that send behind, not even an unfinished one
\* (catalog-session.ts:240-241).
CancelledLeavesNothing ==
  [][\A t \in Tabs :
       tab[t].says # "cancelled" /\ tab'[t].says = "cancelled" =>
         tab[t].name \notin DOMAIN files']_vars

=============================================================================
