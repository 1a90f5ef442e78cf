----------------------------- MODULE LookupJobs -----------------------------
(***************************************************************************)
(* Bulk lookups of book metadata: the durable job with its entries and the *)
(* changes of its status (src/server/catalog-database.ts), the worker that *)
(* executes one bounded step of it (src/server/metadata-lookup-worker.ts), *)
(* and the page that creates, drives, pauses and reviews it                *)
(* (src/client/src/catalog-browser.ts, library-health-view.ts).            *)
(*                                                                         *)
(* One job is kept (MAX_METADATA_LOOKUP_JOBS_PER_PROFILE scaled to one), so *)
(* that the creation of the next deletes a finished one.  Another browser  *)
(* controls the same job.  What a search finds is one of the outcomes of   *)
(* its entry.  The waits between two attempts and the spacing of requests  *)
(* to the provider take no time here.                                      *)
(***************************************************************************)
EXTENDS Naturals, FiniteSets

CONSTANTS
  Books,       \* the books of a job
  MaxAttempts, \* METADATA_LOOKUP_MAX_ATTEMPTS
  StepSize,    \* METADATA_LOOKUP_STEP_ENTRIES
  MaxJobs,     \* jobs created
  MaxClicks,   \* what the user of the page does
  MaxOthers,   \* controls by another browser
  MaxFaults,   \* failed requests and writes, restarts
  None

Controls == {"resume", "pause", "cancel", "retry"}
Finished == {"completed", "cancelled"}

VARIABLES
  job,     \* the stored job [id, status, rev, entries, nth], or None
  latch,   \* stepInProgress: the searches its step awaits; {} without one
  claims,  \* searches under way: [job, book, nth, attempt]
  lost,    \* entries whose outcome could not be stored (history)
  spilled, \* a step was rejected with searches under way (history)
  page,    \* activeMetadataLookupJob: [id, status, rev], or None
  busy,    \* metadataLookupBusy
  run,     \* runMetadataLookupJobStep: [id, at, seen, same, copy], or None
  strays,  \* requests for a step whose answer nobody waits for
  orders,  \* create and control requests: [n, what, id, rev, at, copy]
  load,    \* loadMetadataLookupJobs: [n, open, at, copy], or None
  wire,    \* an event metadata-lookup.updated is under way
  left,    \* the page was left while a run was under way (history)
  jobs, clicks, others, faults

server == <<job, latch, claims, lost, spilled>>
shown == <<page, busy, run, orders, left>>
bounds == <<jobs, clicks, others, faults>>
vars == <<job, latch, claims, lost, spilled, page, busy, run, strays, orders, load, wire, left,
          jobs, clicks, others, faults>>

Fault == faults < MaxFaults /\ faults' = faults + 1 /\ UNCHANGED <<jobs, clicks, others>>
Click == clicks < MaxClicks /\ clicks' = clicks + 1 /\ UNCHANGED <<jobs, others, faults>>

-----------------------------------------------------------------------------
(* The durable job.  Every operation is one transaction.                     *)

In(j, statuses) == {b \in Books : j.entries[b] \in statuses}
WithEntries(j, set, status) ==
  [j EXCEPT !.entries = [b \in Books |-> IF b \in set THEN status ELSE j.entries[b]]]

\* finalizeMetadataLookupJob
Finalize(j) ==
  IF In(j, {"pending", "searching"}) = {} /\ j.status = "running"
  THEN [j EXCEPT !.status = "completed", !.rev = @ + 1] ELSE j

NewJob(id) ==
  [id |-> id, status |-> "queued", rev |-> 1, entries |-> [b \in Books |-> "pending"],
   nth |-> [b \in Books |-> 0]]

\* createMetadataLookupJob makes room only by deleting a finished job.
MayCreate == job = None \/ job.status \in Finished

Target(action) ==
  CASE action \in {"resume", "retry"} -> "running"
    [] action = "pause" -> "paused"
    [] OTHER -> "cancelled"

\* controlMetadataLookupJob: which changes of status are refused.
Refuses(j, action) ==
  \/ j.status = "cancelled"
  \/ action = "retry" /\ j.status # "completed"
  \/ action # "retry" /\ j.status = "completed"
  \/ action = "pause" /\ j.status # "running"
  \/ action = "retry" /\ In(j, {"failed"}) = {}

\* Seeded fault: a paused search stays with its entry.
ControlledKeepsSearching(j, action) ==
  IF j.status = Target(action) THEN j
  ELSE [(CASE action = "retry" -> WithEntries(j, In(j, {"failed"}), "pending")
           [] action = "cancel" -> WithEntries(j, In(j, {"pending", "searching"}), "cancelled")
           [] OTHER -> j) EXCEPT !.status = Target(action), !.rev = @ + 1]

Controlled(j, action) ==
  IF j.status = Target(action) THEN j
  ELSE [(CASE action = "retry" -> WithEntries(j, In(j, {"failed"}), "pending")
           [] action = "pause" -> WithEntries(j, In(j, {"searching"}), "pending")
           [] action = "cancel" -> WithEntries(j, In(j, {"pending", "searching"}), "cancelled")
           [] OTHER -> j) EXCEPT !.status = Target(action), !.rev = @ + 1]

ControlFails(j, id, action, rev) ==
  IF j = None THEN TRUE
  ELSE j.id # id \/ j.rev # rev \/ (j.status # Target(action) /\ Refuses(j, action))

\* claimMetadataLookupEntries: up to StepSize pending entries in rank order;
\* a book that is not in the catalog any more fails at once.
Claimed(j, chosen, gone) ==
  LET claimed == WithEntries(WithEntries(j, chosen \ gone, "searching"), gone, "failed")
      counted == [claimed EXCEPT !.nth = [b \in Books |-> IF b \in chosen THEN @[b] + 1 ELSE @[b]],
                                 !.rev = IF chosen = {} THEN @ ELSE @ + 1]
  IN Finalize(counted)

\* completeMetadataLookupEntry: pause and cancel win over a late answer.
Completed(j, b, status) ==
  IF j.entries[b] # "searching" THEN j
  ELSE Finalize([WithEntries(j, {b}, status) EXCEPT !.rev = @ + 1])

Init ==
  /\ job = None /\ latch = {} /\ claims = {} /\ lost = {} /\ spilled = FALSE
  /\ page = None /\ busy = FALSE /\ run = None /\ strays = 0 /\ orders = {}
  /\ load = None /\ wire = None /\ left = FALSE
  /\ jobs = 0 /\ clicks = 0 /\ others = 0 /\ faults = 0

-----------------------------------------------------------------------------
(* The worker: one step at a time.                                           *)

\* What the page is told of a job.
Copy(j) == IF j = None THEN None
           ELSE [id |-> j.id, status |-> j.status, rev |-> j.rev,
                 open |-> In(j, {"pending", "searching"}) # {}, failed |-> In(j, {"failed"}) # {}]

Held(id) == IF job = None THEN FALSE ELSE job.id = id

\* The callers of the step that ends now get the job as it is stored.
Answer(j, ok) ==
  IF run = None \/ (run # None /\ run.at \notin {"stepping", "waiting"}) THEN UNCHANGED run
  ELSE IF (ok \/ run.at = "waiting") /\ (IF j = None THEN FALSE ELSE j.id = run.id)
  THEN run' = [run EXCEPT !.at = "answered", !.copy = Copy(j)]
  ELSE run' = [run EXCEPT !.at = "failed"]

\* A search is over: the step ends with its last one.
Awaited(set, j) ==
  IF latch = {} THEN UNCHANGED <<latch, run>>
  ELSE /\ latch' = latch \ set
       /\ IF latch \ set = {} THEN Answer(j, TRUE) ELSE UNCHANGED run

\* runStep without a step in progress; mine is the step of the page's run.
BeginStep(id, mine) ==
  IF IF Held(id) THEN job.status # "running" ELSE TRUE
  THEN /\ run' = IF ~mine THEN run
                ELSE [run EXCEPT !.at = "failed", !.copy = IF Held(id) THEN Copy(job) ELSE None]
       /\ UNCHANGED <<server, wire, bounds>>
  ELSE \E chosen \in SUBSET In(job, {"pending"}) : \E gone \in SUBSET chosen :
         LET taken == {[job |-> id, book |-> b, nth |-> job.nth[b] + 1, attempt |-> 1] : b \in chosen \ gone}
             claimed == Claimed(job, chosen, gone)
         IN /\ \/ Cardinality(chosen) = StepSize
               \/ Cardinality(chosen) < StepSize /\ chosen = In(job, {"pending"})
            /\ IF gone = {} THEN UNCHANGED bounds ELSE Fault
            /\ job' = claimed
            /\ claims' = claims \cup taken
            /\ latch' = taken
            /\ run' = IF ~mine THEN run
                      ELSE [run EXCEPT !.at = IF taken = {} THEN "answered" ELSE "stepping",
                                       !.copy = Copy(claimed)]
            /\ wire' = IF taken = {} THEN id ELSE wire
            /\ UNCHANGED <<lost, spilled>>

\* An overlapping caller waits for the step in progress.
BehindStep == latch # {}

\* POST .../run of the page's loop arrives.
ServeRun ==
  /\ run # None /\ run.at = "asked"
  /\ IF BehindStep
     THEN run' = [run EXCEPT !.at = "waiting"] /\ UNCHANGED <<server, wire, bounds>>
     ELSE BeginStep(run.id, TRUE)
  /\ UNCHANGED <<page, busy, strays, orders, load, left>>

\* So does one whose loop has been given up, or one of another browser.
ServeStray ==
  /\ strays > 0 /\ strays' = strays - 1
  /\ IF BehindStep \/ job = None THEN UNCHANGED <<server, run, wire, bounds>> ELSE BeginStep(job.id, FALSE)
  /\ UNCHANGED <<page, busy, orders, load, left>>

Gone(c) == ~Held(c.job)

\* searchMetadata has answered, and the outcome of the entry is stored.
SearchEnds(c) ==
  /\ ~Gone(c)
  /\ \E status \in {"ready", "no-results", "failed"} :
       LET done == Completed(job, c.book, status) IN
       /\ job' = done
       /\ claims' = claims \ {c}
       /\ Awaited({c}, done)
       /\ wire' = IF latch = {c} THEN c.job ELSE wire
  /\ UNCHANGED <<lost, spilled, page, busy, strays, orders, load, left, bounds>>

\* A retryable failure of the provider, or of storing what it found.
SearchAgain(c) ==
  /\ c.attempt < MaxAttempts
  /\ claims' = (claims \ {c}) \cup {[c EXCEPT !.attempt = @ + 1]}
  /\ latch' = IF c \in latch
              THEN (latch \ {c}) \cup {[c EXCEPT !.attempt = @ + 1]} ELSE latch
  /\ UNCHANGED <<job, lost, spilled, run, page, busy, strays, orders, load, wire, left, bounds>>

\* The failure of the entry cannot be stored: the step is rejected, and its
\* other searches run on.
SearchLost(c) ==
  /\ c.attempt = MaxAttempts
  /\ IF Gone(c) THEN UNCHANGED <<lost, bounds>>
     ELSE /\ Fault
          /\ lost' = IF job.entries[c.book] = "searching" THEN lost \cup {c.book} ELSE lost
  /\ claims' = claims \ {c}
  /\ IF c \in latch
     THEN /\ latch' = {} /\ spilled' = (spilled \/ latch # {c})
          /\ Answer(job, FALSE)
          /\ wire' \in {wire, c.job} \* callers that waited publish their answer
     ELSE UNCHANGED <<latch, run, spilled, wire>>
  /\ UNCHANGED <<job, page, busy, strays, orders, load, left>>

\* recoverInterruptedMetadataLookupJobs
Recovered(j) ==
  IF IF j = None THEN TRUE ELSE j.status # "running" THEN j
  ELSE [WithEntries(j, In(j, {"searching"}), "pending") EXCEPT !.status = "paused", !.rev = @ + 1]

\* The server ends and starts again; every request under way fails.
Restart ==
  /\ Fault
  /\ job' = Recovered(job)
  /\ claims' = {} /\ latch' = {} /\ strays' = 0 /\ wire' = None
  /\ lost' = IF job # None /\ job.status = "running" THEN {} ELSE lost
  /\ run' = IF run # None /\ run.at \in {"asked", "waiting", "stepping"}
            THEN [run EXCEPT !.at = "failed"] ELSE run
  /\ UNCHANGED spilled
  /\ orders' = {IF o.at = "sent" THEN [o EXCEPT !.at = "failed"] ELSE o : o \in orders}
  /\ load' = IF load # None /\ load.at = "asked" THEN [load EXCEPT !.at = "failed"] ELSE load
  /\ UNCHANGED <<page, busy, left>>

-----------------------------------------------------------------------------
(* Another browser.                                                          *)

OtherControls ==
  /\ others < MaxOthers /\ others' = others + 1
  /\ job # None
  /\ \E action \in Controls :
       /\ ~ControlFails(job, job.id, action, job.rev)
       /\ job' = Controlled(job, action)
       /\ lost' = IF action = "pause" THEN {} ELSE lost
  /\ wire' = job.id
  /\ UNCHANGED <<latch, claims, spilled, shown, strays, load, jobs, clicks, faults>>

OtherRuns ==
  /\ others < MaxOthers /\ others' = others + 1
  /\ strays' = strays + 1
  /\ UNCHANGED <<server, shown, load, wire, jobs, clicks, faults>>

\* importBookMetadata with a reviewed candidate accepts it in the same
\* transaction (acceptMetadataLookupCandidate).
Accept(b) ==
  /\ Click
  /\ job # None /\ page # None /\ page.id = job.id
  /\ job.entries[b] = "ready"
  /\ job' = [WithEntries(job, {b}, "accepted") EXCEPT !.rev = @ + 1]
  /\ wire' = job.id
  /\ UNCHANGED <<latch, claims, lost, spilled, shown, strays, load>>

-----------------------------------------------------------------------------
(* The page.                                                                 *)

\* A newer load takes the place of the one under way.
StartLoad(n, open) == load' = [n |-> n, open |-> open, at |-> "asked", copy |-> None]

\* The loop in progress loses its epoch; a request on its way still arrives.
GiveUpRun ==
  /\ run' = None
  /\ strays' = IF run # None /\ run.at = "asked" THEN strays + 1 ELSE strays

ClickCreate ==
  /\ Click /\ ~busy /\ busy' = TRUE
  /\ jobs < MaxJobs
  /\ orders' = orders \cup {[n |-> clicks', what |-> "create", id |-> None, rev |-> 0, at |-> "sent", copy |-> None]}
  /\ UNCHANGED <<server, page, run, strays, load, wire, left>>

\* The buttons library-health-view.ts offers for the status shown.
Offered(action) ==
  CASE action = "resume" -> page.status = "paused" /\ ~busy
    [] action = "pause" -> page.status = "running"
    [] action = "retry" -> page.status = "completed" /\ page.failed /\ ~busy
    [] OTHER -> page.status \notin Finished

ClickControl(action) ==
  /\ Click /\ page # None /\ Offered(action)
  /\ GiveUpRun
  /\ busy' = TRUE /\ left' = FALSE
  /\ orders' = orders \cup {[n |-> clicks', what |-> action, id |-> page.id, rev |-> page.rev, at |-> "sent", copy |-> None]}
  /\ UNCHANGED <<server, page, load, wire>>

StartRun == run' = [id |-> page.id, at |-> "asked", seen |-> page, same |-> 0, copy |-> None] /\ busy' = TRUE

\* "Search now"
ClickRun ==
  /\ Click /\ page # None /\ ~busy
  /\ page.status \notin Finished \cup {"paused"}
  /\ StartRun
  /\ UNCHANGED <<server, page, strays, orders, load, wire, left>>

\* closeMetadataLookupJob, or the page shows another route.
ClickLeave ==
  /\ Click /\ page # None
  /\ page' \in {None, page}
  /\ GiveUpRun
  /\ left' = (left \/ (busy /\ run # None))
  /\ UNCHANGED <<server, busy, orders, load, wire>>

\* createMetadataLookupJob and controlMetadataLookupJob on the server.
ServeOrder(o) ==
  /\ o \in orders /\ o.at = "sent"
  /\ LET fails == IF o.what = "create" THEN ~MayCreate ELSE ControlFails(job, o.id, o.what, o.rev)
         next == IF o.what = "create" THEN NewJob(jobs + 1) ELSE Controlled(job, o.what)
     IN IF fails
        THEN /\ orders' = (orders \ {o}) \cup {[o EXCEPT !.at = "failed"]}
             /\ UNCHANGED <<server, wire, bounds>>
        ELSE /\ orders' = (orders \ {o}) \cup {[o EXCEPT !.at = "done", !.copy = Copy(next)]}
             /\ job' = next
             /\ jobs' = IF o.what = "create" THEN jobs + 1 ELSE jobs
             /\ lost' = IF o.what \in {"create", "pause"} THEN {} ELSE lost
             /\ wire' = IF next = job THEN wire ELSE next.id
             /\ UNCHANGED <<latch, claims, spilled, clicks, others, faults>>
  /\ UNCHANGED <<page, busy, run, strays, load, left>>

\* The answer is lost, or late.
OrderFails(o) ==
  /\ o \in orders /\ o.at \in {"sent", "done"} /\ Fault
  /\ orders' = (orders \ {o}) \cup {[o EXCEPT !.at = "failed"]}
  /\ UNCHANGED <<server, page, busy, run, strays, load, wire, left>>

OrderAnswered(o) ==
  /\ o \in orders /\ o.at \in {"done", "failed"}
  /\ busy' = FALSE /\ left' = FALSE
  /\ IF o.at = "failed"
     THEN orders' = orders \ {o} /\ UNCHANGED <<page, load>>
     ELSE /\ page' = o.copy
          /\ StartLoad(o.n, o.copy.id)
          /\ orders' = (orders \ {o}) \cup
                       (IF o.what \in {"resume", "retry"} /\ o.copy.status = "running"
                        THEN {[o EXCEPT !.at = "loading"]} ELSE {})
  /\ UNCHANGED <<server, run, strays, wire, bounds>>

\* Behind its load a resumed job is run.
OrderContinues(o) ==
  /\ o \in orders /\ o.at = "loading"
  /\ load = None \/ (load # None /\ load.n # o.n)
  /\ orders' = orders \ {o}
  /\ IF page # None /\ ~busy THEN StartRun ELSE UNCHANGED <<run, busy>>
  /\ UNCHANGED <<server, page, strays, load, wire, left, bounds>>

\* The answer of a step reaches the loop that asked for it.
RunAnswered ==
  /\ run # None /\ run.at = "answered"
  /\ page' = run.copy
  /\ LET same == IF run.copy = run.seen THEN run.same + 1 ELSE 0
         ends == run.copy.status # "running" \/ ~run.copy.open \/ same >= 3
     IN IF ends
        THEN /\ run' = None /\ busy' = FALSE
             /\ StartLoad(0, run.id)
        ELSE /\ run' = [run EXCEPT !.at = "asked", !.seen = run.copy, !.same = same, !.copy = None]
             /\ UNCHANGED <<busy, load>>
  /\ UNCHANGED <<server, strays, orders, wire, left, bounds>>

\* Seeded fault: a failed step ends the loop and leaves the page busy.
RunFailedQuietly ==
  /\ run # None /\ run.at = "failed"
  /\ run' = None
  /\ UNCHANGED <<server, page, busy, strays, orders, load, wire, left, bounds>>

\* The step was refused, or its request failed.
RunFailed ==
  /\ run # None /\ run.at = "failed"
  /\ run' = None /\ busy' = FALSE
  /\ UNCHANGED <<server, page, strays, orders, load, wire, left, bounds>>

\* The deadline of the request passes; the server goes on.
RunTimesOut ==
  /\ run # None /\ run.at \in {"asked", "waiting", "stepping"} /\ Fault
  /\ run' = [run EXCEPT !.at = "failed", !.copy = None]
  /\ strays' = IF run.at = "asked" THEN strays + 1 ELSE strays
  /\ UNCHANGED <<server, page, busy, orders, load, wire, left>>

\* The event of the stream starts a load that opens the job it names.
Hear ==
  /\ wire # None /\ wire' = None
  /\ StartLoad(0, wire)
  /\ UNCHANGED <<server, shown, strays, bounds>>

ServeLoad ==
  /\ load # None /\ load.at = "asked"
  /\ load' = IF ~Held(load.open)
             THEN [load EXCEPT !.at = "failed"]
             ELSE [load EXCEPT !.at = "read", !.copy = Copy(job)]
  /\ UNCHANGED <<server, shown, strays, wire, bounds>>

LoadEnds ==
  /\ load # None /\ load.at \in {"read", "failed"}
  /\ load' = None
  /\ page' = IF load.at = "read" THEN load.copy ELSE page
  /\ UNCHANGED <<server, busy, run, strays, orders, wire, left, bounds>>

Next ==
  \/ ServeRun \/ ServeStray \/ Restart
  \/ \E c \in claims : SearchEnds(c) \/ SearchAgain(c) \/ SearchLost(c)
  \/ OtherControls \/ OtherRuns
  \/ \E b \in Books : Accept(b)
  \/ ClickCreate \/ ClickRun \/ ClickLeave
  \/ \E action \in Controls : ClickControl(action)
  \/ \E o \in orders : ServeOrder(o) \/ OrderFails(o) \/ OrderAnswered(o) \/ OrderContinues(o)
  \/ RunAnswered \/ RunFailed \/ RunTimesOut
  \/ Hear \/ ServeLoad \/ LoadEnds

Spec == Init /\ [][Next]_vars

\* The server answers what it has received, searches have deadlines, and the
\* page's continuations run.  Nothing is assumed of the user.
Progress ==
  \/ ServeRun \/ ServeStray
  \/ \E c \in claims : SearchEnds(c) \/ SearchLost(c)
  \/ \E c \in claims : Gone(c) /\ SearchAgain(c)
  \/ \E o \in orders : ServeOrder(o) \/ OrderAnswered(o) \/ OrderContinues(o)
  \/ RunAnswered \/ RunFailed \/ Hear \/ ServeLoad \/ LoadEnds

FairSpec == Spec /\ WF_vars(Progress)

-----------------------------------------------------------------------------
(* Properties.                                                               *)

\* An entry that says "searching" has its search: one, and the one that claimed
\* it last, whatever pauses, steps of two browsers, deletions and restarts came
\* between.  So no answer to an earlier claim can be taken for the present one
\* ("Pause/cancel wins over a late provider response", catalog-database.ts:4161),
\* and no entry waits for an answer nobody will give.  Only an outcome that
\* could not be stored leaves an entry behind.
SearchesMatchEntries ==
  /\ job # None => \A b \in Books : job.entries[b] = "searching" =>
       b \in lost \/ \E c \in claims : c.job = job.id /\ c.book = b /\ c.nth = job.nth[b]
  /\ ~spilled => \A c \in claims :
       (Held(c.job) /\ job.entries[c.book] = "searching") => c.nth = job.nth[c.book]

\* The page does not stay busy, with every other lookup refused
\* (catalog-browser.ts:1662, 1727, 1754), unless it was left during a run.
BusyEnds == busy ~> (~busy \/ left)

TypeOK ==
  /\ job # None => job.status \in {"queued", "running", "paused"} \cup Finished
  /\ latch \subseteq claims
  /\ busy \in BOOLEAN /\ left \in BOOLEAN
  /\ strays \in 0..(MaxClicks + MaxOthers + MaxFaults)

=============================================================================
