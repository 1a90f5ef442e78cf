--------------------------- MODULE CatalogServer ---------------------------
(***************************************************************************)
(* The requests of the catalog server and the end of its process: slots    *)
(* for requests, for answers kept in memory and for books being streamed,  *)
(* given back when the answer has left or is given up; and the shutdown    *)
(* that waits for them, then forces them, and only then closes SQLite      *)
(* (main.ts, catalog-service.ts, http-server.ts).                          *)
(*                                                                         *)
(* Answers of one connection leave in the order of its requests: the first *)
(* one that has not left has the socket, the others are queued without it, *)
(* and Node tells only the one with the socket when the socket is lost.    *)
(***************************************************************************)
EXTENDS Naturals, Sequences, FiniteSets

CONSTANTS
  Requests,    \* the requests, numbered in the order of their connection
  Conns,
  ConnOf,      \* the connection of each request
  MaxActive,   \* maxConcurrentRequests
  MaxBuffered, \* maxConcurrentBufferedResponses
  MaxStreams,  \* maxConcurrentSourceStreams
  MaxClients,  \* event streams of the hub
  None

VARIABLES
  job,      \* what is known of each request
  waiters,  \* bufferedResponseWaiters
  conn,     \* "new", "up" or "down"
  signalled,
  startup,  \* of the service: "build", "listen", "index", "ready", "failed"
  closed,   \* CatalogService.closed, shuttingDown
  drain,    \* drainAndClose: "no", "wait", "forced", "clean", "failed"
  scan,     \* the scans under way: "idle", "running", "aborted"
  db        \* "none", "open", "closed"

lifeVars == <<signalled, startup, closed, drain, scan, db>>
vars == <<job, waiters, conn, lifeVars>>

\* "plain" stands for the routes that answer with JSON, "buffered" for covers
\* and the files of the page.
Kinds == {"plain", "buffered", "source", "events"}
Busy == {"running", "looking", "waiting", "reading", "verifying", "streaming"}

Jobs ==
  [kind : Kinds \cup {None},
   handler : Busy \cup {"none", "done"},
   response : {"open", "ended", "finished", "destroyed"},
   slot : BOOLEAN, buffer : BOOLEAN, stream : BOOLEAN,
   guard : SUBSET {"slot", "buffer"}]  \* what guardResponseDelivery gives back

NoJob == [kind |-> None, handler |-> "none", response |-> "open",
          slot |-> FALSE, buffer |-> FALSE, stream |-> FALSE, guard |-> {}]

TypeOK ==
  /\ job \in [Requests -> Jobs]
  /\ waiters \in Seq(Requests)
  /\ conn \in [Conns -> {"new", "up", "down"}]
  /\ signalled \in BOOLEAN /\ closed \in BOOLEAN
  /\ startup \in {"build", "listen", "index", "ready", "failed"}
  /\ drain \in {"no", "wait", "forced", "clean", "failed"}
  /\ scan \in {"idle", "running", "aborted"}
  /\ db \in {"none", "open", "closed"}

Init ==
  /\ job = [r \in Requests |-> NoJob]
  /\ waiters = <<>>
  /\ conn = [c \in Conns |-> "new"]
  /\ signalled = FALSE /\ closed = FALSE
  /\ startup = "build" /\ drain = "no" /\ scan = "idle" /\ db = "none"

-----------------------------------------------------------------------------
\* Answers and their connections

Earlier(r) == {q \in Requests : ConnOf[q] = ConnOf[r] /\ q < r}

\* The response that has the socket of its connection
HasSocket(jobs, r) ==
  /\ conn[ConnOf[r]] = "up"
  /\ jobs[r].kind # None /\ jobs[r].response # "finished"
  /\ \A q \in Earlier(r) : jobs[q].response = "finished"

\* sendJson and end: nothing reaches a response that is gone.
Answered(j) == IF j.response = "open" THEN [j EXCEPT !.response = "ended"] ELSE j

\* Seeded fault: nothing guards the slot of an answer that has not left.
HandlerEndsUnguarded(j) ==
  [j EXCEPT !.handler = "done", !.slot = @ /\ j.response \notin {"finished", "destroyed"}]

\* The end of handle: the slot is kept, under a guard, until the bytes have left.
HandlerEnds(j) ==
  IF j.response \in {"finished", "destroyed"}
    THEN [j EXCEPT !.handler = "done", !.slot = FALSE]
    ELSE [j EXCEPT !.handler = "done", !.guard = IF j.slot THEN @ \cup {"slot"} ELSE @]

\* "finish" or "close" of a response: it gives back what is held for it; a
\* handler that waits for a buffer fails.
Gone(j, how) ==
  [j EXCEPT !.response = how,
            !.handler = IF @ = "waiting" THEN "done" ELSE @,
            !.slot = @ /\ j.handler \notin {"waiting", "done"},
            !.buffer = FALSE,
            !.guard = {}]

\* The answer is given up: what is held is given back here, as a response
\* without a socket need not emit "close".
Expired(j) ==
  [j EXCEPT !.response = "destroyed",
            !.slot = @ /\ "slot" \notin j.guard,
            !.buffer = @ /\ "buffer" \notin j.guard,
            !.guard = {}]

\* releaseLargeResponse
BufferFreed(j) == [j EXCEPT !.buffer = FALSE, !.guard = {}]

\* The sockets of cs are destroyed: the response that has one closes.
Cut(jobs, cs) ==
  [r \in Requests |->
     IF ConnOf[r] \in cs /\ HasSocket(jobs, r) THEN Gone(jobs[r], "destroyed") ELSE jobs[r]]

\* serviceBufferedResponseWaiter: the first that still wait, in the order of the
\* queue (what SelectSeq gives, in a form without recursion), get what is free.
Waiting(jobs, ws) ==
  LET still == {i \in DOMAIN ws : jobs[ws[i]].handler = "waiting"}
      Rank(i) == Cardinality({j \in still : j <= i})
  IN [k \in 1..Cardinality(still) |-> ws[CHOOSE i \in still : Rank(i) = k]]

Granted(jobs, ws) ==
  LET free == MaxBuffered - Cardinality({r \in Requests : jobs[r].buffer})
  IN {i \in DOMAIN ws : i <= free}
Reserved(j) == [j EXCEPT !.handler = "reading", !.buffer = TRUE, !.guard = {"buffer"}]

\* What becomes of the requests and the waiters once jobs is what is known
Becomes(jobs, ws) ==
  LET left == Waiting(jobs, ws)
      n == Cardinality(Granted(jobs, left))
  IN /\ job' = [r \in Requests |->
                  IF jobs[r].handler = "waiting" /\ \E i \in 1..n : left[i] = r
                    THEN Reserved(jobs[r]) ELSE jobs[r]]
     /\ waiters' = SubSeq(left, n + 1, Len(left))

\* response.destroy() takes the socket with it when the response has it.
Destroys(jobs, r) ==
  LET c == IF HasSocket(jobs, r) THEN {ConnOf[r]} ELSE {}
  IN /\ Becomes(Cut([jobs EXCEPT ![r].response = "destroyed"], c), waiters)
     /\ conn' = [d \in Conns |-> IF d \in c THEN "down" ELSE conn[d]]

-----------------------------------------------------------------------------
\* Requests

Active == {r \in Requests : job[r].slot}
Streams == {r \in Requests : job[r].stream}
EventClients ==
  {r \in Requests : job[r].kind = "events" /\ job[r].response = "open" /\ job[r].handler = "done"}

\* While shutting down, beyond the limit, or beyond the rate of an address: the
\* answer is 503 or 429, without a slot.
Refused(k) == [NoJob EXCEPT !.kind = k, !.handler = "done", !.response = "ended"]

\* A request that has its slot, up to the first await of its handler
Admitted(k) ==
  LET j == [NoJob EXCEPT !.kind = k, !.slot = TRUE]
  IN CASE k = "plain" -> [j EXCEPT !.handler = "running"]
       [] k = "buffered" -> [j EXCEPT !.handler = "looking"]
       [] k = "source" ->
            IF Cardinality(Streams) < MaxStreams
              THEN [j EXCEPT !.handler = "verifying", !.stream = TRUE]
              ELSE HandlerEnds(Answered(j))
       [] k = "events" ->
            IF Cardinality(EventClients) < MaxClients
              THEN [j EXCEPT !.handler = "done", !.slot = FALSE]
              ELSE HandlerEnds(Answered(j))

Arrive(r, k) ==
  /\ job[r].kind = None
  /\ \A q \in Earlier(r) : job[q].kind # None
  /\ \/ conn[ConnOf[r]] = "up"
     \/ conn[ConnOf[r]] = "new" /\ startup \in {"index", "ready"} /\ ~closed
  /\ conn' = [conn EXCEPT ![ConnOf[r]] = "up"]
  /\ \/ /\ ~closed /\ Cardinality(Active) < MaxActive
        /\ job' = [job EXCEPT ![r] = Admitted(k)]
     \/ job' = [job EXCEPT ![r] = Refused(k)]
  /\ UNCHANGED <<waiters, lifeVars>>

\* The handler of r is over, with a as what is known of its request.
Ends(r, a) ==
  /\ Becomes([job EXCEPT ![r] = HandlerEnds(a)], waiters)
  /\ UNCHANGED <<conn, lifeVars>>

\* A route answers, or finds no file to send.
Respond(r) ==
  /\ job[r].handler \in {"running", "looking"}
  /\ Ends(r, Answered(job[r]))

\* acquireBufferedResponse, of serveStatic once it has found the file
AcquireBuffer(r) ==
  /\ job[r].handler = "looking"
  /\ IF job[r].response = "open"
       THEN /\ Becomes([job EXCEPT ![r].handler = "waiting"], Append(waiters, r))
            /\ UNCHANGED <<conn, lifeVars>>
       ELSE Ends(r, job[r])

\* serveStatic, serveCover: the file is read, or there is none, or it took too
\* long, or the server is shutting down.
Read(r) ==
  /\ job[r].handler = "reading"
  /\ \/ /\ job[r].response = "open"
        /\ Ends(r, Answered(job[r]))
     \/ Ends(r, Answered(BufferFreed(job[r])))

\* serveCover: the connection was lost.
CoverAborted(r) ==
  /\ job[r].handler = "reading" /\ conn[ConnOf[r]] = "down"
  /\ Ends(r, [BufferFreed(job[r]) EXCEPT !.response = "destroyed"])

\* bufferedResponseWaitTimeoutMs
WaitTimeout(r) ==
  /\ job[r].handler = "waiting"
  /\ Ends(r, Answered(job[r]))

\* serveSource: a book that is gone, changed or takes too long is refused.
SourceRefused(r) ==
  /\ job[r].handler = "verifying"
  /\ Ends(r, Answered([job[r] EXCEPT !.stream = FALSE]))

StreamStarts(r) ==
  /\ job[r].handler = "verifying" /\ conn[ConnOf[r]] = "up" /\ drain # "forced"
  /\ job' = [job EXCEPT ![r].handler = "streaming"]
  /\ UNCHANGED <<waiters, conn, lifeVars>>

StreamDone(r) ==
  /\ job[r].handler = "streaming" /\ HasSocket(job, r)
  /\ Becomes([job EXCEPT ![r] = HandlerEnds([Gone(@, "finished") EXCEPT !.stream = FALSE])],
             waiters)
  /\ UNCHANGED <<conn, lifeVars>>

\* The client or the server goes, or the deadline passes amid the bytes: the
\* waits of the handler, and of what it closes, end at once.
SourceAborted(r) ==
  /\ \/ job[r].handler = "streaming"
     \/ job[r].handler = "verifying" /\ (conn[ConnOf[r]] = "down" \/ drain = "forced")
  /\ Destroys([job EXCEPT ![r] =
                 HandlerEnds([@ EXCEPT !.stream = FALSE, !.response = "destroyed"])], r)
  /\ UNCHANGED lifeVars

-----------------------------------------------------------------------------
\* The network and the timers

\* The last byte of an answer is handed on; the next answer gets the socket,
\* and one that was destroyed in the queue destroys it.
Finish(r) ==
  /\ job[r].response = "ended" /\ HasSocket(job, r)
  /\ LET done == [job EXCEPT ![r] = Gone(@, "finished")]
         cut == {c \in {ConnOf[r]} :
                   \E q \in Requests :
                     ConnOf[q] = c /\ HasSocket(done, q) /\ done[q].response = "destroyed"}
     IN /\ Becomes(Cut(done, cut), waiters)
        /\ conn' = [c \in Conns |-> IF c \in cut THEN "down" ELSE conn[c]]
  /\ UNCHANGED lifeVars

\* The client leaves, or an idle connection is closed.
SocketLost(c) ==
  /\ conn[c] = "up"
  /\ Becomes(Cut(job, {c}), waiters)
  /\ conn' = [conn EXCEPT ![c] = "down"]
  /\ UNCHANGED lifeVars

\* guardResponseDelivery: no progress, or the deadline
Expire(r) ==
  /\ job[r].guard # {}
  /\ LET c == {ConnOf[r]} \cap {d \in Conns : conn[d] = "up"}
     IN /\ Becomes([Cut(job, c) EXCEPT ![r] = Expired(job[r])], waiters)
        /\ conn' = [d \in Conns |-> IF d \in c THEN "down" ELSE conn[d]]
  /\ UNCHANGED lifeVars

\* writeOrDrop: an event stream that does not take its events
DropClient(r) ==
  /\ r \in EventClients
  /\ Destroys(job, r)
  /\ UNCHANGED lifeVars

-----------------------------------------------------------------------------
\* The process

\* CatalogService.close up to its first await, or the end of a failed start
Closes ==
  /\ closed' = TRUE
  /\ drain' = "wait"
  /\ job' = [r \in Requests |-> IF r \in EventClients THEN Answered(job[r]) ELSE job[r]]
  /\ scan' = IF scan = "running" THEN "aborted" ELSE scan
  /\ UNCHANGED <<waiters, conn, db>>

Unclosed == UNCHANGED <<closed, drain, job, waiters, conn>>

\* SIGTERM, SIGINT: a service that is still being built is closed when it is.
Signal ==
  /\ ~signalled
  /\ signalled' = TRUE
  /\ UNCHANGED startup
  /\ IF startup = "build" \/ closed THEN Unclosed /\ UNCHANGED <<scan, db>> ELSE Closes

Built ==
  /\ startup = "build" /\ db = "none"
  /\ db' = "open"
  /\ startup' = IF signalled THEN "failed" ELSE "listen"
  /\ closed' = signalled
  /\ drain' = IF signalled THEN "wait" ELSE drain
  /\ UNCHANGED <<job, waiters, conn, scan, signalled>>

\* performStart: the server listens, then the roots are scanned.
Listens ==
  /\ startup = "listen"
  /\ startup' = IF closed THEN "failed" ELSE "index"
  /\ scan' = IF closed THEN scan ELSE "running"
  /\ Unclosed /\ UNCHANGED <<signalled, db>>

Indexed ==
  /\ startup = "index" /\ scan = "running"
  /\ startup' = "ready"
  /\ \/ scan' = "idle"
     \/ scan' = "running"
  /\ Unclosed /\ UNCHANGED <<signalled, db>>

\* The port is taken, the first scan fails, or it is stopped.
StartFails ==
  /\ startup \in {"listen", "index"}
  /\ startup' = "failed"
  /\ IF closed THEN Unclosed /\ UNCHANGED <<scan, db>> ELSE Closes
  /\ UNCHANGED signalled

\* Scans come and go; one that was aborted ends without the database.
ScanStep ==
  /\ \/ scan = "idle" /\ startup = "ready" /\ ~closed /\ scan' = "running"
     \/ scan = "running" /\ startup = "ready" /\ scan' = "idle"
     \/ scan = "aborted" /\ scan' = "idle"
  /\ UNCHANGED <<job, waiters, conn, signalled, startup, closed, drain, db>>

\* drainAndClose: no request has a slot and every connection is closed.
Drained ==
  /\ drain \in {"wait", "forced"} /\ startup # "listen"
  /\ Active = {} /\ \A c \in Conns : conn[c] # "up"
  /\ drain' = "clean"
  /\ UNCHANGED <<job, waiters, conn, signalled, startup, closed, scan, db>>

\* shutdownDrainTimeoutMs: waiters fail and every connection is closed.
DrainTimeout ==
  /\ drain = "wait" /\ startup # "listen"
  /\ drain' = "forced"
  /\ LET cut == Cut(job, Conns)
     IN job' = [r \in Requests |->
                  IF cut[r].handler = "waiting" THEN HandlerEnds(Answered(cut[r])) ELSE cut[r]]
  /\ waiters' = <<>>
  /\ conn' = [c \in Conns |-> IF conn[c] = "up" THEN "down" ELSE conn[c]]
  /\ UNCHANGED <<signalled, startup, closed, scan, db>>

DrainFails ==
  /\ drain = "forced"
  /\ drain' = "failed"
  /\ UNCHANGED <<job, waiters, conn, signalled, startup, closed, scan, db>>

\* performClose: after the server, the start and the scanner, which is not
\* waited for longer than shutdownTimeoutMs
CloseDatabase ==
  /\ db = "open" /\ drain \in {"clean", "failed"} /\ startup \in {"ready", "failed"}
  /\ db' = "closed"
  /\ UNCHANGED <<job, waiters, conn, signalled, startup, closed, drain, scan>>

Next ==
  \/ \E r \in Requests, k \in Kinds : Arrive(r, k)
  \/ \E r \in Requests : Respond(r)
  \/ \E r \in Requests : AcquireBuffer(r)
  \/ \E r \in Requests : Read(r)
  \/ \E r \in Requests : CoverAborted(r)
  \/ \E r \in Requests : WaitTimeout(r)
  \/ \E r \in Requests : SourceRefused(r)
  \/ \E r \in Requests : StreamStarts(r)
  \/ \E r \in Requests : StreamDone(r)
  \/ \E r \in Requests : SourceAborted(r)
  \/ \E r \in Requests : Finish(r)
  \/ \E c \in Conns : SocketLost(c)
  \/ \E r \in Requests : Expire(r)
  \/ \E r \in Requests : DropClient(r)
  \/ Signal
  \/ Built
  \/ Listens
  \/ Indexed
  \/ StartFails
  \/ ScanStep
  \/ Drained
  \/ DrainTimeout
  \/ DrainFails
  \/ CloseDatabase

Spec == Init /\ [][Next]_vars

-----------------------------------------------------------------------------

\* A client that stops reading does not keep a slot for ever: one that is held
\* is of a handler that runs, or is given back by a guard (http-server.ts:2453).
SlotsAreUsed ==
  \A r \in Requests :
    /\ job[r].slot => job[r].handler \in Busy \/ "slot" \in job[r].guard
    /\ job[r].buffer => "buffer" \in job[r].guard

\* A request waits for a buffer only while all of them are taken
\* (http-server.ts serviceBufferedResponseWaiter).
WaitersHaveCause ==
  waiters # <<>> => Cardinality({r \in Requests : job[r].buffer}) = MaxBuffered

\* The database is closed when no handler can need it any more, unless the
\* shutdown had to give one up (catalog-service.ts:86 "SQLite remains available
\* to both until they have settled").
DatabaseOutlivesItsUsers ==
  db = "closed" =>
    /\ drain = "failed" \/ \A r \in Requests : job[r].handler \notin Busy
    /\ scan # "running"

=============================================================================
