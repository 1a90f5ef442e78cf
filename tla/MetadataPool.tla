---------------------------- MODULE MetadataPool ----------------------------
(***************************************************************************)
(* The pool of worker threads that parse books for the indexer             *)
(* (src/server/metadata-worker-pool.ts).  A task waits in a queue, is given *)
(* to a slot that is free, and is settled by the worker's answer, by its   *)
(* timer, by the end of the worker, or by the close of the pool.  Messages *)
(* between the threads and the exit of a thread take their time: an answer *)
(* may arrive after the timer gave its slot up, and a terminated thread    *)
(* runs on beside the one that replaced it.                                *)
(*                                                                         *)
(* Workers are the thread identities; one that is gone may be used again   *)
(* for a later thread.                                                     *)
(***************************************************************************)
EXTENDS Naturals, Sequences, FiniteSets

CONSTANTS Tasks, Workers, Size, None

VARIABLES
  queue,    \* the tasks that wait for a slot, oldest first
  slots,    \* the workers in the pool
  held,     \* worker -> the task of its slot, or None
  alive,    \* threads that have not exited
  inbox,    \* worker -> tasks posted to the thread and not answered by it
  replies,  \* answers on their way: <<worker, task>>
  outcome,  \* task -> "new", "waiting" or how its promise was settled
  closed    \* the pool was closed

vars == <<queue, slots, held, alive, inbox, replies, outcome, closed>>

Settled == {"answered", "timeout", "stopped", "closed"}

Init ==
  /\ queue = << >>
  /\ slots = {}
  /\ held = [w \in Workers |-> None]
  /\ alive = {}
  /\ inbox = [w \in Workers |-> {}]
  /\ replies = {}
  /\ outcome = [t \in Tasks |-> "new"]
  /\ closed = FALSE

-----------------------------------------------------------------------------
(* dispatch: the oldest task goes to a free slot, or to a new worker while   *)
(* the pool is not full.  Every caller frees at most one slot or adds at     *)
(* most one task, so one round of its loop is enough.                        *)

\* A thread identity nothing of an earlier thread is left of.
Fresh(w) ==
  /\ w \notin slots
  /\ w \notin alive
  /\ inbox[w] = {}
  /\ \A t \in Tasks : <<w, t>> \notin replies

\* Post task t to w's thread; h are the slots' tasks and b the inboxes before.
Post(w, t, h, b) ==
  /\ held' = [h EXCEPT ![w] = t]
  /\ inbox' = [b EXCEPT ![w] = @ \cup {t}]

\* dispatch with the queue q, the pool s and its tasks h.
Dispatch(q, s, h) ==
  \/ /\ q = << >>
     /\ queue' = q
     /\ slots' = s
     /\ held' = h
     /\ UNCHANGED <<alive, inbox>>
  \/ /\ q # << >>
     /\ \E w \in s :
          /\ h[w] = None
          /\ Post(w, Head(q), h, inbox)
     /\ queue' = Tail(q)
     /\ slots' = s
     /\ UNCHANGED alive
  \/ /\ q # << >>
     /\ \A w \in s : h[w] # None
     /\ Cardinality(s) < Size
     /\ \E w \in Workers :
          /\ Fresh(w)
          /\ slots' = s \cup {w}
          /\ alive' = alive \cup {w}
          /\ Post(w, Head(q), h, inbox)
     /\ queue' = Tail(q)
  \/ /\ q # << >>
     /\ \A w \in s : h[w] # None
     /\ Cardinality(s) >= Size
     /\ queue' = q
     /\ slots' = s
     /\ held' = h
     /\ UNCHANGED <<alive, inbox>>

\* extract of a closed pool rejects at once.
ExtractClosed(t) ==
  /\ outcome[t] = "new"
  /\ closed
  /\ outcome' = [outcome EXCEPT ![t] = "closed"]
  /\ UNCHANGED <<queue, slots, held, alive, inbox, replies, closed>>

Extract(t) ==
  /\ outcome[t] = "new"
  /\ ~closed
  /\ outcome' = [outcome EXCEPT ![t] = "waiting"]
  /\ Dispatch(Append(queue, t), slots, held)
  /\ UNCHANGED <<replies, closed>>

-----------------------------------------------------------------------------
(* The worker threads (WORKER_SOURCE).                                       *)

\* The thread has parsed a task, or failed to, and posts its answer.
Answer(w, t) ==
  /\ w \in alive
  /\ t \in inbox[w]
  /\ inbox' = [inbox EXCEPT ![w] = @ \ {t}]
  /\ replies' = replies \cup {<<w, t>>}
  /\ UNCHANGED <<queue, slots, held, alive, outcome, closed>>

\* The thread crashes, or exits after terminate; what it had to do is lost.
ThreadEnds(w) ==
  /\ w \in alive
  /\ alive' = alive \ {w}
  /\ inbox' = [inbox EXCEPT ![w] = {}]
  /\ UNCHANGED <<queue, slots, held, replies, outcome, closed>>

-----------------------------------------------------------------------------
(* Events on the main thread.                                                *)

\* complete: an answer settles the task its slot holds; any other is dropped.
Complete(w, t) ==
  /\ <<w, t>> \in replies
  /\ replies' = replies \ {<<w, t>>}
  /\ IF held[w] = t
     THEN /\ outcome' = [outcome EXCEPT ![t] = "answered"]
          /\ Dispatch(queue, slots, [held EXCEPT ![w] = None])
     ELSE UNCHANGED <<outcome, queue, slots, held, alive, inbox>>
  /\ UNCHANGED closed

\* Mutant: the slot stays in the pool when its worker is terminated.
TimeoutKeepsSlot(w) ==
  /\ held[w] # None
  /\ outcome' = [outcome EXCEPT ![held[w]] = "timeout"]
  /\ Dispatch(queue, slots, [held EXCEPT ![w] = None])
  /\ UNCHANGED <<replies, closed>>

\* Mutant: the replacement worker waits for the next call.
TimeoutWithoutDispatch(w) ==
  /\ held[w] # None
  /\ outcome' = [outcome EXCEPT ![held[w]] = "timeout"]
  /\ slots' = slots \ {w}
  /\ held' = [held EXCEPT ![w] = None]
  /\ UNCHANGED <<queue, alive, inbox, replies, closed>>

\* timeout: the task is rejected, the slot removed, the worker terminated
\* without waiting for its end, and the next task dispatched.
Timeout(w) ==
  /\ held[w] # None
  /\ outcome' = [outcome EXCEPT ![held[w]] = "timeout"]
  /\ Dispatch(queue, slots \ {w}, [held EXCEPT ![w] = None])
  /\ UNCHANGED <<replies, closed>>

\* failSlot on the worker's "error" or "exit".
FailSlot(w) ==
  /\ w \in slots
  /\ w \notin alive
  /\ outcome' = IF held[w] = None THEN outcome
                ELSE [outcome EXCEPT ![held[w]] = "stopped"]
  /\ Dispatch(queue, slots \ {w}, [held EXCEPT ![w] = None])
  /\ UNCHANGED <<replies, closed>>

\* close: everything that waits or runs is rejected, every worker terminated.
Close ==
  /\ ~closed
  /\ closed' = TRUE
  /\ outcome' = [t \in Tasks |-> IF outcome[t] = "waiting" THEN "closed" ELSE outcome[t]]
  /\ queue' = << >>
  /\ slots' = {}
  /\ held' = [w \in Workers |-> None]
  /\ UNCHANGED <<alive, inbox, replies>>

Next ==
  \/ \E t \in Tasks : Extract(t) \/ ExtractClosed(t)
  \/ \E w \in Workers, t \in Tasks : Answer(w, t) \/ Complete(w, t)
  \/ \E w \in Workers : ThreadEnds(w) \/ Timeout(w) \/ FailSlot(w)
  \/ Close

Spec == Init /\ [][Next]_vars

\* The timer of a task fires unless it was cleared; nothing else is promised:
\* a parser may hang and a thread may never report.
Fairness == \A w \in Workers : WF_vars(Timeout(w))

FairSpec == Spec /\ Fairness

-----------------------------------------------------------------------------
(* Properties.                                                               *)

\* The variables have their types, and only a slot of the pool holds a task.
TypeOK ==
  /\ queue \in Seq(Tasks)
  /\ slots \subseteq Workers
  /\ held \in [Workers -> Tasks \cup {None}]
  /\ \A w \in Workers \ slots : held[w] = None
  /\ alive \subseteq Workers
  /\ inbox \in [Workers -> SUBSET Tasks]
  /\ replies \subseteq Workers \X Tasks
  /\ outcome \in [Tasks -> {"new", "waiting"} \cup Settled]
  /\ closed \in BOOLEAN

\* A slot that counts as free has a worker with nothing to do and nothing on
\* its way: a book is never queued behind a parser that was given up, and no
\* late answer can meet a later task (metadata-worker-pool.ts:180-214).
FreeSlotsAreIdle ==
  \A w \in slots : held[w] = None =>
    inbox[w] = {} /\ \A t \in Tasks : <<w, t>> \notin replies

\* Every call of extract is settled, whatever parsers and threads do: the
\* indexer awaits it without a timer of its own (catalog-indexer.ts).
EveryTaskSettles == \A t \in Tasks : outcome[t] = "waiting" ~> outcome[t] \in Settled

=============================================================================
