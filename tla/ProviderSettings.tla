-------------------------- MODULE ProviderSettings --------------------------
(***************************************************************************)
(* The key of an online provider, as several browsers set, test and remove *)
(* it (the credentials of server/catalog-database.ts, their routes in      *)
(* server/http-server.ts, and catalog-browser.ts).                         *)
(*                                                                         *)
(* The row of the key has a revision that every change names; a test asks  *)
(* the provider with the key it read, outside any transaction.  A request  *)
(* may get lost, or reach the server twice.  Each of the two providers has *)
(* a row and requests of its own; one of them is modelled.  MaxRequests    *)
(* bounds the requests, MaxFaults what goes wrong, MaxStarts the starts of *)
(* the service.                                                            *)
(***************************************************************************)
EXTENDS Naturals, FiniteSets

CONSTANTS Tabs, None, MaxRequests, MaxFaults, MaxStarts

\* What users enter, of which the provider accepts one, and the key that the
\* environment of the service holds.
Entered == {"good", "bad"}
Environment == "env"

VARIABLES
  row,     \* the key, its revision, its state and the last test of it
  replays, \* cover_provider_mutation_replays: [id, revision]
  tests,   \* the tests under way: [id, key, revision]
  wire,    \* requests to the server
  ui,      \* tab -> load, editing, busy, and the row it knows, or None
  op,      \* tab -> the request it waits for, with the answer, or None
  decided, \* history: a user has saved or removed a key
  requests, faults, starts

vars == <<row, replays, tests, wire, ui, op, decided, requests, faults, starts>>
server == <<row, replays, tests, decided, starts>>

\* What a browser is told: never the key itself, only enough to tell it apart.
State == [key |-> row.key, revision |-> row.revision, tested |-> row.tested]

\* There is no key yet, or one that was saved earlier and that the tabs know.
Init ==
  /\ \E key \in Entered \union {None} :
       /\ row = IF key = None
                THEN [key |-> None, revision |-> 0, state |-> "never-configured", tested |-> None]
                ELSE [key |-> key, revision |-> 1, state |-> "configured", tested |-> None]
       /\ decided = (key # None)
       /\ ui = [t \in Tabs |-> [load |-> IF key = None THEN "idle" ELSE "ready", editing |-> FALSE,
                                busy |-> FALSE, known |-> IF key = None THEN None ELSE State]]
  /\ replays = {}
  /\ tests = {}
  /\ wire = {}
  /\ op = [t \in Tabs |-> None]
  /\ requests = 0
  /\ faults = MaxFaults
  /\ starts = MaxStarts

Fault == faults > 0 /\ faults' = faults - 1

-----------------------------------------------------------------------------
(* The browser.                                                             *)

\* A new request of a tab; what it waited for is aborted.
Ask(t, kind, key, revision) ==
  /\ requests < MaxRequests
  /\ requests' = requests + 1
  /\ wire' = wire \union {[id |-> requests, kind |-> kind, key |-> key, expected |-> revision]}
  /\ op' = [op EXCEPT ![t] = [id |-> requests, kind |-> kind, answers |-> {}]]
  /\ UNCHANGED <<server, faults>>

\* loadCoverProviderSettings: also in the middle of a save, when a search has
\* to know whether there is a key.
Load(t, force) ==
  /\ force \/ ui[t].load \in {"idle", "error"}
  /\ Ask(t, "load", None, 0)
  /\ ui' = [ui EXCEPT ![t].load = "loading", ![t].editing = FALSE, ![t].busy = FALSE]

Edit(t) ==
  /\ ~ui[t].busy
  /\ ui' = [ui EXCEPT ![t].editing = ~@]
  /\ UNCHANGED <<server, wire, op, requests, faults>>

KnownRevision(t) == IF ui[t].known = None THEN 0 ELSE ui[t].known.revision

\* saveAndTestProviderCredential, up to the answer to the save
Save(t, key) ==
  /\ ~ui[t].busy /\ ui[t].editing
  /\ Ask(t, "save", key, KnownRevision(t))
  /\ ui' = [ui EXCEPT ![t].busy = TRUE]

\* removeProviderCredential
Remove(t) ==
  /\ ~ui[t].busy
  /\ ui[t].known # None /\ ui[t].known.key # None
  /\ Ask(t, "remove", None, KnownRevision(t))
  /\ ui' = [ui EXCEPT ![t].busy = TRUE]

Answers(t) == IF op[t] = None THEN {} ELSE op[t].answers

\* What was saved is tested at once, at the revision it got.
TestWhatWasSaved(t) == \E state \in Answers(t) \ {None} :
  /\ op[t].kind = "save"
  /\ Ask(t, "test", None, state.revision)
  /\ UNCHANGED ui

\* The answer to a load, a test or a removal is what the tab knows from now.
Learn(t) == \E state \in Answers(t) \ {None} :
  /\ op[t].kind # "save"
  /\ ui' = [ui EXCEPT ![t] = [load |-> "ready", busy |-> FALSE, known |-> state,
                              editing |-> op[t].kind = "test" /\ state.tested # "working"]]
  /\ op' = [op EXCEPT ![t] = None]
  /\ UNCHANGED <<server, wire, requests, faults>>

\* An error, or no answer in time: the tab knows what it knew before.
Fails(t) ==
  /\ op[t] # None
  /\ IF None \in Answers(t) THEN UNCHANGED faults ELSE Fault
  /\ ui' = [ui EXCEPT
              ![t].busy = FALSE,
              ![t].load = IF op[t].kind = "load" THEN "error"
                          ELSE IF op[t].kind = "remove" THEN @ ELSE "ready",
              ![t].editing = (op[t].kind = "remove" => @) /\ op[t].kind # "load"]
  /\ op' = [op EXCEPT ![t] = None]
  /\ UNCHANGED <<server, wire, requests>>

-----------------------------------------------------------------------------
(* The service.                                                             *)

\* Only the tab that still waits for this request gets its answer.
Answer(id, state) ==
  op' = [t \in Tabs |-> IF op[t] # None /\ op[t].id = id
                        THEN [op[t] EXCEPT !.answers = {state}] ELSE op[t]]

Reply(m, state) ==
  /\ Answer(m.id, state)
  /\ \/ wire' = wire \ {m} /\ UNCHANGED faults
     \/ wire' = wire /\ Fault    \* it comes a second time
  /\ UNCHANGED <<ui, requests>>

\* A fresh state of the row after a change.
Changed(key, state) == [key |-> key, revision |-> row.revision + 1, state |-> state,
                        tested |-> None]

HandleLoad(m) ==
  /\ m.kind = "load"
  /\ Reply(m, State)
  /\ UNCHANGED server

Replayed(m) == {r \in replays : r.id = m.id}

\* setCoverProviderCredential and removeCoverProviderCredential: one that was
\* applied is answered with the row as long as nothing changed since.
Mutate(m) ==
  /\ m.kind \in {"save", "remove"}
  /\ Replayed(m) = {} /\ row.revision = m.expected
  /\ row' = Changed(m.key, IF m.kind = "save" THEN "configured" ELSE "removed")
  /\ replays' = replays \union {[id |-> m.id, revision |-> row'.revision]}
  /\ decided' = TRUE
  /\ Reply(m, State')
  /\ UNCHANGED <<tests, starts>>

Replay(m) ==
  /\ m.kind \in {"save", "remove"}
  /\ \E r \in Replayed(m) : Reply(m, IF r.revision = row.revision THEN State ELSE None)
  /\ UNCHANGED server

\* "changed in another browser"
Refuse(m) ==
  /\ \/ m.kind \in {"save", "remove"} /\ Replayed(m) = {} /\ row.revision # m.expected
     \/ m.kind = "test" /\ (row.key = None \/ row.revision # m.expected)
  /\ Reply(m, None)
  /\ UNCHANGED server

\* The key is read, and the provider asked.
TestBegins(m) ==
  /\ m.kind = "test"
  /\ row.key # None /\ row.revision = m.expected
  /\ tests' = tests \union {[id |-> m.id, key |-> row.key, revision |-> row.revision]}
  /\ wire' = wire \ {m}
  /\ UNCHANGED <<row, replays, decided, starts, ui, op, requests, faults>>

OfThisKey(x) == row.revision = x.revision /\ row.key # None

\* recordCoverProviderCredentialTest, when the provider has answered; a good
\* key may fail for other reasons.
TestEnds(x) ==
  /\ tests' = tests \ {x}
  /\ \E result \in {"working", "error"} :
       /\ result = "working" => x.key # "bad"
       /\ IF OfThisKey(x)
          THEN row' = [row EXCEPT !.tested = result] /\ Answer(x.id, State')
          ELSE UNCHANGED row /\ Answer(x.id, None)
  /\ UNCHANGED <<replays, decided, starts, wire, ui, requests, faults>>

\* The client goes away, or the service does (withProviderRequest).
TestAborts(x) ==
  /\ Fault
  /\ tests' = tests \ {x}
  /\ UNCHANGED <<row, replays, decided, starts, wire, ui, op, requests>>

Lose(m) ==
  /\ Fault
  /\ wire' = wire \ {m}
  /\ UNCHANGED <<server, ui, op, requests>>

\* Seeded fault: a start looks only whether there is a key.
NoKey == row.key = None
NeverConfigured == row.state = "never-configured" /\ row.revision = 0 /\ row.key = None

\* initializeCoverProviderCredentials: the service starts, with or without a
\* key in its environment; what was under way ends.
Start(legacy) ==
  /\ starts > 0
  /\ starts' = starts - 1
  /\ row' = IF legacy /\ NeverConfigured
            THEN [key |-> Environment, revision |-> 1, state |-> "configured", tested |-> None]
            ELSE row
  /\ tests' = {}
  /\ wire' = {}
  /\ UNCHANGED <<replays, decided, ui, op, requests, faults>>

Next ==
  \/ \E t \in Tabs, force \in BOOLEAN : Load(t, force)
  \/ \E t \in Tabs : Edit(t)
  \/ \E t \in Tabs, key \in Entered : Save(t, key)
  \/ \E t \in Tabs : Remove(t)
  \/ \E t \in Tabs : TestWhatWasSaved(t)
  \/ \E t \in Tabs : Learn(t)
  \/ \E t \in Tabs : Fails(t)
  \/ \E m \in wire : HandleLoad(m)
  \/ \E m \in wire : Mutate(m)
  \/ \E m \in wire : Replay(m)
  \/ \E m \in wire : Refuse(m)
  \/ \E m \in wire : TestBegins(m)
  \/ \E x \in tests : TestEnds(x)
  \/ \E x \in tests : TestAborts(x)
  \/ \E m \in wire : Lose(m)
  \/ \E legacy \in BOOLEAN : Start(legacy)

Spec == Init /\ [][Next]_vars

-----------------------------------------------------------------------------

Secrets == Entered \union {Environment, None}
Results == {"working", "error", None}
Known == [key : Secrets, revision : Nat, tested : Results]

TypeOK ==
  /\ row \in [key : Secrets, revision : Nat, tested : Results,
              state : {"never-configured", "configured", "removed"}]
  /\ replays \subseteq [id : 0..MaxRequests, revision : Nat]
  /\ tests \subseteq [id : 0..MaxRequests, key : Secrets, revision : Nat]
  /\ wire \subseteq [id : 0..MaxRequests, kind : {"load", "save", "remove", "test"},
                    key : Secrets, expected : Nat]
  /\ ui \in [Tabs -> [load : {"idle", "loading", "ready", "error"}, editing : BOOLEAN,
                     busy : BOOLEAN, known : Known \union {None}]]
  /\ op \in [Tabs -> [id : 0..MaxRequests, kind : {"load", "save", "remove", "test"},
                     answers : SUBSET (Known \union {None})] \union {None}]
  /\ decided \in BOOLEAN
  /\ requests \in 0..MaxRequests /\ faults \in 0..MaxFaults /\ starts \in 0..MaxStarts

\* A key said to work was accepted by the provider, although the row may
\* change while a test of it is under way; and a browser that knows the
\* newest revision knows the key it belongs to.
TestedMeansAccepted ==
  /\ row.tested = "working" => row.key \notin {"bad", None}
  /\ \A t \in Tabs : ui[t].known # None =>
       /\ ui[t].known.tested = "working" => ui[t].known.key \notin {"bad", None}
       /\ ui[t].known.revision = row.revision => ui[t].known.key = row.key

\* Once a user has saved or removed a key, the one in the environment never
\* comes back with a later start (catalog-database.ts:835 "must never silently
\* reappear on a later restart").
RemovedStaysRemoved == decided => row.key # Environment

=============================================================================
