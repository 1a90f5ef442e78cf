---------------------------- MODULE CatalogView ----------------------------
(***************************************************************************)
(* How the page a browser shows follows the catalog: the server's event    *)
(* hub, the event stream of catalog-client.ts, and the refreshes, page     *)
(* loads and configuration saves of catalog-browser.ts, which overtake and *)
(* abort one another.                                                      *)
(*                                                                         *)
(* The catalog is the number of its changes.  An event is only a hint, so  *)
(* the frames under way to the browser are one Boolean.                    *)
(***************************************************************************)
EXTENDS Naturals

CONSTANTS
  MaxChanges,   \* changes of the catalog
  MaxFaults,    \* lost connections, refused streams, failed requests, restarts
  MaxClicks,    \* what the user does
  None          \* no page, no load

Profiles == {1, 2}

VARIABLES
  catalog,   \* the number of committed changes
  deleted,   \* profile 1 has been deleted by another browser
  unsent,    \* a change is committed and its event not yet published
  attached,  \* the hub writes to our response
  wire,      \* an event is under way
  stream,    \* "closed", "none" (to be connected), "opening" or "open"
  hole,      \* the connection swallows what is written to it
  app,       \* "loading", "ready" or "error"
  listed,    \* the profiles the browser knows of
  profile,   \* the active profile
  onKindle,  \* the device inventory is shown instead of a page
  page,      \* [profile, catalog]: what the cards show, or None
  stale,     \* the page is marked as stale
  load,      \* the newest page load, or None
  timer,     \* #eventTimer
  hint,      \* #latestCatalogEvent
  refresh,   \* how far #refreshFromEvents has come
  seenBy,    \* the profile it refreshes
  retired,   \* its epoch is over
  overdue,   \* the newest load was answered before a refresh that failed (history)
  mutating,  \* #configurationMutationRunning: "no", "saving" or "loading"
  faults, clicks

server == <<catalog, deleted, unsent, attached>>
channel == <<wire, stream, hole>>
shown == <<app, listed, profile, onKindle, page, stale>>
events == <<timer, hint, refresh, seenBy, retired, overdue>>
bounds == <<faults, clicks>>
vars == <<catalog, deleted, unsent, attached, wire, stream, hole, app, listed, profile, onKindle, page,
          stale, load, timer, hint, refresh, seenBy, retired, overdue, mutating, faults, clicks>>

Fault == faults < MaxFaults /\ faults' = faults + 1 /\ UNCHANGED clicks
Click == clicks < MaxClicks /\ clicks' = clicks + 1 /\ UNCHANGED faults

-----------------------------------------------------------------------------
(* The server *)

Commit ==
  /\ catalog < MaxChanges
  /\ catalog' = catalog + 1 /\ unsent' = TRUE
  /\ deleted' \in {deleted, TRUE}
  /\ UNCHANGED <<attached, channel, shown, load, events, mutating, bounds>>

\* publish: a response that does not take the frame is dropped.
Publish ==
  /\ unsent /\ unsent' = FALSE
  /\ \/ /\ wire' = (wire \/ (attached /\ ~hole))
        /\ UNCHANGED <<attached, bounds>>
     \/ /\ attached /\ Fault
        /\ attached' = FALSE
        /\ UNCHANGED wire
  /\ UNCHANGED <<catalog, deleted, stream, hole, shown, load, events, mutating>>

\* The process ends, perhaps between the commit and the event.
Restart ==
  /\ Fault
  /\ unsent' = FALSE /\ attached' = FALSE
  /\ UNCHANGED <<catalog, deleted, channel, shown, load, events, mutating>>

-----------------------------------------------------------------------------
(* The event stream *)

\* connect.
Connect ==
  /\ stream = "none"
  /\ stream' = "opening"
  /\ UNCHANGED <<server, wire, hole, shown, load, events, mutating, bounds>>

\* Seeded fault: a connection without a cursor is sent nothing.
AttachQuietly ==
  /\ stream = "opening"
  /\ stream' = "open" /\ attached' = TRUE /\ wire' = FALSE /\ hole' = FALSE
  /\ UNCHANGED <<catalog, deleted, unsent, shown, load, events, mutating, bounds>>

\* attach and onopen.  The stream has no cursor: every connection gets the
\* snapshot hint.
Attach ==
  /\ stream = "opening"
  /\ stream' = "open" /\ attached' = TRUE /\ wire' = TRUE /\ hole' = FALSE
  /\ UNCHANGED <<catalog, deleted, unsent, shown, load, events, mutating, bounds>>

\* retireConnection: an error, the hub's limit of clients, or no answer in time.
StreamFails ==
  /\ stream \in {"opening", "open"}
  /\ \/ stream = "open" /\ ~attached /\ UNCHANGED bounds
     \/ Fault
  /\ stream' = "none" /\ wire' = FALSE /\ attached' = FALSE
  /\ UNCHANGED <<catalog, deleted, unsent, hole, shown, load, events, mutating>>

\* The lease of the transport ends, whatever passes through it.
LeaseEnds ==
  /\ stream = "open"
  /\ stream' = "none" /\ wire' = FALSE /\ attached' = FALSE
  /\ UNCHANGED <<catalog, deleted, unsent, hole, shown, load, events, mutating, bounds>>

BlackHole ==
  /\ stream = "open" /\ ~hole /\ Fault
  /\ hole' = TRUE /\ wire' = FALSE
  /\ UNCHANGED <<server, stream, shown, load, events, mutating>>

\* #scheduleEventRefresh: during a refresh the event waits for its end.
Deliver ==
  /\ stream = "open" /\ wire
  /\ wire' = FALSE
  /\ hint' = TRUE
  /\ timer' = (timer \/ refresh = "idle")
  /\ UNCHANGED <<server, stream, hole, shown, load, refresh, seenBy, retired, overdue,
                 mutating, bounds>>

-----------------------------------------------------------------------------
(* Page loads.  A newer load aborts an older one. *)

NewLoad(p, by) == [profile |-> p, by |-> by, saw |-> None]
LoadIs(by) == load # None /\ load.by = by

\* The server answers the query.
Answer ==
  /\ load # None /\ load.saw = None
  /\ ~(deleted /\ load.profile = 1)
  /\ load' = [load EXCEPT !.saw = catalog]
  /\ UNCHANGED <<server, channel, shown, events, mutating, bounds>>

\* The end of reloadBooks and #loadProfile.
ShowPage ==
  /\ load # None /\ load.saw # None
  /\ IF load.profile = profile
     THEN /\ page' = [profile |-> load.profile, catalog |-> load.saw]
          /\ stale' = FALSE
     ELSE UNCHANGED <<page, stale>>
  /\ load' = None
  /\ UNCHANGED <<server, channel, app, listed, profile, onKindle, events, mutating, bounds>>

\* A request fails, or the profile is no longer there.
LoadFails ==
  /\ load # None
  /\ \/ Fault
     \/ deleted /\ load.profile = 1 /\ load.saw = None /\ UNCHANGED bounds
  /\ stale' = (stale \/ page # None)
  /\ load' = None
  /\ UNCHANGED <<server, channel, app, listed, profile, onKindle, page, events, mutating>>

\* goToPage, a filter or a search.
TurnPage ==
  /\ Click /\ app = "ready" /\ ~onKindle
  /\ load' = NewLoad(profile, "user") /\ overdue' = FALSE
  /\ UNCHANGED <<server, channel, shown, timer, hint, refresh, seenBy, retired, mutating>>

\* selectProfile.  seenBy = 0: the profile epoch of a refresh is over.
SelectProfile ==
  /\ Click /\ app = "ready" /\ mutating = "no" /\ 3 - profile \in listed
  /\ profile' = 3 - profile /\ seenBy' = 0
  /\ page' = None /\ stale' = FALSE /\ onKindle' = FALSE
  /\ load' = NewLoad(3 - profile, "user") /\ overdue' = FALSE
  /\ UNCHANGED <<server, channel, app, listed, timer, hint, refresh, retired, mutating>>

\* setView.
SetView ==
  /\ Click /\ app = "ready" /\ mutating = "no"
  /\ onKindle' = ~onKindle
  /\ load' = IF onKindle THEN NewLoad(profile, "user") ELSE None
  /\ overdue' = (overdue /\ ~onKindle)
  /\ UNCHANGED <<server, channel, app, listed, profile, page, stale, timer, hint, refresh, seenBy,
                 retired, mutating>>

-----------------------------------------------------------------------------
(* Startup *)

\* The rest of start(): the remembered profile, or the first, is loaded and the
\* event stream is opened anew.
StartAnswered ==
  /\ app = "loading"
  /\ app' = "ready"
  /\ listed' = IF deleted THEN {2} ELSE Profiles
  /\ profile' = IF profile \in listed' THEN profile ELSE 2
  /\ page' = page /\ stale' = FALSE /\ onKindle' = FALSE
  /\ load' = NewLoad(profile', "user") /\ overdue' = FALSE
  /\ stream' = "opening" /\ attached' = FALSE /\ wire' = FALSE
  /\ UNCHANGED <<catalog, deleted, unsent, hole, timer, hint, refresh, seenBy, retired, mutating,
                 bounds>>

StartFails ==
  /\ app = "loading" /\ Fault
  /\ app' = "error"
  /\ UNCHANGED <<server, channel, listed, profile, onKindle, page, stale, load, events, mutating>>

\* retry.  The event stream of the earlier start goes on meanwhile.
Retry ==
  /\ app # "loading" /\ Click
  /\ app' = "loading"
  /\ page' = None /\ stale' = FALSE /\ load' = None /\ seenBy' = 0
  /\ UNCHANGED <<server, channel, listed, profile, onKindle, timer, hint, refresh, retired,
                 overdue, mutating>>

-----------------------------------------------------------------------------
(* Refreshes.  #drainEventRefresh takes the hint and runs *)
(* #refreshFromEvents: the profiles, the folders, the page and the hook. *)

DrainWhen(wanted) ==
  IF wanted
  THEN /\ refresh' = "profiles" /\ retired' = FALSE /\ hint' = FALSE
  ELSE /\ refresh' = "idle" /\ UNCHANGED <<retired, hint>>

TimerFires ==
  /\ timer /\ timer' = FALSE
  /\ IF refresh = "idle" THEN DrainWhen(hint /\ mutating = "no")
                         ELSE UNCHANGED <<refresh, retired, hint>>
  /\ UNCHANGED <<server, channel, shown, load, seenBy, overdue, mutating, bounds>>

\* #reloadProfiles and #applyProfiles: another profile takes the place of one
\* that is gone, and its page is loaded by the rest of the refresh.
ProfilesRead ==
  /\ refresh = "profiles" /\ ~retired
  /\ refresh' = "folders"
  /\ listed' = IF deleted THEN {2} ELSE Profiles
  /\ profile' = IF profile \in listed' THEN profile ELSE 2
  /\ seenBy' = profile'
  /\ IF profile' = profile
     THEN UNCHANGED <<page, stale, load>>
     ELSE page' = None /\ stale' = FALSE /\ load' = None
  /\ UNCHANGED <<server, channel, app, onKindle, timer, hint, retired, overdue, mutating,
                 bounds>>

\* The page is reloaded when its profile is still shown.
FoldersRead ==
  /\ refresh = "folders" /\ ~retired /\ ~(deleted /\ seenBy = 1)
  /\ stale' = FALSE
  /\ IF seenBy # profile
     THEN refresh' = "hook" /\ UNCHANGED <<load, overdue>>
     ELSE /\ refresh' = "page" /\ overdue' = FALSE
          /\ load' = IF onKindle THEN None ELSE NewLoad(profile, "refresh")
  /\ UNCHANGED <<server, channel, app, listed, profile, onKindle, page, timer, hint, seenBy,
                 retired, mutating, bounds>>

PageRead ==
  /\ refresh = "page" /\ ~retired
  /\ ~LoadIs("refresh")
  /\ refresh' = "hook"
  /\ UNCHANGED <<server, channel, shown, load, timer, hint, seenBy, retired, overdue, mutating,
                 bounds>>

\* Seeded fault: what arrived during the refresh waits for the next event.
RefreshForgets ==
  /\ refresh = "hook" \/ (refresh # "idle" /\ retired)
  /\ refresh' = "idle" /\ retired' = FALSE /\ hint' = FALSE
  /\ UNCHANGED <<server, channel, shown, load, timer, seenBy, overdue, mutating, bounds>>

\* The refresh ends, or sees that its epoch is over; a waiting hint is taken.
RefreshEnds ==
  /\ refresh = "hook" \/ (refresh # "idle" /\ retired)
  /\ DrainWhen(hint /\ mutating = "no")
  /\ UNCHANGED <<server, channel, shown, load, timer, seenBy, overdue, mutating, bounds>>

\* A request fails: the page is marked unless the refresh is no longer its.
RefreshFails ==
  /\ refresh \in {"profiles", "folders", "hook"} /\ ~retired
  /\ \/ Fault
     \/ refresh = "folders" /\ deleted /\ seenBy = 1 /\ UNCHANGED bounds
  /\ stale' = (stale \/ refresh = "profiles" \/ seenBy = profile)
  /\ overdue' = (overdue \/ (load # None /\ load.saw # None))
  /\ DrainWhen(hint /\ mutating = "no")
  /\ UNCHANGED <<server, channel, app, listed, profile, onKindle, page, load, timer, seenBy,
                 mutating>>

-----------------------------------------------------------------------------
(* Saving the settings of a library *)

\* #beginConfigurationMutation: a refresh that it retires is owed again.
BeginSave ==
  /\ Click /\ app = "ready" /\ mutating = "no"
  /\ mutating' = "saving"
  /\ IF refresh # "idle"
     THEN /\ retired' = TRUE /\ hint' = TRUE
          /\ IF LoadIs("refresh")
             THEN load' = None /\ stale' = (stale \/ page # None)
             ELSE UNCHANGED <<load, stale>>
     ELSE UNCHANGED <<retired, hint, load, stale>>
  /\ UNCHANGED <<server, channel, app, listed, profile, onKindle, page, timer, refresh, seenBy, overdue>>

\* saveSettings: the save is answered, the profiles are read and applied, and
\* the active profile is loaded anew.
Saved ==
  /\ mutating = "saving"
  /\ mutating' = "loading"
  /\ IF catalog < MaxChanges
     THEN catalog' = catalog + 1 /\ unsent' = TRUE
     ELSE UNCHANGED <<catalog, unsent>>
  /\ listed' = IF deleted THEN {2} ELSE Profiles
  /\ profile' = IF profile \in listed' THEN profile ELSE 2
  /\ load' = NewLoad(profile', "save") /\ overdue' = FALSE
  /\ IF profile' = profile
     THEN UNCHANGED <<page, stale, seenBy>>
     ELSE page' = None /\ stale' = FALSE /\ seenBy' = 0
  /\ UNCHANGED <<deleted, attached, channel, app, onKindle, timer, hint, refresh, retired, bounds>>

\* #finishConfigurationMutation.
FinishSave ==
  /\ \/ mutating = "loading" /\ ~LoadIs("save") /\ UNCHANGED bounds
     \/ mutating = "saving" /\ Fault
  /\ mutating' = "no"
  /\ IF hint /\ refresh = "idle"
     THEN DrainWhen(TRUE)
     ELSE UNCHANGED <<refresh, retired, hint>>
  /\ UNCHANGED <<server, channel, shown, load, timer, seenBy, overdue>>

-----------------------------------------------------------------------------

Init ==
  /\ catalog = 0 /\ deleted = FALSE /\ unsent = FALSE /\ attached = FALSE
  /\ wire = FALSE /\ stream = "closed" /\ hole = FALSE
  /\ app = "loading" /\ listed = {} /\ profile = 1 /\ onKindle = FALSE
  /\ page = None /\ stale = FALSE /\ load = None
  /\ timer = FALSE /\ hint = FALSE /\ refresh = "idle" /\ seenBy = 1 /\ retired = FALSE
  /\ overdue = FALSE
  /\ mutating = "no" /\ faults = 0 /\ clicks = 0

Work ==
  \/ StartAnswered \/ Publish \/ Connect \/ Attach \/ LeaseEnds \/ Deliver \/ Answer \/ ShowPage
  \/ TimerFires \/ ProfilesRead \/ FoldersRead \/ PageRead \/ RefreshEnds
  \/ Saved \/ FinishSave

Next ==
  \/ Work
  \/ StartFails \/ Retry \/ Commit \/ Restart \/ StreamFails \/ BlackHole \/ LoadFails \/ TurnPage
  \/ SelectProfile \/ SetView \/ RefreshFails \/ BeginSave

Spec == Init /\ [][Next]_vars

\* Each of the page's processes goes on: its stream, its page load, its refresh
\* and its save.  Requests are answered before the lease of a stream ends, which
\* is minutes later; a stream that has gone is noticed.
OpenStream == Connect \/ Attach
LoadPage == Answer \/ ShowPage \/ (LoadFails /\ UNCHANGED bounds)
Refresh == ProfilesRead \/ FoldersRead \/ PageRead \/ RefreshEnds
             \/ (RefreshFails /\ UNCHANGED bounds)
Save == Saved \/ FinishSave
FairSpec ==
  /\ Spec
  /\ WF_vars(StartAnswered) /\ WF_vars(Publish) /\ WF_vars(OpenStream) /\ SF_vars(Deliver)
  /\ WF_vars(LoadPage) /\ WF_vars(TimerFires) /\ WF_vars(Refresh) /\ WF_vars(Save)
  /\ WF_vars(LeaseEnds)

-----------------------------------------------------------------------------

\* The values of the variables.
TypeOK ==
  /\ catalog \in 0 .. MaxChanges /\ listed \subseteq Profiles
  /\ {deleted, unsent, attached, wire, hole, onKindle, stale, timer, hint, retired, overdue} \subseteq BOOLEAN
  /\ app \in {"loading", "ready", "error"} /\ stream \in {"closed", "none", "opening", "open"}
  /\ profile \in Profiles /\ seenBy \in 0 .. 2
  /\ page # None => page \in [profile : Profiles, catalog : 0 .. MaxChanges]
  /\ load # None => /\ load.profile \in Profiles /\ load.by \in {"user", "refresh", "save"}
                    /\ load.saw # None => load.saw \in 0 .. MaxChanges
  /\ refresh \in {"idle", "profiles", "folders", "page", "hook"}
  /\ mutating \in {"no", "saving", "loading"}
  /\ faults \in 0 .. MaxFaults /\ clicks \in 0 .. MaxClicks

Quiet == /\ app = "ready" /\ stream = "open" /\ attached /\ ~hole /\ ~wire /\ ~unsent
         /\ ~timer /\ ~hint /\ refresh = "idle" /\ mutating = "no" /\ load = None

\* With an open stream and nothing under way, a page that is not marked stale
\* shows the active profile as the catalog has it, through aborted loads, events
\* that overtake one another and lost connections.  Exempt is the page of a load
\* that had been answered when a refresh failed: showing it takes off the mark
\* that the failure left, and the page stays old and unmarked until the next hint.
QuietPageIsFresh ==
  Quiet /\ ~onKindle /\ ~stale /\ ~overdue /\ page # None =>
    page = [profile |-> profile, catalog |-> catalog]

\* When the user stays on a page, it catches up with the catalog for good:
\* lost connections, failed refreshes and events that were never sent are made
\* up for by the next connection's snapshot hint.
PageCatchesUp ==
  <>[](app = "ready" /\ ~onKindle) => <>[](page = [profile |-> profile, catalog |-> catalog])
=============================================================================
