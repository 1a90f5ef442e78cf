--------------------------- MODULE CatalogIssues ----------------------------
(***************************************************************************)
(* The inbox of what needs attention.  The issues of a profile are derived *)
(* from the catalog whenever they are asked for; what users decided about  *)
(* them is kept in rows under the signature of the issue, which outlive    *)
(* the issue within bounds.  Browsers show a page of issues and decide on  *)
(* the revision they show (catalog-issues.ts, catalog-database.ts,         *)
(* catalog-browser.ts).                                                    *)
(***************************************************************************)
EXTENDS FiniteSets, Integers, SequencesExt

CONSTANTS
  Books,
  Facts,        \* what a scan may find
  None,         \* no preferred book, no request
  MaxRows,      \* MAX_DERIVED_CATALOG_ISSUES: 20,000 in the code
  MaxHistory,   \* rows of resolved issues that are kept: 5,000 in the code
  MaxChanges,   \* bound on changes of the catalog
  MaxDecisions, \* bound on accepted decisions
  MaxFaults     \* bound on lost requests, answers and connections

Groups == {g \in SUBSET Books : Cardinality(g) > 1}

VARIABLES
  facts,    \* what the scan found: books without cover, and groups of the same book
  rows,     \* catalog_issue_dispositions of the profile
  recent,   \* the signatures of the rows, the last updated first
  tab,      \* what a browser shows and waits for; others decide beside it
  retired,  \* signatures whose row was pruned at some time
  budget

vars == <<facts, rows, recent, tab, retired, budget>>

Reasons == {"cover-missing", "suspected-duplicate"}
Signatures == [reason : Reasons, books : SUBSET Books]
Dispositions == [ignored : BOOLEAN, preferred : Books \cup {None}, revision : 0..MaxDecisions]
Untouched == [ignored |-> FALSE, preferred |-> None, revision |-> 0]

\* deriveCatalogIssues: a group of the same book has at least two books, and is
\* reported once, for the strongest reason.
Derived ==
  {[reason |-> "cover-missing", books |-> {b}] : b \in facts.coverless}
    \cup {[reason |-> "suspected-duplicate", books |-> g] : g \in facts.twins}

Disposition(s) == IF s \in DOMAIN rows THEN rows[s] ELSE Untouched

\* A page of the issues that are ignored, or of those that are not.
Page(filter) ==
  [s \in {s \in Derived : Disposition(s).ignored = filter} |-> Disposition(s)]

NoPage == [s \in {} |-> Untouched]

\* The rows of resolved issues, and those of them that stay when so many rows are
\* about to come.
Resolved == SelectSeq(recent, LAMBDA s : s \notin Derived)

Kept(coming) ==
  LET live == Cardinality(DOMAIN rows \cap Derived)
      room == MaxRows - coming - live
      n == IF room < 0 THEN 0 ELSE IF room < MaxHistory THEN room ELSE MaxHistory
  IN {Resolved[i] : i \in 1..n \cap DOMAIN Resolved}

Surviving(coming) == DOMAIN rows \cap (Derived \cup Kept(coming))

\* More issues than can be derived at all refuse every request.
Derivable == Cardinality(Derived) <= MaxRows

Decisions == [kind : {"ignore"}, value : BOOLEAN] \cup [kind : {"retry"}, value : {None}]
               \cup [kind : {"prefer"}, value : Books \cup {None}]
Calls == [sig : Signatures, revision : 0..MaxDecisions, decision : Decisions,
          at : {"sent", "applied", "refused"}]

\* state: healthState; page: healthPage; load: the request of the page, or its
\* answer; call: the decision under way (healthBusySignature); hint: an event is
\* on its way; open: the event stream.
Tab == [state : {"idle", "loading", "ready", "error"},
        load : {"none", "asked", "answered", "failed"}, hint : BOOLEAN, open : BOOLEAN]

TypeOK ==
  /\ facts \in Facts
  /\ DOMAIN rows \subseteq Signatures
  /\ \A s \in DOMAIN rows : rows[s] \in Dispositions /\ rows[s].preferred \in s.books \cup {None}
  /\ ToSet(recent) = DOMAIN rows /\ Len(recent) = Cardinality(DOMAIN rows)
  /\ [k \in {"state", "load", "hint", "open"} |-> tab[k]] \in Tab
  /\ tab.call \in Calls \cup {None}
  /\ retired \subseteq Signatures

Init ==
  /\ facts \in Facts
  /\ rows = NoPage
  /\ recent = <<>>
  /\ tab = [state |-> "idle", page |-> NoPage, load |-> "none", found |-> NoPage,
            call |-> None, hint |-> FALSE, open |-> TRUE]
  /\ retired = {}
  /\ budget = [changes |-> MaxChanges, decisions |-> MaxDecisions, faults |-> MaxFaults]

Spend(kind) == budget[kind] > 0 /\ budget' = [budget EXCEPT ![kind] = @ - 1]

\* A scan, an edit or a deletion changes what the issues are derived from; the
\* pages learn of it only when they load again.
CatalogChanges ==
  /\ Spend("changes")
  /\ facts' \in Facts \ {facts}
  /\ UNCHANGED <<rows, recent, tab, retired>>

\* loadCatalogHealth replaces the load under way.
Loading(p) == [p EXCEPT !.state = "loading", !.load = "asked", !.found = NoPage]

\* The inbox is opened, refreshed, or is to show the other filter.
Open ==
  /\ tab' = Loading(tab)
  /\ UNCHANGED <<facts, rows, recent, retired, budget>>

\* The rows that do not survive go.
Prune(keep) ==
  /\ rows' = [s \in keep |-> rows[s]]
  /\ recent' = SelectSeq(recent, LAMBDA s : s \in keep)
  /\ retired' = retired \cup (DOMAIN rows \ keep)

\* listCatalogIssues prunes, and answers the page of the filter that is set.
List(filter) ==
  /\ tab.load = "asked"
  /\ \/ /\ Derivable
        /\ Prune(Surviving(0))
        /\ tab' = [tab EXCEPT !.load = "answered", !.found = Page(filter)]
     \/ /\ ~Derivable
        /\ tab' = [tab EXCEPT !.load = "failed"]
        /\ UNCHANGED <<rows, recent, retired>>
  /\ UNCHANGED <<facts, budget>>

\* The page arrives.
Loaded ==
  /\ tab.load = "answered"
  /\ tab' = [tab EXCEPT !.state = "ready", !.page = tab.found, !.load = "none",
                        !.found = NoPage]
  /\ UNCHANGED <<facts, rows, recent, retired, budget>>

\* The request fails; the page that was there stays, and says so.
LoadFails ==
  /\ \/ tab.load = "failed" /\ UNCHANGED budget
     \/ tab.load \in {"asked", "answered"} /\ Spend("faults")
  /\ tab' = [tab EXCEPT !.state = "error", !.load = "none", !.found = NoPage]
  /\ UNCHANGED <<facts, rows, recent, retired>>

\* It takes too long: the operation aborts itself, which the catch block takes
\* for a newer load, so the inbox goes on to say that it is loading.
LoadTimesOut ==
  /\ tab.load # "none" /\ Spend("faults")
  /\ tab' = [tab EXCEPT !.load = "none", !.found = NoPage]
  /\ UNCHANGED <<facts, rows, recent, retired>>

\* The user decides on an issue of the page; one decision at a time.
Decide(s, d) ==
  /\ tab.call = None /\ s \in DOMAIN tab.page
  /\ d.kind = "prefer" => s.reason # "cover-missing" /\ d.value \in s.books \cup {None}
  /\ tab' = [tab EXCEPT !.call =
               [sig |-> s, revision |-> tab.page[s].revision, decision |-> d, at |-> "sent"]]
  /\ UNCHANGED <<facts, rows, recent, retired, budget>>

Ends(at) == [tab EXCEPT !.call.at = at]

\* An issue that is gone, or was decided on since, refuses the decision.
Refuse ==
  LET c == tab.call
  IN /\ c # None /\ c.at = "sent"
     /\ ~Derivable \/ c.sig \notin Derived \/ Disposition(c.sig).revision # c.revision
     /\ tab' = Ends("refused")
     /\ UNCHANGED <<facts, rows, recent, retired, budget>>

\* A decision that is in force already changes nothing.
InForce(c) ==
  \/ c.decision.kind = "ignore" /\ Disposition(c.sig).ignored = c.decision.value
  \/ c.decision.kind = "prefer" /\ Disposition(c.sig).preferred = c.decision.value

Repeat ==
  LET c == tab.call
  IN /\ c # None /\ c.at = "sent"
     /\ Derivable /\ c.sig \in Derived /\ Disposition(c.sig).revision = c.revision
     /\ InForce(c)
     /\ tab' = Ends("applied")
     /\ UNCHANGED <<facts, rows, recent, retired, budget>>

\* Seeded fault: a decision leaves the revision of its row.
DecidedUncounted(c) ==
  [ignored |-> c.decision.kind = "ignore" /\ c.decision.value,
   preferred |-> IF c.decision.kind = "prefer" THEN c.decision.value ELSE None,
   revision |-> Disposition(c.sig).revision]

\* The row as the decision leaves it.
Decided(c) ==
  LET old == Disposition(c.sig)
  IN [ignored |-> IF c.decision.kind = "ignore" THEN c.decision.value ELSE old.ignored,
      preferred |-> IF c.decision.kind = "prefer" THEN c.decision.value ELSE old.preferred,
      revision |-> old.revision + 1]

\* A new row makes room for itself first (assertCatalogIssueDispositionCapacity).
Room(s) == IF s \in DOMAIN rows THEN DOMAIN rows ELSE Surviving(1)

\* Decision c is stored and announced; the tab goes on as p.
Store(c, p) ==
  LET keep == Room(c.sig)
  IN /\ Derivable /\ c.sig \in Derived /\ Disposition(c.sig).revision = c.revision
     /\ ~InForce(c)
     /\ c.sig \in DOMAIN rows \/ Cardinality(keep) < MaxRows
     /\ Spend("decisions")
     /\ rows' = [s \in keep \cup {c.sig} |-> IF s = c.sig THEN Decided(c) ELSE rows[s]]
     /\ recent' = <<c.sig>> \o SelectSeq(recent, LAMBDA s : s \in keep \ {c.sig})
     /\ retired' = retired \cup (DOMAIN rows \ keep)
     /\ tab' = [p EXCEPT !.hint = @ \/ p.open]
     /\ UNCHANGED facts

Accept ==
  /\ tab.call # None /\ tab.call.at = "sent"
  /\ Store(tab.call, Ends("applied"))

\* Seeded fault: a preferred book need not be one of the issue.
ElsewhereUnchecked(s, d) ==
  Store([sig |-> s, revision |-> Disposition(s).revision, decision |-> d, at |-> "sent"], tab)

\* Another browser, which shows the issue as it is, decides on it.
Elsewhere(s, d) ==
  /\ d.kind = "prefer" => s.reason # "cover-missing" /\ d.value \in s.books \cup {None}
  /\ Store([sig |-> s, revision |-> Disposition(s).revision, decision |-> d, at |-> "sent"], tab)

\* The answer arrives: the page loads again after an accepted decision, and says
\* what went wrong after a refused one.
Answered ==
  /\ tab.call # None /\ tab.call.at \in {"applied", "refused"}
  /\ LET p == [tab EXCEPT !.call = None]
     IN tab' = IF tab.call.at = "applied" THEN Loading(p) ELSE p
  /\ UNCHANGED <<facts, rows, recent, retired, budget>>

\* The request or its answer is lost, or the client gives it up; the server may
\* have acted on it, and does not do so later.
CallFails ==
  /\ tab.call # None /\ Spend("faults")
  /\ tab' = [tab EXCEPT !.call = None]
  /\ UNCHANGED <<facts, rows, recent, retired>>

\* issues.updated arrives: the page loads again.
Hinted ==
  /\ tab.hint
  /\ tab' = [Loading(tab) EXCEPT !.hint = FALSE]
  /\ UNCHANGED <<facts, rows, recent, retired, budget>>

\* The event stream breaks off with what was on its way; its next connection
\* begins with a hint, which refreshes everything.
StreamBreaks ==
  /\ tab.open /\ Spend("faults")
  /\ tab' = [tab EXCEPT !.open = FALSE, !.hint = FALSE]
  /\ UNCHANGED <<facts, rows, recent, retired>>

StreamOpens ==
  /\ ~tab.open
  /\ tab' = [tab EXCEPT !.open = TRUE, !.hint = TRUE]
  /\ UNCHANGED <<facts, rows, recent, retired, budget>>

Next ==
  \/ CatalogChanges
  \/ \E f \in BOOLEAN : List(f)
  \/ Open \/ Loaded \/ LoadFails \/ LoadTimesOut
  \/ \E d \in Decisions :
       \/ \E s \in DOMAIN tab.page : Decide(s, d)
       \/ \E s \in Derived : Elsewhere(s, d)
  \/ Refuse \/ Repeat \/ Accept \/ Answered \/ CallFails
  \/ Hinted \/ StreamBreaks \/ StreamOpens

Spec == Init /\ [][Next]_vars

-----------------------------------------------------------------------------

\* A decision is accepted on the disposition its user was shown: the revision
\* tells every change, unless the row was pruned as history since
\* (catalog-database.ts setCatalogIssueIgnored and its like).
ShownIsDecidedOn ==
  \A s \in DOMAIN tab.page :
    s \notin retired /\ tab.page[s].revision = Disposition(s).revision
      => tab.page[s] = Disposition(s)

\* With nothing under way, a page that says it is ready shows of every issue on it
\* what was decided in whichever browser, unless the row of the decision was pruned
\* (catalog-browser.ts loadCatalogHealth).  Which issues there are it may not know:
\* a scan that finds others announces nothing to the inbox.
QuietInboxIsFresh ==
  tab.state = "ready" /\ tab.load = "none" /\ ~tab.hint /\ tab.open
    => \A s \in DOMAIN tab.page \ retired : tab.page[s] = Disposition(s)

\* However long users decide and issues come and go, there is room for a decision
\* on every issue there is (catalog-database.ts:3431 "so a long-lived
\* installation never becomes unable to act on new issues").
RoomForEveryIssue ==
  /\ Cardinality(DOMAIN rows) <= MaxRows
  /\ Derivable => \A s \in Derived \ DOMAIN rows : Cardinality(Surviving(1)) < MaxRows

=============================================================================
