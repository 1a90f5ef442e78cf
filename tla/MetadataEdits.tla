--------------------------- MODULE MetadataEdits ---------------------------
(***************************************************************************)
(* Editing what the catalog says about a book, from several browsers       *)
(* (server/catalog-database.ts, http-server.ts; client/src/catalog-        *)
(* browser.ts).  The library file is never changed: an overlay row holds   *)
(* the owner's values and cover, bound to the content it was written for,  *)
(* and every change names the revision and the content it was made on.     *)
(*                                                                         *)
(* One book with an overlay from before; an overridden value tells only    *)
(* whether it is from before.  A request whose browser gave up on it may   *)
(* still reach the server.  The files of the cover store are not modelled. *)
(***************************************************************************)
EXTENDS Naturals, FiniteSets

CONSTANTS
  Browsers,   \* the pages that edit the book
  Reviewer,   \* the page that reviews series found in bulk, one of them or another
  None,
  MaxRevision, \* revisions of the overlay, the first being 1
  MaxContents, \* contents the library file takes
  MaxFaults    \* requests a browser gives up on

Fields == {"title", "series"}
Values == {"earlier", "new"}
Overlay == [Fields -> Values \cup {None}]
NoOverlay == [f \in Fields |-> None]

VARIABLES
  content,  \* the content of the library file
  row,      \* book_metadata_overrides
  editor,   \* Browsers -> the open editor
  bulk,     \* the review of series found in bulk
  calls,    \* the changes under way, at most one a browser waits for
  faults

vars == <<content, row, editor, bulk, calls, faults>>

Row == [rev : 1..MaxRevision, of : 1..MaxContents, over : Overlay, cover : Values \cup {None}]

\* getBookMetadataState: what a browser is told about the book
State == [content |-> content, rev |-> row.rev, of |-> row.of, over |-> row.over,
          cover |-> row.cover]
States == [content : 1..MaxContents, rev : 1..MaxRevision, of : 1..MaxContents,
           over : Overlay, cover : Values \cup {None}]

\* refreshEffectiveBook: the overlay counts only for the content it is bound to.
Effective(s, f) == IF s.of = s.content THEN s.over[f] ELSE None

Kinds == {"reset", "patch", "import", "cover", "bulk"}
Call == [by : Browsers \cup {Reviewer}, kind : Kinds, live : BOOLEAN, base : States,
         clear : SUBSET Fields, set : Overlay, cover : Values \cup {None, "keep"},
         draft : Overlay \cup {None},   \* what the owner saved, all of it
         reviewed : States \cup {None}] \* the book a bulk choice was made for

ClosedEditor == [mode |-> "closed", data |-> None, busy |-> FALSE]

TypeOK ==
  /\ content \in 1..MaxContents /\ row \in Row
  /\ editor \in [Browsers -> [mode : {"closed", "loading", "ready"}, data : States \cup {None},
                              busy : BOOLEAN]]
  /\ bulk \in [chosen : States \cup {None}, fresh : States \cup {None}, busy : BOOLEAN]
  /\ \A c \in calls : c \in Call
  /\ faults \in 0..MaxFaults

NoBulk == [chosen |-> None, fresh |-> None, busy |-> FALSE]

Init ==
  /\ content = 1
  /\ row = [rev |-> 1, of |-> 1, over |-> [f \in Fields |-> "earlier"], cover |-> "earlier"]
  /\ editor = [w \in Browsers |-> ClosedEditor]
  /\ bulk = NoBulk
  /\ calls = {} /\ faults = 0

-----------------------------------------------------------------------------
(* The server *)

\* metadataMutationContext: the change must be of the current revision and content.
Current(c) == c.base.rev = row.rev /\ c.base.content = content

Merged(c) == [f \in Fields |-> IF f \in c.clear THEN None
                               ELSE IF c.set[f] # None THEN c.set[f] ELSE row.over[f]]

\* A plausible slip: a cover is not an edit.
WrittenCoverQuietly(c) ==
  [rev |-> IF c.kind = "cover" THEN row.rev ELSE row.rev + 1, of |-> content, over |-> Merged(c),
   cover |-> IF c.cover = "keep" THEN row.cover ELSE c.cover]
\* writeMetadataOverride
Written(c) == [rev |-> row.rev + 1, of |-> content, over |-> Merged(c),
               cover |-> IF c.cover = "keep" THEN row.cover ELSE c.cover]

-----------------------------------------------------------------------------
(* The browser *)

Ask(w, kind, base, clear, set, cover, draft, reviewed) ==
  calls' = calls \cup {[by |-> w, kind |-> kind, live |-> TRUE, base |-> base, clear |-> clear,
                        set |-> set, cover |-> cover, draft |-> draft, reviewed |-> reviewed]}

\* openMetadataEditor: what an earlier editor waited for is given up.
Open(w) ==
  /\ editor[w].mode # "loading"
  /\ editor[w].mode = "ready" => faults < MaxFaults
  /\ faults' = IF editor[w].mode = "ready" THEN faults + 1 ELSE faults
  /\ editor' = [editor EXCEPT ![w] = [ClosedEditor EXCEPT !.mode = "loading"]]
  /\ calls' = {IF c.by = w /\ c.kind # "bulk" THEN [c EXCEPT !.live = FALSE] ELSE c : c \in calls}
  /\ UNCHANGED <<content, row, bulk>>

\* getBookMetadata answers
Loaded(w) ==
  /\ editor[w].mode = "loading"
  /\ editor' = [editor EXCEPT ![w] = [mode |-> "ready", data |-> State, busy |-> FALSE]]
  /\ UNCHANGED <<content, row, bulk, calls, faults>>

\* closeMetadataEditor
Close(w) ==
  /\ editor[w].mode = "ready" /\ ~editor[w].busy
  /\ editor' = [editor EXCEPT ![w] = ClosedEditor]
  /\ UNCHANGED <<content, row, bulk, calls, faults>>

Idle(w) == editor[w].mode = "ready" /\ ~editor[w].busy /\ row.rev < MaxRevision
Busy(w) == editor' = [editor EXCEPT ![w].busy = TRUE]

\* saveBookMetadata: the fields taken out of the draft are reset first, the rest
\* is then written on the revision which that reset made.  The owner has changed
\* a field, or the file has changed and the overlay is bound to it anew.
Removed(data, draft) == {f \in Fields : data.over[f] # None /\ draft[f] = None}
Save(w) ==
  \E f \in Fields, v \in {"new", None} :
    LET data == editor[w].data
        draft == [data.over EXCEPT ![f] = v]
        removed == Removed(data, draft) IN
    /\ Idle(w)
    /\ removed # {} \/ draft # NoOverlay \/ data.of # data.content
    /\ Busy(w)
    /\ IF removed # {}
       THEN Ask(w, "reset", data, removed, NoOverlay, "keep", draft, None)
       ELSE Ask(w, "patch", data, {}, draft, "keep", draft, None)
    /\ UNCHANGED <<content, row, bulk, faults>>

\* importSelectedMetadataCandidate
Import(w) ==
  \E f \in Fields :
    /\ Idle(w)
    /\ Busy(w)
    /\ Ask(w, "import", editor[w].data, {}, [NoOverlay EXCEPT ![f] = "new"], "keep", None, None)
    /\ UNCHANGED <<content, row, bulk, faults>>

\* uploadBookCover, importBookCover and resetBookCover; the last only when the
\* editor shows a cover of the owner's.
Cover(w) ==
  \E cover \in {"new", None} :
    /\ Idle(w) /\ (cover = None => editor[w].data.cover # None)
    /\ Busy(w)
    /\ Ask(w, "cover", editor[w].data, {}, NoOverlay, cover, None, None)
    /\ UNCHANGED <<content, row, bulk, faults>>

\* selectHardcoverBulkSeries: a series is chosen for the book as the page shows
\* it.  A page that lags behind is one whose choice was made that much earlier.
Choose ==
  /\ bulk = NoBulk
  /\ bulk' = [NoBulk EXCEPT !.chosen = State]
  /\ UNCHANGED <<content, row, editor, calls, faults>>

\* applyHardcoverBulkSeries reads the book once more ...
Fetch ==
  /\ bulk.chosen # None /\ ~bulk.busy
  /\ bulk' = [bulk EXCEPT !.fresh = State, !.busy = TRUE]
  /\ UNCHANGED <<content, row, editor, calls, faults>>

\* A plausible slip: the fresh copy is taken for the reviewed one.
AnyBook(before, fresh) == TRUE
\* ... and applies the choice only to the book it was made for.
SameBook(before, fresh) ==
  /\ fresh.content = before.content /\ fresh.rev = before.rev
  /\ Effective(fresh, "series") = Effective(before, "series")

\* The owner may leave a series that is already set.
Apply ==
  /\ bulk.fresh # None
  /\ \/ /\ SameBook(bulk.chosen, bulk.fresh) /\ row.rev < MaxRevision
        /\ Ask(Reviewer, "bulk", bulk.fresh, {}, [NoOverlay EXCEPT !["series"] = "new"],
               "keep", None, bulk.chosen)
        /\ bulk' = [bulk EXCEPT !.fresh = None]
     \/ /\ ~SameBook(bulk.chosen, bulk.fresh) \/ bulk.fresh.over["series"] # None
        /\ bulk' = [bulk EXCEPT !.busy = FALSE, !.fresh = None]
        /\ UNCHANGED calls
  /\ UNCHANGED <<content, row, editor, faults>>

-----------------------------------------------------------------------------
(* The server handles a change and its browser hears of it *)

\* #runMetadataMutation, for an answer that is still waited for
Answered(c, ok, state) ==
  LET w == c.by IN
  IF c.kind = "bulk"
  THEN /\ bulk' = IF ok THEN NoBulk ELSE [bulk EXCEPT !.busy = FALSE]
       /\ UNCHANGED editor
  ELSE /\ editor' = [editor EXCEPT ![w] =
            IF ok THEN [mode |-> "ready", data |-> state, busy |-> FALSE]
            ELSE [@ EXCEPT !.busy = FALSE]]
       /\ UNCHANGED bulk

\* A reset that succeeded is followed by the rest of the draft, if there is any
\* or if the overlay was of another content.
Follows(c) ==
  /\ c.kind = "reset" /\ c.live
  /\ c.draft # NoOverlay \/ c.base.of # c.base.content

Handle(c) ==
  LET ok == Current(c) /\ row.rev < MaxRevision
      state == [content |-> content, rev |-> row'.rev, of |-> row'.of, over |-> row'.over,
                cover |-> row'.cover] IN
  /\ row' = IF ok THEN Written(c) ELSE row
  /\ IF ok /\ Follows(c)
     THEN /\ calls' = (calls \ {c}) \cup
               {[c EXCEPT !.kind = "patch", !.base = state, !.clear = {}, !.set = c.draft]}
          /\ UNCHANGED <<editor, bulk>>
     ELSE /\ calls' = calls \ {c}
          /\ IF c.live THEN Answered(c, ok, state) ELSE UNCHANGED <<editor, bulk>>
  /\ UNCHANGED <<content, faults>>

\* The browser's time for a change runs out, or the answer is lost.  The server
\* may have the request none the less.
GiveUp(c) ==
  /\ c.live /\ faults < MaxFaults /\ faults' = faults + 1
  /\ calls' = (calls \ {c}) \cup {[c EXCEPT !.live = FALSE]}
  /\ IF c.kind = "bulk"
     THEN bulk' = [bulk EXCEPT !.busy = FALSE] /\ UNCHANGED editor
     ELSE editor' = [editor EXCEPT ![c.by].busy = FALSE] /\ UNCHANGED bulk
  /\ UNCHANGED <<content, row>>

\* The library file is replaced.
NewContent ==
  /\ content < MaxContents
  /\ content' = content + 1
  /\ UNCHANGED <<row, editor, bulk, calls, faults>>

Next ==
  \/ \E w \in Browsers :
       Open(w) \/ Loaded(w) \/ Close(w) \/ Save(w) \/ Import(w) \/ Cover(w)
  \/ Choose \/ Fetch \/ Apply
  \/ \E c \in calls : Handle(c) \/ GiveUp(c)
  \/ NewContent

Spec == Init /\ [][Next]_vars

-----------------------------------------------------------------------------
(* Properties *)

\* The call that changed the row in this step
Accepted(c) == c \in calls /\ row' # row /\ (c \notin calls')

\* A change is accepted only on the very values and cover its author was shown,
\* with whatever other browsers, late requests and new contents lie between: no
\* edit overwrites one that was not seen (metadataMutationContext).
InformedEdits ==
  [][\A c \in calls : (Accepted(c) /\ Cardinality(calls \ calls') = 1)
       => row.over = c.base.over /\ row.cover = c.base.cover /\ row.of = c.base.of]_vars

\* What a completed save leaves is the draft, although it takes two requests to
\* remove fields and to write the others (saveBookMetadata).
SavedIsTheDraft ==
  [][\A c \in calls : (Accepted(c) /\ c.kind = "patch" /\ c.live)
       => row'.over = c.draft]_vars

\* A series chosen in bulk is written only to a book whose content and series are
\* still those the owner reviewed (applyHardcoverBulkSeries).
ReviewedSeriesOnly ==
  [][\A c \in calls : (Accepted(c) /\ c.kind = "bulk")
       => content = c.reviewed.content
          /\ Effective(State, "series") = Effective(c.reviewed, "series")]_vars
=============================================================================
