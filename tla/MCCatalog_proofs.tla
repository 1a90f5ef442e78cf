--------------------------- MODULE MCCatalog_proofs ---------------------------
(***************************************************************************)
(* Theorems of the composition MCCatalog about the scan of a library root, *)
(* about the identities of books, about edits of metadata, and about the   *)
(* queue and the shelves of a profile, for any set of files, browsers and  *)
(* shelves and any bound on changes and faults.                            *)
(***************************************************************************)
EXTENDS MCCatalog, Sequences, TLAPS

-----------------------------------------------------------------------------
(***************************************************************************)
(* Watched changes of the followed file.                                   *)
(***************************************************************************)

Hints == {"p", "o", "?"}
ScanPoints == {"slot", "claimed", "listed", "indexed"}
FileStates == [stat : Nat, sample : Nat, full : Nat]
RowStates ==
  [stat : Nat, sample : Nat, full : Nat, available : BOOLEAN, error : BOOLEAN, path : {1, 2}]
ScanStates ==
  [at : ScanPoints, path : {1, 2}, reason : Reasons \cup {None}, dirty : SUBSET Hints,
   seen : {"ok", "empty", "lost", None}, found : FileStates \cup {None, "file"}]

RequestTyped == DOMAIN req = {"pending", "reason", "owner"} /\ req.reason \in Reasons
HintsTyped ==
  /\ events \subseteq {"p", "o"} /\ dirty \subseteq Hints
  /\ ~up => scan = None /\ events = {} /\ dirty = {} /\ watching = None
DirectoryTyped ==
  /\ file \in FileStates \cup {None} /\ path \in {1, 2} /\ mount \in {"ok", "empty", "lost"}
  /\ row # None => row \in RowStates
RunTyped ==
  scan # None =>
    /\ scan \in ScanStates
    /\ scan.at # "indexed" => scan.found \in FileStates \cup {None}
    /\ scan.at = "slot" => scan.dirty = {}

ScanTyped == RequestTyped /\ HintsTyped /\ DirectoryTyped /\ RunTyped

\* The last change is announced to a scan that is still to come, or the running
\* scan has taken it; the row shows the file.
Names(set) == "p" \in set \/ "?" \in set
Hinted == "p" \in events \/ Names(dirty)
Taken == scan # None /\ Names(scan.dirty)
Shown ==
  \/ file = None /\ row = None
  \/ file # None /\ row # None /\ (row.error \/ row.full = file.full)

\* A change that was watched is announced, taken or shown, and a scan that has
\* seen the file before a change is followed by one that is told of it.
Carried ==
  ~unwatched =>
    /\ mount = "ok"
    /\ Hinted \/ Shown \/ Taken
    /\ scan # None /\ scan.at = "listed" => Hinted \/ scan.found = file
    /\ scan # None /\ scan.at = "indexed" =>
         \/ Hinted
         \/ scan.found = None /\ file = None
         \/ scan.found # None /\ Shown /\ file # None

WatchInv == ScanTyped /\ Carried

LEMMA FilesAreThere ==
  ASSUME NEW f \in FileStates
  PROVE  f # None
  BY NoneIsNoScan DEF FileStates

LEMMA RowsAreThere ==
  ASSUME NEW r \in RowStates
  PROVE  r # None
  BY NoneIsNoScan DEF RowStates

LEMMA ScansAreThere ==
  ASSUME NEW s \in ScanStates
  PROVE  s # None
  BY NoneIsNoScan DEF ScanStates, ScanPoints, FileStates, Hints

LEMMA MergedNames ==
  ASSUME NEW old, NEW new, Names(old) \/ Names(new)
  PROVE  Names(MergeDirty(old, new))
  BY DEF Names, MergeDirty

LEMMA MergedHints ==
  ASSUME NEW old \in SUBSET Hints, NEW new \in SUBSET Hints
  PROVE  MergeDirty(old, new) \in SUBSET Hints
  BY DEF Hints, MergeDirty

LEMMA Requested ==
  ASSUME RequestTyped, NEW reason \in Reasons,
         req' = Request(reason) \/ req' = req \/ req' = NoRequest
           \/ (\E o : req' = [req EXCEPT !.owner = o])
  PROVE  RequestTyped'
  <1>1. "startup" \in Reasons
    BY DEF Reasons, Authoritative
  <1>2. CASE req' = Request(reason) \/ req' = NoRequest
    BY <1>1, <1>2 DEF RequestTyped, Request, NoRequest
  <1>3. CASE req' = req
    BY <1>3 DEF RequestTyped
  <1>4. CASE \E o : req' = [req EXCEPT !.owner = o]
    BY <1>4 DEF RequestTyped
  <1> QED
    BY <1>2, <1>3, <1>4

\* Nothing happens to the file, its row and the scan, and no hint is lost.
LEMMA NothingLost ==
  ASSUME WatchInv, RequestTyped', UNCHANGED <<file, row, scan, up>>, path' \in {1, 2},
         mount' \in {"ok", "empty", "lost"},
         unwatched' = unwatched \/ unwatched', mount' = mount \/ unwatched',
         Hinted => Hinted' \/ unwatched',
         events' \subseteq {"p", "o"}, dirty' \subseteq Hints,
         ~up => events' = {} /\ dirty' = {} /\ watching' = None
  PROVE  WatchInv'
  <1>1. ScanTyped'
    BY DEF WatchInv, ScanTyped, HintsTyped, DirectoryTyped, RunTyped
  <1>2. Shown' = Shown /\ Taken' = Taken
    BY DEF Shown, Taken
  <1>3. CASE unwatched'
    BY <1>1, <1>3 DEF WatchInv, Carried
  <1>4. CASE ~unwatched'
    BY <1>1, <1>2, <1>4 DEF WatchInv, Carried
  <1> QED
    BY <1>3, <1>4

\* The hints are the same, too.
LEMMA NothingHeard ==
  ASSUME WatchInv, RequestTyped', UNCHANGED <<file, row, scan, up, path, mount, hints, unwatched>>
  PROVE  WatchInv'
  BY NothingLost DEF hints, Hinted, WatchInv, ScanTyped, HintsTyped, DirectoryTyped

\* No scan runs any more, or one waits for its turn.
LEMMA NoScanRuns ==
  ASSUME WatchInv, scan' = None \/ scan' = NewScan, RequestTyped', HintsTyped', DirectoryTyped',
         path' = path, ~unwatched' => mount' = "ok" /\ (Hinted' \/ Shown')
  PROVE  WatchInv'
  <1>1. scan' # None => /\ scan' \in ScanStates /\ scan'.at = "slot" /\ scan'.dirty = {}
                        /\ scan'.found = None
    BY DEF NewScan, ScanStates, ScanPoints, WatchInv, ScanTyped, DirectoryTyped
  <1>2. ScanTyped'
    BY <1>1, NoneIsNoScan DEF ScanTyped, RunTyped
  <1>3. Carried'
    BY <1>1 DEF Carried
  <1> QED
    BY <1>2, <1>3 DEF WatchInv

\* A scan that ends without an acknowledgment gives its hints back.
LEMMA HintsGoBack ==
  ASSUME WatchInv, scan # None, up, EndScan(FALSE, watching, dirty), RequestTyped',
         UNCHANGED <<file, path, mount, up, events>>,
         row' # None => row' \in RowStates,
         ~unwatched => (Shown => Shown')
  PROVE  WatchInv'
  <1>1. scan' = None \/ scan' = NewScan
    BY DEF EndScan
  <1>2. ASSUME ~unwatched'
        PROVE  mount' = "ok" /\ (Hinted' \/ Shown')
    <2>1. ~unwatched /\ (scan.dirty = {} \/ (enabled /\ SameConfiguration))
      BY <1>2 DEF EndScan
    <2>2. mount = "ok" /\ (Hinted \/ Shown \/ Taken)
      BY <2>1 DEF WatchInv, Carried
    <2>3. CASE Shown
      BY <2>1, <2>2, <2>3
    <2>4. CASE "p" \in events
      BY <2>2, <2>4 DEF Hinted
    <2>5. CASE Names(dirty) \/ Names(scan.dirty)
      <3>1. CASE enabled /\ SameConfiguration
        <4>1. dirty' = MergeDirty(dirty, scan.dirty)
          BY <3>1 DEF EndScan
        <4>2. Names(dirty')
          BY <2>5, <4>1, MergedNames
        <4> QED
          BY <2>2, <4>2 DEF Hinted
      <3>2. CASE scan.dirty = {} /\ ~(enabled /\ SameConfiguration)
        BY <2>2, <2>5, <3>2 DEF Hinted, Names, EndScan
      <3> QED
        BY <2>1, <3>1, <3>2
    <2> QED
      BY <2>2, <2>3, <2>4, <2>5 DEF Hinted, Taken
  <1>3. DirectoryTyped'
    BY DEF WatchInv, ScanTyped, DirectoryTyped
  <1>4. HintsTyped'
    <2>1. scan.dirty \in SUBSET Hints /\ dirty \in SUBSET Hints
      BY DEF WatchInv, ScanTyped, HintsTyped, RunTyped, ScanStates
    <2>2. dirty' \in SUBSET Hints
      BY <2>1, MergedHints DEF EndScan
    <2> QED
      BY <2>2 DEF WatchInv, ScanTyped, HintsTyped
  <1> QED
    BY <1>1, <1>2, <1>3, <1>4, NoScanRuns

LEMMA SupersededCarries ==
  ASSUME WatchInv, Superseded, scan # None, up
  PROVE  WatchInv'
  <1>0. RequestTyped' /\ UNCHANGED <<file, path, row, mount, up>>
    BY DEF Superseded, directory, database, WatchInv, ScanTyped, RequestTyped
  <1>1. CASE SameConfiguration /\ enabled
    BY <1>0, <1>1, HintsGoBack DEF Superseded, Shown, WatchInv, ScanTyped, DirectoryTyped
  <1>2. CASE ~(SameConfiguration /\ enabled)
    <2>1. EndScan(FALSE, None, {}) /\ events' = {}
      BY <1>2 DEF Superseded
    <2>2. (scan' = None \/ scan' = NewScan) /\ dirty' = {}
      BY <1>2, <2>1 DEF EndScan
    <2>3. ASSUME ~unwatched'
          PROVE  mount' = "ok" /\ (Hinted' \/ Shown')
      <3>1. ~unwatched /\ scan.dirty = {} /\ events \cup dirty = {}
        BY <1>2, <2>1, <2>3 DEF EndScan
      <3>2. ~Hinted /\ ~Taken
        BY <3>1 DEF Hinted, Taken, Names
      <3> QED
        BY <1>0, <3>1, <3>2 DEF WatchInv, Carried, Shown
    <2>4. DirectoryTyped' /\ HintsTyped'
      BY <1>0, <2>1, <2>2 DEF WatchInv, ScanTyped, DirectoryTyped, HintsTyped
    <2> QED
      BY <1>0, <2>2, <2>3, <2>4, NoScanRuns
  <1> QED
    BY <1>1, <1>2

LEMMA ClaimCarries ==
  ASSUME WatchInv, Claim
  PROVE  WatchInv'
  <1>1. /\ up /\ scan # None /\ scan.at = "slot" /\ scan.dirty = {} /\ scan \in ScanStates
        /\ UNCHANGED <<file, mount, path, row, up, events>>
    BY DEF Claim, directory, WatchInv, ScanTyped, RunTyped
  <1>0. RequestTyped'
    <2>1. "startup" \in Reasons
      BY DEF Reasons, Authoritative
    <2>2. req' = req \/ req' = [req EXCEPT !.owner = "us"]
      BY DEF Claim
    <2> QED
      BY <2>1, <2>2, Requested DEF WatchInv, ScanTyped
  <1>2. CASE req.pending
    <2>1. PICK taken : /\ taken = IF req.reason = "watch-event" /\ dirty = {} THEN {"?"} ELSE dirty
                       /\ scan' = [scan EXCEPT !.at = "claimed", !.reason = req.reason, !.dirty = taken]
                       /\ dirty' = {} /\ UNCHANGED <<unwatched, watching>>
      BY <1>2 DEF Claim
    <2>2. taken \in SUBSET Hints /\ req.reason \in Reasons
      BY <2>1 DEF WatchInv, ScanTyped, HintsTyped, RequestTyped, Hints
    <2>3. /\ scan' \in ScanStates /\ scan'.at = "claimed" /\ scan'.found = scan.found
          /\ scan'.dirty = taken
      BY <1>1, <2>1, <2>2 DEF ScanStates, ScanPoints
    <2>4. scan' # None
      BY <2>3, ScansAreThere
    <2>5. ScanTyped'
      BY <1>0, <1>1, <2>1, <2>3, <2>4 DEF WatchInv, ScanTyped, HintsTyped, DirectoryTyped, RunTyped
    <2>6. Names(dirty) => Names(taken)
      BY <2>1 DEF Names
    <2>7. ~unwatched => mount' = "ok" /\ (Hinted' \/ Shown' \/ Taken')
      BY <1>1, <2>1, <2>3, <2>4, <2>6 DEF WatchInv, Carried, Hinted, Shown, Taken, Names
    <2> QED
      BY <2>1, <2>3, <2>5, <2>7 DEF WatchInv, Carried
  <1>3. CASE ~req.pending
    <2>1. EndScan(TRUE, watching, dirty)
      BY <1>3 DEF Claim
    <2>2. dirty' = dirty /\ (scan' = None \/ scan' = NewScan)
      BY <2>1 DEF EndScan
    <2>3. ~Taken
      BY <1>1 DEF Taken, Names
    <2>4. ~unwatched' => ~unwatched
      BY <2>1 DEF EndScan
    <2>5. ~unwatched' => mount' = "ok" /\ (Hinted' \/ Shown')
      BY <1>1, <2>2, <2>3, <2>4 DEF WatchInv, Carried, Hinted, Shown
    <2>6. DirectoryTyped' /\ HintsTyped'
      BY <1>1, <2>2 DEF WatchInv, ScanTyped, DirectoryTyped, HintsTyped
    <2> QED
      BY <1>0, <1>1, <2>2, <2>5, <2>6, NoScanRuns
  <1> QED
    BY <1>2, <1>3

\* The file is listed.
LEMMA EnumerateCarries ==
  ASSUME WatchInv, Enumerate
  PROVE  WatchInv'
  <1>0. up /\ scan # None /\ scan.at = "claimed" /\ scan \in ScanStates
    BY DEF Enumerate, WatchInv, ScanTyped, RunTyped
  <1>1. CASE Superseded
    BY <1>0, <1>1, SupersededCarries
  <1>2. CASE /\ scan' = [scan EXCEPT !.at = "listed", !.seen = mount,
                           !.found = IF mount = "ok" THEN file ELSE None]
             /\ UNCHANGED <<directory, database, up, boot, timer, rerun, aborted, hints, history>>
    <2>1. PICK f : f = IF mount = "ok" THEN file ELSE None
      OBVIOUS
    <2>2. /\ UNCHANGED <<file, mount, path, row, up, events, dirty, watching, unwatched, req>>
      BY <1>2 DEF directory, database, hints, history
    <2>3. f \in FileStates \cup {None} /\ mount \in {"ok", "empty", "lost"}
      BY <2>1 DEF WatchInv, ScanTyped, DirectoryTyped
    <2>4. /\ scan' \in ScanStates /\ scan'.at = "listed" /\ scan'.found = f /\ scan'.dirty = scan.dirty
      BY <1>0, <1>2, <2>1, <2>3 DEF ScanStates, ScanPoints
    <2>5. scan' # None
      BY <2>4, ScansAreThere
    <2>6. ScanTyped'
      BY <2>2, <2>3, <2>4, <2>5, <1>0
         DEF WatchInv, ScanTyped, RequestTyped, HintsTyped, DirectoryTyped, RunTyped
    <2>7. Hinted' = Hinted /\ Shown' = Shown /\ Taken' = Taken
      BY <1>0, <2>2, <2>4, <2>5 DEF Hinted, Shown, Taken
    <2>8. Carried'
      BY <2>1, <2>2, <2>4, <2>7 DEF WatchInv, Carried
    <2> QED
      BY <2>6, <2>8 DEF WatchInv
  <1>3. CASE RootUnavailable /\ EndScan(FALSE, watching, dirty) /\ mount = "lost"
             /\ UNCHANGED <<directory, req, up, boot, timer, events, noise, faults>>
    <2>1. row' = row \/ row' = None \/ row' = [row EXCEPT !.available = FALSE]
      BY <1>3 DEF RootUnavailable
    <2>2. row' # None => row' \in RowStates
      <3>1. row' # None => row # None
        BY <1>3 DEF RootUnavailable
      <3> QED
        BY <2>1, <3>1 DEF WatchInv, ScanTyped, DirectoryTyped, RowStates
    <2>3. unwatched
      BY <1>3 DEF WatchInv, Carried
    <2>4. RequestTyped' /\ UNCHANGED <<file, path, mount, up, events>>
      BY <1>3 DEF WatchInv, ScanTyped, RequestTyped, directory
    <2> QED
      BY <1>0, <1>3, <2>2, <2>3, <2>4, HintsGoBack
  <1> QED
    BY <1>1, <1>2, <1>3 DEF Enumerate

\* The file is indexed: its row shows what was listed, an error, or, when nothing
\* was said of it, what it showed before.
LEMMA IndexedCarries ==
  ASSUME WatchInv, scan # None, up, scan.at = "listed", NEW r, Indexed(r),
         r # None => r \in RowStates,
         \/ scan.found = None /\ r = row
         \/ /\ scan.found # None /\ r # None
            /\ ~unwatched /\ scan.found = file =>
                 \/ r.error \/ r.full = file.full
                 \/ ~Taken /\ row # None /\ r.error = row.error /\ r.full = row.full
  PROVE  WatchInv'
  <1>0. scan \in ScanStates
    BY DEF WatchInv, ScanTyped, RunTyped
  <1>1. /\ UNCHANGED <<file, mount, path, up, events, dirty, watching, unwatched, req>> /\ row' = r
        /\ scan' = [scan EXCEPT !.at = "indexed", !.found = IF @ = None THEN None ELSE "file"]
    BY DEF Indexed, directory, hints
  <1>2. PICK f : f = IF scan.found = None THEN None ELSE "file"
    OBVIOUS
  <1>3. /\ scan' \in ScanStates /\ scan'.at = "indexed" /\ scan'.found = f /\ scan'.dirty = scan.dirty
    BY <1>0, <1>1, <1>2 DEF ScanStates, ScanPoints
  <1>4. scan' # None
    BY <1>3, ScansAreThere
  <1>5. ScanTyped'
    BY <1>1, <1>3, <1>4 DEF WatchInv, ScanTyped, RequestTyped, HintsTyped, DirectoryTyped, RunTyped
  <1>6. Hinted' = Hinted /\ Taken' = Taken
    BY <1>1, <1>3, <1>4 DEF Hinted, Taken
  <1>7. CASE unwatched \/ Hinted
    BY <1>1, <1>3, <1>5, <1>6, <1>7 DEF WatchInv, Carried
  <1>8. CASE ~unwatched /\ ~Hinted
    <2>1. scan.found = file /\ mount = "ok" /\ (Shown \/ Taken)
      BY <1>8 DEF WatchInv, Carried
    <2>2. CASE scan.found = None
      <3>1. f = None /\ file = None /\ row' = row
        BY <1>1, <1>2, <2>1, <2>2
      <3>2. Shown' = Shown
        BY <1>1, <3>1 DEF Shown
      <3>3. Carried'
        BY <1>1, <1>3, <1>6, <2>1, <3>1, <3>2 DEF Carried
      <3> QED
        BY <1>5, <3>3 DEF WatchInv
    <2>3. CASE scan.found # None
      <3>1. f # None /\ file # None /\ row' # None
        BY <1>1, <1>2, <2>1, <2>3, NoneIsNoScan
      <3>2. Shown'
        BY <1>1, <1>8, <2>1, <2>3, <3>1 DEF Shown
      <3>3. Carried'
        BY <1>1, <1>3, <1>6, <2>1, <3>1, <3>2 DEF Carried
      <3> QED
        BY <1>5, <3>3 DEF WatchInv
    <2> QED
      BY <2>2, <2>3
  <1> QED
    BY <1>7, <1>8

LEMMA RetryCarries ==
  ASSUME WatchInv, Retry, scan # None, up
  PROVE  WatchInv'
  BY HintsGoBack DEF Retry, directory, database, WatchInv, ScanTyped, RequestTyped, DirectoryTyped, Shown

\* A scan that was told of the file reads it.
LEMMA IndexCandidateCarries ==
  ASSUME WatchInv, IndexCandidate
  PROVE  WatchInv'
  <1>0. up /\ scan # None /\ scan.at = "listed" /\ scan \in ScanStates
        /\ scan.found \in FileStates \cup {None} /\ scan.path \in {1, 2}
        /\ file \in FileStates \cup {None}
    BY DEF IndexCandidate, WatchInv, ScanTyped, RunTyped, DirectoryTyped, ScanStates
  <1>1. CASE Superseded
    BY <1>0, <1>1, SupersededCarries
  <1>2. CASE Retry
    BY <1>0, <1>2, RetryCarries
  <1>3. CASE scan.found = None /\ Indexed(row)
    BY <1>0, <1>3, IndexedCarries DEF WatchInv, ScanTyped, DirectoryTyped
  <1>4. CASE scan.found # None /\ (Unrelated \/ Sampled) /\ Indexed([row EXCEPT !.available = TRUE])
    <2>1. row # None /\ ~Taken
      <3>1. row # None /\ ~DeepVerification
        BY <1>4 DEF Unrelated, Sampled, Reusable
      <3> QED
        BY <3>1 DEF DeepVerification, WatcherDirty, Taken, Names
    <2>2. PICK r : r = [row EXCEPT !.available = TRUE]
      OBVIOUS
    <2>3. r \in RowStates /\ r.error = row.error /\ r.full = row.full
      BY <2>1, <2>2 DEF WatchInv, ScanTyped, DirectoryTyped, RowStates
    <2>4. r # None
      BY <2>3, RowsAreThere
    <2> QED
      BY <1>0, <1>4, <2>1, <2>2, <2>3, <2>4, IndexedCarries
  <1>5. CASE scan.found # None /\ Unchanged /\ Indexed(RowOf(file))
    <2>1. file \in FileStates
      BY <1>0, <1>5 DEF Unchanged
    <2>2. PICK r : r = RowOf(file)
      OBVIOUS
    <2>3. r \in RowStates /\ r.full = file.full
      BY <1>0, <2>1, <2>2 DEF RowOf, RowStates, FileStates
    <2>4. r # None
      BY <2>3, RowsAreThere
    <2> QED
      BY <1>0, <1>5, <2>2, <2>3, <2>4, IndexedCarries
  <1>6. CASE scan.found # None /\ Indexed([RowOf(scan.found) EXCEPT !.available = FALSE, !.error = TRUE])
    <2>1. PICK f \in FileStates : f = scan.found
      BY <1>0, <1>6
    <2>2. PICK r : r = [RowOf(scan.found) EXCEPT !.available = FALSE, !.error = TRUE]
      OBVIOUS
    <2>3. r = [stat |-> f.stat, sample |-> f.sample, full |-> f.full, available |-> FALSE,
               error |-> TRUE, path |-> scan.path]
      BY <2>1, <2>2 DEF RowOf
    <2>4. r \in RowStates /\ r.error
      BY <1>0, <2>3 DEF RowStates, FileStates
    <2>5. r # None
      BY <2>4, RowsAreThere
    <2> QED
      BY <1>0, <1>6, <2>2, <2>4, <2>5, IndexedCarries
  <1> QED
    BY <1>1, <1>2, <1>3, <1>4, <1>5, <1>6 DEF IndexCandidate

\* A complete generation removes what was not found.
LEMMA RowsComplete ==
  ASSUME WatchInv, scan # None, scan.at = "indexed", CompleteRows, UNCHANGED file
  PROVE  /\ row' # None => row' \in RowStates
         /\ ~unwatched /\ ~Hinted => Shown'
         /\ ~unwatched /\ Shown => Hinted \/ Shown'
  BY DEF CompleteRows, WatchInv, ScanTyped, DirectoryTyped, Carried, Shown

LEMMA FinishScanCarries ==
  ASSUME WatchInv, FinishScan
  PROVE  WatchInv'
  <1>0. up /\ scan # None /\ scan.at = "indexed" /\ scan \in ScanStates
    BY DEF FinishScan, WatchInv, ScanTyped, RunTyped
  <1>1. CASE Superseded
    BY <1>0, <1>1, SupersededCarries
  <1>2. CASE /\ EndScan(FALSE, watching, dirty)
             /\ UNCHANGED <<directory, req, row, rest, up, boot, timer, events, noise, faults>>
    BY <1>0, <1>2, HintsGoBack DEF directory, WatchInv, ScanTyped, RequestTyped, DirectoryTyped, Shown
  <1>3. CASE /\ CompleteRows /\ EnqueueDurable("configuration", FALSE) /\ ~SameConfiguration
             /\ EndScan(FALSE, watching, dirty)
             /\ UNCHANGED <<directory, up, boot, events, noise, faults>>
    <2>1. "configuration" \in Reasons
      BY DEF Reasons
    <2>2. RequestTyped'
      BY <1>3, <2>1, Requested DEF EnqueueDurable, WatchInv, ScanTyped
    <2>3. /\ UNCHANGED <<file, path, mount, up, events>> /\ dirty' = dirty
          /\ scan' = None \/ scan' = NewScan
      BY <1>3 DEF directory, EndScan
    <2>4. row' # None => row' \in RowStates
      BY <1>0, <1>3, <2>3, RowsComplete
    <2>5. DirectoryTyped' /\ HintsTyped'
      BY <1>0, <2>3, <2>4 DEF WatchInv, ScanTyped, DirectoryTyped, HintsTyped
    <2>6. ASSUME ~unwatched'
          PROVE  mount' = "ok" /\ (Hinted' \/ Shown')
      <3>1. ~unwatched
        BY <1>3, <2>6 DEF EndScan
      <3> QED
        BY <1>0, <1>3, <2>3, <3>1, RowsComplete DEF WatchInv, Carried, Hinted
    <2> QED
      BY <2>2, <2>3, <2>5, <2>6, NoScanRuns
  <1>4. CASE /\ CompleteRows /\ Acknowledge
             /\ EndScan(TRUE, scan.path, dirty) \/ EndScan(TRUE, watching, dirty)
             /\ UNCHANGED <<directory, up, boot, timer, events, noise>>
    <2>1. "startup" \in Reasons
      BY DEF Reasons, Authoritative
    <2>2. RequestTyped'
      BY <1>4, <2>1, Requested DEF Acknowledge, WatchInv, ScanTyped
    <2>3. /\ UNCHANGED <<file, path, mount, up, events>> /\ dirty' = dirty
          /\ scan' = None \/ scan' = NewScan
      BY <1>4 DEF directory, EndScan
    <2>4. row' # None => row' \in RowStates
      BY <1>0, <1>4, <2>3, RowsComplete
    <2>5. DirectoryTyped' /\ HintsTyped'
      BY <1>0, <2>3, <2>4 DEF WatchInv, ScanTyped, DirectoryTyped, HintsTyped
    <2>6. ASSUME ~unwatched'
          PROVE  mount' = "ok" /\ (Hinted' \/ Shown')
      <3>1. ~unwatched
        BY <1>4, <2>6 DEF EndScan
      <3> QED
        BY <1>0, <1>4, <2>3, <3>1, RowsComplete DEF WatchInv, Carried, Hinted
    <2> QED
      BY <2>2, <2>3, <2>5, <2>6, NoScanRuns
  <1> QED
    BY <1>1, <1>2, <1>3, <1>4 DEF FinishScan

\* A change of the file is announced, or counts as unwatched.
LEMMA FileChangesCarry ==
  ASSUME WatchInv, ChangeFile \/ DeleteFile
  PROVE  WatchInv'
  <1>1. /\ UNCHANGED <<mount, path, req, row, up, scan, dirty, watching>> /\ Notify("p")
        /\ unwatched' = ~(up /\ watching = path) /\ mount = "ok"
    BY DEF ChangeFile, DeleteFile, database
  <1>2. file' \in FileStates \cup {None}
    <2>1. CASE DeleteFile
      BY <2>1 DEF DeleteFile
    <2>2. CASE ChangeFile
      <3>1. PICK kind \in {"stat", "sampled", "unsampled"} : file' = NewVersion(kind)
        BY <2>2 DEF ChangeFile
      <3>2. file \in FileStates
        BY <2>2 DEF ChangeFile, WatchInv, ScanTyped, DirectoryTyped
      <3> QED
        BY <3>1, <3>2 DEF NewVersion, FileStates
    <2> QED
      BY <2>1, <2>2
  <1>3. ScanTyped'
    BY <1>1, <1>2 DEF WatchInv, ScanTyped, RequestTyped, HintsTyped, DirectoryTyped, RunTyped, Notify
  <1>4. ~unwatched' => Hinted'
    BY <1>1 DEF Notify, Hinted
  <1>5. Carried'
    BY <1>1, <1>4 DEF Carried
  <1> QED
    BY <1>3, <1>5 DEF WatchInv

\* What is told of other files hides nothing.
LEMMA EventsCarry ==
  ASSUME WatchInv, WatchEvent \/ OtherFileChanges
  PROVE  WatchInv'
  <1>1. CASE OtherFileChanges
    <2>1. events' = events \/ events' = events \cup {"o"}
      BY <1>1 DEF OtherFileChanges, Notify
    <2>2. /\ UNCHANGED <<file, row, scan, up, path, mount, unwatched, req, dirty>> /\ up
          /\ events' \subseteq {"p", "o"}
      BY <1>1, <2>1 DEF OtherFileChanges, directory, database, WatchInv, ScanTyped, HintsTyped
    <2> QED
      BY <2>1, <2>2, NothingLost
         DEF WatchInv, ScanTyped, RequestTyped, HintsTyped, DirectoryTyped, Hinted
  <1>2. CASE WatchEvent
    <2>1. PICK name \in events :
            events' = events \ {name} /\ \E told \in {name, "?"} : dirty' = MergeDirty(dirty, {told})
      BY <1>2, ZenonT(30) DEF WatchEvent
    <2>9. PICK told \in {name, "?"} : dirty' = MergeDirty(dirty, {told})
      BY <2>1
    <2>2. /\ UNCHANGED <<file, row, scan, up, path, mount, unwatched>> /\ up
      BY <1>2 DEF WatchEvent, directory, history
    <2>3. RequestTyped'
      <3>1. "watch-event" \in Reasons
        BY DEF Reasons
      <3> QED
        BY <1>2, <3>1, Requested DEF WatchEvent, EnqueueDurable, WatchInv, ScanTyped
    <2>4. {told} \in SUBSET Hints /\ dirty \in SUBSET Hints /\ events \subseteq {"p", "o"}
      BY <2>1, <2>9 DEF WatchInv, ScanTyped, HintsTyped, Hints
    <2>5. dirty' \in SUBSET Hints
      BY <2>9, <2>4, MergedHints
    <2>6. Names(dirty) \/ Names({told}) => Names(dirty')
      BY <2>9, MergedNames
    <2>7. name = "p" => Names({told})
      BY <2>9 DEF Names
    <2>8. Hinted => Hinted'
      BY <2>1, <2>6, <2>7 DEF Hinted
    <2> QED
      BY <2>1, <2>2, <2>3, <2>4, <2>5, <2>8, NothingLost DEF WatchInv, ScanTyped, DirectoryTyped
  <1> QED
    BY <1>1, <1>2

\* From here on the file counts as unwatched.
LEMMA Unwatched ==
  ASSUME WatchInv, unwatched', RequestTyped', HintsTyped', UNCHANGED <<file, scan>>,
         path' \in {1, 2}, mount' \in {"ok", "empty", "lost"}, row' # None => row' \in RowStates
  PROVE  WatchInv'
  BY DEF WatchInv, ScanTyped, DirectoryTyped, RunTyped, Carried

LEMMA SettingsCarry ==
  ASSUME WatchInv, MoveRoot \/ OtherServiceMovesRoot \/ DisableRoot
  PROVE  WatchInv'
  <1>0. "manual" \in Reasons /\ path \in {1, 2} /\ mount \in {"ok", "empty", "lost"}
    BY DEF Reasons, Authoritative, WatchInv, ScanTyped, DirectoryTyped
  <1>1. CASE MovedRoot /\ (MoveRoot \/ OtherServiceMovesRoot)
    <2>1. RequestTyped' /\ path' \in {1, 2} /\ unwatched' /\ row' = None
      BY <1>0, <1>1, Requested DEF MovedRoot, WatchInv, ScanTyped
    <2>2. UNCHANGED <<file, scan, mount>>
      BY <1>1 DEF MoveRoot, OtherServiceMovesRoot
    <2>3. HintsTyped'
      <3>1. UNCHANGED <<events, dirty, watching>> \/ (events' = {} /\ dirty' = {} /\ up)
        BY <1>1 DEF MoveRoot, OtherServiceMovesRoot, CloseWatchers, hints
      <3>2. UNCHANGED <<scan, up>>
        BY <1>1 DEF MoveRoot, OtherServiceMovesRoot
      <3> QED
        BY <3>1, <3>2 DEF WatchInv, ScanTyped, HintsTyped
    <2> QED
      BY <1>0, <2>1, <2>2, <2>3, Unwatched
  <1>2. CASE DisableRoot
    BY <1>0, <1>2, Unwatched DEF DisableRoot, CloseWatchers, database,
       WatchInv, ScanTyped, RequestTyped, HintsTyped, DirectoryTyped
  <1> QED
    BY <1>1, <1>2 DEF MoveRoot, OtherServiceMovesRoot

\* Whoever asks for a scan changes nothing else.
LEMMA RequestsCarry ==
  ASSUME WatchInv,
         RequestRescan \/ ReconciliationTick \/ DeepTick \/ EnableRoot \/ OtherServiceClaims
  PROVE  WatchInv'
  <1>1. UNCHANGED <<file, row, scan, up, path, mount, hints, unwatched>>
    BY DEF RequestRescan, ReconciliationTick, DeepTick, EnableRoot, OtherServiceClaims,
       directory, history
  <1>2. {"manual", "reconciliation", "deep-reconciliation"} \subseteq Reasons
    BY DEF Reasons, Authoritative
  <1>3. \E reason \in Reasons : req' = req \/ req' = Request(reason) \/ req' = [req EXCEPT !.owner = "other"]
    BY <1>2 DEF RequestRescan, ReconciliationTick, DeepTick, EnableRoot, OtherServiceClaims,
       EnqueueDurable
  <1>4. RequestTyped'
    BY <1>3, Requested DEF WatchInv, ScanTyped
  <1> QED
    BY <1>1, <1>4, NothingHeard

LEMMA MountCarries ==
  ASSUME WatchInv, MountChanges
  PROVE  WatchInv'
  <1>1. UNCHANGED <<file, row, scan, up, path, hints, req>> /\ mount' \in {"ok", "empty", "lost"}
    BY DEF MountChanges, database
  <1>2. unwatched' \/ (unwatched' = unwatched /\ unwatched)
    BY DEF MountChanges, WatchInv, Carried
  <1> QED
    BY <1>1, <1>2, Unwatched
       DEF hints, WatchInv, ScanTyped, RequestTyped, HintsTyped, DirectoryTyped

\* A scan of an idle root begins.
LEMMA ScanBegins ==
  ASSUME WatchInv, scan = None, scan' = None \/ scan' = NewScan, RequestTyped', HintsTyped',
         UNCHANGED <<file, row, path, mount, unwatched, events, dirty>>
  PROVE  WatchInv'
  <1>1. ~unwatched' => mount' = "ok" /\ (Hinted' \/ Shown')
    BY DEF WatchInv, Carried, Taken, Hinted, Shown
  <1>2. DirectoryTyped'
    BY DEF WatchInv, ScanTyped, DirectoryTyped
  <1> QED
    BY <1>1, <1>2, NoScanRuns

LEMMA ScansBeginCarry ==
  ASSUME WatchInv, QuietWindowEnds \/ Start \/ ContinueStart
  PROVE  WatchInv'
  <1>0. {"startup", "startup-followup"} \subseteq Reasons
    BY DEF Reasons, Authoritative
  <1>1. CASE QuietWindowEnds
    <2>1. UNCHANGED <<file, row, req, up, path, mount, hints, unwatched>>
      BY <1>1 DEF QuietWindowEnds, directory, database, history
    <2>2. RequestTyped'
      BY <2>1 DEF WatchInv, ScanTyped, RequestTyped
    <2>3. CASE scan' = scan
      BY <2>1, <2>2, <2>3, NothingHeard
    <2>4. CASE scan = None /\ scan' = NewScan
      BY <1>1, <2>1, <2>2, <2>4, ScanBegins
         DEF hints, QuietWindowEnds, WatchInv, ScanTyped, HintsTyped
    <2> QED
      BY <1>1, <2>3, <2>4 DEF QuietWindowEnds, StartOrRerun
  <1>2. CASE Start
    <2>1. /\ UNCHANGED <<file, row, path, mount, hints, unwatched>> /\ scan = None /\ up'
          /\ scan' = None \/ scan' = NewScan
      BY <1>2 DEF Start, directory, history, WatchInv, ScanTyped, HintsTyped
    <2>2. RequestTyped'
      BY <1>0, <1>2, Requested DEF Start, WatchInv, ScanTyped
    <2> QED
      BY <2>1, <2>2, ScanBegins DEF hints, WatchInv, ScanTyped, HintsTyped
  <1>3. CASE ContinueStart
    <2>1. /\ UNCHANGED <<file, row, path, mount, hints, unwatched, up>> /\ scan = None /\ up
          /\ scan' = None \/ scan' = NewScan
      BY <1>3 DEF ContinueStart, directory, history
    <2>2. RequestTyped'
      BY <1>0, <1>3, Requested DEF ContinueStart, WatchInv, ScanTyped
    <2> QED
      BY <2>1, <2>2, ScanBegins DEF hints, WatchInv, ScanTyped, HintsTyped
  <1> QED
    BY <1>1, <1>2, <1>3

LEMMA ScansEndCarry ==
  ASSUME WatchInv, AbortedScanEnds \/ ScanFails
  PROVE  WatchInv'
  BY HintsGoBack DEF AbortedScanEnds, ScanFails, Claimed, directory, database,
     WatchInv, ScanTyped, RequestTyped, DirectoryTyped, Shown

LEMMA DeadlineCarries ==
  ASSUME WatchInv, DeadlineExpires
  PROVE  WatchInv'
  <1>1. /\ UNCHANGED <<file, row, req, up, path, mount, events, watching, unwatched>>
        /\ scan' = None /\ scan # None /\ up /\ dirty' = MergeDirty(dirty, scan.dirty)
    BY DEF DeadlineExpires, Claimed, directory, database
  <1>2. dirty \in SUBSET Hints /\ scan.dirty \in SUBSET Hints
    BY <1>1 DEF WatchInv, ScanTyped, HintsTyped, RunTyped, ScanStates
  <1>3. dirty' \in SUBSET Hints
    BY <1>1, <1>2, MergedHints
  <1>4. Names(dirty) \/ Names(scan.dirty) => Names(dirty')
    BY <1>1, MergedNames
  <1>5. ~unwatched' => mount' = "ok" /\ (Hinted' \/ Shown')
    BY <1>1, <1>4 DEF WatchInv, Carried, Hinted, Taken, Shown
  <1>6. RequestTyped' /\ HintsTyped' /\ DirectoryTyped'
    BY <1>1, <1>3 DEF WatchInv, ScanTyped, RequestTyped, HintsTyped, DirectoryTyped
  <1> QED
    BY <1>1, <1>5, <1>6, NoScanRuns

\* A process that goes down takes its hints along.
LEMMA GoDownCarries ==
  ASSUME WatchInv, GoDown
  PROVE  WatchInv'
  <1>1. /\ UNCHANGED <<file, row, path, mount>> /\ scan' = None /\ events' = {} /\ dirty' = {}
        /\ watching' = None /\ req' = [req EXCEPT !.owner = IF @ = "us" THEN "none" ELSE @]
    BY DEF GoDown, CloseWatchers, directory
  <1>2. RequestTyped'
    BY <1>1 DEF WatchInv, ScanTyped, RequestTyped
  <1>3. ~unwatched' => mount' = "ok" /\ (Hinted' \/ Shown')
    <2>1. ~unwatched' => ~unwatched /\ events \cup dirty = {} /\ ~(scan # None /\ scan.dirty # {})
      BY DEF GoDown
    <2>2. ~unwatched' => ~Hinted /\ ~Taken
      BY <2>1 DEF Hinted, Taken, Names
    <2> QED
      BY <1>1, <2>1, <2>2 DEF WatchInv, Carried, Shown
  <1>4. HintsTyped' /\ DirectoryTyped'
    BY <1>1 DEF WatchInv, ScanTyped, HintsTyped, DirectoryTyped
  <1> QED
    BY <1>1, <1>2, <1>3, <1>4, NoScanRuns

\* Another service indexes the file as it is.
LEMMA OtherServiceCarries ==
  ASSUME WatchInv, OtherServiceFinishes
  PROVE  WatchInv'
  <1>1. UNCHANGED <<file, scan, up, path, mount, hints, unwatched>> /\ req' = NoRequest
    BY DEF OtherServiceFinishes, directory
  <1>2. RequestTyped'
    <2>1. "startup" \in Reasons
      BY DEF Reasons, Authoritative
    <2> QED
      BY <1>1, <2>1, Requested DEF WatchInv, ScanTyped
  <1>3. (row' # None => row' \in RowStates) /\ Shown'
    <2>1. CASE file = None
      BY <1>1, <2>1 DEF OtherServiceFinishes, Shown
    <2>2. CASE file # None
      <3>1. PICK r : r = [stat |-> file.stat, sample |-> file.sample, full |-> file.full,
                          available |-> TRUE, error |-> FALSE, path |-> path]
        OBVIOUS
      <3>2. r \in RowStates /\ r.full = file.full
        BY <2>2, <3>1 DEF WatchInv, ScanTyped, DirectoryTyped, FileStates, RowStates
      <3>3. r # None /\ row' = r
        BY <2>2, <3>1, <3>2, RowsAreThere DEF OtherServiceFinishes
      <3> QED
        BY <1>1, <2>2, <3>2, <3>3 DEF Shown
    <2> QED
      BY <2>1, <2>2
  <1>4. ScanTyped'
    BY <1>1, <1>2, <1>3 DEF hints, WatchInv, ScanTyped, HintsTyped, DirectoryTyped, RunTyped
  <1>5. Hinted' = Hinted
    BY <1>1 DEF Hinted, hints
  <1>6. Carried'
    BY <1>1, <1>3, <1>5 DEF WatchInv, Carried
  <1> QED
    BY <1>4, <1>6 DEF WatchInv

LEMMA WatchStart ==
  ASSUME Init
  PROVE  WatchInv
  <1>1. "startup" \in Reasons
    BY DEF Reasons, Authoritative
  <1> QED
    BY <1>1 DEF Init, WatchInv, ScanTyped, RequestTyped, HintsTyped, DirectoryTyped, RunTyped, Carried,
       NoRequest, FileStates

LEMMA WatchStep ==
  ASSUME WatchInv, Next
  PROVE  WatchInv'
  BY EventsCarry, SettingsCarry, RequestsCarry, MountCarries, ScansBeginCarry, ScansEndCarry,
     DeadlineCarries, GoDownCarries, OtherServiceCarries, FileChangesCarry, ClaimCarries,
     EnumerateCarries, IndexCandidateCarries, FinishScanCarries DEF Next, Work, Environment

LEMMA WatchStutter ==
  ASSUME WatchInv, UNCHANGED vars
  PROVE  WatchInv'
  <1>1. RequestTyped'
    BY DEF vars, WatchInv, ScanTyped, RequestTyped
  <1> QED
    BY <1>1, NothingHeard DEF vars, hints

\* With nothing left to do, no hint is on its way.
LEMMA WatchIsRight ==
  ASSUME WatchInv
  PROVE  WatchedChangesAreIndexed
  BY DEF WatchInv, Carried, Hinted, Taken, Shown, Names, WatchedChangesAreIndexed, Idle

-----------------------------------------------------------------------------
(***************************************************************************)
(* The identities of books.                                                *)
(***************************************************************************)

FileRow == [hash : Contents \cup {"rejected"}, book : Nat, error : BOOLEAN, seen : BOOLEAN]
FolderScan == [listed : SUBSET Paths, as : [Paths -> Contents \cup {None}], todo : SUBSET Paths,
               stable : BOOLEAN]

IdentTyped ==
  /\ identityDisk \in [Paths -> Contents \cup {None}]
  /\ identityRows \in [Paths -> FileRow \cup {None}]
  /\ identityExpected \in [Paths -> Nat] /\ identityBooks \in Nat
  /\ identityDeliveries \in Seq(Nat \ {0})
  /\ identityScan \in FolderScan \cup {None}
  /\ \A h \in identityIdentities : h.book \in 1..identityBooks
  /\ \A p \in Paths : /\ identityExpected[p] <= identityBooks
                      /\ identityRows[p] # None => identityRows[p].book <= identityBooks

\* The durable map has one entry per book and per path, no two rows share a
\* book, and the book of a row is on record at the path of the row.
OneEach ==
  /\ \A g, h \in identityIdentities : g.book = h.book \/ g.path = h.path => g = h
  /\ \A p, q \in Paths :
       identityRows[p] # None /\ identityRows[q] # None /\ identityRows[p].book = identityRows[q].book
       => p = q \/ identityRows[p].book = 0
RowsRecorded ==
  \A p \in Paths : identityRows[p] # None /\ identityRows[p].book # 0
    => \E h \in identityIdentities : h.path = p /\ h.book = identityRows[p].book
EvidenceRecorded ==
  \A i \in DOMAIN identityDeliveries :
    \/ \E h \in identityIdentities : h.book = identityDeliveries[i]
    \/ identityDeliveries[i] \in identityDisplaced

\* What a scan still has to do was listed, and one that sees an empty folder
\* sees no file.
ScanRight ==
  identityScan # None =>
    /\ identityScan.todo \subseteq identityScan.listed
    /\ \A p \in identityScan.listed : identityScan.as[p] # None
    /\ identityScan.listed = {} =>
         \A p \in Paths : identityRows[p] # None => ~identityRows[p].seen

\* The book expected of p is on record at q, with the bytes of p.
Has(p, q) ==
  \E h \in identityIdentities :
    h.path = q /\ h.hash = identityDisk[p] /\ h.book = identityExpected[p]
Alone(p) == \A q \in Paths \ {p} : identityDisk[q] # identityDisk[p]

\* The file at p has its row.
Rowed(p) ==
  /\ identityRows[p].book = identityExpected[p]
  /\ identityRows[p].hash \in {identityDisk[p], "rejected"}
  /\ Has(p, p)

\* It has none, and is told by its path: nothing else could be taken for it.
Recorded(p) ==
  /\ Has(p, p) /\ ~Identity!HasRow(identityExpected[p]) /\ Alone(p)
  /\ \A q \in Paths : identityRows[q] # None => identityRows[q].hash # identityDisk[p]

\* It has none, and is told by its bytes as the file that was at q.
Moved(p, q) ==
  /\ Has(p, q) /\ identityDisk[q] = None /\ Alone(p)
  /\ \A h \in identityIdentities :
       h.path # p /\ (h.hash = identityDisk[p] => h.book = identityExpected[p])
  /\ \A r \in Paths \ {q} : identityRows[r] # None => identityRows[r].hash # identityDisk[p]
  /\ identityRows[q] = None => ~Identity!HasRow(identityExpected[p])
  /\ identityRows[q] # None => /\ identityRows[q].book = identityExpected[p]
                               /\ identityRows[q].hash = identityDisk[p]
  /\ identityScan # None => /\ q \notin identityScan.listed
                            /\ identityRows[q] # None => ~identityRows[q].seen

\* A scan that sees the folder lists the file as it is and comes to it.
InScan(p) ==
  identityScan # None /\ identityScan.listed # {} =>
    /\ p \in identityScan.listed /\ identityScan.as[p] = identityDisk[p]
    /\ p \in identityScan.todo \/ (identityRows[p] # None /\ identityRows[p].seen)

Right(p) ==
  /\ identityDisk[p] # None /\ InScan(p)
  /\ identityRows[p] # None => Rowed(p)
  /\ identityRows[p] = None => Recorded(p) \/ \E q \in Paths : Moved(p, q)

\* Files of which a book is expected are right.
ExpectedRight == \A p \in Paths : identityExpected[p] # 0 => Right(p)

IdentInv ==
  IdentTyped /\ OneEach /\ RowsRecorded /\ EvidenceRecorded /\ ScanRight /\ ExpectedRight

-----------------------------------------------------------------------------

\* Everything but the files, and the files that are right.
Rest == IdentTyped /\ OneEach /\ RowsRecorded /\ EvidenceRecorded /\ ScanRight

LEMMA IdentParts == IdentInv <=> Rest /\ ExpectedRight
  BY DEF IdentInv, Rest

LEMMA NextPathIs ==
  ASSUME identityScan.todo \subseteq Paths, identityScan.todo # {}
  PROVE  Identity!NextPath \in identityScan.todo
  BY PathsAreOrdered DEF Identity!NextPath

LEMMA IdentStart ==
  ASSUME Identity!Init
  PROVE  IdentInv
  <1>1. identityDeliveries \in Seq(Nat \ {0}) /\ DOMAIN identityDeliveries = {}
    BY DEF Identity!Init
  <1>2. IdentTyped
    BY <1>1 DEF Identity!Init, IdentTyped
  <1>3. /\ identityIdentities = {} /\ identityScan = None
        /\ \A p \in Paths : identityRows[p] = None /\ identityExpected[p] = 0
    BY DEF Identity!Init
  <1>4. OneEach
    BY <1>3 DEF OneEach
  <1>5. RowsRecorded /\ ScanRight
    BY <1>3 DEF RowsRecorded, ScanRight
  <1>6. ExpectedRight
    BY <1>3 DEF ExpectedRight
  <1> QED
    BY <1>1, <1>2, <1>4, <1>5, <1>6 DEF IdentInv, EvidenceRecorded

LEMMA IdentStutter ==
  ASSUME IdentInv, UNCHANGED identityVars
  PROVE  IdentInv'
  <1>1. Rest'
    BY DEF identityVars, IdentInv, Rest, IdentTyped, OneEach, RowsRecorded, EvidenceRecorded, ScanRight
  <1>2. ExpectedRight'
    BY DEF identityVars, IdentInv, ExpectedRight, Right, InScan, Rowed, Recorded, Moved, Has, Alone,
           Identity!HasRow
  <1> QED
    BY <1>1, <1>2 DEF IdentInv, Rest

-----------------------------------------------------------------------------
(* The owner of the folder. *)

\* What the owner's edits leave alone.
Catalog == <<identityRows, identityIdentities, identityDeliveries, identityScan, identityBooks,
             identityDisplaced>>

LEMMA RestOfCatalog ==
  ASSUME Rest, UNCHANGED Catalog, identityDisk' \in [Paths -> Contents \cup {None}],
         identityExpected' \in [Paths -> Nat],
         \A p \in Paths : identityExpected'[p] <= identityBooks
  PROVE  Rest'
  BY DEF Rest, Catalog, IdentTyped, OneEach, RowsRecorded, EvidenceRecorded, ScanRight

\* A file is as right as before when no file it could be taken for appears.
LEMMA OthersStayRight ==
  ASSUME IdentTyped, UNCHANGED Catalog, NEW p \in Paths, Right(p),
         identityDisk'[p] = identityDisk[p], identityExpected'[p] = identityExpected[p],
         identityExpected[p] # 0,
         \A r \in Paths \ {p} : \/ identityDisk'[r] \in {identityDisk[r], None}
                                \/ p \notin Identity!Unclear(r, identityDisk'[r])
  PROVE  Right(p)'
  <1>1. identityDisk'[p] # None /\ InScan(p)'
    BY DEF Right, InScan, Catalog
  <1>2. identityRows'[p] # None => Rowed(p)'
    BY DEF Right, Rowed, Has, Catalog
  <1>3. ASSUME identityRows[p] = None
        PROVE  Recorded(p)' \/ \E q \in Paths : Moved(p, q)'
    <2>1. \A r \in Paths \ {p} :
            \/ identityDisk'[r] \in {identityDisk[r], None}
            \/ /\ identityDisk'[r] # identityDisk[p]
               /\ \A h \in identityIdentities : h.book = identityExpected[p] => h.path # r
      BY <1>3 DEF Identity!Unclear, Identity!Settled, Identity!IdentitiesOf
    <2>2. Alone(p) => Alone(p)'
      BY <1>1, <2>1 DEF Alone
    <2>3. CASE Recorded(p)
      BY <2>2, <2>3 DEF Recorded, Has, Identity!HasRow, Catalog
    <2>4. ASSUME NEW q \in Paths, Moved(p, q)
          PROVE  Moved(p, q)'
      <3>1. identityDisk'[q] = None /\ Has(p, q)'
        BY <1>1, <2>1, <2>4 DEF Moved, Has, Right, Catalog
      <3> QED
        BY <2>2, <2>4, <3>1 DEF Moved, Has, Identity!HasRow, Catalog
    <2> QED
      BY <1>3, <2>3, <2>4 DEF Right
  <1> QED
    BY <1>1, <1>2, <1>3 DEF Right, Catalog

LEMMA AddKeepsIdent ==
  ASSUME IdentInv, NEW x \in Paths, NEW c \in Contents, Identity!Add(x, c)
  PROVE  IdentInv'
  <1>1. /\ UNCHANGED Catalog
        /\ identityDisk' = [identityDisk EXCEPT ![x] = c]
        /\ identityExpected' = [q \in Paths |->
             IF q = x \/ q \in Identity!Unclear(x, c) THEN 0 ELSE identityExpected[q]]
    BY DEF Identity!Add, Catalog
  <1>2. Rest'
    BY <1>1, RestOfCatalog, IdentParts DEF Rest, IdentTyped
  <1>3. ASSUME NEW p \in Paths, identityExpected'[p] # 0
        PROVE  Right(p)'
    BY <1>1, <1>3, OthersStayRight DEF IdentInv, IdentTyped, ExpectedRight
  <1> QED
    BY <1>2, <1>3 DEF IdentInv, Rest, ExpectedRight

LEMMA RemoveKeepsIdent ==
  ASSUME IdentInv, NEW x \in Paths, Identity!Remove(x)
  PROVE  IdentInv'
  <1>1. /\ UNCHANGED Catalog
        /\ identityDisk' = [identityDisk EXCEPT ![x] = None]
        /\ identityExpected' = [identityExpected EXCEPT ![x] = 0]
    BY DEF Identity!Remove, Catalog
  <1>2. Rest'
    BY <1>1, RestOfCatalog, IdentParts DEF Rest, IdentTyped
  <1>3. ASSUME NEW p \in Paths, identityExpected'[p] # 0
        PROVE  Right(p)'
    BY <1>1, <1>3, OthersStayRight DEF IdentInv, IdentTyped, ExpectedRight
  <1> QED
    BY <1>2, <1>3 DEF IdentInv, Rest, ExpectedRight

LEMMA MoveKeepsIdent ==
  ASSUME IdentInv, NEW x \in Paths, NEW y \in Paths, Identity!Move(x, y)
  PROVE  IdentInv'
  <1>1. /\ UNCHANGED Catalog
        /\ identityDisk[x] # None /\ identityDisk[y] = None /\ x # y
        /\ identityDisk' = [identityDisk EXCEPT ![x] = None, ![y] = identityDisk[x]]
        /\ identityExpected' \in [Paths -> Nat] /\ identityExpected'[x] = 0
        /\ identityExpected'[y] # 0 => /\ Identity!Recognisable(x, y)
                                       /\ identityExpected'[y] = identityExpected[x]
        /\ \A p \in Paths : identityExpected'[p] <= identityBooks
        /\ \A p \in Paths \ {x, y} :
             identityExpected'[p] = IF p \in Identity!Unclear(y, identityDisk[x]) THEN 0
                                    ELSE identityExpected[p]
    BY DEF Identity!Move, Catalog, IdentInv, IdentTyped
  <1>2. Rest'
    BY <1>1, RestOfCatalog, IdentParts DEF Rest, IdentTyped
  <1>3. ASSUME NEW p \in Paths \ {x, y}, identityExpected'[p] # 0
        PROVE  Right(p)'
    BY <1>1, <1>3, OthersStayRight DEF IdentInv, IdentTyped, ExpectedRight
  <1>4. ASSUME identityExpected'[y] # 0
        PROVE  Right(y)'
    <2>1. Rowed(x) /\ identityRows[x] # None /\ identityRows[x].hash = identityDisk[x]
      BY <1>1, <1>4 DEF IdentInv, ExpectedRight, Right, Identity!Recognisable, Identity!Settled
    <2>2. identityScan = None /\ identityRows[y] = None
          /\ \A r \in Paths \ {x} : /\ identityDisk[r] # identityDisk[x]
                                    /\ identityRows[r] # None
                                         => identityRows[r].hash # identityDisk[x]
          /\ \A h \in identityIdentities :
               h.path # y /\ (h.hash = identityDisk[x] => h.book = identityExpected[x])
      BY <1>1, <1>4 DEF Identity!Recognisable
    <2>3. identityDisk'[x] = None /\ identityDisk'[y] = identityDisk[x]
          /\ \A r \in Paths \ {x, y} : identityDisk'[r] = identityDisk[r]
      BY <1>1 DEF IdentInv, IdentTyped
    <2>4. Has(y, x)' /\ Alone(y)'
      <3>1. Has(y, x)'
        <4>1. identityIdentities' = identityIdentities /\ identityExpected'[y] = identityExpected[x]
          BY <1>1, <1>4 DEF Catalog
        <4> QED
          BY <2>1, <2>3, <4>1 DEF Rowed, Has
      <3>2. Alone(y)'
        <4>1. identityDisk[x] # None
          BY <1>1
        <4> QED
          BY <2>2, <2>3, <4>1 DEF Alone
      <3> QED
        BY <3>1, <3>2
    <2>5. identityRows'[x] # None /\ identityRows'[x].book = identityExpected'[y]
          /\ identityRows'[x].hash = identityDisk'[y] /\ identityScan' = None
      BY <1>1, <1>4, <2>1, <2>2, <2>3 DEF Rowed, Catalog
    <2>6. /\ \A h \in identityIdentities' :
               h.path # y /\ (h.hash = identityDisk'[y] => h.book = identityExpected'[y])
          /\ \A r \in Paths \ {x} :
               identityRows'[r] # None => identityRows'[r].hash # identityDisk'[y]
      <3>1. /\ identityIdentities' = identityIdentities /\ identityRows' = identityRows
            /\ identityExpected'[y] = identityExpected[x]
        BY <1>1, <1>4 DEF Catalog
      <3>2. identityDisk'[y] = identityDisk[x]
        BY <2>3
      <3>3. ASSUME NEW h \in identityIdentities
            PROVE  h.path # y /\ (h.hash = identityDisk[x] => h.book = identityExpected[x])
        <4>1. Identity!Recognisable(x, y)
          BY <1>1, <1>4
        <4> QED
          BY <4>1 DEF Identity!Recognisable
      <3>4. ASSUME NEW r \in Paths \ {x}
            PROVE  identityRows[r] # None => identityRows[r].hash # identityDisk[x]
        BY <2>2
      <3> QED
        BY <3>1, <3>2, <3>3, <3>4
    <2>7. Moved(y, x)'
      BY <2>3, <2>4, <2>5, <2>6 DEF Moved
    <2> QED
      BY <1>1, <2>2, <2>3, <2>7 DEF Right, InScan, Catalog
  <1> QED
    BY <1>1, <1>2, <1>3, <1>4 DEF IdentInv, Rest, ExpectedRight

-----------------------------------------------------------------------------
(* One scan of the folder. *)

LEMMA StartScanKeepsIdent ==
  ASSUME IdentInv, Identity!StartScan
  PROVE  IdentInv'
  <1>1. PICK present \in {{}, {p \in Paths : identityDisk[p] # None}} :
          identityScan' = [listed |-> present, as |-> identityDisk, todo |-> present, stable |-> TRUE]
    BY DEF Identity!StartScan
  <1>2. /\ UNCHANGED <<identityDisk, identityIdentities, identityDeliveries, identityBooks,
                       identityExpected, identityDisplaced>>
        /\ identityRows' = [p \in Paths |-> IF identityRows[p] = None THEN None
                                            ELSE [identityRows[p] EXCEPT !.seen = FALSE]]
        /\ identityScan = None
    BY DEF Identity!StartScan
  <1>3. /\ identityRows' \in [Paths -> FileRow \cup {None}]
        /\ \A p \in Paths :
             /\ identityRows'[p] = None <=> identityRows[p] = None
             /\ identityRows[p] # None => /\ identityRows'[p].book = identityRows[p].book
                                          /\ identityRows'[p].hash = identityRows[p].hash
                                          /\ ~identityRows'[p].seen
    BY <1>2, FilesAreApart DEF IdentInv, IdentTyped, FileRow
  <1>4. IdentTyped'
    BY <1>1, <1>2, <1>3 DEF IdentInv, IdentTyped, FolderScan
  <1>5. OneEach' /\ RowsRecorded' /\ EvidenceRecorded' /\ ScanRight'
    BY <1>1, <1>2, <1>3 DEF IdentInv, OneEach, RowsRecorded, EvidenceRecorded, ScanRight
  <1>6. ASSUME NEW p \in Paths, identityExpected[p] # 0
        PROVE  Right(p)'
    <2>1. Right(p) /\ (Identity!HasRow(identityExpected[p])' => Identity!HasRow(identityExpected[p]))
      BY <1>2, <1>3, <1>6 DEF IdentInv, ExpectedRight, Identity!HasRow
    <2>2. identityDisk'[p] # None /\ InScan(p)'
      BY <1>1, <1>2, <2>1 DEF Right, InScan
    <2>3. identityRows'[p] # None => Rowed(p)'
      BY <1>2, <1>3, <2>1 DEF Right, Rowed, Has
    <2>4. Recorded(p) => Recorded(p)'
      BY <1>2, <1>3, <2>1 DEF Recorded, Has, Alone
    <2>5. ASSUME NEW q \in Paths, Moved(p, q)
          PROVE  Moved(p, q)'
      <3>1. identityDisk[q] = None /\ q \notin identityScan'.listed
        BY <1>1, <2>5 DEF Moved
      <3> QED
        BY <1>2, <1>3, <2>1, <2>5, <3>1 DEF Moved, Has, Alone
    <2> QED
      BY <1>3, <2>1, <2>2, <2>3, <2>4, <2>5 DEF Right
  <1> QED
    BY <1>2, <1>4, <1>5, <1>6 DEF IdentInv, ExpectedRight

\* A scan that ends without a word.
LEMMA ScanEndsQuietly ==
  ASSUME IdentInv, identityScan' = None,
         UNCHANGED <<identityDisk, identityRows, identityIdentities, identityDeliveries,
                     identityBooks, identityExpected, identityDisplaced>>
  PROVE  IdentInv'
  <1>1. Rest'
    BY DEF IdentInv, Rest, IdentTyped, OneEach, RowsRecorded, EvidenceRecorded, ScanRight
  <1>2. ASSUME NEW p \in Paths, identityExpected[p] # 0
        PROVE  Right(p)'
    <2>1. Right(p)
      BY <1>2 DEF IdentInv, ExpectedRight
    <2> QED
      BY <2>1 DEF Right, InScan, Rowed, Recorded, Moved, Has, Alone, Identity!HasRow
  <1> QED
    BY <1>1, <1>2 DEF IdentInv, Rest, ExpectedRight

\* A file is done: every other one the scan still comes to.
Done(p) ==
  /\ identityScan # None /\ identityScan.todo # {} /\ p = Identity!NextPath
  /\ \E s \in BOOLEAN : identityScan' = [identityScan EXCEPT !.todo = @ \ {p}, !.stable = s]

LEMMA DoneIs ==
  ASSUME IdentInv, NEW p, Done(p)
  PROVE  /\ p \in Paths /\ p \in identityScan.todo /\ p \in identityScan.listed
         /\ identityScan.listed # {} /\ identityScan.as[p] # None
         /\ identityScan' \in FolderScan
         /\ identityScan'.listed = identityScan.listed /\ identityScan'.as = identityScan.as
         /\ identityScan'.todo = identityScan.todo \ {p}
  <1>1. p \in identityScan.todo /\ identityScan \in FolderScan
    BY NextPathIs DEF Done, IdentInv, IdentTyped, FolderScan
  <1>2. p \in Paths /\ p \in identityScan.listed /\ identityScan.as[p] # None
    BY <1>1 DEF Done, IdentInv, ScanRight, FolderScan
  <1>3. /\ identityScan' \in FolderScan
        /\ identityScan'.listed = identityScan.listed /\ identityScan'.as = identityScan.as
        /\ identityScan'.todo = identityScan.todo \ {p}
    BY <1>1 DEF Done, FolderScan
  <1> QED
    BY <1>1, <1>2, <1>3

\* The scan leaves the file at p as it was, and its row with the book it had.
RowTouched(p) ==
  /\ Done(p)
  /\ UNCHANGED <<identityDisk, identityIdentities, identityDeliveries, identityBooks,
                 identityDisplaced>>
  /\ identityDisk[p] = identityScan.as[p]
  /\ \E r \in FileRow : /\ identityRows' = [identityRows EXCEPT ![p] = r]
                        /\ r.hash \in {identityDisk[p], "rejected"} /\ r.seen
                        /\ r.book = IF identityRows[p] = None THEN 0 ELSE identityRows[p].book

LEMMA TouchedKeeps ==
  ASSUME IdentInv, NEW p, RowTouched(p),
         identityExpected' = [identityExpected EXCEPT ![p] = IF Identity!Settled(p) THEN @ ELSE 0]
  PROVE  IdentInv'
  <1>1. /\ p \in Paths /\ p \in identityScan.todo /\ p \in identityScan.listed
        /\ identityScan.listed # {} /\ identityDisk[p] # None
        /\ identityScan' \in FolderScan
        /\ identityScan'.listed = identityScan.listed /\ identityScan'.as = identityScan.as
        /\ identityScan'.todo = identityScan.todo \ {p}
        /\ identityScan # None
    BY DoneIs DEF RowTouched, Done
  <1>2. PICK r \in FileRow :
          /\ identityRows' = [identityRows EXCEPT ![p] = r]
          /\ r.hash \in {identityDisk[p], "rejected"} /\ r.seen
          /\ r.book = IF identityRows[p] = None THEN 0 ELSE identityRows[p].book
    BY DEF RowTouched
  <1>3. /\ identityRows' \in [Paths -> FileRow \cup {None}] /\ identityRows'[p] = r /\ r # None
        /\ \A q \in Paths \ {p} : identityRows'[q] = identityRows[q]
    BY <1>1, <1>2, FilesAreApart DEF IdentInv, IdentTyped, FileRow
  <1>4. /\ UNCHANGED <<identityDisk, identityIdentities, identityDeliveries, identityBooks,
                       identityDisplaced>>
        /\ identityExpected' \in [Paths -> Nat]
        /\ \A q \in Paths \ {p} : identityExpected'[q] = identityExpected[q]
        /\ identityExpected'[p] # 0 => /\ Identity!Settled(p)
                                       /\ identityExpected'[p] = identityExpected[p]
    BY <1>1 DEF RowTouched, IdentInv, IdentTyped
  <1>5. IdentTyped'
    BY <1>1, <1>2, <1>3, <1>4 DEF IdentInv, IdentTyped
  <1>6. OneEach' /\ RowsRecorded' /\ EvidenceRecorded' /\ ScanRight'
    BY <1>1, <1>2, <1>3, <1>4 DEF IdentInv, OneEach, RowsRecorded, EvidenceRecorded, ScanRight
  <1>7. \A b : b # 0 /\ Identity!HasRow(b)' => Identity!HasRow(b)
    BY <1>1, <1>2, <1>3 DEF Identity!HasRow
  <1>8. ASSUME NEW q \in Paths \ {p}, identityExpected'[q] # 0
        PROVE  Right(q)'
    <2>1. Right(q) /\ (Identity!HasRow(identityExpected[q])' => Identity!HasRow(identityExpected[q]))
      BY <1>4, <1>7, <1>8 DEF IdentInv, ExpectedRight
    <2>2. identityDisk'[q] # None /\ InScan(q)'
      BY <1>1, <1>3, <1>4, <2>1 DEF Right, InScan
    <2>3. identityRows'[q] # None => Rowed(q)'
      BY <1>3, <1>4, <2>1 DEF Right, Rowed, Has
    <2>4. Alone(q) => r.hash # identityDisk[q] /\ Alone(q)'
      BY <1>1, <1>2, <1>4, <2>2, FilesAreApart DEF Alone, IdentInv, IdentTyped
    <2>5. Recorded(q) => Recorded(q)'
      BY <1>1, <1>3, <1>4, <2>1, <2>4 DEF Recorded, Has
    <2>6. ASSUME NEW s \in Paths, Moved(q, s)
          PROVE  Moved(q, s)'
      <3>1. s # p
        BY <1>1, <2>6 DEF Moved
      <3> QED
        BY <1>1, <1>3, <1>4, <2>1, <2>4, <2>6, <3>1 DEF Moved, Has
    <2> QED
      BY <1>3, <2>1, <2>2, <2>3, <2>5, <2>6 DEF Right
  <1>9. ASSUME identityExpected'[p] # 0
        PROVE  Right(p)'
    <2>1. identityRows[p] # None /\ Rowed(p)
      BY <1>1, <1>4, <1>9 DEF IdentInv, ExpectedRight, Right, Identity!Settled
    <2>2. Rowed(p)'
      BY <1>2, <1>3, <1>4, <1>9, <2>1 DEF Rowed, Has
    <2>3. InScan(p)'
      BY <1>1, <1>2, <1>3, <1>4 DEF InScan, RowTouched
    <2> QED
      BY <1>1, <1>3, <1>4, <2>2, <2>3 DEF Right
  <1> QED
    BY <1>4, <1>5, <1>6, <1>8, <1>9 DEF IdentInv, ExpectedRight

LEMMA FileFailsKeepsIdent ==
  ASSUME IdentInv, Identity!FileFails
  PROVE  IdentInv'
  <1>1. PICK p : p = Identity!NextPath
    OBVIOUS
  <1>2. PICK hash \in {"rejected", identityDisk[p]} :
          identityRows' = [identityRows EXCEPT ![p] =
            [hash |-> hash, error |-> TRUE, seen |-> TRUE,
             book |-> IF identityRows[p] = None THEN 0 ELSE identityRows[p].book]]
    BY <1>1 DEF Identity!FileFails, Identity!Rejected
  <1>3. /\ identityScan # None /\ identityScan.todo # {} /\ identityDisk[p] = identityScan.as[p]
        /\ identityScan' = [identityScan EXCEPT !.todo = @ \ {p}]
        /\ identityExpected' = [identityExpected EXCEPT ![p] = IF Identity!Settled(p) THEN @ ELSE 0]
        /\ UNCHANGED <<identityDisk, identityIdentities, identityDeliveries, identityBooks,
                       identityDisplaced>>
    BY <1>1 DEF Identity!FileFails
  <1>4. Done(p)
    <2>1. identityScan' = [identityScan EXCEPT !.todo = @ \ {p}, !.stable = identityScan.stable]
          /\ identityScan.stable \in BOOLEAN
      BY <1>3 DEF IdentInv, IdentTyped, FolderScan
    <2> QED
      BY <1>1, <1>3, <2>1 DEF Done
  <1>5. RowTouched(p)
    <2>1. p \in Paths /\ identityDisk[p] # None
      BY <1>3, <1>4, DoneIs
    <2> DEFINE r == [hash |-> hash, error |-> TRUE, seen |-> TRUE,
                     book |-> IF identityRows[p] = None THEN 0 ELSE identityRows[p].book]
    <2>2. r \in FileRow
      BY <2>1 DEF IdentInv, IdentTyped, FileRow
    <2> QED
      BY <1>2, <1>3, <1>4, <2>2 DEF RowTouched
  <1> QED
    BY <1>3, <1>5, TouchedKeeps

\* A file is found changed after it was listed: nothing was expected of it.
LEMMA FileUnstableKeepsIdent ==
  ASSUME IdentInv, Identity!FileUnstable
  PROVE  IdentInv'
  <1>1. PICK p : p = Identity!NextPath
    OBVIOUS
  <1>2. /\ identityDisk[p] # identityScan.as[p]
        /\ identityScan # None /\ identityScan.todo # {}
        /\ identityScan' = [identityScan EXCEPT !.todo = @ \ {p}, !.stable = FALSE]
        /\ UNCHANGED <<identityDisk, identityRows, identityIdentities, identityDeliveries,
                       identityBooks, identityExpected, identityDisplaced>>
    BY <1>1 DEF Identity!FileUnstable
  <1>3. Done(p)
    BY <1>1, <1>2 DEF Done
  <1>4. /\ p \in Paths /\ p \in identityScan.listed /\ identityScan.listed # {}
        /\ identityScan' \in FolderScan
        /\ identityScan'.listed = identityScan.listed /\ identityScan'.as = identityScan.as
        /\ identityScan'.todo = identityScan.todo \ {p}
    BY <1>3, DoneIs
  <1>5. Rest'
    BY <1>2, <1>4 DEF IdentInv, Rest, IdentTyped, OneEach, RowsRecorded, EvidenceRecorded, ScanRight
  <1>6. ASSUME NEW q \in Paths, identityExpected[q] # 0
        PROVE  Right(q)'
    <2>1. Right(q)
      BY <1>6 DEF IdentInv, ExpectedRight
    <2>2. InScan(q)'
      BY <1>2, <1>4, <2>1 DEF Right, InScan
    <2> QED
      BY <1>2, <1>4, <2>1, <2>2 DEF Right, Rowed, Recorded, Moved, Has, Alone, Identity!HasRow
  <1> QED
    BY <1>2, <1>5, <1>6 DEF IdentInv, Rest, ExpectedRight

\* The identifier an upsert of p takes: that of the row it updates, else one on
\* record that no row has, else a new one.
KeptBook(p, from) == IF from # 0 /\ identityRows[from].book # 0 THEN {identityRows[from].book}
                 ELSE Identity!Retained(p)
BookFor(p, from) ==
  IF KeptBook(p, from) = {} THEN identityBooks + 1 ELSE CHOOSE k \in KeptBook(p, from) : TRUE

LEMMA ExistingIs ==
  ASSUME IdentInv, NEW p \in Paths, p \in identityScan.listed
  PROVE  /\ Identity!Existing(p) \in Paths \cup {0}
         /\ Identity!Existing(p) # 0 => identityRows[Identity!Existing(p)] # None
         /\ identityRows[p] # None => Identity!Existing(p) = p
         /\ Identity!Existing(p) \notin {0, p} =>
              Identity!Existing(p) \in Identity!RenameCandidates(p)
         /\ \A q : identityRows[p] = None /\ Identity!RenameCandidates(p) = {q}
              => Identity!Existing(p) = q
  BY FilesAreApart DEF Identity!Existing, Identity!RenameCandidates

LEMMA RetainedIs ==
  ASSUME IdentInv, NEW p \in Paths
  PROVE  /\ \A b \in Identity!Retained(p) : \E h \in identityIdentities :
              /\ h.book = b /\ ~Identity!HasRow(b)
              /\ h.path = p \/ h.hash = identityDisk[p]
         /\ \A h \in identityIdentities :
              h.path = p /\ ~Identity!HasRow(h.book) => Identity!Retained(p) = {h.book}
         /\ \A h \in identityIdentities :
              /\ h.hash = identityDisk[p] /\ ~Identity!HasRow(h.book)
              /\ \A g \in identityIdentities :
                   g.path # p /\ (g.hash = identityDisk[p] => g.book = h.book)
              => Identity!Retained(p) = {h.book}
  <1> DEFINE free == {h \in identityIdentities : ~Identity!HasRow(h.book)}
             byPath == {h.book : h \in {g \in free : g.path = p}}
             byHash == {h.book : h \in {g \in free : g.hash = identityDisk[p]}}
  <1>1. Identity!Retained(p) = IF byPath # {} THEN byPath
                               ELSE IF \E b \in byHash : byHash = {b} THEN byHash ELSE {}
    BY DEF Identity!Retained
  <1>2. \A b \in byPath \cup byHash : \E h \in identityIdentities :
          h.book = b /\ ~Identity!HasRow(b) /\ (h.path = p \/ h.hash = identityDisk[p])
    OBVIOUS
  <1>3. ASSUME NEW h \in identityIdentities, h.path = p, ~Identity!HasRow(h.book)
        PROVE  byPath = {h.book}
    BY <1>3 DEF IdentInv, OneEach
  <1>4. ASSUME NEW h \in identityIdentities, h.hash = identityDisk[p], ~Identity!HasRow(h.book),
               \A g \in identityIdentities :
                 g.path # p /\ (g.hash = identityDisk[p] => g.book = h.book)
        PROVE  byPath = {} /\ byHash = {h.book}
    BY <1>4
  <1> HIDE DEF byPath, byHash
  <1> QED
    BY <1>1, <1>2, <1>3, <1>4

\* What an upsert of p does.
LEMMA UpsertIs ==
  ASSUME IdentInv, NEW p, Done(p), identityDisk[p] = identityScan.as[p], Identity!Upsert(p),
         NEW from, from = Identity!Existing(p), NEW b, b = BookFor(p, from)
  PROVE  /\ b \in Nat \ {0} /\ identityBooks' \in Nat
         /\ identityBooks <= identityBooks' /\ b <= identityBooks'
         /\ \E r \in FileRow :
              /\ r.hash = identityDisk[p] /\ r.book = b /\ r.seen
              /\ identityRows' = [q \in Paths |-> IF q = p THEN r ELSE IF q = from THEN None
                                                  ELSE identityRows[q]]
         /\ \E r : /\ r.path = p /\ r.hash = identityDisk[p] /\ r.book = b
                   /\ identityIdentities' =
                        {h \in identityIdentities : h.book # b /\ h.path # p} \cup {r}
         /\ identityExpected' = [identityExpected EXCEPT ![p] = IF @ = 0 THEN b ELSE @]
         /\ \A d : \/ d \in identityDisplaced
                   \/ \E h \in identityIdentities : h.book = d /\ h.path = p
                   => d \in identityDisplaced' \/ d = b
         /\ \A q \in Paths \ {p, from} : identityRows[q] # None => identityRows[q].book # b
         /\ \/ from # 0 /\ identityRows[from] # None /\ b = identityRows[from].book
            \/ /\ ~Identity!HasRow(b)
               /\ \A h \in identityIdentities :
                    h.book = b => h.path = p \/ h.hash = identityDisk[p]
  <1>1. /\ p \in Paths /\ p \in identityScan.listed /\ identityDisk[p] \in Contents
    BY DoneIs DEF IdentInv, IdentTyped
  <1>2. /\ from \in Paths \cup {0}
        /\ from # 0 => identityRows[from] # None
        /\ identityRows[p] # None => from = p
        /\ from \notin {0, p} => from \in Identity!RenameCandidates(p)
    BY <1>1, ExistingIs
  <1>3. PICK kept : kept = KeptBook(p, from)
    OBVIOUS
  <1>4. b = IF kept = {} THEN identityBooks + 1 ELSE CHOOSE k \in kept : TRUE
    BY <1>3 DEF BookFor
  <1>5. PICK others, stay, n :
          /\ others = {h \in identityIdentities : h.book # b}
          /\ stay = {h \in others : h.path # p}
          /\ n = Identity!After(stay)
    OBVIOUS
  <1>6. /\ identityBooks' = IF kept = {} THEN b ELSE identityBooks
        /\ identityRows' = [q \in Paths |->
             CASE q = p -> [hash |-> identityDisk[p], book |-> b, error |-> FALSE, seen |-> TRUE]
               [] q = from /\ q # p -> None
               [] OTHER -> identityRows[q]]
        /\ identityIdentities' =
             stay \cup {[path |-> p, hash |-> identityDisk[p], book |-> b, at |-> n]}
        /\ identityDisplaced' = (identityDisplaced \ {b}) \cup {h.book : h \in others \ stay}
        /\ identityExpected' = [identityExpected EXCEPT ![p] = IF @ = 0 THEN b ELSE @]
    BY <1>3, <1>4, <1>5 DEF Identity!Upsert, KeptBook
  <1>7. /\ b \in Nat \ {0} /\ b <= identityBooks'
        /\ identityBooks' \in Nat /\ identityBooks <= identityBooks'
        /\ \A q \in Paths \ {p, from} : identityRows[q] # None => identityRows[q].book # b
        /\ \/ from # 0 /\ identityRows[from] # None /\ b = identityRows[from].book
           \/ /\ ~Identity!HasRow(b)
              /\ \A h \in identityIdentities :
                   h.book = b => h.path = p \/ h.hash = identityDisk[p]
    <2>1. CASE from # 0 /\ identityRows[from].book # 0
      <3>1. kept = {identityRows[from].book} /\ b = identityRows[from].book
        BY <1>3, <1>4, <2>1 DEF KeptBook
      <3>2. from \in Paths /\ identityRows[from] \in FileRow /\ b <= identityBooks
        BY <1>2, <2>1, <3>1 DEF IdentInv, IdentTyped
      <3>3. \A q \in Paths \ {p, from} : identityRows[q] # None => identityRows[q].book # b
        BY <1>2, <2>1, <3>1, <3>2 DEF IdentInv, OneEach
      <3> QED
        BY <1>2, <1>6, <2>1, <3>1, <3>2, <3>3 DEF IdentInv, IdentTyped, FileRow
    <2>2. CASE ~(from # 0 /\ identityRows[from].book # 0) /\ kept # {}
      <3>1. b \in Identity!Retained(p)
        BY <1>3, <1>4, <2>2 DEF KeptBook
      <3>2. PICK h \in identityIdentities :
              h.book = b /\ ~Identity!HasRow(b) /\ (h.path = p \/ h.hash = identityDisk[p])
        BY <1>1, <3>1, RetainedIs
      <3>3. b \in 1..identityBooks /\ \A g \in identityIdentities : g.book = b => g = h
        BY <3>2 DEF IdentInv, IdentTyped, OneEach
      <3> QED
        BY <1>6, <2>2, <3>2, <3>3 DEF IdentInv, IdentTyped, Identity!HasRow
    <2>3. CASE ~(from # 0 /\ identityRows[from].book # 0) /\ kept = {}
      <3>1. b = identityBooks + 1 /\ identityBooks \in Nat
        BY <1>4, <2>3 DEF IdentInv, IdentTyped
      <3>2. /\ \A q \in Paths : identityRows[q] # None => identityRows[q].book # b
            /\ \A h \in identityIdentities : h.book # b
        <4>1. ASSUME NEW q \in Paths, identityRows[q] # None
              PROVE  identityRows[q].book # b
          <5>1. identityRows[q].book \in Nat /\ identityRows[q].book <= identityBooks
            BY <4>1 DEF IdentInv, IdentTyped, FileRow
          <5> QED
            BY <3>1, <5>1
        <4>2. \A h \in identityIdentities : h.book # b
          BY <3>1 DEF IdentInv, IdentTyped
        <4> QED
          BY <4>1, <4>2
      <3> QED
        BY <1>6, <2>3, <3>1, <3>2 DEF Identity!HasRow
    <2> QED
      BY <2>1, <2>2, <2>3
  <1> DEFINE r == [hash |-> identityDisk[p], book |-> b, error |-> FALSE, seen |-> TRUE]
             e == [path |-> p, hash |-> identityDisk[p], book |-> b, at |-> n]
  <1>8. /\ r \in FileRow /\ r.hash = identityDisk[p] /\ r.book = b /\ r.seen
        /\ identityRows' = [q \in Paths |-> IF q = p THEN r ELSE IF q = from THEN None
                                            ELSE identityRows[q]]
    BY <1>1, <1>6, <1>7 DEF FileRow
  <1>9. /\ e.path = p /\ e.hash = identityDisk[p] /\ e.book = b
        /\ identityIdentities' = {h \in identityIdentities : h.book # b /\ h.path # p} \cup {e}
    BY <1>5, <1>6
  <1>10. \A d : \/ d \in identityDisplaced
                \/ \E h \in identityIdentities : h.book = d /\ h.path = p
                => d \in identityDisplaced' \/ d = b
    BY <1>5, <1>6
  <1> QED
    BY <1>6, <1>7, <1>8, <1>9, <1>10

\* The file an upsert is of gets the book expected of it.
LEMMA UpsertTakesItsBook ==
  ASSUME IdentInv, NEW p, Done(p), identityDisk[p] = identityScan.as[p],
         identityExpected[p] # 0,
         NEW from, from = Identity!Existing(p), NEW b, b = BookFor(p, from)
  PROVE  b = identityExpected[p]
  <1>1. p \in Paths /\ p \in identityScan.listed /\ identityScan # None
    BY DoneIs DEF Done
  <1>2. Right(p)
    BY <1>1 DEF IdentInv, ExpectedRight
  <1>3. SUFFICES KeptBook(p, from) = {identityExpected[p]}
    BY <1>3 DEF BookFor
  <1>4. CASE identityRows[p] # None
    BY <1>1, <1>2, <1>4, ExistingIs, FilesAreApart DEF Right, Rowed, KeptBook
  <1>5. CASE identityRows[p] = None /\ Recorded(p)
    <2>1. PICK h \in identityIdentities :
            h.path = p /\ h.hash = identityDisk[p] /\ h.book = identityExpected[p]
      BY <1>5 DEF Recorded, Has
    <2>2. Identity!Retained(p) = {h.book}
      BY <1>1, <1>5, <2>1, RetainedIs DEF Recorded
    <2>3. Identity!RenameCandidates(p) = {}
      BY <1>5 DEF Recorded, Identity!RenameCandidates
    <2>4. from = 0
      BY <1>1, <1>5, <2>3, ExistingIs
    <2> QED
      BY <2>1, <2>2, <2>4 DEF KeptBook
  <1>6. ASSUME identityRows[p] = None, NEW q \in Paths, Moved(p, q)
        PROVE  KeptBook(p, from) = {identityExpected[p]}
    <2>1. PICK h \in identityIdentities :
            h.path = q /\ h.hash = identityDisk[p] /\ h.book = identityExpected[p]
      BY <1>6 DEF Moved, Has
    <2>2. CASE identityRows[q] # None
      <3>1. Identity!RenameCandidates(p) = {q}
        BY <1>1, <1>6, <2>2 DEF Moved, Identity!RenameCandidates
      <3>2. from = q
        BY <1>1, <1>6, <3>1, ExistingIs
      <3> QED
        BY <1>6, <2>2, <3>2, FilesAreApart DEF Moved, KeptBook
    <2>3. CASE identityRows[q] = None
      <3>1. Identity!RenameCandidates(p) = {}
        BY <1>6, <2>3 DEF Moved, Identity!RenameCandidates
      <3>2. from = 0
        BY <1>1, <1>6, <3>1, ExistingIs
      <3>3. Identity!Retained(p) = {h.book}
        BY <1>1, <1>6, <2>1, <2>3, RetainedIs DEF Moved
      <3> QED
        BY <2>1, <3>2, <3>3 DEF KeptBook
    <2> QED
      BY <2>2, <2>3
  <1> QED
    BY <1>2, <1>4, <1>5, <1>6 DEF Right

LEMMA UpsertKeeps ==
  ASSUME IdentInv, NEW p, Done(p), identityDisk[p] = identityScan.as[p], Identity!Upsert(p),
         UNCHANGED <<identityDisk, identityDeliveries>>
  PROVE  IdentInv'
  <1>1. /\ p \in Paths /\ p \in identityScan.todo /\ p \in identityScan.listed
        /\ identityScan.listed # {} /\ identityDisk[p] # None
        /\ identityScan' \in FolderScan
        /\ identityScan'.listed = identityScan.listed /\ identityScan'.as = identityScan.as
        /\ identityScan'.todo = identityScan.todo \ {p}
        /\ identityScan # None
    BY DoneIs DEF Done
  <1>2. PICK from : from = Identity!Existing(p)
    OBVIOUS
  <1>3. PICK b : b = BookFor(p, from)
    OBVIOUS
  <1>4. PICK r \in FileRow, e \in {h \in identityIdentities' : h.path = p} :
          /\ r.hash = identityDisk[p] /\ r.book = b /\ r.seen
          /\ identityRows' = [q \in Paths |-> IF q = p THEN r ELSE IF q = from THEN None
                                              ELSE identityRows[q]]
          /\ e.path = p /\ e.hash = identityDisk[p] /\ e.book = b
          /\ identityIdentities' = {h \in identityIdentities : h.book # b /\ h.path # p} \cup {e}
    <2>1. PICK r \in FileRow :
          /\ r.hash = identityDisk[p] /\ r.book = b /\ r.seen
          /\ identityRows' = [q \in Paths |-> IF q = p THEN r ELSE IF q = from THEN None
                                              ELSE identityRows[q]]
      BY <1>2, <1>3, UpsertIs
    <2>2. PICK e : /\ e.path = p /\ e.hash = identityDisk[p] /\ e.book = b
                   /\ identityIdentities' =
                        {h \in identityIdentities : h.book # b /\ h.path # p} \cup {e}
      BY <1>2, <1>3, UpsertIs
    <2> QED
      BY <2>1, <2>2
  <1>5. /\ b \in Nat \ {0} /\ identityBooks' \in Nat
        /\ identityBooks <= identityBooks' /\ b <= identityBooks'
        /\ identityExpected' = [identityExpected EXCEPT ![p] = IF @ = 0 THEN b ELSE @]
        /\ \A d : \/ d \in identityDisplaced
                  \/ \E h \in identityIdentities : h.book = d /\ h.path = p
                  => d \in identityDisplaced' \/ d = b
        /\ \A q \in Paths \ {p, from} : identityRows[q] # None => identityRows[q].book # b
        /\ \/ from # 0 /\ identityRows[from] # None /\ b = identityRows[from].book
           \/ /\ ~Identity!HasRow(b)
              /\ \A h \in identityIdentities :
                   h.book = b => h.path = p \/ h.hash = identityDisk[p]
    BY <1>2, <1>3, UpsertIs
  <1>6. /\ from \in Paths \cup {0} /\ (identityRows[p] # None => from = p)
        /\ from # 0 => identityRows[from] # None
        /\ from \notin {0, p} => /\ identityRows[from].hash = identityDisk[p]
                                 /\ from \notin identityScan.listed
    BY <1>1, <1>2, ExistingIs DEF Identity!RenameCandidates
  <1>7. /\ identityRows'[p] = r /\ r # None
        /\ \A q \in Paths \ {p, from} : identityRows'[q] = identityRows[q]
        /\ from # p /\ from # 0 => identityRows'[from] = None
    BY <1>1, <1>4, <1>6, FilesAreApart DEF FileRow
  <1>8. \A q \in Paths \ {p} : identityRows'[q] # None =>
          identityRows'[q] = identityRows[q] /\ identityRows[q].book # b /\ q # from
    BY <1>5, <1>6, <1>7, FilesAreApart
  <1>9. IdentTyped'
    <2>1. identityRows' \in [Paths -> FileRow \cup {None}] /\ identityExpected' \in [Paths -> Nat]
      BY <1>1, <1>4, <1>5 DEF IdentInv, IdentTyped
    <2>2. \A h \in identityIdentities' : h.book \in 1..identityBooks'
      BY <1>4, <1>5 DEF IdentInv, IdentTyped
    <2>3. ASSUME NEW q \in Paths
          PROVE  identityExpected'[q] <= identityBooks'
      BY <1>1, <1>5 DEF IdentInv, IdentTyped
    <2>4. ASSUME NEW q \in Paths, identityRows'[q] # None
          PROVE  identityRows'[q].book <= identityBooks'
      <3>1. CASE q = p
        BY <1>4, <1>5, <1>7, <3>1
      <3>2. CASE q # p
        <4>1. identityRows[q] \in FileRow /\ identityRows[q].book <= identityBooks
              /\ identityRows'[q] = identityRows[q]
          BY <1>8, <2>4, <3>2 DEF IdentInv, IdentTyped
        <4> QED
          BY <1>5, <4>1 DEF FileRow, IdentInv, IdentTyped
      <3> QED
        BY <3>1, <3>2
    <2> QED
      BY <1>1, <1>5, <2>1, <2>2, <2>3, <2>4 DEF IdentInv, IdentTyped
  <1>10. OneEach'
    <2>1. \A g, h \in identityIdentities' : g.book = h.book \/ g.path = h.path => g = h
      BY <1>4 DEF IdentInv, OneEach
    <2>2. \A q \in Paths \ {p} :
            identityRows'[q] # None => identityRows'[q].book # identityRows'[p].book
      BY <1>4, <1>7, <1>8
    <2>3. \A q, s \in Paths \ {p} :
            /\ identityRows'[q] # None /\ identityRows'[s] # None
            /\ identityRows'[q].book = identityRows'[s].book
            => q = s \/ identityRows'[q].book = 0
      BY <1>8 DEF IdentInv, OneEach
    <2> QED
      BY <2>1, <2>2, <2>3 DEF OneEach
  <1>11. RowsRecorded' /\ EvidenceRecorded' /\ ScanRight'
    <2>1. RowsRecorded'
      <3>1. ASSUME NEW q \in Paths, q # p, identityRows'[q] # None, identityRows'[q].book # 0
            PROVE  \E h \in identityIdentities' : h.path = q /\ h.book = identityRows'[q].book
        BY <1>4, <1>8, <3>1 DEF IdentInv, RowsRecorded
      <3> QED
        BY <1>4, <1>7, <3>1 DEF RowsRecorded
    <2>2. ASSUME NEW i \in DOMAIN identityDeliveries, NEW d, d = identityDeliveries[i]
          PROVE  (\E h \in identityIdentities' : h.book = d) \/ d \in identityDisplaced'
      <3>1. (\E h \in identityIdentities : h.book = d) \/ d \in identityDisplaced
        BY <2>2 DEF IdentInv, EvidenceRecorded
      <3>2. \/ d = b \/ d \in identityDisplaced'
            \/ \E h \in identityIdentities : h.book = d /\ h.path # p
        BY <1>5, <3>1
      <3> QED
        BY <1>4, <3>2
    <2>3. ScanRight'
      BY <1>1 DEF IdentInv, ScanRight
    <2> QED
      BY <2>1, <2>2, <2>3 DEF EvidenceRecorded
  <1>12. ASSUME identityExpected'[p] # 0
         PROVE  Right(p)'
    <2>1. b = identityExpected'[p]
      BY <1>1, <1>2, <1>3, <1>5, UpsertTakesItsBook DEF IdentInv, IdentTyped
    <2>2. Rowed(p)' /\ InScan(p)'
      BY <1>1, <1>4, <1>7, <2>1 DEF Rowed, Has, InScan
    <2> QED
      BY <1>1, <1>7, <2>2 DEF Right
  <1>13. ASSUME NEW q \in Paths \ {p}, identityExpected'[q] # 0
         PROVE  Right(q)'
    <2>1. identityExpected'[q] = identityExpected[q] /\ Right(q)
      BY <1>1, <1>5, <1>13 DEF IdentInv, IdentTyped, ExpectedRight
    <2>2. q \in identityScan.listed /\ q # from /\ identityRows'[q] = identityRows[q]
      BY <1>1, <1>6, <1>7, <2>1, FilesAreApart DEF Right, InScan
    <2>3. InScan(q)' /\ identityDisk'[q] # None
      BY <1>1, <2>1, <2>2 DEF Right, InScan
    <2>4. \A h \in identityIdentities : h.book # b /\ h.path # p => h \in identityIdentities'
      BY <1>4
    <2>5. identityRows'[q] # None => Rowed(q)'
      BY <1>5, <2>1, <2>2, <2>4 DEF Right, Rowed, Has
    <2>6. identityExpected[q] # b /\ ~Identity!HasRow(identityExpected[q])
            => ~Identity!HasRow(identityExpected[q])'
      BY <1>4, <1>7, <1>8, <2>1 DEF Identity!HasRow
    <2>7. CASE identityRows[q] = None /\ Recorded(q)
      <3>1. PICK h \in identityIdentities :
              h.path = q /\ h.hash = identityDisk[q] /\ h.book = identityExpected[q]
        BY <2>7 DEF Recorded, Has
      <3>2. identityDisk[p] # identityDisk[q]
        BY <1>1, <2>7 DEF Recorded, Alone
      <3>3. b # identityExpected[q]
        BY <1>5, <1>6, <2>7, <3>1, <3>2, FilesAreApart DEF Recorded, Identity!HasRow
      <3>4. Has(q, q)' /\ Alone(q)'
        BY <2>1, <2>4, <2>7, <3>1, <3>3 DEF Has, Recorded, Alone
      <3>5. \A s \in Paths : identityRows'[s] # None => identityRows'[s].hash # identityDisk'[q]
        BY <1>4, <1>7, <1>8, <2>7, <3>2 DEF Recorded
      <3> QED
        BY <2>1, <2>2, <2>3, <2>6, <2>7, <3>3, <3>4, <3>5 DEF Right, Recorded
    <2>8. ASSUME identityRows[q] = None, NEW s \in Paths, Moved(q, s)
          PROVE  Right(q)'
      <3>1. PICK h \in identityIdentities :
              h.path = s /\ h.hash = identityDisk[q] /\ h.book = identityExpected[q]
        BY <2>8 DEF Moved, Has
      <3>2. identityDisk[p] # identityDisk[q] /\ s # p
        BY <1>1, <2>8 DEF Moved, Alone
      <3>3. s # from /\ identityRows'[s] = identityRows[s]
        BY <1>6, <1>7, <2>8, <3>2, FilesAreApart DEF Moved
      <3>4. b # identityExpected[q]
        BY <1>5, <1>6, <2>8, <3>1, <3>2, <3>3, FilesAreApart DEF Moved, Identity!HasRow
      <3>5. Has(q, s)' /\ Alone(q)'
        BY <2>1, <2>4, <2>8, <3>1, <3>2, <3>4 DEF Has, Moved, Alone
      <3>6. \A g \in identityIdentities' :
              g.path # q /\ (g.hash = identityDisk'[q] => g.book = identityExpected'[q])
        BY <1>4, <2>1, <2>8, <3>2 DEF Moved
      <3>7. \A t \in Paths \ {s} :
              identityRows'[t] # None => identityRows'[t].hash # identityDisk'[q]
        BY <1>4, <1>7, <1>8, <2>8, <3>2 DEF Moved
      <3>8. Moved(q, s)'
        BY <1>1, <2>1, <2>6, <2>8, <3>3, <3>4, <3>5, <3>6, <3>7 DEF Moved
      <3> QED
        BY <2>2, <2>3, <2>8, <3>8 DEF Right
    <2> QED
      BY <2>1, <2>2, <2>3, <2>5, <2>7, <2>8 DEF Right
  <1> QED
    BY <1>9, <1>10, <1>11, <1>12, <1>13 DEF IdentInv, ExpectedRight

LEMMA IndexKeepsIdent ==
  ASSUME IdentInv, Identity!IndexFile \/ Identity!IndexAgain
  PROVE  IdentInv'
  <1>1. PICK p : p = Identity!NextPath
    OBVIOUS
  <1>2. /\ identityScan # None /\ identityScan.todo # {} /\ identityDisk[p] = identityScan.as[p]
        /\ identityScan' = [identityScan EXCEPT !.todo = @ \ {p}]
        /\ UNCHANGED <<identityDisk, identityDeliveries>>
    BY <1>1 DEF Identity!IndexFile, Identity!IndexAgain
  <1>3. Done(p)
    <2>1. identityScan' = [identityScan EXCEPT !.todo = @ \ {p}, !.stable = identityScan.stable]
          /\ identityScan.stable \in BOOLEAN
      BY <1>2 DEF IdentInv, IdentTyped, FolderScan
    <2> QED
      BY <1>1, <1>2, <2>1 DEF Done
  <1>4. CASE Identity!Upsert(p)
    BY <1>2, <1>3, <1>4, UpsertKeeps
  <1>5. CASE ~Identity!Upsert(p)
    <2>1. /\ identityRows[p] # None /\ identityRows[p].hash = identityDisk[p]
          /\ identityRows' = [identityRows EXCEPT ![p].seen = TRUE]
          /\ UNCHANGED <<identityIdentities, identityBooks, identityExpected, identityDisplaced>>
      BY <1>1, <1>5 DEF Identity!IndexFile, Identity!IndexAgain
    <2>2. p \in Paths
      BY <1>3, DoneIs
    <2> DEFINE r == [identityRows[p] EXCEPT !.seen = TRUE]
    <2>3. r \in FileRow /\ r.hash = identityDisk[p] /\ r.seen /\ r.book = identityRows[p].book
          /\ identityRows' = [identityRows EXCEPT ![p] = r]
      BY <2>1, <2>2 DEF IdentInv, IdentTyped, FileRow
    <2>4. RowTouched(p)
      BY <1>2, <1>3, <2>1, <2>3 DEF RowTouched
    <2>5. Identity!Settled(p) \/ identityExpected[p] = 0
      BY <2>1, <2>2 DEF IdentInv, ExpectedRight, Right, Rowed, Identity!Settled
    <2>6. identityExpected' = [identityExpected EXCEPT ![p] = IF Identity!Settled(p) THEN @ ELSE 0]
      BY <2>1, <2>2, <2>5 DEF IdentInv, IdentTyped
    <2> QED
      BY <2>4, <2>6, TouchedKeeps
  <1> QED
    BY <1>4, <1>5

-----------------------------------------------------------------------------
(* Retention. *)

LEMMA PrunedIs ==
  ASSUME NEW theRows, NEW theDeliveries, NEW mark
  PROVE  /\ Identity!Pruned(theRows, theDeliveries, mark) \subseteq identityIdentities
         /\ \A h \in identityIdentities : Identity!Protected(h, theRows, theDeliveries, mark)
              => h \in Identity!Pruned(theRows, theDeliveries, mark)
  BY DEF Identity!Pruned, Identity!Newest

\* Rows go or stay, identities no row and no delivery needs go: what is still
\* expected is right.
LEMMA RetentionKeeps ==
  ASSUME IdentInv, NEW Left \in SUBSET Paths,
         identityRows' = [p \in Paths |-> IF p \in Left THEN identityRows[p] ELSE None],
         identityIdentities' \subseteq identityIdentities,
         \A p \in Left, h \in identityIdentities :
           identityRows[p] # None /\ h.book = identityRows[p].book => h \in identityIdentities',
         identityExpected' = Identity!StillExpected(identityRows', identityIdentities'),
         identityScan' = None \/ (identityScan' = identityScan /\ Left = Paths),
         \A p \in Paths \ Left, q \in Left :
           identityExpected[p] # 0 /\ identityRows[p] # None /\ identityRows[q] # None
             => identityRows[q].hash # identityDisk[p],
         UNCHANGED <<identityDisk, identityBooks, identityDisplaced>>,
         identityDeliveries' \in Seq(Nat \ {0}), EvidenceRecorded'
  PROVE  IdentInv'
  <1>1. \A p \in Paths : identityRows'[p] \in {None, identityRows[p]}
                         /\ (identityRows'[p] # None => p \in Left)
    OBVIOUS
  <1>2. ASSUME NEW p \in Paths
        PROVE  /\ identityExpected'[p] \in {0, identityExpected[p]}
               /\ identityExpected'[p] # 0 =>
                    /\ \/ \E q \in Paths : /\ identityRows'[q] # None
                                           /\ identityRows'[q].book = identityExpected[p]
                       \/ \E h \in identityIdentities' : h.book = identityExpected[p]
                    /\ identityRows'[p] # None \/ Alone(p)
    BY <1>2 DEF Identity!StillExpected, Alone
  <1>3. identityExpected' \in [Paths -> Nat]
    BY <1>2 DEF IdentInv, IdentTyped, Identity!StillExpected
  <1>4. IdentTyped'
    <2>1. ASSUME NEW p \in Paths
          PROVE  identityExpected'[p] <= identityBooks
      <3>1. identityExpected[p] <= identityBooks /\ 0 <= identityBooks
        BY DEF IdentInv, IdentTyped
      <3> QED
        BY <1>2, <3>1
    <2>2. identityRows' \in [Paths -> FileRow \cup {None}]
      BY DEF IdentInv, IdentTyped
    <2>3. \A p \in Paths : identityRows'[p] # None => identityRows'[p].book <= identityBooks
      BY <1>1 DEF IdentInv, IdentTyped
    <2> QED
      BY <1>3, <2>1, <2>2, <2>3 DEF IdentInv, IdentTyped
  <1>5. OneEach' /\ RowsRecorded' /\ ScanRight'
    <2>1. OneEach'
      BY <1>1 DEF IdentInv, OneEach
    <2>2. RowsRecorded'
      BY <1>1 DEF IdentInv, RowsRecorded
    <2>3. ScanRight'
      BY <1>1 DEF IdentInv, ScanRight
    <2> QED
      BY <2>1, <2>2, <2>3
  <1>6. ASSUME NEW p \in Paths, identityExpected'[p] # 0
        PROVE  Right(p)'
    <2>1. /\ identityExpected'[p] = identityExpected[p] /\ Right(p)
          /\ identityRows'[p] # None \/ Alone(p)
      BY <1>2, <1>6 DEF IdentInv, ExpectedRight
    <2>2. PICK g \in identityIdentities' : g.book = identityExpected[p]
      <3>1. CASE \E h \in identityIdentities' : h.book = identityExpected[p]
        BY <3>1
      <3>2. ASSUME NEW q \in Paths, identityRows'[q] # None,
                   identityRows'[q].book = identityExpected[p]
            PROVE  \E h \in identityIdentities' : h.book = identityExpected[p]
        BY <1>1, <1>6, <2>1, <3>2 DEF IdentInv, RowsRecorded
      <3> QED
        BY <1>2, <1>6, <3>1, <3>2
    <2>3. \A q : Has(p, q) => Has(p, q)'
      BY <2>1, <2>2 DEF Has, IdentInv, OneEach
    <2>4. identityDisk'[p] # None /\ InScan(p)'
      BY <1>1, <2>1 DEF Right, InScan
    <2>5. Identity!HasRow(identityExpected[p])' => Identity!HasRow(identityExpected[p])
      BY <1>1, <2>1 DEF Identity!HasRow
    <2>6. CASE identityRows'[p] # None
      BY <1>1, <2>1, <2>3, <2>4, <2>6 DEF Right, Rowed
    <2>7. CASE identityRows'[p] = None /\ identityRows[p] # None
      <3>1. p \notin Left /\ Rowed(p) /\ Has(p, p)' /\ Alone(p)'
        BY <2>1, <2>3, <2>7 DEF Right, Rowed, Alone
      <3>2. ~Identity!HasRow(identityExpected[p])'
        BY <1>1, <1>6, <2>1, <2>7, <3>1 DEF Identity!HasRow, IdentInv, OneEach, Rowed
      <3>3. \A q \in Paths : identityRows'[q] # None => identityRows'[q].hash # identityDisk'[p]
        BY <1>1, <1>6, <2>1, <2>7, <3>1
      <3> QED
        BY <2>4, <2>7, <3>1, <3>2, <3>3 DEF Right, Recorded
    <2>8. CASE identityRows[p] = None /\ Recorded(p)
      <3>1. Recorded(p)'
        BY <1>1, <2>1, <2>3, <2>5, <2>8 DEF Recorded, Alone
      <3> QED
        BY <1>1, <2>4, <2>8, <3>1 DEF Right
    <2>9. ASSUME identityRows[p] = None, NEW q \in Paths, Moved(p, q)
          PROVE  Right(p)'
      <3>1. identityRows'[q] = None => ~Identity!HasRow(identityExpected[p])'
        <4>1. CASE identityRows[q] = None
          BY <2>1, <2>5, <2>9, <4>1 DEF Moved
        <4>2. ASSUME identityRows[q] # None, identityRows'[q] = None
              PROVE  ~Identity!HasRow(identityExpected[p])'
          BY <1>1, <1>6, <2>1, <2>9, <4>2 DEF Identity!HasRow, IdentInv, OneEach, Moved
        <4> QED
          BY <4>1, <4>2
      <3>2. Has(p, q)' /\ Alone(p)' /\ identityDisk'[q] = None
        BY <2>1, <2>3, <2>9 DEF Moved, Alone
      <3>3. /\ \A h \in identityIdentities' :
                 h.path # p /\ (h.hash = identityDisk'[p] => h.book = identityExpected'[p])
            /\ \A r \in Paths \ {q} :
                 identityRows'[r] # None => identityRows'[r].hash # identityDisk'[p]
            /\ identityRows'[q] # None => /\ identityRows'[q].book = identityExpected'[p]
                                          /\ identityRows'[q].hash = identityDisk'[p]
            /\ identityScan' # None => /\ q \notin identityScan'.listed
                                       /\ identityRows'[q] # None => ~identityRows'[q].seen
        BY <1>1, <2>1, <2>9 DEF Moved
      <3>4. Moved(p, q)'
        BY <3>1, <3>2, <3>3 DEF Moved
      <3> QED
        BY <1>1, <2>4, <2>9, <3>4 DEF Right
    <2> QED
      BY <2>1, <2>6, <2>7, <2>8, <2>9 DEF Right
  <1> QED
    BY <1>4, <1>5, <1>6 DEF IdentInv, ExpectedRight

LEMMA EndScanKeepsIdent ==
  ASSUME IdentInv, Identity!EndScan
  PROVE  IdentInv'
  <1>1. PICK Left : Left = {p \in Paths : identityRows[p] # None /\ identityRows[p].seen}
    OBVIOUS
  <1>2. PICK left : left = [p \in Paths |-> IF identityRows[p] # None /\ identityRows[p].seen
                                            THEN identityRows[p] ELSE None]
    OBVIOUS
  <1>3. /\ identityScan # None /\ identityScan.todo = {} /\ identityScan' = None
        /\ UNCHANGED <<identityDisk, identityDeliveries, identityBooks, identityDisplaced>>
    BY DEF Identity!EndScan
  <1>4. CASE UNCHANGED <<identityRows, identityIdentities, identityExpected>>
    BY <1>3, <1>4, ScanEndsQuietly
  <1>5. CASE ~UNCHANGED <<identityRows, identityIdentities, identityExpected>>
    <2>1. /\ identityRows' = left
          /\ identityIdentities' = Identity!Pruned(left, identityDeliveries, FALSE)
          /\ identityExpected' = Identity!StillExpected(left, identityIdentities')
      BY <1>2, <1>5 DEF Identity!EndScan
    <2>2. Left \in SUBSET Paths
          /\ identityRows' = [p \in Paths |-> IF p \in Left THEN identityRows[p] ELSE None]
      BY <1>1, <1>2, <2>1
    <2>3. identityIdentities' \subseteq identityIdentities
      BY <2>1, PrunedIs
    <2>4. ASSUME NEW p \in Left, NEW h \in identityIdentities, identityRows[p] # None,
                 h.book = identityRows[p].book
          PROVE  h \in identityIdentities'
      <3>1. left[p] # None /\ left[p].book = h.book /\ p \in Paths
        BY <1>1, <1>2, <2>4
      <3>2. Identity!Protected(h, left, identityDeliveries, FALSE)
        BY <3>1 DEF Identity!Protected
      <3> QED
        BY <2>1, <3>2, PrunedIs
    <2>5. EvidenceRecorded'
      <3>1. ASSUME NEW i \in DOMAIN identityDeliveries, NEW h \in identityIdentities,
                   h.book = identityDeliveries[i]
            PROVE  h \in identityIdentities'
        <4>1. Identity!Protected(h, left, identityDeliveries, FALSE)
          BY <3>1 DEF Identity!Protected
        <4> QED
          BY <2>1, <4>1, PrunedIs
      <3> QED
        BY <1>3, <3>1 DEF IdentInv, EvidenceRecorded
    <2>6. ASSUME NEW p \in Paths \ Left, NEW q \in Left, identityExpected[p] # 0,
                 identityRows[p] # None, identityRows[q] # None
          PROVE  FALSE
      <3>1. InScan(p) /\ ~identityRows[p].seen /\ identityRows[q].seen /\ q \in Paths
        BY <1>1, <2>6 DEF IdentInv, ExpectedRight, Right
      <3>2. identityScan.listed = {}
        BY <1>3, <3>1 DEF InScan
      <3> QED
        BY <1>3, <2>6, <3>1, <3>2 DEF IdentInv, ScanRight
    <2>7. identityExpected' = Identity!StillExpected(identityRows', identityIdentities')
      BY <2>1
    <2>8. identityDeliveries' \in Seq(Nat \ {0})
      BY <1>3 DEF IdentInv, IdentTyped
    <2> QED
      BY <1>3, <2>2, <2>3, <2>4, <2>5, <2>6, <2>7, <2>8, RetentionKeeps
  <1> QED
    BY <1>4, <1>5

LEMMA ClearKeepsIdent ==
  ASSUME IdentInv, Identity!Clear
  PROVE  IdentInv'
  <1>1. /\ identityRows' = [p \in Paths |-> IF p \in {} THEN identityRows[p] ELSE None]
        /\ identityScan' = None
        /\ identityExpected' = Identity!StillExpected(identityRows', identityIdentities)
        /\ UNCHANGED <<identityDisk, identityIdentities, identityDeliveries, identityBooks,
                       identityDisplaced>>
    BY DEF Identity!Clear
  <1>2. EvidenceRecorded' /\ identityDeliveries' \in Seq(Nat \ {0})
    BY <1>1 DEF IdentInv, IdentTyped, EvidenceRecorded
  <1>3. identityExpected' = Identity!StillExpected(identityRows', identityIdentities')
    BY <1>1
  <1>4. PICK Left \in SUBSET Paths : Left = {}
    OBVIOUS
  <1>5. identityRows' = [p \in Paths |-> IF p \in Left THEN identityRows[p] ELSE None]
    BY <1>1, <1>4
  <1> QED
    BY <1>1, <1>2, <1>3, <1>4, <1>5, RetentionKeeps

LEMMA DeliverKeepsIdent ==
  ASSUME IdentInv, NEW b \in Nat \ {0}, Identity!Deliver(b)
  PROVE  IdentInv'
  <1>1. PICK all : all = Append(identityDeliveries, b)
    OBVIOUS
  <1>2. /\ Identity!HasRow(b)
        /\ \/ /\ identityDeliveries' = all /\ UNCHANGED identityIdentities
           \/ /\ identityDeliveries' = Tail(all)
              /\ identityIdentities' = Identity!Pruned(identityRows, Tail(all), identityRebuilding)
              /\ all # <<>>
        /\ identityExpected' = Identity!StillExpected(identityRows, identityIdentities')
        /\ UNCHANGED <<identityDisk, identityRows, identityScan, identityBooks, identityDisplaced>>
    <2>1. all # <<>>
      BY <1>1 DEF IdentInv, IdentTyped
    <2> QED
      BY <1>1, <2>1 DEF Identity!Deliver
  <1>3. /\ identityDeliveries' \in Seq(Nat \ {0})
        /\ \A i \in DOMAIN identityDeliveries' :
             \/ identityDeliveries'[i] = b
             \/ \E j \in DOMAIN identityDeliveries : identityDeliveries'[i] = identityDeliveries[j]
    <2>1. /\ identityDeliveries \in Seq(Nat \ {0}) /\ all \in Seq(Nat \ {0})
          /\ \A i \in DOMAIN all :
               all[i] = b \/ \E j \in DOMAIN identityDeliveries : all[i] = identityDeliveries[j]
      BY <1>1 DEF IdentInv, IdentTyped
    <2>2. all # <<>> => /\ Tail(all) \in Seq(Nat \ {0})
                        /\ \A i \in DOMAIN Tail(all) :
                             i + 1 \in DOMAIN all /\ Tail(all)[i] = all[i + 1]
      BY <2>1
    <2> QED
      BY <1>2, <2>1, <2>2
  <1>4. identityRows' = [p \in Paths |-> IF p \in Paths THEN identityRows[p] ELSE None]
    BY <1>2 DEF IdentInv, IdentTyped
  <1>5. identityIdentities' \subseteq identityIdentities
    BY <1>2, PrunedIs
  <1>6. ASSUME NEW p \in Paths, NEW h \in identityIdentities, identityRows[p] # None,
               h.book = identityRows[p].book
        PROVE  h \in identityIdentities'
    <2>1. Identity!Protected(h, identityRows, Tail(all), identityRebuilding)
      BY <1>6 DEF Identity!Protected
    <2> QED
      BY <1>2, <2>1, PrunedIs
  <1>7. ASSUME NEW i \in DOMAIN identityDeliveries', NEW h \in identityIdentities,
               h.book = identityDeliveries'[i]
        PROVE  h \in identityIdentities'
    <2>1. CASE UNCHANGED identityIdentities
      BY <1>7, <2>1
    <2>2. CASE ~UNCHANGED identityIdentities
      <3>1. Identity!Protected(h, identityRows, Tail(all), identityRebuilding)
        BY <1>2, <1>7, <2>2 DEF Identity!Protected
      <3> QED
        BY <1>2, <2>2, <3>1, PrunedIs
    <2> QED
      BY <2>1, <2>2
  <1>8. EvidenceRecorded'
    <2>1. \E h \in identityIdentities : h.book = b
      BY <1>2 DEF IdentInv, RowsRecorded, Identity!HasRow
    <2>2. \A i \in DOMAIN identityDeliveries' :
            \/ \E h \in identityIdentities : h.book = identityDeliveries'[i]
            \/ identityDeliveries'[i] \in identityDisplaced
      BY <1>3, <2>1 DEF IdentInv, EvidenceRecorded
    <2> QED
      BY <1>2, <1>7, <2>2 DEF EvidenceRecorded
  <1>9. identityExpected' = Identity!StillExpected(identityRows', identityIdentities')
    BY <1>2
  <1> QED
    BY <1>2, <1>3, <1>4, <1>5, <1>6, <1>8, <1>9, RetentionKeeps

LEMMA IdentStep ==
  ASSUME IdentInv, Identity!Next
  PROVE  IdentInv'
  <1>1. ASSUME NEW x \in Paths, NEW y \in Paths, NEW c \in Contents,
               Identity!Add(x, c) \/ Identity!Remove(x) \/ Identity!Move(x, y)
        PROVE  IdentInv'
    BY <1>1, AddKeepsIdent, RemoveKeepsIdent, MoveKeepsIdent
  <1>2. CASE Identity!StartScan \/ Identity!IndexFile \/ Identity!IndexAgain
             \/ Identity!FileUnstable \/ Identity!FileFails \/ Identity!EndScan
    BY <1>2, StartScanKeepsIdent, IndexKeepsIdent, FileUnstableKeepsIdent, FileFailsKeepsIdent,
       EndScanKeepsIdent
  <1>3. CASE Identity!ScanFails
    BY <1>3, ScanEndsQuietly DEF Identity!ScanFails
  <1>4. CASE Identity!Clear
    BY <1>4, ClearKeepsIdent
  <1>5. ASSUME NEW b \in 1..MaxBooks, Identity!Deliver(b)
        PROVE  IdentInv'
    BY <1>5, DeliverKeepsIdent
  <1> QED
    BY <1>1, <1>2, <1>3, <1>4, <1>5, RemoveKeepsIdent, MoveKeepsIdent DEF Identity!Next

LEMMA BooksAreRight ==
  ASSUME IdentInv
  PROVE  BooksKeepTheirIdentity
  <1>1. Identity!FilesKeepTheirBooks
    BY DEF Identity!FilesKeepTheirBooks, IdentInv, ExpectedRight, Right, Rowed
  <1>2. Identity!EvidenceKeepsItsBook
    BY DEF Identity!EvidenceKeepsItsBook, Identity!IdentitiesOf, IdentInv, EvidenceRecorded
  <1> QED
    BY <1>1, <1>2 DEF BooksKeepTheirIdentity

-----------------------------------------------------------------------------
(***************************************************************************)
(* Edits of metadata.                                                      *)
(***************************************************************************)

SeenFields == {"content", "rev", "of", "over", "cover"}
CallFields == {"by", "kind", "live", "base", "clear", "set", "cover", "draft", "reviewed"}

\* What a browser was told about the book is of an earlier revision, or what the
\* row says now.
Seen(s) ==
  /\ DOMAIN s = SeenFields /\ s.rev \in Nat /\ s.rev <= metaRow.rev
  /\ DOMAIN s.over = Meta!Fields
  /\ s.rev = metaRow.rev => s.over = metaRow.over /\ s.cover = metaRow.cover /\ s.of = metaRow.of

MetaTyped ==
  /\ DOMAIN metaRow = {"rev", "of", "over", "cover"} /\ metaRow.rev \in Nat
  /\ DOMAIN metaRow.over = Meta!Fields
  /\ DOMAIN metaEditor = Editors
  /\ \A w \in Editors : DOMAIN metaEditor[w] = {"mode", "data", "busy"}
  /\ DOMAIN metaBulk = {"chosen", "fresh", "busy"}

PagesSaw ==
  /\ \A w \in Editors : metaEditor[w].mode = "ready" => Seen(metaEditor[w].data)
  /\ metaBulk.chosen # None => Seen(metaBulk.chosen)
  /\ metaBulk.fresh # None => metaBulk.chosen # None /\ Seen(metaBulk.fresh)

\* The rest of a draft takes nothing out, or only what the reset before it did.
Resets(c) == \A f \in Meta!Fields : c.draft[f] = None => f \in c.clear \/ c.base.over[f] = None
CallRight(c) ==
  /\ DOMAIN c = CallFields /\ Seen(c.base)
  /\ c.kind \in {"reset", "patch"} => c.draft = [f \in Meta!Fields |-> c.draft[f]] /\ Resets(c)
  /\ c.kind = "reset" => c.set = Meta!NoOverlay
  /\ c.kind = "patch" => c.clear = {} /\ c.set = c.draft
  /\ c.kind = "bulk" =>
       /\ c.base.content = c.reviewed.content
       /\ Meta!Effective(c.base, "series") = Meta!Effective(c.reviewed, "series")

MetaInv == MetaTyped /\ PagesSaw /\ \A c \in metaCalls : CallRight(c)

\* What was right before a change of the row is right after it.
Kept == metaRow' = metaRow \/ (DOMAIN metaRow'.over = Meta!Fields /\ metaRow'.rev = metaRow.rev + 1)

LEMMA SeenStays ==
  ASSUME MetaTyped, Kept, NEW s, Seen(s)
  PROVE  Seen(s)'
  BY DEF MetaTyped, Kept, Seen

LEMMA CallStays ==
  ASSUME MetaTyped, Kept, NEW c, CallRight(c)
  PROVE  CallRight(c)'
  <1>1. Seen(c.base)'
    BY SeenStays DEF CallRight
  <1> QED
    BY <1>1 DEF CallRight, Resets, Meta!Effective, Meta!NoOverlay

\* What the server tells of the book is what the row says.
LEMMA StateIsSeen ==
  ASSUME MetaTyped
  PROVE  Seen(Meta!State)
  BY DEF MetaTyped, Seen, Meta!State, SeenFields

\* A step of a page that leaves the row alone and asks for nothing.
LEMMA PageKeeps ==
  ASSUME MetaInv, UNCHANGED metaRow, metaCalls' \subseteq metaCalls,
         MetaTyped', PagesSaw'
  PROVE  MetaInv'
  <1>1. \A c \in metaCalls' : CallRight(c)'
    BY CallStays DEF MetaInv, Kept
  <1> QED
    BY <1>1 DEF MetaInv

LEMMA OpenKeepsMeta ==
  ASSUME MetaInv, NEW w \in Editors, Meta!Open(w)
  PROVE  MetaInv'
  <1>1. metaRow' = metaRow /\ metaBulk' = metaBulk
    BY DEF Meta!Open
  <1>2. MetaTyped' /\ PagesSaw'
    BY <1>1 DEF MetaInv, MetaTyped, PagesSaw, Seen, Meta!Open, Meta!ClosedEditor
  <1>3. ASSUME NEW c \in metaCalls'
        PROVE  CallRight(c)'
    <2>1. PICK d \in metaCalls : c = d \/ c = [d EXCEPT !.live = FALSE]
      BY DEF Meta!Open
    <2>2. CallRight(d)
      BY DEF MetaInv
    <2>3. CallRight(c)
      BY <2>1, <2>2 DEF CallRight, CallFields, Resets
    <2> QED
      BY <1>1, <2>3, CallStays DEF MetaInv, Kept
  <1> QED
    BY <1>2, <1>3 DEF MetaInv

LEMMA LoadedKeeps ==
  ASSUME MetaInv, NEW w \in Editors, Meta!Loaded(w)
  PROVE  MetaInv'
  <1>1. PICK s : s = Meta!State /\ Seen(s)
    BY StateIsSeen DEF MetaInv
  <1>2. metaEditor' = [metaEditor EXCEPT ![w] = [mode |-> "ready", data |-> s, busy |-> FALSE]]
    BY <1>1 DEF Meta!Loaded
  <1>3. UNCHANGED <<metaRow, metaBulk, metaCalls>>
    BY DEF Meta!Loaded
  <1>4. MetaTyped' /\ PagesSaw'
    BY <1>1, <1>2, <1>3 DEF MetaInv, MetaTyped, PagesSaw, Seen
  <1> QED
    BY <1>3, <1>4, PageKeeps

LEMMA QuietPageKeeps ==
  ASSUME MetaInv, \/ \E w \in Editors : Meta!Close(w)
                  \/ Meta!Choose \/ Meta!Fetch
  PROVE  MetaInv'
  <1>1. UNCHANGED <<metaRow, metaCalls>>
    BY DEF Meta!Close, Meta!Choose, Meta!Fetch
  <1>2. CASE \E w \in Editors : Meta!Close(w)
    BY <1>1, <1>2, PageKeeps DEF MetaInv, MetaTyped, PagesSaw, Seen, Meta!Close, Meta!ClosedEditor
  <1>3. PICK s : s = Meta!State /\ Seen(s)
    BY StateIsSeen DEF MetaInv
  <1>4. CASE Meta!Choose
    <2>1. metaEditor' = metaEditor /\ metaBulk' = [chosen |-> s, fresh |-> None, busy |-> FALSE]
      BY <1>3, <1>4 DEF Meta!Choose, Meta!NoBulk
    <2>2. MetaTyped' /\ PagesSaw'
      BY <1>1, <1>3, <2>1 DEF MetaInv, MetaTyped, PagesSaw, Seen
    <2> QED
      BY <1>1, <2>2, PageKeeps
  <1>5. CASE Meta!Fetch
    <2>1. /\ metaEditor' = metaEditor /\ metaBulk.chosen # None
          /\ metaBulk' = [metaBulk EXCEPT !.fresh = s, !.busy = TRUE]
      BY <1>3, <1>5 DEF Meta!Fetch
    <2>2. MetaTyped' /\ PagesSaw'
      BY <1>1, <1>3, <2>1 DEF MetaInv, MetaTyped, PagesSaw, Seen
    <2> QED
      BY <1>1, <2>2, PageKeeps
  <1> QED
    BY <1>2, <1>4, <1>5

\* A call of a page is right when it is made.
LEMMA AskKeeps ==
  ASSUME MetaInv, UNCHANGED metaRow, NEW c, CallRight(c), metaCalls' = metaCalls \cup {c},
         MetaTyped', PagesSaw'
  PROVE  MetaInv'
  <1>1. \A d \in metaCalls' : CallRight(d)'
    BY CallStays DEF MetaInv, Kept
  <1> QED
    BY <1>1 DEF MetaInv

LEMMA SaveKeeps ==
  ASSUME MetaInv, NEW w \in Editors, Meta!Save(w)
  PROVE  MetaInv'
  <1>1. PICK data : data = metaEditor[w].data
    OBVIOUS
  <1>11. PICK f \in Meta!Fields, v \in {"new", None} :
          LET d == metaEditor[w].data
              draft == [d.over EXCEPT ![f] = v]
              removed == Meta!Removed(d, draft) IN
          /\ Meta!Idle(w)
          /\ removed # {} \/ draft # Meta!NoOverlay \/ d.of # d.content
          /\ Meta!Busy(w)
          /\ IF removed # {}
             THEN Meta!Ask(w, "reset", d, removed, Meta!NoOverlay, "keep", draft, None)
             ELSE Meta!Ask(w, "patch", d, {}, draft, "keep", draft, None)
          /\ UNCHANGED <<metaContent, metaRow, metaBulk, metaFaults>>
    BY ZenonT(60) DEF Meta!Save
  <1>12. PICK draft, removed : draft = [data.over EXCEPT ![f] = v] /\ removed = Meta!Removed(data, draft)
    OBVIOUS
  <1>2. /\ Meta!Idle(w) /\ Meta!Busy(w)
        /\ removed # {} => Meta!Ask(w, "reset", data, removed, Meta!NoOverlay, "keep", draft, None)
        /\ removed = {} => Meta!Ask(w, "patch", data, {}, draft, "keep", draft, None)
        /\ UNCHANGED <<metaContent, metaRow, metaBulk, metaFaults>>
    BY <1>1, <1>11, <1>12
  <1>3. Seen(data)
    BY <1>1, <1>2 DEF MetaInv, PagesSaw, Meta!Idle
  <1>4. MetaTyped' /\ PagesSaw'
    BY <1>1, <1>2, <1>3 DEF MetaInv, MetaTyped, PagesSaw, Seen, Meta!Busy
  <1>5. draft = [g \in Meta!Fields |-> draft[g]] /\ \A g \in Meta!Fields : draft[g] = None =>
        g \in removed \/ data.over[g] = None
    BY <1>3, <1>12 DEF Seen, Meta!Removed
  <1>6. CASE removed # {}
    <2> DEFINE c == [by |-> w, kind |-> "reset", live |-> TRUE, base |-> data, clear |-> removed,
                     set |-> Meta!NoOverlay, cover |-> "keep", draft |-> draft, reviewed |-> None]
    <2>1. metaCalls' = metaCalls \cup {c}
      BY <1>2, <1>6 DEF Meta!Ask
    <2>2. CallRight(c)
      BY <1>3, <1>5 DEF CallRight, CallFields, Resets
    <2> QED
      BY <1>2, <1>4, <2>1, <2>2, AskKeeps
  <1>7. CASE removed = {}
    <2> DEFINE c == [by |-> w, kind |-> "patch", live |-> TRUE, base |-> data, clear |-> {},
                     set |-> draft, cover |-> "keep", draft |-> draft, reviewed |-> None]
    <2>1. metaCalls' = metaCalls \cup {c}
      BY <1>2, <1>7 DEF Meta!Ask
    <2>2. CallRight(c)
      BY <1>3, <1>5, <1>7 DEF CallRight, CallFields, Resets
    <2> QED
      BY <1>2, <1>4, <2>1, <2>2, AskKeeps
  <1> QED
    BY <1>6, <1>7

LEMMA ImportKeeps ==
  ASSUME MetaInv, NEW w \in Editors, Meta!Import(w) \/ Meta!Cover(w)
  PROVE  MetaInv'
  <1>1. PICK data : data = metaEditor[w].data
    OBVIOUS
  <1>2. PICK kind, set, cover :
          /\ kind \in {"import", "cover"}
          /\ Meta!Idle(w) /\ Meta!Busy(w)
          /\ Meta!Ask(w, kind, data, {}, set, cover, None, None)
          /\ UNCHANGED <<metaContent, metaRow, metaBulk, metaFaults>>
    <2>1. CASE Meta!Import(w)
      <3>1. PICK f \in Meta!Fields :
              /\ Meta!Idle(w) /\ Meta!Busy(w)
              /\ Meta!Ask(w, "import", metaEditor[w].data, {},
                          [Meta!NoOverlay EXCEPT ![f] = "new"], "keep", None, None)
              /\ UNCHANGED <<metaContent, metaRow, metaBulk, metaFaults>>
        BY <2>1, ZenonT(60) DEF Meta!Import
      <3> QED
        BY <1>1, <3>1
    <2>2. CASE Meta!Cover(w)
      <3>1. PICK cover \in {"new", None} :
              /\ Meta!Idle(w) /\ Meta!Busy(w)
              /\ Meta!Ask(w, "cover", metaEditor[w].data, {}, Meta!NoOverlay, cover, None, None)
              /\ UNCHANGED <<metaContent, metaRow, metaBulk, metaFaults>>
        BY <2>2, ZenonT(60) DEF Meta!Cover
      <3> QED
        BY <1>1, <3>1
    <2> QED
      BY <2>1, <2>2
  <1>3. Seen(data)
    BY <1>1, <1>2 DEF MetaInv, PagesSaw, Meta!Idle
  <1>4. MetaTyped' /\ PagesSaw'
    BY <1>1, <1>2, <1>3 DEF MetaInv, MetaTyped, PagesSaw, Seen, Meta!Busy
  <1> DEFINE c == [by |-> w, kind |-> kind, live |-> TRUE, base |-> data, clear |-> {},
                   set |-> set, cover |-> cover, draft |-> None, reviewed |-> None]
  <1>5. metaCalls' = metaCalls \cup {c}
    BY <1>2 DEF Meta!Ask
  <1>6. CallRight(c)
    BY <1>2, <1>3 DEF CallRight, CallFields
  <1> QED
    BY <1>2, <1>4, <1>5, <1>6, AskKeeps

LEMMA ApplyKeeps ==
  ASSUME MetaInv, Meta!Apply
  PROVE  MetaInv'
  <1>1. UNCHANGED <<metaRow, metaEditor>> /\ metaBulk.fresh # None
    BY DEF Meta!Apply
  <1>2. metaBulk'.chosen = metaBulk.chosen /\ metaBulk'.fresh = None
        /\ DOMAIN metaBulk' = DOMAIN metaBulk
    BY DEF Meta!Apply, MetaInv, MetaTyped
  <1>3. MetaTyped' /\ PagesSaw'
    BY <1>1, <1>2 DEF MetaInv, MetaTyped, PagesSaw, Seen
  <1>4. CASE UNCHANGED metaCalls
    BY <1>1, <1>3, <1>4, PageKeeps
  <1>5. CASE ~UNCHANGED metaCalls
    <2> DEFINE set == [Meta!NoOverlay EXCEPT !["series"] = "new"]
               c == [by |-> Reviewer, kind |-> "bulk", live |-> TRUE, base |-> metaBulk.fresh,
                     clear |-> {}, set |-> set, cover |-> "keep", draft |-> None,
                     reviewed |-> metaBulk.chosen]
    <2>1. Meta!SameBook(metaBulk.chosen, metaBulk.fresh) /\ metaCalls' = metaCalls \cup {c}
      BY <1>5 DEF Meta!Apply, Meta!Ask
    <2>2. Seen(metaBulk.fresh)
      BY <1>1 DEF MetaInv, PagesSaw
    <2>3. CallRight(c)
      BY <2>1, <2>2 DEF CallRight, CallFields, Meta!SameBook
    <2> QED
      BY <1>1, <1>3, <2>1, <2>3, AskKeeps
  <1> QED
    BY <1>4, <1>5

\* The server handles a call: the row is as it was, or the next one.
LEMMA HandleIs ==
  ASSUME MetaInv, NEW c \in metaCalls, Meta!Handle(c)
  PROVE  /\ MetaTyped' /\ Kept
         /\ \/ metaRow' = metaRow
            \/ Meta!Current(c) /\ metaRow'.over = Meta!Merged(c) /\ metaRow'.of = metaContent
  <1>1. metaRow' = metaRow \/ (Meta!Current(c) /\ metaRow' = Meta!Written(c))
    BY DEF Meta!Handle
  <1>2. Kept /\ DOMAIN metaRow' = {"rev", "of", "over", "cover"} /\ metaRow'.rev \in Nat
        /\ DOMAIN metaRow'.over = Meta!Fields
    BY <1>1 DEF Kept, MetaInv, MetaTyped, Meta!Written, Meta!Merged
  <1>3. metaBulk' \in {metaBulk, Meta!NoBulk, [metaBulk EXCEPT !.busy = FALSE]}
    BY DEF Meta!Handle, Meta!Answered
  <1>4. DOMAIN metaEditor' = Editors /\ \A w \in Editors : DOMAIN metaEditor'[w] = {"mode", "data",
        "busy"}
    BY DEF MetaInv, MetaTyped, Meta!Handle, Meta!Answered
  <1>5. DOMAIN metaBulk' = {"chosen", "fresh", "busy"}
    BY <1>3 DEF MetaInv, MetaTyped, Meta!NoBulk
  <1> QED
    BY <1>1, <1>2, <1>4, <1>5 DEF MetaTyped, Meta!Written

LEMMA HandleKeeps ==
  ASSUME MetaInv, NEW c \in metaCalls, Meta!Handle(c)
  PROVE  MetaInv'
  <1>1. MetaTyped' /\ Kept
    BY HandleIs
  <1>2. PICK s : /\ s = [content |-> metaContent, rev |-> metaRow'.rev, of |-> metaRow'.of,
                         over |-> metaRow'.over, cover |-> metaRow'.cover]
                 /\ Seen(s)'
    <2>1. PICK s : s = [content |-> metaContent, rev |-> metaRow'.rev, of |-> metaRow'.of,
                        over |-> metaRow'.over, cover |-> metaRow'.cover]
      OBVIOUS
    <2>2. Seen(s)'
      BY <1>1, <2>1 DEF MetaTyped, Seen, SeenFields
    <2> QED
      BY <2>1, <2>2
  <1>3. PICK chosen, fresh : /\ chosen = metaBulk.chosen /\ fresh = metaBulk.fresh
    OBVIOUS
  <1>4. /\ chosen # None => Seen(chosen)'
        /\ fresh # None => chosen # None /\ Seen(fresh)'
    BY <1>1, <1>3, SeenStays DEF MetaInv, PagesSaw
  <1>5. PICK ok : ok = (Meta!Current(c) /\ metaRow.rev < MaxRevision)
    OBVIOUS
  <1>6. \/ UNCHANGED metaEditor
        \/ metaEditor' = [metaEditor EXCEPT ![c.by] = [mode |-> "ready", data |-> s, busy |-> FALSE]]
        \/ metaEditor' = [metaEditor EXCEPT ![c.by] = [@ EXCEPT !.busy = FALSE]]
    BY <1>2 DEF Meta!Handle, Meta!Answered
  <1>7. \/ UNCHANGED metaBulk \/ metaBulk' = Meta!NoBulk \/ metaBulk' = [metaBulk EXCEPT !.busy = FALSE]
    BY DEF Meta!Handle, Meta!Answered
  <1>8. ASSUME NEW w \in Editors, metaEditor'[w].mode = "ready"
        PROVE  Seen(metaEditor[w].data)'
    <2>1. PICK data, now : data = metaEditor[w].data /\ now = metaEditor'[w].data
      OBVIOUS
    <2>2. metaEditor[w].mode = "ready" => Seen(data)'
      BY <1>1, <2>1, SeenStays DEF MetaInv, PagesSaw
    <2>3. now = s \/ (now = data /\ metaEditor[w].mode = "ready")
      BY <1>6, <1>8, <2>1 DEF MetaInv, MetaTyped
    <2>4. Seen(now)'
      BY <1>2, <2>2, <2>3
    <2> QED
      BY <2>1, <2>4
  <1>9. /\ metaBulk'.chosen # None => Seen(metaBulk.chosen)'
        /\ metaBulk'.fresh # None => metaBulk'.chosen # None /\ Seen(metaBulk.fresh)'
    BY <1>3, <1>4, <1>7 DEF MetaInv, MetaTyped, Meta!NoBulk
  <1>10. PagesSaw'
    BY <1>8, <1>9 DEF PagesSaw
  <1>11. ASSUME NEW d \in metaCalls, NEW e,
                e = [d EXCEPT !.kind = "patch", !.base = s, !.clear = {}, !.set = d.draft],
                d = c, Meta!Current(c) /\ metaRow.rev < MaxRevision, Meta!Follows(c)
         PROVE  CallRight(e)'
    <2>1. CallRight(d) /\ d.kind = "reset"
      BY <1>11 DEF MetaInv, Meta!Follows
    <2>2. metaRow'.over = Meta!Merged(c)
      BY <1>11 DEF Meta!Handle, Meta!Written
    <2>3. d.base.over = metaRow.over
      BY <1>11, <2>1 DEF CallRight, Seen, Meta!Current
    <2>4. \A f \in Meta!Fields : d.draft[f] = None => s.over[f] = None
      BY <1>2, <1>11, <2>1, <2>2, <2>3 DEF CallRight, Resets, Meta!Merged, Meta!NoOverlay
    <2>5. /\ DOMAIN e = CallFields /\ e.base = s /\ e.kind = "patch" /\ e.clear = {}
          /\ e.set = d.draft /\ e.draft = d.draft
      BY <1>11, <2>1 DEF CallRight, CallFields
    <2>6. e.draft = [f \in Meta!Fields |-> e.draft[f]] /\ Resets(e)
      BY <2>1, <2>4, <2>5 DEF CallRight, Resets
    <2> QED
      BY <1>2, <2>5, <2>6 DEF CallRight, Resets
  <1>12. ASSUME NEW e \in metaCalls'
         PROVE  CallRight(e)'
    <2>1. CASE e \in metaCalls
      BY <1>1, <2>1, CallStays DEF MetaInv
    <2>2. CASE e \notin metaCalls
      <3>1. /\ Meta!Current(c) /\ metaRow.rev < MaxRevision /\ Meta!Follows(c)
            /\ e = [c EXCEPT !.kind = "patch", !.base = s, !.clear = {}, !.set = c.draft]
        BY <1>2, <1>12, <2>2 DEF Meta!Handle
      <3> QED
        BY <1>11, <3>1
    <2> QED
      BY <2>1, <2>2
  <1> QED
    BY <1>1, <1>10, <1>12 DEF MetaInv

LEMMA GiveUpKeeps ==
  ASSUME MetaInv, NEW c \in metaCalls, Meta!GiveUp(c)
  PROVE  MetaInv'
  <1>1. metaRow' = metaRow
    BY DEF Meta!GiveUp
  <1>2. \/ UNCHANGED metaBulk /\ metaEditor' = [metaEditor EXCEPT ![c.by].busy = FALSE]
        \/ UNCHANGED metaEditor /\ metaBulk' = [metaBulk EXCEPT !.busy = FALSE]
    BY DEF Meta!GiveUp
  <1>3. MetaTyped' /\ PagesSaw'
    BY <1>1, <1>2 DEF MetaInv, MetaTyped, PagesSaw, Seen
  <1>4. ASSUME NEW e \in metaCalls'
        PROVE  CallRight(e)'
    <2>1. PICK d \in metaCalls : e = d \/ e = [d EXCEPT !.live = FALSE]
      BY <1>4 DEF Meta!GiveUp
    <2>2. CallRight(d)
      BY DEF MetaInv
    <2>3. /\ DOMAIN e = CallFields /\ e.base = d.base /\ e.kind = d.kind /\ e.clear = d.clear
          /\ e.set = d.set /\ e.draft = d.draft /\ e.reviewed = d.reviewed
      BY <2>1, <2>2 DEF CallRight, CallFields
    <2>4. CallRight(e)
      BY <2>2, <2>3 DEF CallRight, Resets
    <2> QED
      BY <1>1, <2>4, CallStays DEF MetaInv, Kept
  <1> QED
    BY <1>3, <1>4 DEF MetaInv

LEMMA MetaStutter ==
  ASSUME MetaInv, UNCHANGED <<metaRow, metaEditor, metaBulk, metaCalls>>
  PROVE  MetaInv'
  <1>1. MetaTyped' /\ PagesSaw'
    BY DEF MetaInv, MetaTyped, PagesSaw, Seen
  <1> QED
    BY <1>1, PageKeeps

LEMMA MetaStart ==
  ASSUME Meta!Init
  PROVE  MetaInv
  BY DEF Meta!Init, MetaInv, MetaTyped, PagesSaw, Meta!NoBulk, Meta!ClosedEditor

LEMMA MetaStep ==
  ASSUME MetaInv, Meta!Next
  PROVE  MetaInv'
  <1>1. ASSUME NEW w \in Editors, Meta!Open(w) \/ Meta!Loaded(w) \/ Meta!Close(w) \/ Meta!Save(w)
                                 \/ Meta!Import(w) \/ Meta!Cover(w)
        PROVE  MetaInv'
    BY <1>1, OpenKeepsMeta, LoadedKeeps, QuietPageKeeps, SaveKeeps, ImportKeeps
  <1>2. CASE Meta!Choose \/ Meta!Fetch \/ Meta!Apply
    BY <1>2, QuietPageKeeps, ApplyKeeps
  <1>3. ASSUME NEW c \in metaCalls, Meta!Handle(c) \/ Meta!GiveUp(c)
        PROVE  MetaInv'
    BY <1>3, HandleKeeps, GiveUpKeeps
  <1>4. CASE Meta!NewContent
    BY <1>4, MetaStutter DEF Meta!NewContent
  <1> QED
    BY <1>1, <1>2, <1>3, <1>4 DEF Meta!Next

\* A change of the row is that of the call that leaves, on what its author saw.
LEMMA AcceptedIs ==
  ASSUME MetaInv, Meta!Next, NEW c \in metaCalls, Meta!Accepted(c)
  PROVE  /\ metaRow'.over = Meta!Merged(c) /\ c.base.content = metaContent
         /\ metaRow.over = c.base.over /\ metaRow.cover = c.base.cover /\ metaRow.of = c.base.of
         /\ CallRight(c)
  <1>1. PICK d \in metaCalls : Meta!Handle(d)
    BY ZenonT(60) DEF Meta!Next, Meta!Accepted, Meta!Open, Meta!Loaded, Meta!Close, Meta!Save,
         Meta!Import, Meta!Cover, Meta!Choose, Meta!Fetch, Meta!Apply, Meta!GiveUp, Meta!NewContent
  <1>2. c = d
    BY <1>1 DEF Meta!Accepted, Meta!Handle
  <1>3. Meta!Current(c) /\ metaRow'.over = Meta!Merged(c)
    BY <1>1, <1>2, HandleIs DEF Meta!Accepted
  <1>4. CallRight(c)
    BY DEF MetaInv
  <1> QED
    BY <1>3, <1>4 DEF CallRight, Seen, Meta!Current

LEMMA SavedAsDrafted ==
  ASSUME MetaInv, Meta!Next, NEW c \in metaCalls, Meta!Accepted(c)
  PROVE  /\ c.kind = "patch" => metaRow'.over = c.draft
         /\ c.kind = "bulk" => /\ metaContent = c.reviewed.content
                               /\ Meta!Effective(Meta!State, "series") = Meta!Effective(c.reviewed,
                                     "series")
  <1>1. /\ metaRow'.over = Meta!Merged(c) /\ c.base.content = metaContent
        /\ metaRow.over = c.base.over /\ metaRow.cover = c.base.cover /\ metaRow.of = c.base.of
        /\ CallRight(c)
    BY AcceptedIs
  <1>2. ASSUME c.kind = "patch"
        PROVE  metaRow'.over = c.draft
    <2>1. c.draft = [f \in Meta!Fields |-> c.draft[f]] /\ c.clear = {} /\ c.set = c.draft
          /\ \A f \in Meta!Fields : c.draft[f] = None => metaRow.over[f] = None
      BY <1>1, <1>2 DEF CallRight, Resets
    <2>2. \A f \in Meta!Fields : Meta!Merged(c)[f] = c.draft[f]
      BY <2>1 DEF Meta!Merged
    <2>3. Meta!Merged(c) = [f \in Meta!Fields |-> Meta!Merged(c)[f]]
      BY DEF Meta!Merged
    <2> QED
      BY <1>1, <2>1, <2>2, <2>3
  <1>3. ASSUME c.kind = "bulk"
        PROVE  /\ metaContent = c.reviewed.content
               /\ Meta!Effective(Meta!State, "series") = Meta!Effective(c.reviewed, "series")
    BY <1>1, <1>3 DEF CallRight, Meta!Effective, Meta!State
  <1> QED
    BY <1>2, <1>3

-----------------------------------------------------------------------------
(***************************************************************************)
(* The queue and the shelves of a profile.                                 *)
(***************************************************************************)

PageFields == {"queue", "call", "extras", "got", "shelves", "order", "state", "reload", "load",
               "save", "overtaken"}

\* A queue a page has seen is of an earlier revision, or the one of the server.
SeenQueue(q) ==
  q.rev \in Nat /\ q.rev <= editsQueue.rev /\ (q.rev = editsQueue.rev => q = editsQueue)

ViewTyped(v) ==
  /\ DOMAIN v = PageFields
  /\ v.call # None => DOMAIN v.call = {"op", "ids", "seen", "answer", "refused"}
  /\ v.load # None => DOMAIN v.load = {"reply"} /\ v.save.at = "none" /\ v.state = "loading"
  /\ DOMAIN v.save = {"at", "seen", "ids", "answer"}
  /\ v.save.at \in {"none", "asked", "refused", "answered"}

QueueSeen(v) ==
  /\ SeenQueue(v.queue)
  /\ v.call # None => SeenQueue(v.call.seen) /\ (v.call.answer # None => SeenQueue(v.call.answer))
  /\ v.extras = "read" => SeenQueue(v.got.queue)

\* With no announcement on its way, what is loaded is what the server has, and
\* so is what is shown, unless an older answer or a failure came since.
QueueFresh(v) ==
  /\ v.extras = "read" => v.got.queue = editsQueue
  /\ v.extras = "none" /\ ~v.overtaken => v.queue = editsQueue

\* The same for the order of the shelves, unless a reload is remembered.
Now == Edits!Order(editsSaved, editsShelves)
OrderFresh(v) ==
  /\ v.load # None /\ v.load.reply # None /\ ~v.reload => v.load.reply = Now
  /\ v.save.at = "answered" /\ ~v.reload => v.save.answer = Now
  /\ v.load = None /\ v.save.at = "none" /\ v.state = "ready" => v.order = Now

PageRight(v, n) ==
  ViewTyped(v) /\ QueueSeen(v) /\ (n = 0 => QueueFresh(v) /\ OrderFresh(v))

EditsInv ==
  /\ DOMAIN editsPage = Browsers /\ editsHints \in [Browsers -> Nat]
  /\ DOMAIN editsQueue = {"rev", "ids"} /\ editsQueue.rev \in Nat
  /\ \A b \in Browsers : PageRight(editsPage[b], editsHints[b])

\* What a step leaves of the server's queue: the one it had, or the next.
QueueKept ==
  /\ DOMAIN editsQueue' = {"rev", "ids"} /\ editsQueue'.rev \in Nat
  /\ editsQueue' = editsQueue \/ editsQueue'.rev = editsQueue.rev + 1

\* A page for which nothing is on its way after a step missed nothing in it.
Unmissed(n, m) == m \in Nat /\ (m = 0 => n = 0 /\ editsQueue' = editsQueue /\ Now' = Now)

LEMMA QueueStays ==
  ASSUME editsQueue.rev \in Nat, QueueKept, NEW q, SeenQueue(q)
  PROVE  SeenQueue(q)'
  BY DEF QueueKept, SeenQueue

\* A page that takes no step stays right.
LEMMA PageStays ==
  ASSUME editsQueue.rev \in Nat, QueueKept, NEW v, NEW n, PageRight(v, n), NEW m, Unmissed(n, m)
  PROVE  PageRight(v, m)'
  <1>1. QueueSeen(v)'
    BY QueueStays DEF PageRight, QueueSeen
  <1>2. ViewTyped(v)'
    BY DEF PageRight, ViewTyped
  <1>3. m = 0 => QueueFresh(v)' /\ OrderFresh(v)'
    BY DEF PageRight, QueueFresh, OrderFresh, Unmissed
  <1> QED
    BY <1>1, <1>2, <1>3 DEF PageRight

\* A step of a page after which it is right.
LEMMA PageStep ==
  ASSUME EditsInv, NEW b \in Browsers, NEW r, editsPage' = [editsPage EXCEPT ![b] = r], QueueKept,
         editsHints' \in [Browsers -> Nat],
         \A c \in Browsers : c # b => Unmissed(editsHints[c], editsHints'[c]),
         NEW m, m = editsHints'[b], PageRight(r, m)'
  PROVE  EditsInv'
  <1>1. editsPage'[b] = r
    BY DEF EditsInv
  <1>2. ASSUME NEW c \in Browsers, c # b
        PROVE  PageRight(editsPage[c], editsHints[c])'
    <2>1. PICK v, n, k : v = editsPage[c] /\ n = editsHints[c] /\ k = editsHints'[c]
      OBVIOUS
    <2>2. PageRight(v, n) /\ Unmissed(n, k) /\ editsQueue.rev \in Nat
      BY <1>2, <2>1 DEF EditsInv
    <2>3. PageRight(v, k)'
      BY <2>2, PageStays
    <2>4. editsPage'[c] = v
      BY <1>2, <2>1 DEF EditsInv
    <2> QED
      BY <2>1, <2>3, <2>4
  <1>3. \A c \in Browsers : PageRight(editsPage[c], editsHints[c])'
    BY <1>1, <1>2
  <1> QED
    BY <1>3 DEF EditsInv, QueueKept

\* A step of a page that changes nothing of the server.
LEMMA LocalStep ==
  ASSUME EditsInv, NEW b \in Browsers, NEW r, editsPage' = [editsPage EXCEPT ![b] = r],
         UNCHANGED <<editsQueue, editsShelves, editsSaved>>,
         NEW m \in Nat, editsHints' = [editsHints EXCEPT ![b] = m], PageRight(r, m)
  PROVE  EditsInv'
  <1>1. QueueKept /\ Now' = Now
    BY DEF EditsInv, QueueKept, Now
  <1>2. /\ editsHints' \in [Browsers -> Nat] /\ m = editsHints'[b]
        /\ \A c \in Browsers : c # b => Unmissed(editsHints[c], editsHints'[c])
    BY <1>1 DEF EditsInv, Unmissed
  <1>3. Unmissed(m, m)
    BY <1>1 DEF Unmissed
  <1>4. PageRight(r, m)'
    BY <1>1, <1>3, PageStays DEF EditsInv
  <1> QED
    BY <1>1, <1>2, <1>4, PageStep

\* A step of a page that is announced to all, whose own loads are started by that.
LEMMA AnnouncedStep ==
  ASSUME EditsInv, NEW b \in Browsers, NEW r, editsPage' = [editsPage EXCEPT ![b] = r], QueueKept,
         Edits!Announce, ViewTyped(r), QueueSeen(r)'
  PROVE  EditsInv'
  <1>1. /\ editsHints' \in [Browsers -> Nat]
        /\ \A c \in Browsers : Unmissed(editsHints[c], editsHints'[c]) /\ editsHints'[c] # 0
    BY DEF EditsInv, Unmissed, Edits!Announce
  <1>2. PICK m : m = editsHints'[b] /\ m # 0
    BY <1>1
  <1>3. ViewTyped(r)'
    BY DEF ViewTyped
  <1>4. PageRight(r, m)'
    BY <1>2, <1>3 DEF PageRight
  <1> QED
    BY <1>1, <1>2, <1>4, PageStep

\* #loadSidebarShelfOrder starts a load, or remembers it.
\* A load of the order is started, or remembered.
OrderLoaded(v, w) ==
  /\ DOMAIN w = PageFields
  /\ w.queue = v.queue /\ w.call = v.call /\ w.extras = v.extras /\ w.got = v.got
  /\ w.order = v.order /\ w.save = v.save /\ w.overtaken = v.overtaken
  /\ \/ (v.save.at # "none" \/ v.load # None) /\ w.load = v.load /\ w.reload = TRUE
        /\ w.state = v.state
     \/ /\ v.save.at = "none" /\ v.load = None /\ w.load = [reply |-> None] /\ w.state = "loading"
        /\ w.reload = FALSE

LEMMA OrderLoadIs ==
  ASSUME NEW v, ViewTyped(v), NEW w, w = Edits!WithOrderLoad(v)
  PROVE  OrderLoaded(v, w)
  BY DEF OrderLoaded, ViewTyped, PageFields, Edits!WithOrderLoad, Edits!Asked

LEMMA OrderLoadKeeps ==
  ASSUME NEW v, NEW n, PageRight(v, n), NEW w, w = Edits!WithOrderLoad(v)
  PROVE  PageRight(w, n)
  <1>0. OrderLoaded(v, w)
    BY OrderLoadIs DEF PageRight
  <1>1. /\ DOMAIN w = PageFields
        /\ w.queue = v.queue /\ w.call = v.call /\ w.extras = v.extras /\ w.got = v.got
        /\ w.order = v.order /\ w.save = v.save /\ w.overtaken = v.overtaken
        /\ \/ (v.save.at # "none" \/ v.load # None) /\ w.load = v.load /\ w.reload = TRUE
              /\ w.state = v.state
           \/ /\ v.save.at = "none" /\ v.load = None /\ w.load = [reply |-> None] /\ w.state = "loading"
              /\ w.reload = FALSE
    BY <1>0 DEF OrderLoaded
  <1>2. ViewTyped(w)
    BY <1>1 DEF PageRight, ViewTyped
  <1>3. QueueSeen(w)
    BY <1>1 DEF PageRight, QueueSeen
  <1>4. n = 0 => QueueFresh(w) /\ OrderFresh(w)
    BY <1>1 DEF PageRight, QueueFresh, OrderFresh
  <1> QED
    BY <1>2, <1>3, <1>4 DEF PageRight

LEMMA PageIs ==
  ASSUME EditsInv, NEW b \in Browsers
  PROVE  \E v, n : /\ v = editsPage[b] /\ n = editsHints[b] /\ n \in Nat /\ PageRight(v, n)
                   /\ editsHints = [editsHints EXCEPT ![b] = n]
  BY DEF EditsInv

LEMMA AskQueueKeepsEdits ==
  ASSUME EditsInv, NEW b \in Browsers, Edits!AskQueue(b)
  PROVE  EditsInv'
  <1>1. PICK v, n : /\ v = editsPage[b] /\ n = editsHints[b] /\ n \in Nat /\ PageRight(v, n)
                    /\ editsHints = [editsHints EXCEPT ![b] = n]
    BY PageIs
  <1>2. UNCHANGED <<editsQueue, editsShelves, editsSaved, editsHints>>
    BY DEF Edits!AskQueue
  <1>3. PICK q \in Edits!Requests(editsPage[b].queue.ids) :
          Edits!Put(b, [editsPage[b] EXCEPT !.call =
            [op |-> q.op, ids |-> q.ids, seen |-> editsPage[b].queue, answer |-> None,
             refused |-> FALSE]])
    BY ZenonT(60) DEF Edits!AskQueue
  <1>4. PICK r : /\ editsPage' = [editsPage EXCEPT ![b] = r]
                 /\ r = [v EXCEPT !.call = [op |-> q.op, ids |-> q.ids, seen |-> v.queue,
                                            answer |-> None, refused |-> FALSE]]
    BY <1>1, <1>3 DEF Edits!Put
  <1>5. PageRight(r, n)
    BY <1>1, <1>4 DEF PageRight, ViewTyped, QueueSeen, QueueFresh, OrderFresh, PageFields
  <1> QED
    BY <1>1, <1>2, <1>4, <1>5, LocalStep

LEMMA HandleQueueKeepsEdits ==
  ASSUME EditsInv, NEW b \in Browsers, Edits!HandleQueue(b)
  PROVE  EditsInv'
  <1>1. PICK v, n : /\ v = editsPage[b] /\ n = editsHints[b] /\ n \in Nat /\ PageRight(v, n)
                    /\ editsHints = [editsHints EXCEPT ![b] = n]
    BY PageIs
  <1>2. PICK call, ids, next : /\ call = v.call /\ ids = Edits!Mutated(call) /\ call # None
                               /\ next = [rev |-> editsQueue.rev + 1, ids |-> ids]
                               /\ UNCHANGED <<editsShelves, editsSaved>>
    BY <1>1 DEF Edits!HandleQueue
  <1>3. CASE UNCHANGED editsQueue
    <2>1. /\ editsHints' = editsHints
          /\ \/ Edits!Put(b, [v EXCEPT !.call.refused = TRUE])
             \/ Edits!Put(b, [v EXCEPT !.call.answer = editsQueue])
      BY <1>1, <1>2, <1>3 DEF EditsInv, Edits!HandleQueue
    <2>2. PICK r : /\ editsPage' = [editsPage EXCEPT ![b] = r]
                   /\ r \in {[v EXCEPT !.call.refused = TRUE], [v EXCEPT !.call.answer = editsQueue]}
      BY <2>1 DEF Edits!Put
    <2>3. SeenQueue(editsQueue)
      BY DEF EditsInv, SeenQueue
    <2>4. /\ DOMAIN r = PageFields
          /\ r.queue = v.queue
          /\ r.extras = v.extras
          /\ r.got = v.got
          /\ r.order = v.order
          /\ r.save = v.save /\ r.load = v.load /\ r.state = v.state /\ r.reload = v.reload
          /\ r.overtaken = v.overtaken /\ DOMAIN r.call = DOMAIN v.call
          /\ r.call.seen = v.call.seen /\ r.call.answer \in {v.call.answer, editsQueue}
      <3>1. DOMAIN v = PageFields /\ DOMAIN v.call = {"op", "ids", "seen", "answer", "refused"}
        BY <1>1, <1>2 DEF PageRight, ViewTyped
      <3>2. CASE r = [v EXCEPT !.call.refused = TRUE]
        BY <3>1, <3>2 DEF PageFields
      <3>3. CASE r = [v EXCEPT !.call.answer = editsQueue]
        BY <3>1, <3>3 DEF PageFields
      <3> QED
        BY <2>2, <3>2, <3>3
    <2>5. ViewTyped(r) /\ QueueSeen(r)
      BY <1>1, <1>2, <2>3, <2>4 DEF PageRight, ViewTyped, QueueSeen
    <2>6. n = 0 => QueueFresh(r) /\ OrderFresh(r)
      BY <1>1, <2>4 DEF PageRight, QueueFresh, OrderFresh
    <2>7. PageRight(r, n)
      BY <2>5, <2>6 DEF PageRight
    <2> QED
      BY <1>1, <1>2, <1>3, <2>1, <2>2, <2>7, LocalStep
  <1>4. CASE ~UNCHANGED editsQueue
    <2>1. editsQueue' = next /\ Edits!Put(b, [v EXCEPT !.call.answer = next]) /\ Edits!Announce
      BY <1>1, <1>2, <1>4 DEF Edits!HandleQueue
    <2>2. PICK r : /\ editsPage' = [editsPage EXCEPT ![b] = r] /\ r = [v EXCEPT !.call.answer = next]
      BY <2>1 DEF Edits!Put
    <2>3. QueueKept /\ SeenQueue(next)'
      BY <1>2, <2>1 DEF EditsInv, QueueKept, SeenQueue
    <2>4. QueueSeen(v)'
      BY <1>1, <2>3, QueueStays DEF EditsInv, PageRight, QueueSeen
    <2>5. ViewTyped(r) /\ QueueSeen(r)'
      BY <1>1, <1>2, <2>2, <2>3, <2>4 DEF PageRight, ViewTyped, QueueSeen, PageFields
    <2> QED
      BY <2>1, <2>2, <2>3, <2>5, AnnouncedStep
  <1> QED
    BY <1>3, <1>4

LEMMA AnswerQueueKeepsEdits ==
  ASSUME EditsInv, NEW b \in Browsers, Edits!AnswerQueue(b)
  PROVE  EditsInv'
  <1>1. PICK v, n : /\ v = editsPage[b] /\ n = editsHints[b] /\ n \in Nat /\ PageRight(v, n)
                    /\ editsHints = [editsHints EXCEPT ![b] = n]
    BY PageIs
  <1>2. UNCHANGED <<editsQueue, editsShelves, editsSaved, editsHints>>
    BY DEF Edits!AnswerQueue
  <1>3. PICK done : done = [v EXCEPT !.call = None]
    OBVIOUS
  <1>4. PICK r : /\ editsPage' = [editsPage EXCEPT ![b] = r] /\ v.call # None
                 /\ \/ r = done
                    \/ r = Edits!Shown(done, v.call.seen)
                    \/ v.call.answer # None /\ r = Edits!Shown(done, v.call.answer)
    <2>1. v.call # None
      BY <1>1 DEF Edits!AnswerQueue
    <2>2. \/ Edits!Put(b, done) \/ Edits!Put(b, Edits!Shown(done, v.call.seen))
          \/ v.call.answer # None /\ Edits!Put(b, Edits!Shown(done, v.call.answer))
      BY <1>1, <1>3 DEF Edits!AnswerQueue, Edits!Waiting
    <2> QED
      BY <2>1, <2>2 DEF Edits!Put
  <1>5. PageRight(done, n)
    BY <1>1, <1>3 DEF PageRight, ViewTyped, QueueSeen, QueueFresh, OrderFresh, PageFields
  <1>6. ASSUME NEW q, SeenQueue(q), r = Edits!Shown(done, q)
        PROVE  PageRight(r, n)
    <2>1. /\ DOMAIN r = PageFields
          /\ r.queue = q
          /\ r.call = done.call
          /\ r.extras = done.extras
          /\ r.got = done.got
          /\ r.order = done.order /\ r.save = done.save /\ r.load = done.load
          /\ r.state = done.state /\ r.reload = done.reload
          /\ done.overtaken \/ q.rev < done.queue.rev => r.overtaken
      BY <1>5, <1>6 DEF PageRight, ViewTyped, PageFields, Edits!Shown
    <2>2. ViewTyped(r) /\ QueueSeen(r)
      BY <1>5, <1>6, <2>1 DEF PageRight, ViewTyped, QueueSeen
    <2>3. n = 0 => QueueFresh(r)
      BY <1>5, <1>6, <2>1 DEF PageRight, QueueSeen, QueueFresh, SeenQueue
    <2>4. n = 0 => OrderFresh(r)
      BY <1>5, <2>1 DEF PageRight, OrderFresh
    <2> QED
      BY <2>2, <2>3, <2>4 DEF PageRight
  <1>7. PageRight(r, n)
    BY <1>1, <1>4, <1>5, <1>6 DEF PageRight, QueueSeen
  <1> QED
    BY <1>1, <1>2, <1>4, <1>7, LocalStep

LEMMA HearKeepsEdits ==
  ASSUME EditsInv, NEW b \in Browsers, Edits!Hear(b)
  PROVE  EditsInv'
  <1>1. PICK v, n : /\ v = editsPage[b] /\ n = editsHints[b] /\ n \in Nat /\ PageRight(v, n)
                    /\ editsHints = [editsHints EXCEPT ![b] = n]
    BY PageIs
  <1>20. PICK m : m = n - 1
    OBVIOUS
  <1>2. m \in Nat /\ editsHints' = [editsHints EXCEPT ![b] = m]
    BY <1>1, <1>20 DEF EditsInv, Edits!Hear
  <1>3. PICK w, r : /\ w = [v EXCEPT !.extras = "asked", !.got = None] /\ r = Edits!WithOrderLoad(w)
                    /\ editsPage' = [editsPage EXCEPT ![b] = r]
                    /\ UNCHANGED <<editsQueue, editsShelves, editsSaved>>
    BY <1>1 DEF Edits!Hear, Edits!Put, Edits!WithExtras, Edits!Asked
  <1>4. ViewTyped(w) /\ QueueSeen(w) /\ w.extras = "asked"
    BY <1>1, <1>3 DEF PageRight, ViewTyped, QueueSeen, PageFields
  <1>5. /\ DOMAIN r = PageFields
        /\ r.queue = w.queue
        /\ r.call = w.call
        /\ r.extras = w.extras
        /\ r.got = w.got
        /\ r.order = w.order
        /\ r.save = w.save /\ r.overtaken = w.overtaken
        /\ \/ (w.save.at # "none" \/ w.load # None) /\ r.load = w.load /\ r.reload = TRUE
              /\ r.state = w.state
           \/ /\ w.save.at = "none" /\ w.load = None /\ r.load = [reply |-> None] /\ r.state = "loading"
              /\ r.reload = FALSE
    <2>1. ViewTyped(w) /\ r = Edits!WithOrderLoad(w)
      BY <1>3, <1>4
    <2>3. OrderLoaded(w, r)
      BY <2>1, OrderLoadIs
    <2> QED
      BY <2>3 DEF OrderLoaded
  <1>6. ViewTyped(r) /\ QueueSeen(r)
    BY <1>4, <1>5 DEF ViewTyped, QueueSeen
  <1>7. QueueFresh(r) /\ OrderFresh(r)
    BY <1>4, <1>5 DEF QueueFresh, OrderFresh
  <1>8. PageRight(r, m)
    BY <1>6, <1>7 DEF PageRight
  <1> QED
    BY <1>2, <1>3, <1>8, LocalStep

LEMMA ReadExtrasKeepsEdits ==
  ASSUME EditsInv, NEW b \in Browsers, Edits!ReadExtras(b)
  PROVE  EditsInv'
  <1>1. PICK v, n : /\ v = editsPage[b] /\ n = editsHints[b] /\ n \in Nat /\ PageRight(v, n)
                    /\ editsHints = [editsHints EXCEPT ![b] = n]
    BY PageIs
  <1>2. PICK q, r : /\ q = [queue |-> editsQueue, shelves |-> editsShelves]
                    /\ r = [v EXCEPT !.extras = "read", !.got = q]
                    /\ editsPage' = [editsPage EXCEPT ![b] = r]
                    /\ UNCHANGED <<editsQueue, editsShelves, editsSaved, editsHints>>
    BY <1>1 DEF Edits!ReadExtras, Edits!Put
  <1>3. SeenQueue(editsQueue)
    BY DEF EditsInv, SeenQueue
  <1>4. PageRight(r, n)
    <2>1. /\ DOMAIN r = PageFields /\ r.queue = v.queue /\ r.call = v.call
          /\ r.order = v.order /\ r.save = v.save /\ r.load = v.load /\ r.state = v.state
          /\ r.reload = v.reload /\ r.overtaken = v.overtaken
          /\ r.extras = "read" /\ r.got.queue = editsQueue
      BY <1>1, <1>2 DEF PageRight, ViewTyped, PageFields
    <2>2. ViewTyped(r) /\ QueueSeen(r)
      BY <1>1, <1>2, <1>3, <2>1 DEF PageRight, ViewTyped, QueueSeen
    <2>3. n = 0 => QueueFresh(r)
      BY <1>1, <1>2, <1>3, <2>1 DEF PageRight, QueueFresh
    <2>4. n = 0 => OrderFresh(r)
      BY <1>1, <1>2, <1>3, <2>1 DEF PageRight, OrderFresh
    <2> QED
      BY <2>2, <2>3, <2>4 DEF PageRight
  <1> QED
    BY <1>1, <1>2, <1>4, LocalStep

LEMMA ShowExtrasKeepsEdits ==
  ASSUME EditsInv, NEW b \in Browsers, Edits!ShowExtras(b)
  PROVE  EditsInv'
  <1>1. PICK v, n : /\ v = editsPage[b] /\ n = editsHints[b] /\ n \in Nat /\ PageRight(v, n)
                    /\ editsHints = [editsHints EXCEPT ![b] = n]
    BY PageIs
  <1>2. UNCHANGED <<editsQueue, editsShelves, editsSaved, editsHints>>
    BY DEF Edits!ShowExtras
  <1>3. PICK r : /\ editsPage' = [editsPage EXCEPT ![b] = r]
                 /\ \/ /\ v.extras = "read"
                       /\ r = [v EXCEPT !.extras = "none", !.got = None, !.queue = v.got.queue,
                                        !.shelves = v.got.shelves, !.overtaken = FALSE]
                    \/ r = [v EXCEPT !.extras = "none", !.got = None, !.overtaken = TRUE]
    <2>1. \/ /\ v.extras = "read"
             /\ Edits!Put(b, [v EXCEPT !.extras = "none", !.got = None, !.queue = v.got.queue,
                                       !.shelves = v.got.shelves, !.overtaken = FALSE])
          \/ Edits!Put(b, [v EXCEPT !.extras = "none", !.got = None, !.overtaken = TRUE])
      BY <1>1 DEF Edits!ShowExtras
    <2> QED
      BY <2>1 DEF Edits!Put
  <1>4. PageRight(r, n)
    <2>1. /\ DOMAIN r = PageFields /\ r.call = v.call /\ r.order = v.order
          /\ r.save = v.save /\ r.load = v.load /\ r.state = v.state /\ r.reload = v.reload
          /\ r.extras = "none"
          /\ \/ v.extras = "read" /\ r.queue = v.got.queue
             \/ r.queue = v.queue /\ r.overtaken = TRUE
      <3>1. DOMAIN v = PageFields
        BY <1>1 DEF PageRight, ViewTyped
      <3>2. CASE r = [v EXCEPT !.extras = "none", !.got = None, !.overtaken = TRUE]
        BY <3>1, <3>2 DEF PageFields
      <3>3. CASE /\ v.extras = "read"
                 /\ r = [v EXCEPT !.extras = "none", !.got = None, !.queue = v.got.queue,
                                  !.shelves = v.got.shelves, !.overtaken = FALSE]
        BY <3>1, <3>3 DEF PageFields
      <3> QED
        BY <1>3, <3>2, <3>3
    <2>2. ViewTyped(r) /\ QueueSeen(r)
      BY <1>1, <1>3, <2>1 DEF PageRight, ViewTyped, QueueSeen
    <2>3. n = 0 => QueueFresh(r)
      BY <1>1, <1>3, <2>1 DEF PageRight, QueueFresh
    <2>4. n = 0 => OrderFresh(r)
      BY <1>1, <1>3, <2>1 DEF PageRight, OrderFresh
    <2> QED
      BY <2>2, <2>3, <2>4 DEF PageRight
  <1> QED
    BY <1>1, <1>2, <1>3, <1>4, LocalStep

LEMMA ReadOrderKeepsEdits ==
  ASSUME EditsInv, NEW b \in Browsers, Edits!ReadOrder(b)
  PROVE  EditsInv'
  <1>1. PICK v, n : /\ v = editsPage[b] /\ n = editsHints[b] /\ n \in Nat /\ PageRight(v, n)
                    /\ editsHints = [editsHints EXCEPT ![b] = n]
    BY PageIs
  <1>2. PICK x, r : /\ x = [reply |-> Now] /\ r = [v EXCEPT !.load = x]
                    /\ v.load # None /\ editsPage' = [editsPage EXCEPT ![b] = r]
                    /\ UNCHANGED <<editsQueue, editsShelves, editsSaved, editsHints>>
    <2>1. v.load = [reply |-> None] /\ DOMAIN v = PageFields
      BY <1>1 DEF Edits!ReadOrder, Edits!Asked, PageRight, ViewTyped
    <2>2. [v EXCEPT !.load.reply = Now] = [v EXCEPT !.load = [reply |-> Now]]
      BY <2>1 DEF PageFields
    <2> QED
      BY <1>1, <2>1, <2>2, NoneIsApart DEF Edits!ReadOrder, Edits!Put, Now
  <1>3. PageRight(r, n)
    BY <1>1, <1>2 DEF PageRight, ViewTyped, QueueSeen, QueueFresh, OrderFresh, PageFields
  <1> QED
    BY <1>1, <1>2, <1>3, LocalStep

LEMMA ShowOrderKeepsEdits ==
  ASSUME EditsInv, NEW b \in Browsers, Edits!ShowOrder(b)
  PROVE  EditsInv'
  <1>1. PICK v, n : /\ v = editsPage[b] /\ n = editsHints[b] /\ n \in Nat /\ PageRight(v, n)
                    /\ editsHints = [editsHints EXCEPT ![b] = n]
    BY PageIs
  <1>2. UNCHANGED <<editsQueue, editsShelves, editsSaved, editsHints>> /\ v.load # None
    BY <1>1 DEF Edits!ShowOrder
  <1>3. PICK u, w, r :
          /\ editsPage' = [editsPage EXCEPT ![b] = r] /\ w = [u EXCEPT !.load = None]
          /\ (u.reload /\ r = Edits!WithOrderLoad(w)) \/ (~u.reload /\ r = w)
          /\ \/ v.load.reply # None /\ u = [v EXCEPT !.order = v.load.reply, !.state = "ready"]
             \/ u = [v EXCEPT !.state = "error"]
    <2>1. PICK u : /\ \/ v.load.reply # None /\ u = [v EXCEPT !.order = v.load.reply, !.state = "ready"]
                      \/ u = [v EXCEPT !.state = "error"]
                   /\ Edits!Put(b, IF u.reload THEN Edits!WithOrderLoad([u EXCEPT !.load = None])
                                   ELSE [u EXCEPT !.load = None])
      BY <1>1 DEF Edits!ShowOrder
    <2> QED
      BY <2>1 DEF Edits!Put
  <1>4. /\ DOMAIN w = PageFields
        /\ w.queue = v.queue /\ w.call = v.call /\ w.extras = v.extras /\ w.got = v.got
        /\ w.save = v.save
        /\ w.save.at = "none"
        /\ w.overtaken = v.overtaken
        /\ w.load = None
        /\ w.reload = u.reload
        /\ u.reload = v.reload
        /\ (w.order = v.load.reply /\ v.load.reply # None) \/ w.state = "error"
    <2>1. DOMAIN v = PageFields /\ v.save.at = "none"
      BY <1>1, <1>2 DEF PageRight, ViewTyped
    <2>2. /\ DOMAIN u = PageFields
          /\ u.queue = v.queue /\ u.call = v.call /\ u.extras = v.extras /\ u.got = v.got
          /\ u.save = v.save /\ u.overtaken = v.overtaken /\ u.reload = v.reload
          /\ (u.order = v.load.reply /\ v.load.reply # None) \/ u.state = "error"
      <3>1. CASE v.load.reply # None /\ u = [v EXCEPT !.order = v.load.reply, !.state = "ready"]
        BY <2>1, <3>1 DEF PageFields
      <3>2. CASE u = [v EXCEPT !.state = "error"]
        BY <2>1, <3>2 DEF PageFields
      <3> QED
        BY <1>3, <3>1, <3>2
    <2>3. /\ DOMAIN w = PageFields
          /\ w.queue = u.queue /\ w.call = u.call /\ w.extras = u.extras /\ w.got = u.got
          /\ w.save = u.save /\ w.overtaken = u.overtaken /\ w.load = None
          /\ w.reload = u.reload /\ w.order = u.order /\ w.state = u.state
      BY <1>3, <2>2 DEF PageFields
    <2> QED
      BY <2>1, <2>2, <2>3
  <1>5. ViewTyped(w) /\ QueueSeen(w)
    BY <1>1, <1>4 DEF PageRight, ViewTyped, QueueSeen
  <1>6. n = 0 => QueueFresh(w)
    BY <1>1, <1>4 DEF PageRight, QueueFresh
  <1>7. CASE ~u.reload /\ r = w
    <2>1. n = 0 => OrderFresh(w)
      BY <1>1, <1>2, <1>4, <1>7 DEF PageRight, OrderFresh
    <2> QED
      BY <1>1, <1>2, <1>3, <1>5, <1>6, <1>7, <2>1, LocalStep DEF PageRight
  <1>8. CASE r = Edits!WithOrderLoad(w)
    <2>1. /\ DOMAIN r = PageFields
          /\ r.queue = w.queue
          /\ r.call = w.call
          /\ r.extras = w.extras
          /\ r.got = w.got
          /\ r.order = w.order
          /\ r.save = w.save /\ r.overtaken = w.overtaken
          /\ r.load = [reply |-> None] /\ r.state = "loading"
      <3>1. ViewTyped(w) /\ w.load = None /\ w.save.at = "none"
        BY <1>4, <1>5
      <3>3. OrderLoaded(w, r)
        BY <1>8, <3>1, OrderLoadIs
      <3> QED
        BY <3>1, <3>3 DEF OrderLoaded
    <2>2. DOMAIN r.load = {"reply"} /\ r.load.reply = None /\ r.load # None
      BY <2>1, NoneIsApart
    <2>3. ViewTyped(r)
      BY <1>1, <1>4, <1>5, <2>1, <2>2 DEF PageRight, ViewTyped
    <2>4. QueueSeen(r) /\ (n = 0 => QueueFresh(r))
      BY <1>5, <1>6, <2>1 DEF QueueSeen, QueueFresh
    <2>5. OrderFresh(r)
      BY <1>1, <1>4, <2>1, <2>2 DEF OrderFresh, PageRight, ViewTyped
    <2> QED
      BY <1>1, <1>2, <1>3, <2>3, <2>4, <2>5, LocalStep DEF PageRight
  <1> QED
    BY <1>3, <1>7, <1>8

LEMMA EditsStutter ==
  ASSUME EditsInv, UNCHANGED <<editsQueue, editsShelves, editsSaved, editsHints, editsPage>>
  PROVE  EditsInv'
  <1>1. QueueKept /\ Now' = Now
    BY DEF EditsInv, QueueKept, Now
  <1>2. ASSUME NEW c \in Browsers
        PROVE  PageRight(editsPage[c], editsHints[c])'
    <2>1. PICK v, n : v = editsPage[c] /\ n = editsHints[c] /\ PageRight(v, n) /\ n \in Nat
      BY DEF EditsInv
    <2>2. PageRight(v, n)'
      BY <1>1, <2>1, PageStays DEF EditsInv, Unmissed
    <2> QED
      BY <2>1, <2>2
  <1> QED
    BY <1>2 DEF EditsInv

LEMMA AskOrderKeepsEdits ==
  ASSUME EditsInv, NEW b \in Browsers, Edits!AskOrder(b)
  PROVE  EditsInv'
  <1>1. PICK v, n : /\ v = editsPage[b] /\ n = editsHints[b] /\ n \in Nat /\ PageRight(v, n)
                    /\ editsHints = [editsHints EXCEPT ![b] = n]
    BY PageIs
  <1>2. UNCHANGED <<editsQueue, editsShelves, editsSaved, editsHints>> /\ v.state = "ready"
    BY <1>1 DEF Edits!AskOrder
  <1>3. PICK ids : ids = Edits!Normalize(v.order.ids, Edits!SidebarIds(v.shelves))
    OBVIOUS
  <1>4. PICK i \in 1..(Len(ids) - 1) :
          Edits!Put(b, [v EXCEPT !.load = None, !.reload = FALSE,
                          !.save = [at |-> "asked", seen |-> v.order, answer |-> None,
                                    ids |-> [ids EXCEPT ![i] = ids[i + 1], ![i + 1] = ids[i]]]])
    BY <1>1, <1>3, ZenonT(60) DEF Edits!AskOrder
  <1>5. PICK save, r : /\ editsPage' = [editsPage EXCEPT ![b] = r] /\ save.at = "asked"
                       /\ DOMAIN save = {"at", "seen", "ids", "answer"}
                       /\ r = [v EXCEPT !.load = None, !.reload = FALSE, !.save = save]
    <2>1. PICK save : save = [at |-> "asked", seen |-> v.order, answer |-> None,
                               ids |-> [ids EXCEPT ![i] = ids[i + 1], ![i + 1] = ids[i]]]
      OBVIOUS
    <2>2. save.at = "asked" /\ DOMAIN save = {"at", "seen", "ids", "answer"}
      BY <2>1
    <2>3. Edits!Put(b, [v EXCEPT !.load = None, !.reload = FALSE, !.save = save])
      BY <1>4, <2>1
    <2> QED
      BY <2>2, <2>3 DEF Edits!Put
  <1>6. /\ DOMAIN r = PageFields /\ r.queue = v.queue /\ r.call = v.call /\ r.order = v.order
        /\ r.load = None /\ v.load = None /\ r.state = "ready" /\ r.extras = v.extras
        /\ r.got = v.got /\ r.overtaken = v.overtaken /\ r.save = save
    BY <1>1, <1>2, <1>5 DEF PageRight, ViewTyped, PageFields
  <1>7. ViewTyped(r) /\ QueueSeen(r)
    BY <1>1, <1>5, <1>6 DEF PageRight, ViewTyped, QueueSeen
  <1>8. n = 0 => QueueFresh(r)
    BY <1>1, <1>6 DEF PageRight, QueueFresh
  <1>10. n = 0 => OrderFresh(r)
    BY <1>5, <1>6 DEF OrderFresh
  <1>11. PageRight(r, n)
    BY <1>7, <1>8, <1>10 DEF PageRight
  <1> QED
    BY <1>1, <1>2, <1>5, <1>11, LocalStep

\* A save of the order changes nothing, or is announced.
LEMMA OrderSavedIs ==
  ASSUME EditsInv, NEW save, Edits!OrderSaved(save), UNCHANGED <<editsQueue, editsShelves>>
  PROVE  /\ UNCHANGED <<editsSaved, editsHints>> \/ Edits!Announce
         /\ QueueKept /\ editsHints' \in [Browsers -> Nat]
         /\ \A c \in Browsers : Unmissed(editsHints[c], editsHints'[c])
  <1>1. CASE UNCHANGED <<editsSaved, editsHints>>
    BY <1>1 DEF EditsInv, QueueKept, Unmissed, Now
  <1>2. CASE Edits!Announce
    BY <1>2 DEF EditsInv, QueueKept, Unmissed, Edits!Announce
  <1> QED
    BY <1>1, <1>2, ZenonT(30) DEF Edits!OrderSaved

LEMMA HandleOrderKeepsEdits ==
  ASSUME EditsInv, NEW b \in Browsers, Edits!HandleOrder(b)
  PROVE  EditsInv'
  <1>1. PICK v, n : /\ v = editsPage[b] /\ n = editsHints[b] /\ n \in Nat /\ PageRight(v, n)
                    /\ editsHints = [editsHints EXCEPT ![b] = n]
    BY PageIs
  <1>2. PICK save : save = v.save /\ save.at = "asked" /\ Edits!OrderSaved(save)
                    /\ UNCHANGED <<editsQueue, editsShelves>>
    BY <1>1 DEF Edits!HandleOrder
  <1>3. /\ UNCHANGED <<editsSaved, editsHints>> \/ Edits!Announce
        /\ QueueKept /\ editsHints' \in [Browsers -> Nat]
        /\ \A c \in Browsers : Unmissed(editsHints[c], editsHints'[c])
    BY <1>2, OrderSavedIs
  <1>4. PICK r : /\ editsPage' = [editsPage EXCEPT ![b] = r]
                 /\ \/ r = [v EXCEPT !.save.at = "refused"]
                    \/ r = [v EXCEPT !.save.at = "answered", !.save.answer = Now']
    <2>1. \/ Edits!Put(b, [v EXCEPT !.save.at = "refused"])
          \/ Edits!Put(b, [v EXCEPT !.save.at = "answered", !.save.answer = Now'])
      <3>1. Now' = Edits!Order(editsSaved', editsShelves)
        BY <1>2 DEF Now
      <3> QED
        BY <1>1, <1>2, <3>1 DEF Edits!HandleOrder
    <2> QED
      BY <2>1 DEF Edits!Put
  <1>5. /\ DOMAIN r = PageFields /\ r.queue = v.queue /\ r.call = v.call /\ r.order = v.order
        /\ r.load = v.load /\ r.state = v.state /\ r.extras = v.extras /\ r.got = v.got
        /\ r.overtaken = v.overtaken /\ r.reload = v.reload
        /\ DOMAIN r.save = {"at", "seen", "ids", "answer"}
        /\ r.save.at = "refused" \/ (r.save.at = "answered" /\ r.save.answer = Now')
    <2>1. DOMAIN v = PageFields /\ DOMAIN v.save = {"at", "seen", "ids", "answer"}
      BY <1>1, <1>2 DEF PageRight, ViewTyped
    <2>2. CASE r = [v EXCEPT !.save.at = "refused"]
      BY <2>1, <2>2 DEF PageFields
    <2>3. CASE r = [v EXCEPT !.save.at = "answered", !.save.answer = Now']
      BY <2>1, <2>3 DEF PageFields
    <2> QED
      BY <1>4, <2>2, <2>3
  <1>6. ViewTyped(r) /\ QueueSeen(r)
    BY <1>1, <1>2, <1>5 DEF PageRight, ViewTyped, QueueSeen
  <1>7. CASE Edits!Announce
    <2>1. QueueSeen(r)'
      BY <1>3, <1>6, QueueStays DEF EditsInv, QueueSeen
    <2> QED
      BY <1>3, <1>4, <1>6, <1>7, <2>1, AnnouncedStep
  <1>8. CASE UNCHANGED <<editsSaved, editsHints>>
    <2>1. Now' = Now
      BY <1>2, <1>8 DEF Now
    <2>2. v.load = None
      BY <1>1, <1>2 DEF PageRight, ViewTyped
    <2>3. n = 0 => QueueFresh(r) /\ OrderFresh(r)
      <3>1. n = 0 => QueueFresh(r)
        BY <1>1, <1>5 DEF PageRight, QueueFresh
      <3>2. n = 0 => OrderFresh(r)
        BY <1>1, <1>2, <1>5, <2>1, <2>2 DEF PageRight, OrderFresh
      <3> QED
        BY <3>1, <3>2
    <2>4. PageRight(r, n)
      BY <1>6, <2>3 DEF PageRight
    <2> QED
      BY <1>1, <1>2, <1>4, <1>8, <2>4, LocalStep
  <1> QED
    BY <1>3, <1>7, <1>8

LEMMA AnswerOrderKeepsEdits ==
  ASSUME EditsInv, NEW b \in Browsers, Edits!AnswerOrder(b)
  PROVE  EditsInv'
  <1>1. PICK v, n : /\ v = editsPage[b] /\ n = editsHints[b] /\ n \in Nat /\ PageRight(v, n)
                    /\ editsHints = [editsHints EXCEPT ![b] = n]
    BY PageIs
  <1>2. UNCHANGED <<editsQueue, editsShelves, editsSaved, editsHints>> /\ v.save.at # "none"
    BY <1>1 DEF Edits!AnswerOrder
  <1>3. PICK done : /\ done = [v EXCEPT !.save = Edits!NoSave] /\ DOMAIN done = PageFields
                    /\ done.queue = v.queue /\ done.call = v.call /\ done.extras = v.extras
                    /\ done.got = v.got /\ done.overtaken = v.overtaken /\ done.load = None
                    /\ done.reload = v.reload /\ done.save = Edits!NoSave
    <2>1. PICK done : done = [v EXCEPT !.save = Edits!NoSave]
      OBVIOUS
    <2>2. DOMAIN v = PageFields /\ v.load = None
      BY <1>1, <1>2 DEF PageRight, ViewTyped
    <2> QED
      BY <2>1, <2>2 DEF PageFields
  <1>4. DOMAIN Edits!NoSave = {"at", "seen", "ids", "answer"} /\ Edits!NoSave.at = "none"
    BY DEF Edits!NoSave
  <1>5. PICK w, r :
          /\ editsPage' = [editsPage EXCEPT ![b] = r]
          /\ \/ /\ r = Edits!WithOrderLoad(w)
                /\ \/ w = [[done EXCEPT !.reload = TRUE] EXCEPT !.extras = "asked", !.got = None]
                   \/ w = [done EXCEPT !.reload = TRUE]
                   \/ w = [done EXCEPT !.order = v.save.answer, !.state = "ready"]
             \/ /\ r = w /\ w = [done EXCEPT !.order = v.save.answer, !.state = "ready"]
                /\ ~v.reload /\ v.save.at \notin {"asked", "refused"}
    <2>1. PICK fresh : fresh = [done EXCEPT !.order = v.save.answer, !.state = "ready"]
      OBVIOUS
    <2>2. fresh.reload = v.reload
      BY <1>3, <2>1 DEF PageFields
    <2>3. \/ Edits!Put(b, Edits!WithExtras([done EXCEPT !.reload = TRUE]))
          \/ Edits!Put(b, Edits!WithOrderLoad(fresh))
          \/ Edits!Put(b, fresh) /\ ~v.reload /\ v.save.at \notin {"asked", "refused"}
          \/ Edits!Put(b, Edits!WithOrderLoad([done EXCEPT !.reload = TRUE]))
      BY <1>1, <1>3, <2>1, <2>2 DEF Edits!AnswerOrder
    <2> QED
      BY <2>1, <2>3 DEF Edits!Put, Edits!WithExtras
  <1>6. CASE r = Edits!WithOrderLoad(w)
        /\ w = [[done EXCEPT !.reload = TRUE] EXCEPT !.extras = "asked", !.got = None]
    <2>1. /\ DOMAIN w = PageFields /\ w.queue = v.queue /\ w.call = v.call /\ w.extras = "asked"
          /\ w.overtaken = v.overtaken /\ w.load = None /\ w.save = Edits!NoSave
      BY <1>3, <1>6 DEF PageFields
    <2>2. ViewTyped(w) /\ QueueSeen(w)
      BY <1>1, <1>4, <2>1 DEF PageRight, ViewTyped, QueueSeen
    <2>3. /\ DOMAIN r = PageFields
          /\ r.queue = w.queue
          /\ r.call = w.call
          /\ r.extras = w.extras
          /\ r.got = w.got
          /\ r.order = w.order
          /\ r.save = w.save /\ r.overtaken = w.overtaken
          /\ r.load = [reply |-> None] /\ r.state = "loading"
      <3>1. ViewTyped(w) /\ w.load = None /\ w.save.at = "none"
        BY <1>4, <2>1, <2>2
      <3>2. r = Edits!WithOrderLoad(w)
        BY <1>6
      <3>3. OrderLoaded(w, r)
        BY <3>1, <3>2, OrderLoadIs
      <3> QED
        BY <3>1, <3>3 DEF OrderLoaded
    <2>4. ViewTyped(r) /\ QueueSeen(r) /\ QueueFresh(r) /\ OrderFresh(r)
      BY <1>4, <2>1, <2>2, <2>3, NoneIsApart DEF ViewTyped, QueueSeen, QueueFresh, OrderFresh
    <2> QED
      BY <1>1, <1>2, <1>5, <2>4, LocalStep DEF PageRight
  <1>7. CASE /\ r = Edits!WithOrderLoad(w)
             /\ \/ w = [done EXCEPT !.reload = TRUE]
                \/ w = [done EXCEPT !.order = v.save.answer, !.state = "ready"]
    <2>1. /\ DOMAIN w = PageFields /\ w.queue = v.queue /\ w.call = v.call /\ w.extras = v.extras
          /\ w.got = v.got /\ w.overtaken = v.overtaken /\ w.load = None /\ w.save = Edits!NoSave
      BY <1>3, <1>7 DEF PageFields
    <2>2. ViewTyped(w) /\ QueueSeen(w) /\ (n = 0 => QueueFresh(w))
      BY <1>1, <1>4, <2>1 DEF PageRight, ViewTyped, QueueSeen, QueueFresh
    <2>3. /\ DOMAIN r = PageFields
          /\ r.queue = w.queue
          /\ r.call = w.call
          /\ r.extras = w.extras
          /\ r.got = w.got
          /\ r.order = w.order
          /\ r.save = w.save /\ r.overtaken = w.overtaken
          /\ r.load = [reply |-> None] /\ r.state = "loading"
      <3>1. ViewTyped(w) /\ r = Edits!WithOrderLoad(w) /\ w.save.at = "none" /\ w.load = None
        BY <1>4, <1>7, <2>1, <2>2
      <3>3. OrderLoaded(w, r)
        BY <3>1, OrderLoadIs
      <3> QED
        BY <3>1, <3>3 DEF OrderLoaded
    <2>4. ViewTyped(r) /\ QueueSeen(r) /\ (n = 0 => QueueFresh(r)) /\ OrderFresh(r)
      BY <1>4, <2>1, <2>2, <2>3, NoneIsApart DEF ViewTyped, QueueSeen, QueueFresh, OrderFresh
    <2> QED
      BY <1>1, <1>2, <1>5, <2>4, LocalStep DEF PageRight
  <1>8. CASE /\ r = w /\ w = [done EXCEPT !.order = v.save.answer, !.state = "ready"]
             /\ ~v.reload /\ v.save.at \notin {"asked", "refused"}
    <2>1. /\ DOMAIN r = PageFields /\ r.queue = v.queue /\ r.call = v.call /\ r.extras = v.extras
          /\ r.got = v.got /\ r.overtaken = v.overtaken /\ r.load = None /\ r.save = Edits!NoSave
          /\ r.order = v.save.answer
      BY <1>3, <1>8 DEF PageFields
    <2>2. v.save.at = "answered"
      BY <1>1, <1>2, <1>8 DEF PageRight, ViewTyped
    <2>3. ViewTyped(r) /\ QueueSeen(r)
      BY <1>1, <1>4, <2>1 DEF PageRight, ViewTyped, QueueSeen
    <2>4. n = 0 => QueueFresh(r)
      BY <1>1, <2>1 DEF PageRight, QueueFresh
    <2>5. n = 0 => OrderFresh(r)
      BY <1>1, <1>4, <1>8, <2>1, <2>2 DEF PageRight, OrderFresh
    <2> QED
      BY <1>1, <1>2, <1>5, <2>3, <2>4, <2>5, LocalStep DEF PageRight
  <1> QED
    BY <1>5, <1>6, <1>7, <1>8

LEMMA TogglePinKeepsEdits ==
  ASSUME EditsInv, NEW b \in Browsers, NEW s \in Shelves, Edits!TogglePin(b, s)
  PROVE  EditsInv'
  <1>1. PICK v, n : /\ v = editsPage[b] /\ n = editsHints[b] /\ n \in Nat /\ PageRight(v, n)
                    /\ editsHints = [editsHints EXCEPT ![b] = n]
    BY PageIs
  <1>2. CASE UNCHANGED <<editsShelves, editsSaved, editsHints, editsPage>>
    BY <1>2, EditsStutter DEF Edits!TogglePin
  <1>3. CASE ~UNCHANGED <<editsShelves, editsSaved, editsHints, editsPage>>
    <2>1. PICK w, r : /\ \E x : w = [v EXCEPT !.shelves[s] = x]
                      /\ r = Edits!WithOrderLoad(w)
                      /\ editsPage' = [editsPage EXCEPT ![b] = r]
                      /\ Edits!Announce /\ UNCHANGED editsQueue
      BY <1>1, <1>3 DEF Edits!TogglePin, Edits!Put
    <2>2. PICK x : w = [v EXCEPT !.shelves[s] = x]
      BY <2>1
    <2>3. PageRight(w, n)
      <3>1. /\ DOMAIN w = PageFields /\ w.queue = v.queue /\ w.call = v.call /\ w.extras = v.extras
            /\ w.got = v.got /\ w.order = v.order /\ w.state = v.state /\ w.reload = v.reload
            /\ w.load = v.load /\ w.save = v.save /\ w.overtaken = v.overtaken
        BY <1>1, <2>2 DEF PageRight, ViewTyped, PageFields
      <3> QED
        BY <1>1, <3>1 DEF PageRight, ViewTyped, QueueSeen, QueueFresh, OrderFresh
    <2>4. PageRight(r, n)
      BY <2>1, <2>3, OrderLoadKeeps
    <2>5. QueueKept
      BY <2>1 DEF EditsInv, QueueKept
    <2>6. QueueSeen(r)'
      BY <2>4, <2>5, QueueStays DEF EditsInv, PageRight, QueueSeen
    <2> QED
      BY <2>1, <2>4, <2>5, <2>6, AnnouncedStep DEF PageRight
  <1> QED
    BY <1>2, <1>3

LEMMA HandleLateKeepsEdits ==
  ASSUME EditsInv, Edits!HandleLate
  PROVE  EditsInv'
  <1>1. PICK save : Edits!OrderSaved(save) /\ UNCHANGED <<editsQueue, editsShelves, editsPage>>
    BY ZenonT(30) DEF Edits!HandleLate
  <1>2. /\ QueueKept /\ editsHints' \in [Browsers -> Nat]
        /\ \A c \in Browsers : Unmissed(editsHints[c], editsHints'[c])
    BY <1>1, OrderSavedIs
  <1>3. ASSUME NEW c \in Browsers
        PROVE  PageRight(editsPage[c], editsHints[c])'
    <2>1. PICK v, n, m : v = editsPage[c] /\ n = editsHints[c] /\ m = editsHints'[c]
      OBVIOUS
    <2>2. PageRight(v, n) /\ Unmissed(n, m)
      BY <1>2, <2>1 DEF EditsInv
    <2>3. PageRight(v, m)'
      BY <1>2, <2>2, PageStays DEF EditsInv
    <2> QED
      BY <1>1, <2>1, <2>3
  <1> QED
    BY <1>1, <1>2, <1>3 DEF EditsInv

LEMMA EditsStart ==
  ASSUME Edits!Init
  PROVE  EditsInv
  <1>1. editsQueue = [rev |-> Len(FirstQueue), ids |-> FirstQueue]
    BY DEF Edits!Init
  <1>2. DOMAIN editsQueue = {"rev", "ids"} /\ editsQueue.rev \in Nat /\ SeenQueue(editsQueue)
    BY <1>1, QueueIsOfBooks DEF SeenQueue
  <1>3. PICK v : v = Edits!Loaded
    OBVIOUS
  <1>4. PageRight(v, 0)
    BY <1>2, <1>3 DEF PageRight, ViewTyped, QueueSeen, QueueFresh, OrderFresh, PageFields,
         Edits!Loaded, Edits!NoSave, Now
  <1> QED
    BY <1>2, <1>3, <1>4 DEF EditsInv, Edits!Init

LEMMA EditsStep ==
  ASSUME EditsInv, Edits!Next
  PROVE  EditsInv'
  <1>1. ASSUME NEW b \in Browsers,
               \/ Edits!AskQueue(b) \/ Edits!HandleQueue(b) \/ Edits!AnswerQueue(b)
               \/ Edits!Hear(b) \/ Edits!ReadExtras(b) \/ Edits!ShowExtras(b)
               \/ Edits!ReadOrder(b) \/ Edits!ShowOrder(b)
               \/ Edits!AskOrder(b) \/ Edits!HandleOrder(b) \/ Edits!AnswerOrder(b)
        PROVE  EditsInv'
    BY <1>1, AskQueueKeepsEdits, HandleQueueKeepsEdits, AnswerQueueKeepsEdits, HearKeepsEdits,
       ReadExtrasKeepsEdits, ShowExtrasKeepsEdits, ReadOrderKeepsEdits, ShowOrderKeepsEdits,
       AskOrderKeepsEdits, HandleOrderKeepsEdits, AnswerOrderKeepsEdits
  <1>2. ASSUME NEW b \in Browsers, NEW s \in Shelves, Edits!TogglePin(b, s)
        PROVE  EditsInv'
    BY <1>2, TogglePinKeepsEdits
  <1>3. CASE Edits!HandleLate
    BY <1>3, HandleLateKeepsEdits
  <1> QED
    BY <1>1, <1>2, <1>3 DEF Edits!Next

LEMMA EditsAreRight ==
  ASSUME EditsInv
  PROVE  QuietViewsAreFresh
  <1>1. ASSUME NEW b \in Browsers
        PROVE  PageRight(editsPage[b], editsHints[b])
    BY <1>1 DEF EditsInv
  <1>2. Edits!QuietOrderIsFresh
    BY <1>1 DEF Edits!QuietOrderIsFresh, PageRight, OrderFresh, Now
  <1>3. Edits!QuietQueueIsFresh
    BY <1>1 DEF Edits!QuietQueueIsFresh, PageRight, QueueFresh, QueueSeen, SeenQueue
  <1> QED
    BY <1>2, <1>3 DEF QuietViewsAreFresh

\* A change of the queue was asked for by a page that showed it as it was.
LEMMA RemovalsWereSeen ==
  ASSUME EditsInv, NEW b \in Browsers, Edits!HandleQueue(b), editsQueue' # editsQueue
  PROVE  editsPage[b].call.seen = editsQueue
  <1>1. PICK v, n : v = editsPage[b] /\ n = editsHints[b] /\ PageRight(v, n)
    BY PageIs
  <1>2. v.call # None /\ v.call.seen.rev = editsQueue.rev
    BY <1>1 DEF Edits!HandleQueue, Edits!QueueConflict
  <1> QED
    BY <1>1, <1>2 DEF PageRight, QueueSeen, SeenQueue

-----------------------------------------------------------------------------
(***************************************************************************)
(* The theorems.                                                           *)
(***************************************************************************)

\* A step of the composition is a step of one part and stutters in the others.
LEMMA StepOfAPart ==
  ASSUME [PartsNext]_allVars
  PROVE  /\ Next \/ UNCHANGED vars
         /\ Identity!Next \/ UNCHANGED identityVars
         /\ Meta!Next \/ UNCHANGED metaVars
         /\ Edits!Next \/ UNCHANGED editsVars
  BY DEF PartsNext, allVars, scanVars, vars

LEMMA WatchAlways == PartsSpec => []WatchInv
  <1>1. PartsInit => WatchInv
    BY WatchStart DEF PartsInit
  <1>2. WatchInv /\ [PartsNext]_allVars => WatchInv'
    BY WatchStep, WatchStutter, StepOfAPart
  <1> QED
    BY <1>1, <1>2, PTL DEF PartsSpec

\* What happens to a file while it is watched is never lost: with nothing left to
\* do the row shows the file or an error, unless its last change went unwatched
\* (catalog-indexer.ts, the hints of the watcher).
THEOREM WatchedChangesStayIndexed == PartsSpec => []WatchedChangesAreIndexed
  <1>1. WatchInv => WatchedChangesAreIndexed
    BY WatchIsRight
  <1> QED
    BY <1>1, WatchAlways, PTL

LEMMA IdentAlways == PartsSpec => []IdentInv
  <1>1. PartsInit => IdentInv
    BY IdentStart DEF PartsInit
  <1>2. IdentInv /\ [PartsNext]_allVars => IdentInv'
    BY IdentStep, IdentStutter, StepOfAPart
  <1> QED
    BY <1>1, <1>2, PTL DEF PartsSpec

\* A file that stays where it is, or is renamed in a way the scan can tell from a
\* copy, is not listed under another identifier, and the identifier a retained
\* delivery points at is listed or on record (catalog-database.ts upsertCatalogFile,
\* pruneUnprotectedCatalogIdentities; server/README.md:86), but for the files that
\* escape by StillExpected and displaced.
THEOREM BooksStayThemselves == PartsSpec => []BooksKeepTheirIdentity
  <1>1. IdentInv => BooksKeepTheirIdentity
    BY BooksAreRight
  <1> QED
    BY <1>1, IdentAlways, PTL

LEMMA MetaAlways == PartsSpec => []MetaInv
  <1>1. PartsInit => MetaInv
    BY MetaStart DEF PartsInit
  <1>2. MetaInv /\ [PartsNext]_allVars => MetaInv'
    BY MetaStep, MetaStutter, StepOfAPart DEF metaVars
  <1> QED
    BY <1>1, <1>2, PTL DEF PartsSpec

LEMMA EditsAlways == PartsSpec => []EditsInv
  <1>1. PartsInit => EditsInv
    BY EditsStart DEF PartsInit
  <1>2. EditsInv /\ [PartsNext]_allVars => EditsInv'
    BY EditsStep, EditsStutter, StepOfAPart DEF editsVars
  <1> QED
    BY <1>1, <1>2, PTL DEF PartsSpec

\* An edit of metadata is accepted only on the very values and cover its author
\* was shown, whatever other browsers, late requests and new contents lie between
\* (catalog-database.ts metadataMutationContext).
THEOREM EditsStayInformed == PartsSpec => InformedEdits
  <1>1. MetaInv /\ [PartsNext]_allVars =>
          [\A c \in metaCalls : (Meta!Accepted(c) /\ Meta!Cardinality(metaCalls \ metaCalls') = 1)
             => metaRow.over = c.base.over /\ metaRow.cover = c.base.cover /\ metaRow.of = c.base.of
          ]_(Meta!vars)
    BY AcceptedIs, StepOfAPart DEF Meta!vars, metaVars
  <1> QED
    BY <1>1, MetaAlways, PTL DEF PartsSpec, InformedEdits, Meta!InformedEdits

\* A completed save leaves the draft, although it takes two requests, and a series
\* chosen in bulk is written only to a book whose content and series are still
\* those reviewed (catalog-browser.ts saveBookMetadata, applyHardcoverBulkSeries).
THEOREM SavesLeaveTheDraft == PartsSpec => SavedIsTheDraft
  <1>1. MetaInv /\ [PartsNext]_allVars =>
          [\A c \in metaCalls : (Meta!Accepted(c) /\ c.kind = "patch" /\ c.live)
             => metaRow'.over = c.draft]_(Meta!vars)
    BY SavedAsDrafted, StepOfAPart DEF Meta!vars, metaVars
  <1>2. MetaInv /\ [PartsNext]_allVars =>
          [\A c \in metaCalls : (Meta!Accepted(c) /\ c.kind = "bulk")
             => metaContent = c.reviewed.content
                /\ Meta!Effective(Meta!State, "series") = Meta!Effective(c.reviewed, "series")
          ]_(Meta!vars)
    BY SavedAsDrafted, StepOfAPart DEF Meta!vars, metaVars
  <1>3. PartsSpec => Meta!SavedIsTheDraft
    BY <1>1, MetaAlways, PTL DEF PartsSpec, Meta!SavedIsTheDraft
  <1>4. PartsSpec => Meta!ReviewedSeriesOnly
    BY <1>2, MetaAlways, PTL DEF PartsSpec, Meta!ReviewedSeriesOnly
  <1> QED
    BY <1>3, <1>4 DEF SavedIsTheDraft

\* A page with nothing under way that says its shelf order is ready shows the
\* server's, whatever was lost, refused or announced meanwhile (catalog-
\* browser.ts:1951); a queue it shows under the server's revision is the server's,
\* and a quiet page's is, unless an older answer overwrote a newer queue or a load
\* failed since the last one that was shown.
THEOREM QuietViewsStayFresh == PartsSpec => []QuietViewsAreFresh
  <1>1. EditsInv => QuietViewsAreFresh
    BY EditsAreRight
  <1> QED
    BY <1>1, EditsAlways, PTL

\* A browser never takes out of the queue an entry it did not show when the user
\* asked (catalog-database.ts "The Send-later queue changed in another browser.").
THEOREM NothingUnseenLeaves == PartsSpec => NothingUnseenIsRemoved
  <1>1. EditsInv /\ [PartsNext]_allVars =>
          [\A b \in Browsers :
             Edits!HandleQueue(b) =>
                   \A x \in Edits!Range(editsQueue.ids) \ Edits!Range(editsQueue'.ids) :
                                       x \in Edits!Range(editsPage[b].call.seen.ids)]_(Edits!vars)
    <2>1. ASSUME EditsInv, NEW b \in Browsers, Edits!HandleQueue(b),
                 NEW x \in Edits!Range(editsQueue.ids) \ Edits!Range(editsQueue'.ids)
          PROVE  x \in Edits!Range(editsPage[b].call.seen.ids)
      <3>1. editsQueue' # editsQueue
        BY <2>1
      <3> QED
        BY <2>1, <3>1, RemovalsWereSeen
    <2> QED
      BY <2>1
  <1> QED
    BY <1>1, EditsAlways, PTL DEF PartsSpec, NothingUnseenIsRemoved, Edits!NothingUnseenIsRemoved

\* Whoever changes the queue or the metadata of a book knew what was there, and
\* gets what was asked for (catalog-browser.ts, catalog-database.ts).
THEOREM ChangesStayInformed == PartsSpec => ChangesAreInformed
  BY NothingUnseenLeaves, EditsStayInformed, SavesLeaveTheDraft DEF ChangesAreInformed
===============================================================================
