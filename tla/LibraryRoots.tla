---------------------------- MODULE LibraryRoots ----------------------------
(***************************************************************************)
(* The libraries of a household and their source folders, as Settings      *)
(* changes them (server/catalog-database.ts and the profile and root       *)
(* routes of server/http-server.ts), beside the scans of several services  *)
(* on the same database.                                                   *)
(*                                                                         *)
(* A change of Settings is one transaction: one that throws changes        *)
(* nothing, and has no action here.  Scan options are compared as a whole, *)
(* and a generation of scan_requests is only compared with the newest      *)
(* one, so a pending request carries its newest claimant.  The depth of a  *)
(* scan, wake-ups and mounts are in CatalogScan.  MaxWrites bounds the     *)
(* changes, MaxScans the scans.                                            *)
(***************************************************************************)
EXTENDS Naturals, Sequences, FiniteSets, SequencesExt

CONSTANTS Profiles, Roots, Keys, Services, None,
          Variants,  \* what a folder may be saved with: [options, enabled]
          MaxKept,   \* MAX_CONFIGURATION_WRITES_PER_PROFILE
          MaxFolders, MaxWrites, MaxScans

VARIABLES
  profile,   \* profile -> "new", "on", "off" or "gone"
  root,      \* root -> [path, options], or None
  used,      \* the ids of roots so far
  member,    \* profile -> root -> "on", "off" or "none" (profile_roots)
  request,   \* root -> "idle", "open", or the service that claimed it last
  rows,      \* root -> the paths its source_files were read from
  indexed,   \* root -> the configuration the last finished scan was of
  scan,      \* service -> [root, config, claimed], or None
  sent,      \* the saves applied so far, each of which may arrive again
  ledger,    \* configuration_writes: profile -> the keys of its saves
  applied,   \* history: key -> how often its configuration was applied
  forgotten, \* history: the keys the ledger dropped
  writes, scans

vars == <<profile, root, used, member, request, rows, indexed, scan, sent, ledger, applied,
          forgotten, writes, scans>>
catalog == <<root, used, member, rows, indexed, request>>
saves == <<sent, ledger, applied, forgotten>>

Paths == {"a", "a/b", "c"}
Configs == {[path |-> path, options |-> v.options] : path \in Paths, v \in Variants}

ASSUME RootBounds ==
  /\ {MaxWrites, MaxScans} \subseteq Nat
  /\ \A v \in Variants : v.enabled \in BOOLEAN
  /\ \E v \in Variants : v.enabled
  /\ Services \cap {"idle", "open"} = {}
  /\ None \notin Roots /\ None \notin Profiles /\ None \notin Configs
  /\ None \notin [root : Roots, config : Configs, claimed : BOOLEAN]

\* There is a root, and of several one comes first
ASSUME RootsAreOrdered ==
  /\ Roots # {}
  /\ \A rs \in SUBSET Roots : rs # {} => \E r \in rs : \A x \in rs : r <= x

Nested(x, y) == {x, y} = {"a", "a/b"}
Exists(p) == profile[p] \in {"on", "off"}
Owners(m, r) == {p \in Profiles : m[p][r] # "none"}
Configured == {r \in Roots : root[r] # None}

\* Nothing is configured, or one folder was, in any number of libraries, and
\* its scan is to come or over.  (Starting at "a/b" is the same: Nested does not
\* tell it from "a".)
Init ==
  /\ \E owners \in SUBSET Profiles, scanned \in BOOLEAN :
       LET config == [path |-> "a", options |-> (CHOOSE v \in Variants : v.enabled).options]
           here == owners # {}
           r == Min(Roots)
       IN /\ profile = [p \in Profiles |-> IF p \in owners THEN "on" ELSE "new"]
          /\ root = [x \in Roots |-> IF here /\ x = r THEN config ELSE None]
          /\ used = IF here THEN {r} ELSE {}
          /\ member = [p \in Profiles |->
                        [x \in Roots |-> IF p \in owners /\ x = r THEN "on" ELSE "none"]]
          /\ request = [x \in Roots |-> IF here /\ x = r /\ ~scanned THEN "open" ELSE "idle"]
          /\ indexed = [x \in Roots |-> IF here /\ x = r /\ scanned THEN config ELSE None]
          /\ rows = [x \in Roots |-> IF here /\ x = r /\ scanned THEN {"a"} ELSE {}]
  /\ scan = [s \in Services |-> None]
  /\ sent = {}
  /\ ledger = [p \in Profiles |-> {}]
  /\ applied = [k \in Keys |-> 0]
  /\ forgotten = {}
  /\ writes = MaxWrites
  /\ scans = MaxScans

-----------------------------------------------------------------------------
(* The rows of the catalog during a transaction.                            *)

Begun == [root |-> root, used |-> used, member |-> member, rows |-> rows, indexed |-> indexed,
          due |-> {}, kept |-> {}, ok |-> TRUE]

\* ensureRootScanRequest, with advanceExisting: the generation moves on, so
\* that no scan that is under way writes or acknowledges anything.
Commit(tx) ==
  /\ tx.ok
  /\ root' = tx.root
  /\ used' = tx.used
  /\ member' = tx.member
  /\ rows' = tx.rows
  /\ indexed' = tx.indexed
  /\ request' = [r \in Roots |-> IF tx.root[r] = None THEN "idle"
                                 ELSE IF r \in tx.due THEN "open" ELSE request[r]]
  /\ writes' = writes - 1

\* A root that belongs to no profile any more is deleted with its rows.
Swept(tx) ==
  LET orphans == {r \in Roots : tx.root[r] # None /\ Owners(tx.member, r) = {}}
  IN [tx EXCEPT !.root = [r \in Roots |-> IF r \in orphans THEN None ELSE tx.root[r]],
                !.rows = [r \in Roots |-> IF r \in orphans THEN {} ELSE tx.rows[r]],
                !.indexed = [r \in Roots |-> IF r \in orphans THEN None ELSE tx.indexed[r]]]

\* A folder moves elsewhere: its rows go (markRootRebuildPending and the
\* deletions beside it).
Moved(tx, r, config) ==
  IF tx.root[r] # None /\ tx.root[r].path # config.path
  THEN [tx EXCEPT !.root[r] = config, !.rows[r] = {}, !.indexed[r] = None]
  ELSE [tx EXCEPT !.root[r] = config]

\* assertRootPathDoesNotOverlap
Overlaps(path, ignored) == \E r \in Configured \ ignored : Nested(root[r].path, path)

PathTaken(tx, path, r) == \E x \in Roots \ {r} : tx.root[x] # None /\ tx.root[x].path = path

\* The root an input of a configuration is about: the one it names, the one
\* with its path, or a new one (None when the bound of ids is reached).
RootOf(tx, in) ==
  IF in.id # None THEN in.id
  ELSE IF PathTaken(tx, in.path, None)
  THEN CHOOSE r \in Roots : tx.root[r] # None /\ tx.root[r].path = in.path
  ELSE IF Roots \subseteq tx.used THEN None ELSE Min(Roots \ tx.used)

\* One root of applyProfileConfiguration.
TakeRoot(tx, p, save, in) ==
  LET r == RootOf(tx, in)
      config == [path |-> in.path, options |-> in.options]
      known == tx.root[r] # None
      changed == known /\ tx.root[r] # config
      due == \/ changed
             \/ /\ save.enabled /\ in.enabled
                /\ profile[p] = "off" \/ ~known \/ tx.member[p][r] # "on"
  IN IF \/ ~tx.ok \/ r = None
        \/ in.id # None /\ tx.member[p][r] = "none"
        \/ changed /\ Owners(tx.member, r) \ {p} # {}
        \/ changed /\ PathTaken(tx, in.path, r)
     THEN [tx EXCEPT !.ok = FALSE]
     ELSE [Moved(tx, r, config) EXCEPT
             !.used = @ \union {r}, !.kept = @ \union {r},
             !.member[p][r] = IF in.enabled THEN "on" ELSE "off",
             !.due = IF due THEN @ \union {r} ELSE @]

\* The folders of a save, one after another; a draft names at most two.
Taken(p, save) ==
  LET first == TakeRoot(Begun, p, save, save.roots[1])
  IN CASE Len(save.roots) = 0 -> Begun
       [] Len(save.roots) = 1 -> first
       [] OTHER -> TakeRoot(first, p, save, save.roots[2])

\* Seeded fault: the folders that are not named stay.
DroppedNothing(tx, p) == Swept(tx)

\* The roots of the profile that the configuration does not name are left.
Dropped(tx, p) ==
  LET left == [r \in Roots |-> IF r \in tx.kept THEN tx.member[p][r] ELSE "none"]
  IN Swept([tx EXCEPT !.member = [tx.member EXCEPT ![p] = left]])

\* Folders of which every one could be removed with the profile's membership.
Removable(p) == {r \in Roots : Owners(member, r) = {p}}

WithinLimits(tx) == Cardinality({r \in Roots : tx.root[r] # None}) <= MaxFolders

-----------------------------------------------------------------------------
(* Whole configurations, which the browser sends with a key.                *)

Separate(list) == \A i, j \in 1..Len(list) : i < j =>
  /\ list[i].path # list[j].path /\ ~Nested(list[i].path, list[j].path)
  /\ list[j].id # None => list[i].id \notin {None, list[j].id}

\* The folders of a draft: those known to the server come first.
Inputs(ids) == {[id |-> i, path |-> path, options |-> v.options, enabled |-> v.enabled] :
                  i \in ids, path \in Paths, v \in Variants}
Drafts(ids) ==
  {<<>>} \union {<<x>> : x \in Inputs(ids \union {None})}
  \union (Inputs(ids) \X Inputs(ids \union {None}))

Known(p) == {r \in Roots : member[p][r] # "none"}

\* The keys the ledger holds.
Held == UNION {ledger[p] : p \in Profiles}

\* pruneConfigurationWrites: the oldest go, by a clock that may be set back, and
\* never the one just accepted.  What may be left beside that one:
Pruned(keys) ==
  {kept \in SUBSET keys :
     IF Cardinality(keys) < MaxKept THEN kept = keys ELSE Cardinality(kept) = MaxKept - 1}

\* applyProfileConfiguration, of a save whose key the ledger does not hold.
\* With a key it holds the save is answered with the current configuration.
Apply(m, p) ==
  LET save == m.save
      tx == Dropped(Taken(p, save), p)
  IN /\ writes > 0
     /\ m.key \notin Held
     /\ IF save.profile = None THEN profile[p] = "new" ELSE p = save.profile /\ Exists(p)
     /\ \A i \in 1..Len(save.roots) :
          LET in == save.roots[i]
          IN ~Overlaps(in.path, {in.id} \union
                                (IF save.profile = None THEN {} ELSE Removable(p)))
     /\ Commit(tx)
     /\ WithinLimits(tx)
     /\ profile' = [profile EXCEPT ![p] = IF save.enabled THEN "on" ELSE "off"]
     /\ \E kept \in Pruned(ledger[p]) :
          /\ ledger' = [ledger EXCEPT ![p] = kept \union {m.key}]
          /\ forgotten' = forgotten \union (ledger[p] \ kept)
     /\ applied' = [applied EXCEPT ![m.key] = @ + 1]
     /\ sent' = sent \union {m}
     /\ UNCHANGED <<scan, scans>>

\* A new save of a draft, which may name folders that are gone by now.
Save(k, p) ==
  /\ writes > 0
  /\ k = Min(Keys \ {m.key : m \in sent})
  /\ \E target \in IF profile[p] = "new" THEN {None} ELSE {p} :
       \E e \in BOOLEAN, list \in Drafts(IF target = None THEN {} ELSE used) :
         /\ Separate(list)
         /\ Apply([key |-> k, save |-> [profile |-> target, enabled |-> e, roots |-> list]], p)

\* One that was applied arrives again: its answer was lost.
Retry(m, p) == Apply(m, p)

-----------------------------------------------------------------------------
(* Single changes.                                                          *)

\* createRootMutation: a path that exists is shared, with the same options.
CreateRoot(p, config, enabled) ==
  LET r == RootOf(Begun, [id |-> None, path |-> config.path])
      tx == [Begun EXCEPT !.root[r] = config, !.used = @ \union {r},
                          !.member[p][r] = IF enabled THEN "on" ELSE "off",
                          !.due = IF profile[p] = "on" /\ enabled THEN {r} ELSE {}]
  IN /\ writes > 0
     /\ Exists(p)
     /\ r # None
     /\ ~Overlaps(config.path, {})
     /\ member[p][r] = "none"
     /\ root[r] \in {None, config}
     /\ Commit(tx)
     /\ WithinLimits(tx)
     /\ UNCHANGED <<profile, scan, sent, ledger, applied, forgotten, scans>>

\* updateRootMutation
UpdateRoot(p, r, config, enabled) ==
  LET changed == root[r] # config
      due == changed \/ (profile[p] = "on" /\ enabled /\ member[p][r] = "off")
      tx == [Moved(Begun, r, config) EXCEPT
               !.member[p][r] = IF enabled THEN "on" ELSE "off",
               !.due = IF due THEN {r} ELSE {}]
  IN /\ writes > 0
     /\ Exists(p)
     /\ member[p][r] # "none"
     /\ changed => Owners(member, r) = {p}
     /\ root[r].path # config.path =>
          ~Overlaps(config.path, {r}) /\ ~PathTaken(Begun, config.path, r)
     /\ Commit(tx)
     /\ UNCHANGED <<profile, scan, sent, ledger, applied, forgotten, scans>>

\* deleteRoot
DeleteRoot(p, r) ==
  /\ writes > 0
  /\ member[p][r] # "none"
  /\ Commit(Swept([Begun EXCEPT !.member[p][r] = "none"]))
  /\ UNCHANGED <<profile, scan, sent, ledger, applied, forgotten, scans>>

\* updateProfileMutation: a library that is enabled again has its enabled
\* folders scanned.
UpdateProfile(p, enabled) ==
  LET on == {r \in Roots : member[p][r] = "on"}
  IN /\ writes > 0
     /\ Exists(p)
     /\ Commit([Begun EXCEPT !.due = IF profile[p] = "off" /\ enabled THEN on ELSE {}])
     /\ profile' = [profile EXCEPT ![p] = IF enabled THEN "on" ELSE "off"]
     /\ UNCHANGED <<scan, sent, ledger, applied, forgotten, scans>>

\* deleteProfile: its memberships and its ledger go with it, and the folders
\* that no other profile has.
DeleteProfile(p) ==
  /\ writes > 0
  /\ Exists(p)
  /\ Commit(Swept([Begun EXCEPT !.member[p] = [r \in Roots |-> "none"]]))
  /\ profile' = [profile EXCEPT ![p] = "gone"]
  /\ ledger' = [ledger EXCEPT ![p] = {}]
  /\ forgotten' = forgotten \union ledger[p]
  /\ UNCHANGED <<scan, sent, applied, scans>>

-----------------------------------------------------------------------------
(* The scans of the services.                                               *)

\* listScanRoots
Active(r) == \E p \in Profiles : profile[p] = "on" /\ member[p][r] = "on"

\* requestRescan, and every other reason of the indexer for new work.
Rescan(r) ==
  /\ Active(r)
  /\ request[r] = "idle"
  /\ scans > 0
  /\ request' = [request EXCEPT ![r] = "open"]
  /\ UNCHANGED <<profile, root, used, member, rows, indexed, scan, saves, writes, scans>>

\* A scan is of the folder as listScanRoots had it, and may have to wait for a
\* slot before it claims (withScanSlot).
ListRoot(s, r) ==
  /\ scan[s] = None
  /\ scans > 0
  /\ Active(r)
  /\ scan' = [scan EXCEPT ![s] = [root |-> r, config |-> root[r], claimed |-> FALSE]]
  /\ scans' = scans - 1
  /\ UNCHANGED <<profile, catalog, saves, writes>>

\* claimRootScan: the newest claimant owns the only generation that may write.
\* Without a pending request the scan is over (ScanStops).
Claim(s) ==
  /\ scan[s] # None
  /\ ~scan[s].claimed
  /\ request[scan[s].root] # "idle"
  /\ scan' = [scan EXCEPT ![s] = [@ EXCEPT !.claimed = TRUE]]
  /\ request' = [request EXCEPT ![scan[s].root] = s]
  /\ UNCHANGED <<profile, root, used, member, rows, indexed, saves, writes, scans>>

\* assertRootScanFence
Fenced(s) == scan[s].claimed /\ request[scan[s].root] = s

ScanWrites(s) ==
  /\ scan[s] # None
  /\ Fenced(s)
  /\ rows' = [rows EXCEPT ![scan[s].root] = @ \union {scan[s].config.path}]
  /\ UNCHANGED <<profile, root, used, member, request, indexed, scan, saves, writes, scans>>

\* Seeded fault: the configuration is not looked at again.
AnyConfiguration(s) == TRUE

\* sameScanSourceConfiguration, of a folder that still is to be scanned.
SameConfiguration(s) == Active(scan[s].root) => scan[s].config = root[scan[s].root]

\* The rows that were not seen go.  The request is acknowledged, unless the
\* folder has changed since it was listed: then there is a new one.
ScanCompletes(s) ==
  LET r == scan[s].root
  IN /\ scan[s] # None
     /\ Fenced(s)
     /\ rows' = [rows EXCEPT ![r] = {scan[s].config.path}]
     /\ IF SameConfiguration(s)
        THEN /\ indexed' = [indexed EXCEPT ![r] = scan[s].config]
             /\ request' = [request EXCEPT ![r] = "idle"]
        ELSE request' = [request EXCEPT ![r] = "open"] /\ UNCHANGED indexed
     /\ scan' = [scan EXCEPT ![s] = None]
     /\ UNCHANGED <<profile, root, used, member, saves, writes, scans>>

\* A StaleCatalogScanError, an aborted scan, or the end of the service.
ScanStops(s) ==
  /\ scan[s] # None
  /\ scan' = [scan EXCEPT ![s] = None]
  /\ UNCHANGED <<profile, catalog, saves, writes, scans>>

Next ==
  \/ \E k \in Keys \ {m.key : m \in sent}, p \in Profiles : Save(k, p)
  \/ \E m \in sent, p \in Profiles : Retry(m, p)
  \/ \E p \in Profiles, c \in Configs, e \in BOOLEAN : CreateRoot(p, c, e)
  \/ \E p \in Profiles, r \in Roots, c \in Configs, e \in BOOLEAN : UpdateRoot(p, r, c, e)
  \/ \E p \in Profiles, r \in Roots : DeleteRoot(p, r)
  \/ \E p \in Profiles, e \in BOOLEAN : UpdateProfile(p, e)
  \/ \E p \in Profiles : DeleteProfile(p)
  \/ \E r \in Roots : Rescan(r)
  \/ \E s \in Services, r \in Roots : ListRoot(s, r)
  \/ \E s \in Services : Claim(s)
  \/ \E s \in Services : ScanWrites(s)
  \/ \E s \in Services : ScanCompletes(s)
  \/ \E s \in Services : ScanStops(s)

Spec == Init /\ [][Next]_vars

-----------------------------------------------------------------------------

TypeOK ==
  /\ profile \in [Profiles -> {"new", "on", "off", "gone"}]
  /\ root \in [Roots -> Configs \union {None}]
  /\ used \subseteq Roots
  /\ member \in [Profiles -> [Roots -> {"on", "off", "none"}]]
  /\ request \in [Roots -> {"idle", "open"} \union Services]
  /\ rows \in [Roots -> SUBSET Paths]
  /\ indexed \in [Roots -> Configs \union {None}]
  /\ scan \in [Services -> [root : Roots, config : Configs, claimed : BOOLEAN] \union {None}]
  /\ ledger \in [Profiles -> SUBSET Keys]
  /\ applied \in [Keys -> Nat]
  /\ forgotten \subseteq Keys
  /\ writes \in 0..MaxWrites /\ scans \in 0..MaxScans

\* No folder lies in another or is listed twice, and every one belongs to a
\* library, however configurations, shared folders, moves and deletions are
\* mixed (catalog-database.ts:2017 "Nested or overlapping source roots are not
\* allowed because they would duplicate indexed books").
FoldersAreApart ==
  /\ \A r, x \in Configured : r # x =>
       root[r].path # root[x].path /\ ~Nested(root[r].path, root[x].path)
  /\ \A r \in Roots : root[r] # None <=> Owners(member, r) # {}

\* A folder of an enabled library for which no scan is pending has books from
\* below its path only, and its last finished scan was of its configuration,
\* although several services list it, wait, claim and write while it changes.
ChangesAreScanned ==
  \A r \in Roots : Active(r) /\ request[r] = "idle" =>
    rows[r] \subseteq {root[r].path} /\ indexed[r] = root[r]

\* A configuration that arrives again is not applied again as long as the
\* ledger holds its key.
SavesApplyOnce == \A k \in Keys : applied[k] > 1 => k \in forgotten

\* What is applied is what was asked for: the library has these folders, with
\* these options, and no other.
Folders(p) == {[path |-> root[r].path, options |-> root[r].options,
                enabled |-> member[p][r] = "on"] : r \in Known(p)}
Asked(save) == {[path |-> in.path, options |-> in.options, enabled |-> in.enabled] :
                  in \in ToSet(save.roots)}
SavedAsAsked ==
  [][\A m \in sent', p \in Profiles :
       applied'[m.key] > applied[m.key] /\ m.key \in ledger'[p] =>
         Folders(p)' = Asked(m.save)]_vars

=============================================================================
