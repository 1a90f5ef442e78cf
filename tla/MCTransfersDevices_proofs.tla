---------------------- MODULE MCTransfersDevices_proofs -----------------------
(***************************************************************************)
(* Theorems of the composition MCTransfers about the Kobo transfer, about  *)
(* the authority over a connected Kindle and about the inventory of its    *)
(* objects, for any set of tabs, handles, books and files of the tree, and *)
(* any bound on files, edits, limits, faults and crashes.                  *)
(***************************************************************************)
EXTENDS MCTransfers, TLAPS, FiniteSetTheorems

-----------------------------------------------------------------------------
(***************************************************************************)
(* The Kobo transfer.                                                      *)
(***************************************************************************)

TabFields == {"device", "point", "wanted", "ready", "index", "status", "record", "unsure", "sending",
              "name", "owns", "aborted", "says"}
RestPoints == {"idle", "index", "compare"}
LoadPoints == {"book", "source", "prepare", "rescan", "recheck"}
NamedPoints == {"create", "own", "write", "close", "verify", "cleanup"}

\* What a tab's record looks like: a file name only while its file is written,
\* and no send begins with a record to inspect.
Shape(r) ==
  /\ DOMAIN r = TabFields
  /\ r.point \in RestPoints \cup LoadPoints \cup {"find", "name"} \cup NamedPoints
  /\ r.point \in NamedPoints => r.name \in Kobo!Names
  /\ r.point \notin NamedPoints => r.name = 0
  /\ r.point \in LoadPoints \cup {"find", "name"} => r.record = 0 /\ ~r.unsure
  /\ r.point \in {"find", "name"} \cup NamedPoints => r.device # "none"
  /\ r.point \in LoadPoints /\ r.device = "none" => r.aborted = TRUE

\* Without a record to inspect, local storage has none.
Cleared(r) == r.device # "none" /\ r.record = 0 /\ ~r.unsure => koboStored = 0

\* The file that is written is the recorded one.
Written(r) ==
  /\ r.point \in NamedPoints \ {"cleanup"} => koboStored = r.name
  /\ r.point \in NamedPoints \ {"create", "cleanup"} =>
       r.name \in DOMAIN koboFiles /\ koboFiles[r.name].edition = r.sending
  /\ r.point = "verify" => koboFiles[r.name].state = "full"
  /\ r.point = "cleanup" =>
       \/ koboStored = r.name
       \/ koboStored = 0 /\ (r.name \in DOMAIN koboFiles => koboFiles[r.name].state = "full")

\* No other file is of the edition that is written.
Alone(r) ==
  /\ r.point \in {"name", "create"} => \A n \in DOMAIN koboFiles : koboFiles[n].edition # r.sending
  /\ r.point \in NamedPoints \ {"create"} =>
       \A n \in DOMAIN koboFiles : koboFiles[n].edition = r.sending => n = r.name

TabRight(r) == Shape(r) /\ Cleared(r) /\ Written(r) /\ Alone(r)

Drive ==
  /\ DOMAIN koboFiles \subseteq Kobo!Names
  /\ \A n \in DOMAIN koboFiles : DOMAIN koboFiles[n] = {"edition", "state"}
  /\ \A n \in DOMAIN koboFiles : koboFiles[n].state # "full" /\ n \notin koboSeen => koboStored = n
  /\ \A m, n \in DOMAIN koboFiles :
       koboFiles[m].state = "full" /\ koboFiles[n].state = "full"
         /\ koboFiles[m].edition = koboFiles[n].edition => m = n

KoboInv ==
  /\ DOMAIN koboTab = Tabs
  /\ \A t \in Tabs : TabRight(koboTab[t]) /\ (koboTab[t].device # "none" <=> koboLock = t)
  /\ Drive

LEMMA NameIsNotZero == 0 \notin Kobo!Names
  BY KoboBounds DEF Kobo!Names

\* A step of a tab that leaves the drive and the record alone.
LEMMA TabStep ==
  ASSUME KoboInv, NEW t \in Tabs, NEW r,
         koboTab' = [koboTab EXCEPT ![t] = r] \/ (koboTab' = koboTab /\ r = koboTab[t]),
         UNCHANGED <<koboFiles, koboSeen, koboStored>>, TabRight(r), r.device # "none" <=> koboLock' = t,
         koboLock' = koboLock \/ {koboLock, koboLock'} \subseteq {t, Nobody}
  PROVE  KoboInv'
  <1>1. DOMAIN koboTab' = Tabs /\ koboTab'[t] = r
    BY DEF KoboInv
  <1>2. Drive'
    BY DEF KoboInv, Drive
  <1>3. ASSUME NEW u \in Tabs
        PROVE  TabRight(koboTab[u])' /\ (koboTab'[u].device # "none" <=> koboLock' = u)
    <2>1. CASE u = t
      BY <1>1, <2>1 DEF TabRight, Cleared, Written, Alone
    <2>2. CASE u # t
      <3>1. koboTab'[u] = koboTab[u]
        BY <2>2 DEF KoboInv
      <3>2. koboTab'[u].device # "none" <=> koboLock' = u
        BY <2>2, <3>1, NobodyIsApart DEF KoboInv
      <3> QED
        BY <3>1, <3>2 DEF KoboInv, TabRight, Cleared, Written, Alone
    <2> QED
      BY <2>1, <2>2
  <1> QED
    BY <1>1, <1>2, <1>3 DEF KoboInv

\* A step of the tab that holds the lock: no other tab has anything at stake.
LEMMA DriveStep ==
  ASSUME KoboInv, NEW t \in Tabs, NEW r,
         koboTab' = [koboTab EXCEPT ![t] = r] \/ (koboTab' = koboTab /\ r = koboTab[t]),
         koboLock = t, koboLock' \in {t, Nobody}, r.device # "none" <=> koboLock' = t,
         TabRight(r)', Drive'
  PROVE  KoboInv'
  <1>1. DOMAIN koboTab' = Tabs /\ koboTab'[t] = r
    BY DEF KoboInv
  <1>2. ASSUME NEW u \in Tabs, u # t
        PROVE  TabRight(koboTab[u])' /\ (koboTab'[u].device # "none" <=> koboLock' = u)
    <2>1. koboTab'[u] = koboTab[u] /\ koboTab[u].device = "none" /\ Shape(koboTab[u])
      BY <1>2 DEF KoboInv, TabRight
    <2>2. koboTab[u].point \notin {"find", "name"} \cup NamedPoints
      BY <2>1 DEF Shape
    <2>3. koboLock' # u
      BY <1>2, NobodyIsApart
    <2> QED
      BY <2>1, <2>2, <2>3 DEF TabRight, Cleared, Written, Alone, NamedPoints
  <1> QED
    BY <1>1, <1>2 DEF KoboInv

LEMMA TabIs ==
  ASSUME KoboInv, NEW t \in Tabs
  PROVE  TabRight(koboTab[t]) /\ (koboTab[t].device # "none" <=> koboLock = t)
  BY DEF KoboInv

LEMMA DriveStays ==
  ASSUME KoboInv, UNCHANGED <<koboFiles, koboSeen, koboStored>>
  PROVE  Drive'
  BY DEF KoboInv, Drive

\* The end of a send, with or without a copy.
LEMMA FinishKeeps ==
  ASSUME KoboInv, NEW t \in Tabs, NEW new, DOMAIN new = TabFields, Kobo!Finish(t, new),
         koboTab[t].device # "none", Drive', new.record = 0 /\ ~new.unsure => koboStored' = 0
  PROVE  KoboInv' /\ koboTab'[t].says = new.says
  <1>1. PICK dev :
          /\ dev = IF koboTab[t].device = "closed" THEN "none" ELSE koboTab[t].device
          /\ koboTab' = [koboTab EXCEPT ![t] = [new EXCEPT !.point = "idle", !.name = 0, !.owns = FALSE,
                                                !.sending = 0, !.aborted = FALSE, !.device = dev]]
    BY DEF Kobo!Finish, Kobo!Put
  <1>2. PICK r : /\ r = [new EXCEPT !.point = "idle", !.name = 0, !.owns = FALSE, !.sending = 0,
                                   !.aborted = FALSE, !.device = dev]
                 /\ koboTab' = [koboTab EXCEPT ![t] = r]
    BY <1>1
  <1>3. /\ DOMAIN r = TabFields /\ r.point = "idle" /\ r.name = 0 /\ r.device = dev
        /\ r.record = new.record /\ r.unsure = new.unsure /\ r.says = new.says
    BY <1>2 DEF TabFields
  <1>4. koboLock = t /\ koboLock' \in {t, Nobody} /\ (dev # "none" <=> koboLock' = t)
    BY <1>1, TabIs, NobodyIsApart DEF Kobo!Finish
  <1>5. TabRight(r)'
    BY <1>3 DEF TabRight, Shape, Cleared, Written, Alone, RestPoints, LoadPoints, NamedPoints
  <1>6. KoboInv'
    BY <1>2, <1>3, <1>4, <1>5, DriveStep
  <1>7. koboTab'[t] = r
    BY <1>2 DEF KoboInv
  <1> QED
    BY <1>3, <1>6, <1>7

LEMMA FailedKeeps ==
  ASSUME KoboInv, NEW t \in Tabs, NEW record, NEW unsure, Kobo!Failed(t, record, unsure),
         koboTab[t].device # "none", Drive', record = 0 /\ ~unsure => koboStored' = 0
  PROVE  KoboInv' /\ (koboTab'[t].says = "cancelled" => record = 0 /\ ~unsure)
  <1>1. PICK says, fit :
          /\ says = (IF koboTab[t].aborted /\ record = 0 /\ ~unsure THEN "cancelled" ELSE "failed")
          /\ Kobo!Finish(t, [koboTab[t] EXCEPT !.record = record, !.unsure = unsure, !.says = says,
                                              !.ready = fit])
    BY DEF Kobo!Failed
  <1>2. PICK new : /\ new = [koboTab[t] EXCEPT !.record = record, !.unsure = unsure, !.says = says,
                                              !.ready = fit]
                   /\ Kobo!Finish(t, new)
    BY <1>1
  <1>3. DOMAIN new = TabFields /\ new.record = record /\ new.unsure = unsure /\ new.says = says
    BY <1>2, TabIs DEF TabRight, Shape, TabFields
  <1>4. KoboInv' /\ koboTab'[t].says = says
    BY <1>2, <1>3, FinishKeeps
  <1> QED
    BY <1>1, <1>4

LEMMA SucceededKeeps ==
  ASSUME KoboInv, NEW t \in Tabs, Kobo!Succeeded(t), koboTab[t].device # "none", Drive', koboStored' = 0
  PROVE  KoboInv' /\ koboTab'[t].says = "complete"
  <1>1. PICK new : /\ new = [koboTab[t] EXCEPT !.record = 0, !.status = "confirmed", !.says = "complete"]
                   /\ Kobo!Finish(t, new)
    BY DEF Kobo!Succeeded
  <1>2. DOMAIN new = TabFields /\ new.says = "complete"
    BY <1>1, TabIs DEF TabRight, Shape, TabFields
  <1> QED
    BY <1>1, <1>2, FinishKeeps

\* Who is told that nothing was left is told the truth.
Told(t) ==
  koboTab'[t].says = "cancelled" =>
        koboTab[t].says = "cancelled" \/ koboTab[t].name \notin DOMAIN koboFiles'

LEMMA PutIs ==
  ASSUME KoboInv, NEW t \in Tabs, NEW r, koboTab' = [koboTab EXCEPT ![t] = r]
  PROVE  koboTab'[t] = r
  BY DEF KoboInv

LEMMA ConnectKeeps ==
  ASSUME KoboInv, NEW t \in Tabs, Kobo!Connect(t)
  PROVE  KoboInv' /\ Told(t)
  <1>1. PICK q : q = koboTab[t] /\ TabRight(q) /\ (q.device # "none" <=> koboLock = t)
    BY TabIs
  <1>2. PICK r : /\ r = [q EXCEPT !.device = "open", !.record = koboStored, !.unsure = FALSE,
                       !.wanted = TRUE,
                              !.ready = FALSE, !.status = "unknown", !.index = 0]
                 /\ koboTab' = [koboTab EXCEPT ![t] = r]
    BY <1>1 DEF Kobo!Connect, Kobo!Put
  <1>3. UNCHANGED <<koboFiles, koboSeen, koboStored>> /\ q.device = "none" /\ q.point = "idle"
        /\ koboLock = Nobody /\ koboLock' = t
    BY <1>1 DEF Kobo!Connect, Kobo!Busy
  <1>4. TabRight(r) /\ r.says = q.says
    BY <1>1, <1>2, <1>3 DEF TabRight, Shape, Cleared, Written, Alone, RestPoints, LoadPoints,
          NamedPoints, TabFields
  <1>5. (r.device # "none" <=> koboLock' = t) /\ (koboLock' = koboLock \/ {koboLock,
        koboLock'} \subseteq {t, Nobody})
    BY <1>1, <1>2, <1>3, NobodyIsApart DEF TabRight, Shape, TabFields
  <1> QED
    BY <1>1, <1>2, <1>3, <1>4, <1>5, TabStep, PutIs DEF Told

LEMMA CancelKeeps ==
  ASSUME KoboInv, NEW t \in Tabs, Kobo!Cancel(t)
  PROVE  KoboInv' /\ Told(t)
  <1>1. PICK q : q = koboTab[t] /\ TabRight(q) /\ (q.device # "none" <=> koboLock = t)
    BY TabIs
  <1>2. PICK r : /\ r = [q EXCEPT !.aborted = TRUE]
                 /\ koboTab' = [koboTab EXCEPT ![t] = r]
    BY <1>1 DEF Kobo!Cancel, Kobo!Put
  <1>3. UNCHANGED <<koboFiles, koboSeen, koboStored>> /\ koboLock' = koboLock
    BY <1>1 DEF Kobo!Cancel
  <1>4. TabRight(r) /\ r.says = q.says
    BY <1>1, <1>2, <1>3 DEF TabRight, Shape, Cleared, Written, Alone, RestPoints, LoadPoints,
          NamedPoints, TabFields
  <1>5. (r.device # "none" <=> koboLock' = t) /\ (koboLock' = koboLock \/ {koboLock,
        koboLock'} \subseteq {t, Nobody})
    BY <1>1, <1>2, <1>3, NobodyIsApart DEF TabRight, Shape, TabFields
  <1> QED
    BY <1>1, <1>2, <1>3, <1>4, <1>5, TabStep, PutIs DEF Told

LEMMA RefreshKeeps ==
  ASSUME KoboInv, NEW t \in Tabs, Kobo!Refresh(t)
  PROVE  KoboInv' /\ Told(t)
  <1>1. PICK q : q = koboTab[t] /\ TabRight(q) /\ (q.device # "none" <=> koboLock = t)
    BY TabIs
  <1>2. PICK r : /\ r = [q EXCEPT !.wanted = TRUE]
                 /\ koboTab' = [koboTab EXCEPT ![t] = r]
    BY <1>1 DEF Kobo!Refresh, Kobo!Put
  <1>3. UNCHANGED <<koboFiles, koboSeen, koboStored>> /\ koboLock' = koboLock
    BY <1>1 DEF Kobo!Refresh
  <1>4. TabRight(r) /\ r.says = q.says
    BY <1>1, <1>2, <1>3 DEF TabRight, Shape, Cleared, Written, Alone, RestPoints, LoadPoints,
          NamedPoints, TabFields
  <1>5. (r.device # "none" <=> koboLock' = t) /\ (koboLock' = koboLock \/ {koboLock,
        koboLock'} \subseteq {t, Nobody})
    BY <1>1, <1>2, <1>3, NobodyIsApart DEF TabRight, Shape, TabFields
  <1> QED
    BY <1>1, <1>2, <1>3, <1>4, <1>5, TabStep, PutIs DEF Told

LEMMA RefreshBeginsKeeps ==
  ASSUME KoboInv, NEW t \in Tabs, Kobo!RefreshBegins(t)
  PROVE  KoboInv' /\ Told(t)
  <1>1. PICK q : q = koboTab[t] /\ TabRight(q) /\ (q.device # "none" <=> koboLock = t)
    BY TabIs
  <1>2. PICK r : /\ r = [q EXCEPT !.wanted = FALSE, !.ready = FALSE, !.point = "index",
                       !.says = "nothing"]
                 /\ koboTab' = [koboTab EXCEPT ![t] = r]
    BY <1>1 DEF Kobo!RefreshBegins, Kobo!Put
  <1>3. UNCHANGED <<koboFiles, koboSeen, koboStored>> /\ q.point = "idle" /\ koboLock' = koboLock
    BY <1>1 DEF Kobo!RefreshBegins, Kobo!Busy
  <1>4. TabRight(r) /\ r.says # "cancelled"
    BY <1>1, <1>2, <1>3 DEF TabRight, Shape, Cleared, Written, Alone, RestPoints, LoadPoints,
          NamedPoints, TabFields
  <1>5. (r.device # "none" <=> koboLock' = t) /\ (koboLock' = koboLock \/ {koboLock,
        koboLock'} \subseteq {t, Nobody})
    BY <1>1, <1>2, <1>3, NobodyIsApart DEF TabRight, Shape, TabFields
  <1> QED
    BY <1>1, <1>2, <1>3, <1>4, <1>5, TabStep, PutIs DEF Told

LEMMA SendKeeps ==
  ASSUME KoboInv, NEW t \in Tabs, Kobo!Send(t)
  PROVE  KoboInv' /\ Told(t)
  <1>1. PICK q : q = koboTab[t] /\ TabRight(q) /\ (q.device # "none" <=> koboLock = t)
    BY TabIs
  <1>2. PICK r : /\ r = [q EXCEPT !.point = "book", !.sending = koboTab[t].index, !.name = 0,
                       !.owns = FALSE,
                              !.aborted = FALSE, !.says = "nothing"]
                 /\ koboTab' = [koboTab EXCEPT ![t] = r]
    BY <1>1 DEF Kobo!Send, Kobo!Put
  <1>3. UNCHANGED <<koboFiles, koboSeen, koboStored>> /\ q.device = "open" /\ q.point = "idle"
        /\ q.record = 0 /\ ~q.unsure /\ koboLock' = koboLock
    BY <1>1 DEF Kobo!Send, Kobo!Busy, Kobo!Recovery
  <1>4. TabRight(r) /\ r.says # "cancelled"
    BY <1>1, <1>2, <1>3 DEF TabRight, Shape, Cleared, Written, Alone, RestPoints, LoadPoints,
          NamedPoints, TabFields
  <1>5. (r.device # "none" <=> koboLock' = t) /\ (koboLock' = koboLock \/ {koboLock,
        koboLock'} \subseteq {t, Nobody})
    BY <1>1, <1>2, <1>3, NobodyIsApart DEF TabRight, Shape, TabFields
  <1> QED
    BY <1>1, <1>2, <1>3, <1>4, <1>5, TabStep, PutIs DEF Told

LEMMA DisconnectKeeps ==
  ASSUME KoboInv, NEW t \in Tabs, Kobo!Disconnect(t)
  PROVE  KoboInv' /\ Told(t)
  <1>1. PICK q : q = koboTab[t] /\ TabRight(q) /\ (q.device # "none" <=> koboLock = t)
    BY TabIs
  <1>2. PICK dev, aborted, point :
          /\ aborted = (Kobo!Loading(t) \/ Kobo!Sending(t))
          /\ dev = (IF Kobo!Sending(t) THEN "closed" ELSE "none")
          /\ point = (IF q.point \in {"index", "compare"} THEN "idle" ELSE q.point)
          /\ koboTab' = [koboTab EXCEPT ![t] =
               [koboTab[t] EXCEPT !.device = dev, !.aborted = aborted, !.ready = FALSE, !.wanted = FALSE,
                                  !.index = 0, !.status = "unknown", !.point = point]]
    BY <1>1 DEF Kobo!Disconnect, Kobo!Put, Kobo!ReadPoints
  <1>3. PICK r : /\ r = [q EXCEPT !.device = dev, !.aborted = aborted, !.ready = FALSE, !.wanted = FALSE,
                                 !.index = 0, !.status = "unknown", !.point = point]
                 /\ koboTab' = [koboTab EXCEPT ![t] = r]
    BY <1>1, <1>2
  <1>4. /\ UNCHANGED <<koboFiles, koboSeen, koboStored>> /\ q.device = "open" /\ koboLock = t
        /\ koboLock' = IF Kobo!Sending(t) THEN koboLock ELSE Nobody
    BY <1>1 DEF Kobo!Disconnect
  <1>5. Kobo!Sending(t) <=> q.point \in {"find", "name"} \cup NamedPoints
    BY <1>1 DEF Kobo!Sending, Kobo!WritePoints, NamedPoints
  <1>9. q.point \in LoadPoints => aborted = TRUE
    BY <1>1, <1>2 DEF Kobo!Loading, Kobo!LoadPoints, LoadPoints
  <1>6. TabRight(r) /\ r.says = q.says /\ r.device = dev
    BY <1>1, <1>2, <1>3, <1>4, <1>5, <1>9 DEF TabRight, Shape, Cleared, Written, Alone, RestPoints,
          LoadPoints, NamedPoints, TabFields
  <1>7. (r.device # "none" <=> koboLock' = t) /\ {koboLock, koboLock'} \subseteq {t, Nobody}
    BY <1>2, <1>4, <1>6, NobodyIsApart
  <1> QED
    BY <1>1, <1>3, <1>4, <1>6, <1>7, TabStep, PutIs DEF Told

\* A step that only moves a tab among the points before its write.
LEMMA RestKeeps ==
  ASSUME KoboInv, NEW t \in Tabs, NEW r, koboTab' = [koboTab EXCEPT ![t] = r],
         DOMAIN r = TabFields, r.device = koboTab[t].device, r.record = koboTab[t].record,
         r.unsure = koboTab[t].unsure, r.name = 0, r.point \in RestPoints \cup LoadPoints,
         r.point \in LoadPoints => koboTab[t].point \in LoadPoints /\ r.aborted = koboTab[t].aborted,
         UNCHANGED <<koboFiles, koboSeen, koboStored, koboLock>>
  PROVE  KoboInv'
  <1>0. TabRight(koboTab[t]) /\ r.point \notin NamedPoints \cup {"find", "name"}
    BY TabIs DEF RestPoints, LoadPoints, NamedPoints
  <1>2. Shape(r)
    BY <1>0 DEF TabRight, Shape, RestPoints, LoadPoints, NamedPoints
  <1>3. Cleared(r)
    BY <1>0 DEF TabRight, Cleared
  <1>4. Written(r) /\ Alone(r)
    BY <1>0 DEF Written, Alone, NamedPoints
  <1>1. TabRight(r)
    BY <1>2, <1>3, <1>4 DEF TabRight
  <1> QED
    BY <1>1, TabIs, TabStep

LEMMA ReadIndexKeeps ==
  ASSUME KoboInv, NEW t \in Tabs, Kobo!ReadIndex(t)
  PROVE  KoboInv' /\ Told(t)
  <1>1. PICK q : q = koboTab[t] /\ TabRight(q)
    BY TabIs
  <1>2. PICK r : /\ r = [q EXCEPT !.point = "compare",
                       !.sending = koboEdition] \/ r = [q EXCEPT !.point = "idle"]
                 /\ koboTab' = [koboTab EXCEPT ![t] = r]
    BY <1>1 DEF Kobo!ReadIndex, Kobo!Go, Kobo!Put
  <1>3. q.point = "index" /\ UNCHANGED <<koboFiles, koboSeen, koboStored, koboLock>>
    BY <1>1 DEF Kobo!ReadIndex
  <1>4. /\ DOMAIN r = TabFields /\ r.device = q.device /\ r.record = q.record /\ r.unsure = q.unsure
        /\ r.name = 0 /\ r.point \in RestPoints /\ r.says = q.says
    BY <1>1, <1>2, <1>3 DEF TabRight, Shape, TabFields, RestPoints, NamedPoints
  <1>5. r.point \in RestPoints \cup LoadPoints /\ r.point \notin LoadPoints
    BY <1>4 DEF RestPoints, LoadPoints
  <1>6. KoboInv'
    BY <1>1, <1>2, <1>3, <1>4, <1>5, RestKeeps
  <1> QED
    BY <1>1, <1>2, <1>4, <1>6, PutIs DEF Told

LEMMA CompareKeeps ==
  ASSUME KoboInv, NEW t \in Tabs, Kobo!Compare(t)
  PROVE  KoboInv' /\ Told(t)
  <1>1. PICK q : q = koboTab[t] /\ TabRight(q)
    BY TabIs
  <1>2. PICK r, index, status :
          /\ \/ r = [q EXCEPT !.point = "idle", !.ready = TRUE, !.sending = 0, !.index = index,
                              !.status = status]
             \/ r = [q EXCEPT !.point = "idle", !.sending = 0]
          /\ koboTab' = [koboTab EXCEPT ![t] = r]
    BY <1>1 DEF Kobo!Compare, Kobo!Put
  <1>3. q.point = "compare" /\ UNCHANGED <<koboFiles, koboSeen, koboStored, koboLock>>
    BY <1>1 DEF Kobo!Compare
  <1>4. /\ DOMAIN r = TabFields /\ r.device = q.device /\ r.record = q.record /\ r.unsure = q.unsure
        /\ r.name = 0 /\ r.point = "idle" /\ r.says = q.says
    BY <1>1, <1>2, <1>3 DEF TabRight, Shape, TabFields, NamedPoints
  <1>5. r.point \in RestPoints \cup LoadPoints /\ r.point \notin LoadPoints
    BY <1>4 DEF RestPoints, LoadPoints
  <1>6. KoboInv'
    BY <1>1, <1>2, <1>3, <1>4, <1>5, RestKeeps
  <1> QED
    BY <1>1, <1>2, <1>4, <1>6, PutIs DEF Told

\* The send gives up before the device took over: it has no file.
LEMMA GiveUpKeeps ==
  ASSUME KoboInv, NEW t \in Tabs, koboTab[t].point \in LoadPoints, Kobo!GiveUp(t),
         UNCHANGED <<koboFiles, koboSeen, koboStored, koboLock>>
  PROVE  KoboInv' /\ Told(t)
  <1>1. PICK q : q = koboTab[t] /\ TabRight(q)
    BY TabIs
  <1>2. PICK r, says, fit :
          /\ r = [q EXCEPT !.point = "idle", !.sending = 0, !.aborted = FALSE, !.says = says,
                !.ready = fit]
          /\ koboTab' = [koboTab EXCEPT ![t] = r]
    BY <1>1 DEF Kobo!GiveUp, Kobo!Put
  <1>3. q.name = 0
    BY <1>1 DEF TabRight, Shape, LoadPoints, NamedPoints
  <1>4. /\ DOMAIN r = TabFields /\ r.device = q.device /\ r.record = q.record /\ r.unsure = q.unsure
        /\ r.name = 0 /\ r.point = "idle"
    BY <1>1, <1>2, <1>3 DEF TabRight, Shape, TabFields
  <1>5. KoboInv'
    BY <1>1, <1>2, <1>4, RestKeeps DEF RestPoints, LoadPoints
  <1>6. koboTab[t].name \notin DOMAIN koboFiles'
    BY <1>1, <1>3, <1>5, NameIsNotZero DEF KoboInv, Drive
  <1> QED
    BY <1>5, <1>6 DEF Told

LEMMA LoadKeeps ==
  ASSUME KoboInv, NEW t \in Tabs, NEW here \in LoadPoints, NEW next \in LoadPoints, NEW accepts,
         Kobo!SessionStep(t, here, next, accepts)
  PROVE  KoboInv' /\ Told(t)
  <1>1. koboTab[t].point = here /\ UNCHANGED <<koboFiles, koboSeen, koboStored, koboLock>>
    BY DEF Kobo!SessionStep
  <1>2. CASE Kobo!GiveUp(t)
    BY <1>1, <1>2, GiveUpKeeps
  <1>3. CASE Kobo!Go(t, next)
    <2>1. PICK q : q = koboTab[t] /\ TabRight(q)
      BY TabIs
    <2>2. PICK r : r = [q EXCEPT !.point = next] /\ koboTab' = [koboTab EXCEPT ![t] = r]
      BY <1>3, <2>1 DEF Kobo!Go, Kobo!Put
    <2>3. /\ DOMAIN r = TabFields /\ r.device = q.device /\ r.record = q.record /\ r.unsure = q.unsure
          /\ r.name = 0 /\ r.point = next /\ r.says = q.says /\ r.aborted = q.aborted
      BY <1>1, <2>1, <2>2 DEF TabRight, Shape, TabFields, LoadPoints, NamedPoints
    <2> QED
      BY <1>1, <2>1, <2>2, <2>3, RestKeeps, PutIs DEF Told
  <1> QED
    BY <1>2, <1>3 DEF Kobo!SessionStep

LEMMA ReadBookAgainKeeps ==
  ASSUME KoboInv, NEW t \in Tabs, Kobo!ReadBookAgain(t)
  PROVE  KoboInv' /\ Told(t)
  <1>1. koboTab[t].point = "recheck" /\ UNCHANGED <<koboFiles, koboSeen, koboStored, koboLock>>
    BY DEF Kobo!ReadBookAgain, Kobo!SessionStep
  <1>2. CASE Kobo!GiveUp(t)
    BY <1>1, <1>2, GiveUpKeeps DEF LoadPoints
  <1>3. CASE Kobo!Go(t, "find") /\ ~koboTab[t].aborted
    <2>1. PICK q : q = koboTab[t] /\ TabRight(q)
      BY TabIs
    <2>2. PICK r : r = [q EXCEPT !.point = "find"] /\ koboTab' = [koboTab EXCEPT ![t] = r]
      BY <1>3, <2>1 DEF Kobo!Go, Kobo!Put
    <2>3. TabRight(r) /\ r.says = q.says /\ r.device = q.device
      BY <1>1, <1>3, <2>1, <2>2 DEF TabRight, Shape, Cleared, Written, Alone, RestPoints, LoadPoints,
            NamedPoints, TabFields
    <2> QED
      BY <1>1, <2>1, <2>2, <2>3, TabIs, TabStep, PutIs DEF Told
  <1>4. Kobo!GiveUp(t) \/ (Kobo!Go(t, "find") /\ ~koboTab[t].aborted)
    BY DEF Kobo!ReadBookAgain, Kobo!SessionStep
  <1> QED
    BY <1>2, <1>3, <1>4

LEMMA LockIsHeld ==
  ASSUME KoboInv, NEW t \in Tabs, koboTab[t].point \in {"find", "name"} \cup NamedPoints
  PROVE  koboTab[t].device # "none" /\ koboLock = t
  BY TabIs DEF TabRight, Shape

\* Before a file is created its name is none of the drive's.
LEMMA NoFileYet ==
  ASSUME KoboInv, NEW t \in Tabs, koboTab[t].point \in {"find", "name"}
  PROVE  /\ koboTab[t].name = 0 /\ koboTab[t].name \notin DOMAIN koboFiles
         /\ koboTab[t].record = 0 /\ ~koboTab[t].unsure /\ koboStored = 0
  <1>1. koboTab[t].name = 0 /\ koboTab[t].record = 0 /\ ~koboTab[t].unsure /\ koboStored = 0
    BY TabIs DEF TabRight, Shape, Cleared, NamedPoints
  <1> QED
    BY <1>1, NameIsNotZero DEF KoboInv, Drive

\* A send that ends without a file of its own.
LEMMA EndKeeps ==
  ASSUME KoboInv, NEW t \in Tabs, koboTab[t].point \in {"find", "name"}, UNCHANGED <<koboFiles,
        koboSeen>>,
         \/ koboStored' = koboStored /\ Kobo!Failed(t, koboTab[t].record, koboTab[t].unsure)
         \/ koboStored' \in Kobo!Names /\ Kobo!Failed(t, koboTab[t].record, TRUE)
         \/ koboStored' = koboStored /\ Kobo!Failed(t, koboTab[t].record, TRUE)
         \/ koboStored' = koboStored /\ Kobo!Succeeded(t)
  PROVE  KoboInv' /\ Told(t)
  <1>1. Drive'
    BY NoFileYet, NameIsNotZero DEF KoboInv, Drive
  <1>2. koboTab[t].name \notin DOMAIN koboFiles'
    BY NoFileYet
  <1>3. koboTab[t].device # "none"
    BY LockIsHeld
  <1>4. CASE koboStored' = koboStored /\ Kobo!Failed(t, koboTab[t].record, koboTab[t].unsure)
    BY <1>1, <1>2, <1>3, <1>4, NoFileYet, FailedKeeps DEF Told
  <1>5. CASE Kobo!Failed(t, koboTab[t].record, TRUE)
    BY <1>1, <1>2, <1>3, <1>5, FailedKeeps DEF Told
  <1>6. CASE koboStored' = koboStored /\ Kobo!Succeeded(t)
    BY <1>1, <1>2, <1>3, <1>6, NoFileYet, SucceededKeeps DEF Told
  <1> QED
    BY <1>4, <1>5, <1>6

LEMMA FindCopyIs ==
  ASSUME NEW t \in Tabs, Kobo!FindCopy(t)
  PROVE  \/ Kobo!Failed(t, koboTab[t].record, koboTab[t].unsure)
         \/ Kobo!Succeeded(t)
         \/ Kobo!Verdict(koboTab[t].sending) = "absent" /\ Kobo!Go(t, "name") /\ UNCHANGED koboLock
  <1>1. PICK verdict : verdict = Kobo!Verdict(koboTab[t].sending)
    OBVIOUS
  <1>2. verdict \in {"absent", "confirmed", "unknown"}
    BY <1>1 DEF Kobo!Verdict
  <1>3. \/ Kobo!Failed(t, koboTab[t].record, koboTab[t].unsure)
          \/ CASE verdict = "unknown" -> Kobo!Failed(t, koboTab[t].record, koboTab[t].unsure)
               [] verdict = "confirmed" -> Kobo!Succeeded(t)
               [] verdict = "absent" -> Kobo!Go(t, "name") /\ UNCHANGED koboLock
    BY <1>1 DEF Kobo!FindCopy
  <1> QED
    BY <1>1, <1>2, <1>3

LEMMA FindCopyKeeps ==
  ASSUME KoboInv, NEW t \in Tabs, Kobo!FindCopy(t)
  PROVE  KoboInv' /\ Told(t)
  <1>1. koboTab[t].point = "find" /\ UNCHANGED <<koboFiles, koboSeen, koboStored>>
    BY DEF Kobo!FindCopy
  <1>2. \/ Kobo!Failed(t, koboTab[t].record, koboTab[t].unsure)
        \/ Kobo!Succeeded(t)
        \/ Kobo!Verdict(koboTab[t].sending) = "absent" /\ Kobo!Go(t, "name") /\ UNCHANGED koboLock
    BY FindCopyIs
  <1>3. CASE Kobo!Failed(t, koboTab[t].record, koboTab[t].unsure) \/ Kobo!Succeeded(t)
    BY <1>1, <1>3, EndKeeps
  <1>4. CASE Kobo!Verdict(koboTab[t].sending) = "absent" /\ Kobo!Go(t, "name") /\ UNCHANGED koboLock
    <2>1. PICK q : q = koboTab[t] /\ TabRight(q) /\ (q.device # "none" <=> koboLock = t)
      BY TabIs
    <2>2. PICK r : r = [q EXCEPT !.point = "name"] /\ koboTab' = [koboTab EXCEPT ![t] = r]
      BY <1>4, <2>1 DEF Kobo!Go, Kobo!Put
    <2>3. Kobo!Copies(q.sending) = {}
      BY <1>4, <2>1 DEF Kobo!Verdict
    <2>4. \A n \in DOMAIN koboFiles : koboFiles[n].edition # q.sending
      BY <2>3 DEF Kobo!Copies
    <2>5. TabRight(r) /\ r.says = q.says /\ r.device = q.device
      BY <1>1, <2>1, <2>2, <2>4 DEF TabRight, Shape, Cleared, Written, Alone, RestPoints, LoadPoints,
            NamedPoints, TabFields
    <2> QED
      BY <1>1, <1>4, <2>1, <2>2, <2>5, TabStep, PutIs DEF Told
  <1> QED
    BY <1>2, <1>3, <1>4

LEMMA NewNameIsFresh ==
  ASSUME Kobo!Fresh # {}
  PROVE  /\ Kobo!NewName \in Kobo!Names /\ Kobo!NewName \notin DOMAIN koboFiles
         /\ Kobo!NewName \notin koboSeen
  <1>1. Kobo!NewName \in Kobo!Fresh
    BY DEF Kobo!NewName
  <1> QED
    BY <1>1 DEF Kobo!Fresh

LEMMA JournalKeeps ==
  ASSUME KoboInv, NEW t \in Tabs, Kobo!Journal(t)
  PROVE  KoboInv' /\ Told(t)
  <1>1. koboTab[t].point = "name" /\ UNCHANGED <<koboFiles, koboSeen>> /\ Kobo!Fresh # {}
    BY DEF Kobo!Journal
  <1>2. PICK n : n = Kobo!NewName /\ n \in Kobo!Names /\ n # 0
    BY <1>1, NewNameIsFresh, NameIsNotZero
  <1>3. \/ Kobo!Failed(t, koboTab[t].record, koboTab[t].unsure) /\ koboStored' = koboStored
        \/ Kobo!Failed(t, koboTab[t].record, TRUE) /\ koboStored' \in {koboStored, n}
        \/ /\ koboStored' = n /\ koboLock' = koboLock
           /\ Kobo!Put(t, [koboTab[t] EXCEPT !.point = "create", !.name = n, !.record = n])
    BY <1>2 DEF Kobo!Journal
  <1>4. CASE \/ Kobo!Failed(t, koboTab[t].record, koboTab[t].unsure) /\ koboStored' = koboStored
             \/ Kobo!Failed(t, koboTab[t].record, TRUE) /\ koboStored' \in {koboStored, n}
    BY <1>1, <1>2, <1>4, EndKeeps
  <1>5. CASE /\ koboStored' = n /\ koboLock' = koboLock
             /\ Kobo!Put(t, [koboTab[t] EXCEPT !.point = "create", !.name = n, !.record = n])
    <2>1. PICK q : q = koboTab[t] /\ TabRight(q) /\ q.device # "none" /\ koboLock = t
      BY <1>1, TabIs, LockIsHeld
    <2>2. PICK r : /\ r = [q EXCEPT !.point = "create", !.name = n, !.record = n]
                   /\ koboTab' = [koboTab EXCEPT ![t] = r]
      BY <1>5, <2>1 DEF Kobo!Put
    <2>3. Drive'
      BY <1>1, NoFileYet, NameIsNotZero DEF KoboInv, Drive
    <2>4. TabRight(r)' /\ r.says = q.says /\ r.device = q.device
      BY <1>1, <1>2, <1>5, <2>1, <2>2 DEF TabRight, Shape, Cleared, Written, Alone, RestPoints,
            LoadPoints, NamedPoints, TabFields
    <2> QED
      BY <1>5, <2>1, <2>2, <2>3, <2>4, DriveStep, PutIs DEF Told
  <1> QED
    BY <1>3, <1>4, <1>5

\* A step of the writer that changes the one file it writes.
LEMMA WriterStep ==
  ASSUME KoboInv, NEW t \in Tabs, NEW r, koboTab' = [koboTab EXCEPT ![t] = r], koboLock' = koboLock,
         koboTab[t].point \in NamedPoints, DOMAIN r = TabFields, r.point \in NamedPoints,
         r.device = koboTab[t].device, r.record = koboTab[t].record, r.name = koboTab[t].name,
         r.unsure = koboTab[t].unsure \/ r.unsure = TRUE, r.says = koboTab[t].says,
         ~(r.record = 0 /\ ~r.unsure) \/ koboStored' = koboStored, Drive', Written(r)', Alone(r)'
  PROVE  KoboInv' /\ Told(t)
  <1>1. PICK q : q = koboTab[t] /\ TabRight(q) /\ q.device # "none" /\ koboLock = t
    BY TabIs, LockIsHeld
  <1>2. TabRight(r)'
    BY <1>1 DEF TabRight, Shape, Cleared, Written, Alone, RestPoints, LoadPoints, NamedPoints, TabFields
  <1>3. KoboInv'
    BY <1>1, <1>2, DriveStep
  <1> QED
    BY <1>3, PutIs DEF Told

LEMMA CreatedDrive ==
  ASSUME KoboInv, NEW t \in Tabs, koboTab[t].point = "create", koboFiles' = Kobo!Created(t),
         UNCHANGED <<koboSeen, koboStored>>
  PROVE  /\ Drive' /\ koboTab[t].name \in DOMAIN koboFiles'
         /\ koboFiles'[koboTab[t].name].edition = koboTab[t].sending
         /\ \A n \in DOMAIN koboFiles' : koboFiles'[n].edition = koboTab[t].sending =>
               n = koboTab[t].name
  <1>1. PICK q : q = koboTab[t] /\ TabRight(q)
    BY TabIs
  <1>2. /\ q.name \in Kobo!Names /\ koboStored = q.name
        /\ \A n \in DOMAIN koboFiles : koboFiles[n].edition # q.sending
    BY <1>1 DEF TabRight, Shape, Written, Alone, NamedPoints
  <1>3. /\ DOMAIN koboFiles' = DOMAIN koboFiles \cup {q.name}
        /\ koboFiles'[q.name] = [edition |-> q.sending, state |-> "empty"]
        /\ \A n \in DOMAIN koboFiles : n # q.name => koboFiles'[n] = koboFiles[n]
    BY <1>1 DEF Kobo!Created
  <1>4. Drive'
    BY <1>2, <1>3 DEF KoboInv, Drive
  <1> QED
    BY <1>1, <1>2, <1>3, <1>4

LEMMA CreateFileKeeps ==
  ASSUME KoboInv, NEW t \in Tabs, Kobo!CreateFile(t)
  PROVE  KoboInv' /\ Told(t)
  <1>1. koboTab[t].point = "create" /\ UNCHANGED <<koboSeen, koboStored, koboLock>>
    BY DEF Kobo!CreateFile
  <1>2. PICK q : q = koboTab[t] /\ TabRight(q)
    BY TabIs
  <1>3. PICK next \in {"own", "cleanup"} :
          /\ koboFiles' = Kobo!Created(t) \/ (koboFiles' = koboFiles /\ next = "cleanup")
          /\ Kobo!Go(t, next)
    BY DEF Kobo!CreateFile
  <1>4. PICK r : r = [q EXCEPT !.point = next] /\ koboTab' = [koboTab EXCEPT ![t] = r]
    BY <1>2, <1>3 DEF Kobo!Go, Kobo!Put
  <1>5. /\ DOMAIN r = TabFields /\ r.point = next /\ r.device = q.device /\ r.record = q.record
        /\ r.name = q.name /\ r.unsure = q.unsure /\ r.says = q.says /\ r.sending = q.sending
    BY <1>2, <1>4 DEF TabRight, Shape, TabFields
  <1>6. Drive' /\ Written(r)' /\ Alone(r)'
    <2>1. koboStored = q.name /\ \A n \in DOMAIN koboFiles : koboFiles[n].edition # q.sending
      BY <1>1, <1>2 DEF TabRight, Written, Alone, NamedPoints
    <2>2. CASE koboFiles' = Kobo!Created(t)
      BY <1>1, <1>2, <1>3, <1>5, <2>1, <2>2, CreatedDrive DEF Written, Alone, NamedPoints
    <2>3. CASE koboFiles' = koboFiles /\ next = "cleanup"
      BY <1>1, <1>2, <1>5, <2>1, <2>3, DriveStays DEF Written, Alone, NamedPoints
    <2> QED
      BY <1>3, <2>2, <2>3
  <1>7. r.point \in NamedPoints /\ koboTab[t].point \in NamedPoints
    BY <1>1, <1>3, <1>5 DEF NamedPoints
  <1> QED
    BY <1>1, <1>2, <1>4, <1>5, <1>6, <1>7, WriterStep

\* A step of the writer that leaves the drive alone.
LEMMA WriterMoves ==
  ASSUME KoboInv, NEW t \in Tabs, NEW owns, NEW next \in {"write", "close", "cleanup"},
         koboTab[t].point \in {"own", "write", "verify"},
         koboTab' = [koboTab EXCEPT ![t] = [koboTab[t] EXCEPT !.point = next, !.owns = owns]],
         UNCHANGED <<koboFiles, koboSeen, koboStored, koboLock>>
  PROVE  KoboInv' /\ Told(t)
  <1>1. PICK q : q = koboTab[t] /\ TabRight(q)
    BY TabIs
  <1>2. PICK r : r = [q EXCEPT !.point = next, !.owns = owns] /\ koboTab' = [koboTab EXCEPT ![t] = r]
    BY <1>1
  <1>3. /\ DOMAIN r = TabFields /\ r.point = next /\ r.device = q.device /\ r.record = q.record
        /\ r.name = q.name /\ r.unsure = q.unsure /\ r.says = q.says /\ r.sending = q.sending
    BY <1>1, <1>2 DEF TabRight, Shape, TabFields
  <1>4. Written(r)' /\ Alone(r)'
    BY <1>1, <1>3 DEF TabRight, Written, Alone, NamedPoints
  <1>5. r.point \in NamedPoints /\ koboTab[t].point \in NamedPoints
    BY <1>3 DEF NamedPoints
  <1> QED
    BY <1>1, <1>2, <1>3, <1>4, <1>5, DriveStays, WriterStep

LEMMA OwnFileKeeps ==
  ASSUME KoboInv, NEW t \in Tabs, Kobo!OwnFile(t)
  PROVE  KoboInv' /\ Told(t)
  <1>1. koboTab[t].point = "own" /\ UNCHANGED <<koboFiles, koboSeen, koboStored, koboLock>>
    BY ZenonT(30) DEF Kobo!OwnFile
  <1>2. CASE Kobo!Fault /\ \E checked \in BOOLEAN :
               Kobo!Put(t, [koboTab[t] EXCEPT !.point = "cleanup", !.owns = checked])
    <2>0. PICK owns : Kobo!Put(t, [koboTab[t] EXCEPT !.point = "cleanup", !.owns = owns])
      BY <1>2, Zenon
    <2>1. koboTab' = [koboTab EXCEPT ![t] = [koboTab[t] EXCEPT !.point = "cleanup", !.owns = owns]]
      BY <2>0 DEF Kobo!Put
    <2>2. koboTab[t].point \in {"own", "write", "verify"} /\ "cleanup" \in {"write", "close", "cleanup"}
      BY <1>1
    <2> QED
      BY <1>1, <2>1, <2>2, WriterMoves, Zenon
  <1>3. CASE Kobo!Put(t, [koboTab[t] EXCEPT !.owns = TRUE,
                                            !.point = IF Kobo!Valid(t) THEN "write" ELSE "cleanup"])
    <2>1. PICK next \in {"write", "cleanup"} :
            koboTab' = [koboTab EXCEPT ![t] = [koboTab[t] EXCEPT !.owns = TRUE, !.point = next]]
      BY <1>3 DEF Kobo!Put
    <2>2. [koboTab[t] EXCEPT !.owns = TRUE, !.point = next] = [koboTab[t] EXCEPT !.point = next,
          !.owns = TRUE]
      BY TabIs DEF TabRight, Shape, TabFields
    <2>3. koboTab' = [koboTab EXCEPT ![t] = [koboTab[t] EXCEPT !.point = next, !.owns = TRUE]]
      BY <2>1, <2>2
    <2>4. koboTab[t].point \in {"own", "write", "verify"} /\ next \in {"write", "close", "cleanup"}
      BY <1>1
    <2> QED
      BY <1>1, <2>3, <2>4, WriterMoves, Zenon
  <1> QED
    BY <1>2, <1>3, ZenonT(30) DEF Kobo!OwnFile

LEMMA WriteChunksKeeps ==
  ASSUME KoboInv, NEW t \in Tabs, Kobo!WriteChunks(t)
  PROVE  KoboInv' /\ Told(t)
  <1>1. koboTab[t].point = "write" /\ UNCHANGED <<koboFiles, koboSeen, koboStored, koboLock>>
    BY ZenonT(30) DEF Kobo!WriteChunks
  <1>2. \/ \E next \in {"close", "cleanup"} : Kobo!Go(t, next)
        \/ \E owns : Kobo!Put(t, [koboTab[t] EXCEPT !.point = "cleanup", !.owns = owns])
    BY ZenonT(30) DEF Kobo!WriteChunks
  <1>3. CASE \E next \in {"close", "cleanup"} : Kobo!Go(t, next)
    <2>1. PICK next \in {"close", "cleanup"} : Kobo!Go(t, next)
      BY <1>3
    <2>2. [koboTab[t] EXCEPT !.point = next] = [koboTab[t] EXCEPT !.point = next,
          !.owns = koboTab[t].owns]
      BY TabIs DEF TabRight, Shape, TabFields
    <2>3. koboTab' = [koboTab EXCEPT ![t] = [koboTab[t] EXCEPT !.point = next, !.owns = koboTab[t].owns]]
      BY <2>1, <2>2 DEF Kobo!Go, Kobo!Put
    <2>4. koboTab[t].point \in {"own", "write", "verify"} /\ next \in {"write", "close", "cleanup"}
      BY <1>1
    <2> QED
      BY <1>1, <2>3, <2>4, WriterMoves, Zenon
  <1>4. CASE \E owns : Kobo!Put(t, [koboTab[t] EXCEPT !.point = "cleanup", !.owns = owns])
    <2>0. PICK owns : Kobo!Put(t, [koboTab[t] EXCEPT !.point = "cleanup", !.owns = owns])
      BY <1>4, Zenon
    <2>1. koboTab' = [koboTab EXCEPT ![t] = [koboTab[t] EXCEPT !.point = "cleanup", !.owns = owns]]
      BY <2>0 DEF Kobo!Put
    <2>2. koboTab[t].point \in {"own", "write", "verify"} /\ "cleanup" \in {"write", "close", "cleanup"}
      BY <1>1
    <2> QED
      BY <1>1, <2>1, <2>2, WriterMoves, Zenon
  <1> QED
    BY <1>2, <1>3, <1>4, Zenon

\* The one file a send may change is the recorded one, and the only one of its
\* edition.
LEMMA InStateDrive ==
  ASSUME KoboInv, NEW t \in Tabs, koboTab[t].point = "close", NEW state \in {"empty", "part", "full"},
         koboFiles' = Kobo!InState(koboTab[t].name, state), UNCHANGED <<koboSeen, koboStored>>
  PROVE  /\ Drive' /\ DOMAIN koboFiles' = DOMAIN koboFiles
         /\ koboFiles'[koboTab[t].name].state = state
         /\ \A n \in DOMAIN koboFiles : koboFiles'[n].edition = koboFiles[n].edition
  <1>1. PICK q : q = koboTab[t] /\ TabRight(q)
    BY TabIs
  <1>2. /\ q.name \in DOMAIN koboFiles /\ koboStored = q.name /\ koboFiles[q.name].edition = q.sending
        /\ \A n \in DOMAIN koboFiles : koboFiles[n].edition = q.sending => n = q.name
    BY <1>1 DEF TabRight, Written, Alone, NamedPoints
  <1>3. PICK file : file = [koboFiles[q.name] EXCEPT !.state = state]
    OBVIOUS
  <1>4. koboFiles' = [koboFiles EXCEPT ![q.name] = file]
    BY <1>1, <1>3 DEF Kobo!InState
  <1>5. DOMAIN file = {"edition", "state"} /\ file.state = state /\ file.edition = q.sending
    BY <1>2, <1>3 DEF KoboInv, Drive
  <1>6. /\ DOMAIN koboFiles' = DOMAIN koboFiles /\ koboFiles'[q.name] = file
        /\ \A n \in DOMAIN koboFiles : n # q.name => koboFiles'[n] = koboFiles[n]
    BY <1>2, <1>4
  <1>7. \A n \in DOMAIN koboFiles : koboFiles'[n].edition = koboFiles[n].edition
    BY <1>2, <1>5, <1>6
  <1>8. Drive'
    BY <1>2, <1>5, <1>6 DEF KoboInv, Drive
  <1> QED
    BY <1>1, <1>5, <1>6, <1>7, <1>8

LEMMA CloseFileKeeps ==
  ASSUME KoboInv, NEW t \in Tabs, Kobo!CloseFile(t)
  PROVE  KoboInv' /\ Told(t)
  <1>1. koboTab[t].point = "close" /\ UNCHANGED <<koboSeen, koboStored, koboLock>>
    BY ZenonT(30) DEF Kobo!CloseFile
  <1>2. PICK q : q = koboTab[t] /\ TabRight(q)
    BY TabIs
  <1>3. PICK state \in {"empty", "part", "full"} :
          /\ koboFiles' = Kobo!InState(koboTab[t].name, state)
          /\ \/ state = "full" /\ Kobo!Go(t, "verify")
             \/ \E owns : Kobo!Put(t, [koboTab[t] EXCEPT !.point = "cleanup", !.owns = owns])
    BY ZenonT(30) DEF Kobo!CloseFile
  <1>4. PICK r : /\ koboTab' = [koboTab EXCEPT ![t] = r]
                 /\ DOMAIN r = TabFields /\ r.device = q.device /\ r.record = q.record /\ r.name = q.name
                 /\ r.unsure = q.unsure /\ r.says = q.says /\ r.sending = q.sending
                 /\ r.point = "cleanup" \/ (r.point = "verify" /\ state = "full")
    <2>1. CASE state = "full" /\ Kobo!Go(t, "verify")
      <3>1. PICK r : r = [q EXCEPT !.point = "verify"] /\ koboTab' = [koboTab EXCEPT ![t] = r]
        BY <1>2, <2>1 DEF Kobo!Go, Kobo!Put
      <3>2. DOMAIN q = TabFields
        BY <1>2 DEF TabRight, Shape
      <3>3. DOMAIN r = TabFields /\ r.point = "verify" /\ r.sending = q.sending /\ r.says = q.says
        BY <3>1, <3>2 DEF TabFields
      <3>4. r.device = q.device /\ r.record = q.record /\ r.name = q.name /\ r.unsure = q.unsure
        BY <3>1, <3>2 DEF TabFields
      <3> QED
        BY <2>1, <3>1, <3>3, <3>4
    <2>2. CASE \E owns : Kobo!Put(t, [koboTab[t] EXCEPT !.point = "cleanup", !.owns = owns])
      <3>0. PICK owns : Kobo!Put(t, [koboTab[t] EXCEPT !.point = "cleanup", !.owns = owns])
        BY <2>2, Zenon
      <3>1. koboTab' = [koboTab EXCEPT ![t] = [koboTab[t] EXCEPT !.point = "cleanup", !.owns = owns]]
        BY <3>0 DEF Kobo!Put
      <3>2. PICK r : r = [q EXCEPT !.point = "cleanup", !.owns = owns]
            /\ koboTab' = [koboTab EXCEPT ![t] = r]
        BY <1>2, <3>1
      <3>3. DOMAIN q = TabFields
        BY <1>2 DEF TabRight, Shape
      <3>4. DOMAIN r = TabFields /\ r.point = "cleanup" /\ r.sending = q.sending /\ r.says = q.says
        BY <3>2, <3>3 DEF TabFields
      <3>5. r.device = q.device /\ r.record = q.record /\ r.name = q.name /\ r.unsure = q.unsure
        BY <3>2, <3>3 DEF TabFields
      <3> QED
        BY <3>2, <3>4, <3>5
    <2> QED
      BY <1>3, <2>1, <2>2, Zenon
  <1>6. /\ Drive' /\ DOMAIN koboFiles' = DOMAIN koboFiles /\ koboFiles'[q.name].state = state
        /\ \A n \in DOMAIN koboFiles : koboFiles'[n].edition = koboFiles[n].edition
    <2>1. koboFiles' = Kobo!InState(koboTab[t].name, state)
      BY <1>3, Zenon
    <2> QED
      BY <1>1, <1>2, <2>1, InStateDrive
  <1>7. Written(r)' /\ Alone(r)'
    BY <1>1, <1>2, <1>4, <1>6 DEF TabRight, Written, Alone, NamedPoints
  <1>8. r.point \in NamedPoints /\ koboTab[t].point \in NamedPoints
    BY <1>1, <1>4 DEF NamedPoints
  <1> QED
    BY <1>1, <1>2, <1>4, <1>6, <1>7, <1>8, WriterStep

\* The record may go when the file it names is whole.
LEMMA ClearedDrive ==
  ASSUME KoboInv, NEW t \in Tabs, koboTab[t].point = "verify", UNCHANGED <<koboFiles, koboSeen>>
  PROVE  Drive'
  <1>1. koboStored = koboTab[t].name /\ koboFiles[koboTab[t].name].state = "full"
    BY TabIs DEF TabRight, Written, NamedPoints
  <1> QED
    BY <1>1 DEF KoboInv, Drive

LEMMA VerifyFileKeeps ==
  ASSUME KoboInv, NEW t \in Tabs, Kobo!VerifyFile(t)
  PROVE  KoboInv' /\ Told(t)
  <1>1. koboTab[t].point = "verify" /\ UNCHANGED <<koboFiles, koboSeen>>
    BY DEF Kobo!VerifyFile
  <1>2. PICK q : q = koboTab[t] /\ TabRight(q) /\ q.device # "none"
    BY <1>1, TabIs, LockIsHeld DEF NamedPoints
  <1>3. Drive'
    BY <1>1, ClearedDrive
  <1>4. \/ koboStored' = 0 /\ Kobo!Succeeded(t)
        \/ /\ koboStored' \in {0, koboStored} /\ UNCHANGED koboLock
           /\ Kobo!Put(t, [koboTab[t] EXCEPT !.point = "cleanup", !.unsure = TRUE])
        \/ Kobo!Go(t, "cleanup") /\ UNCHANGED <<koboStored, koboLock>>
    BY DEF Kobo!VerifyFile
  <1>5. CASE koboStored' = 0 /\ Kobo!Succeeded(t)
    BY <1>2, <1>3, <1>5, SucceededKeeps DEF Told
  <1>6. CASE /\ koboStored' \in {0, koboStored} /\ UNCHANGED koboLock
             /\ Kobo!Put(t, [koboTab[t] EXCEPT !.point = "cleanup", !.unsure = TRUE])
    <2>1. PICK r : r = [q EXCEPT !.point = "cleanup", !.unsure = TRUE]
          /\ koboTab' = [koboTab EXCEPT ![t] = r]
      BY <1>2, <1>6 DEF Kobo!Put
    <2>2. /\ DOMAIN r = TabFields /\ r.point = "cleanup" /\ r.device = q.device /\ r.record = q.record
          /\ r.name = q.name /\ r.unsure = TRUE /\ r.says = q.says /\ r.sending = q.sending
      BY <1>2, <2>1 DEF TabRight, Shape, TabFields
    <2>3. Written(r)' /\ Alone(r)'
      BY <1>1, <1>2, <1>6, <2>2 DEF TabRight, Written, Alone, NamedPoints
    <2>4. r.point \in NamedPoints /\ koboTab[t].point \in NamedPoints
      BY <1>1, <2>2 DEF NamedPoints
    <2> QED
      BY <1>2, <1>3, <1>6, <2>1, <2>2, <2>3, <2>4, WriterStep
  <1>7. CASE Kobo!Go(t, "cleanup") /\ UNCHANGED <<koboStored, koboLock>>
    <2>1. [koboTab[t] EXCEPT !.point = "cleanup"] = [koboTab[t] EXCEPT !.point = "cleanup",
          !.owns = koboTab[t].owns]
      BY TabIs DEF TabRight, Shape, TabFields
    <2>2. koboTab' = [koboTab EXCEPT ![t] = [koboTab[t] EXCEPT !.point = "cleanup",
          !.owns = koboTab[t].owns]]
      BY <1>7, <2>1 DEF Kobo!Go, Kobo!Put
    <2>3. koboTab[t].point \in {"own", "write", "verify"} /\ "cleanup" \in {"write", "close", "cleanup"}
      BY <1>1
    <2> QED
      BY <1>1, <1>3, <1>7, <2>2, <2>3, WriterMoves, Zenon
  <1> QED
    BY <1>4, <1>5, <1>6, <1>7

\* Nothing incomplete is left when the recorded file is gone.
LEMMA WithoutDrive ==
  ASSUME KoboInv, NEW t \in Tabs, koboTab[t].point = "cleanup",
        koboFiles' = Kobo!Without(koboTab[t].name),
         UNCHANGED koboSeen
  PROVE  Drive' /\ koboTab[t].name \notin DOMAIN koboFiles'
  <1>1. PICK q : q = koboTab[t] /\ TabRight(q)
    BY TabIs
  <1>2. koboStored \in {q.name, 0}
    BY <1>1 DEF TabRight, Written, NamedPoints
  <1>3. /\ DOMAIN koboFiles' = DOMAIN koboFiles \ {q.name}
        /\ \A n \in DOMAIN koboFiles' : koboFiles'[n] = koboFiles[n]
    BY <1>1 DEF Kobo!Without
  <1>4. Drive'
    BY <1>2, <1>3, NameIsNotZero DEF KoboInv, Drive
  <1> QED
    BY <1>1, <1>3, <1>4

LEMMA CleanUpKeeps ==
  ASSUME KoboInv, NEW t \in Tabs, Kobo!CleanUp(t)
  PROVE  KoboInv' /\ Told(t)
  <1>1. koboTab[t].point = "cleanup" /\ UNCHANGED koboSeen
    BY DEF Kobo!CleanUp
  <1>2. PICK q : q = koboTab[t] /\ TabRight(q) /\ q.device # "none" /\ q.name \in Kobo!Names
        /\ q.name # 0
    BY <1>1, TabIs, LockIsHeld, NameIsNotZero DEF TabRight, Shape, NamedPoints
  <1>3. \/ koboFiles' = Kobo!Without(q.name) /\ koboStored' = 0 /\ Kobo!Failed(t, 0, koboTab[t].unsure)
        \/ /\ koboFiles' \in {koboFiles, Kobo!Without(q.name)} /\ UNCHANGED koboStored
           /\ Kobo!Failed(t, q.name, koboTab[t].unsure)
        \/ koboFiles' = Kobo!Without(q.name) /\ Kobo!Failed(t, q.name, TRUE)
    BY <1>2 DEF Kobo!CleanUp
  <1>4. CASE koboFiles' = Kobo!Without(q.name) /\ koboStored' = 0 /\ Kobo!Failed(t, 0, koboTab[t].unsure)
    <2>1. Drive' /\ koboTab[t].name \notin DOMAIN koboFiles'
      BY <1>1, <1>2, <1>4, WithoutDrive
    <2> QED
      BY <1>2, <1>4, <2>1, FailedKeeps DEF Told
  <1>5. CASE /\ koboFiles' \in {koboFiles, Kobo!Without(q.name)} /\ UNCHANGED koboStored
             /\ Kobo!Failed(t, q.name, koboTab[t].unsure)
    <2>1. Drive'
      BY <1>1, <1>2, <1>5, WithoutDrive, DriveStays
    <2> QED
      BY <1>2, <1>5, <2>1, FailedKeeps DEF Told
  <1>6. CASE koboFiles' = Kobo!Without(q.name) /\ Kobo!Failed(t, q.name, TRUE)
    <2>1. Drive'
      BY <1>1, <1>2, <1>6, WithoutDrive
    <2> QED
      BY <1>2, <1>6, <2>1, FailedKeeps DEF Told
  <1> QED
    BY <1>3, <1>4, <1>5, <1>6

LEMMA AcknowledgeKeeps ==
  ASSUME KoboInv, NEW t \in Tabs, Kobo!Acknowledge(t)
  PROVE  KoboInv' /\ Told(t)
  <1>1. PICK q : q = koboTab[t] /\ TabRight(q) /\ (q.device # "none" <=> koboLock = t)
    BY TabIs
  <1>2. /\ q.device = "open" /\ q.point = "idle" /\ ~(q.record = 0 /\ ~q.unsure) /\ koboLock' = koboLock
        /\ koboSeen' = IF koboStored = 0 THEN koboSeen ELSE koboSeen \cup {koboStored}
    BY <1>1 DEF Kobo!Acknowledge, Kobo!Busy, Kobo!Recovery
  <1>3. PICK D : /\ koboFiles' = [n \in D |-> koboFiles[n]] \/ koboFiles' = koboFiles
                 /\ D \subseteq DOMAIN koboFiles
    BY DEF Kobo!Acknowledge
  <1>4. /\ DOMAIN koboFiles' \subseteq DOMAIN koboFiles
        /\ \A n \in DOMAIN koboFiles' : koboFiles'[n] = koboFiles[n]
    BY <1>3
  <1>5. Drive'
    BY <1>2, <1>4, NameIsNotZero DEF KoboInv, Drive
  <1>6. PICK r : /\ \/ r = [q EXCEPT !.record = 0, !.unsure = FALSE, !.wanted = TRUE] /\ koboStored' = 0
                    \/ r = q
                 /\ koboTab' = [koboTab EXCEPT ![t] = r] \/ (koboTab' = koboTab /\ r = koboTab[t])
    BY <1>1 DEF Kobo!Acknowledge, Kobo!Put
  <1>7. /\ DOMAIN r = TabFields /\ r.device = "open" /\ r.point = "idle" /\ r.name = 0
        /\ r.record = 0 /\ ~r.unsure => koboStored' = 0
        /\ r.says = q.says
    BY <1>1, <1>2, <1>6 DEF TabRight, Shape, TabFields, NamedPoints
  <1>8. TabRight(r)'
    BY <1>7 DEF TabRight, Shape, Cleared, Written, Alone, RestPoints, LoadPoints, NamedPoints
  <1>9. KoboInv'
    BY <1>1, <1>2, <1>5, <1>6, <1>7, <1>8, DriveStep
  <1> QED
    BY <1>1, <1>6, <1>7, <1>9, PutIs DEF Told

LEMMA NoTabIs ==
  \E r : /\ r = Kobo!NoTab /\ DOMAIN r = TabFields /\ r.device = "none" /\ r.point = "idle"
        /\ r.name = 0 /\ r.says = "nothing"
  <1>1. DOMAIN Kobo!NoTab = TabFields
    BY DEF Kobo!NoTab, TabFields
  <1>2. Kobo!NoTab.device = "none" /\ Kobo!NoTab.point = "idle"
    BY DEF Kobo!NoTab
  <1>3. Kobo!NoTab.name = 0 /\ Kobo!NoTab.says = "nothing"
    BY DEF Kobo!NoTab
  <1> QED
    BY <1>1, <1>2, <1>3

\* A tab that dies may leave the file it was writing, whole or not.
LEMMA CrashKeeps ==
  ASSUME KoboInv, NEW t \in Tabs, Kobo!Crash(t)
  PROVE  KoboInv' /\ Told(t)
  <1>1. PICK q : q = koboTab[t] /\ TabRight(q) /\ (q.device # "none" <=> koboLock = t)
    BY TabIs
  <1>2. /\ koboTab' = [koboTab EXCEPT ![t] = Kobo!NoTab] /\ UNCHANGED <<koboSeen, koboStored>>
        /\ koboLock' = IF koboLock = t THEN Nobody ELSE koboLock
        /\ koboFiles' \in Kobo!LateEffects(t)
    BY DEF Kobo!Crash
  <1>3. PICK r : /\ r = Kobo!NoTab /\ DOMAIN r = TabFields /\ r.device = "none" /\ r.point = "idle"
                 /\ r.name = 0 /\ r.says = "nothing"
    BY NoTabIs
  <1>4. Told(t)
    BY <1>2, <1>3, PutIs DEF Told
  <1>5. TabRight(r) /\ TabRight(r)'
    BY <1>3 DEF TabRight, Shape, Cleared, Written, Alone, RestPoints, LoadPoints, NamedPoints
  <1>6. \/ koboFiles' = koboFiles
        \/ q.point = "create" /\ koboFiles' = Kobo!Created(t)
        \/ q.point = "close" /\ \E s \in {"part", "full"} : koboFiles' = Kobo!InState(koboTab[t].name, s)
        \/ q.point = "cleanup" /\ koboFiles' = Kobo!Without(koboTab[t].name)
    BY <1>1, <1>2 DEF Kobo!LateEffects
  <1>7. CASE koboFiles' = koboFiles
    BY <1>1, <1>2, <1>3, <1>4, <1>5, <1>7, TabStep, NobodyIsApart
  <1>8. CASE koboFiles' # koboFiles
    <2>1. q.point \in {"create", "close", "cleanup"} /\ Drive'
      BY <1>1, <1>2, <1>6, <1>8, CreatedDrive, InStateDrive, WithoutDrive
    <2>2. koboLock = t
      BY <1>1, <2>1, LockIsHeld DEF NamedPoints
    <2> QED
      BY <1>2, <1>3, <1>4, <1>5, <2>1, <2>2, DriveStep, NobodyIsApart
  <1> QED
    BY <1>7, <1>8

LEMMA KoboStutter ==
  ASSUME KoboInv, UNCHANGED <<koboTab, koboFiles, koboSeen, koboStored, koboLock>>
  PROVE  KoboInv'
  BY DEF KoboInv, Drive, TabRight, Cleared, Written, Alone

LEMMA KoboStart ==
  ASSUME Kobo!Init
  PROVE  KoboInv
  <1>1. /\ koboFiles = << >> /\ koboStored = 0 /\ koboLock = Nobody
        /\ koboTab = [t \in Tabs |-> Kobo!NoTab]
    BY DEF Kobo!Init
  <1>2. DOMAIN koboFiles = {}
    BY <1>1
  <1>3. PICK r : /\ r = Kobo!NoTab /\ DOMAIN r = TabFields /\ r.device = "none" /\ r.point = "idle"
                 /\ r.name = 0
    BY NoTabIs
  <1>4. TabRight(r)
    BY <1>3 DEF TabRight, Shape, Cleared, Written, Alone, RestPoints, LoadPoints, NamedPoints
  <1> QED
    BY <1>1, <1>2, <1>3, <1>4, NobodyIsApart DEF KoboInv, Drive

\* A step changes one tab.
Others(t) == \A u \in Tabs : u # t => koboTab'[u] = koboTab[u]

LEMMA PutOthers ==
  ASSUME KoboInv, NEW t \in Tabs
  PROVE  /\ UNCHANGED koboTab => Others(t)
         /\ \A r : Kobo!Put(t, r) => Others(t)
         /\ \A next : Kobo!Go(t, next) => Others(t)
         /\ Kobo!GiveUp(t) => Others(t)
         /\ \A record, unsure : Kobo!Failed(t, record, unsure) => Others(t)
         /\ Kobo!Succeeded(t) => Others(t)
  <1>1. UNCHANGED koboTab => Others(t)
    BY DEF Others
  <1>2. \A r : koboTab' = [koboTab EXCEPT ![t] = r] => Others(t)
    BY DEF KoboInv, Others
  <1>3. \A r : Kobo!Put(t, r) => Others(t)
    BY <1>2, Zenon DEF Kobo!Put
  <1>4. \A new : Kobo!Finish(t, new) => Others(t)
    BY <1>3, Zenon DEF Kobo!Finish
  <1> QED
    BY <1>1, <1>3, <1>4, Zenon DEF Kobo!Go, Kobo!GiveUp, Kobo!Failed, Kobo!Succeeded

LEMMA TabStepKeeps ==
  ASSUME KoboInv, NEW t \in Tabs,
         \/ Kobo!Connect(t) \/ Kobo!Disconnect(t) \/ Kobo!Cancel(t)
         \/ Kobo!Refresh(t) \/ Kobo!RefreshBegins(t) \/ Kobo!ReadIndex(t) \/ Kobo!Compare(t)
         \/ Kobo!Send(t) \/ Kobo!SendSteps(t) \/ Kobo!Acknowledge(t) \/ Kobo!Crash(t)
  PROVE  KoboInv' /\ Told(t) /\ Others(t)
  <1>1. CASE Kobo!Connect(t)
    <2>1. Others(t)
      BY <1>1, PutOthers, ZenonT(20) DEF Kobo!Connect
    <2> QED
      BY <1>1, <2>1, ConnectKeeps
  <1>2. CASE Kobo!Disconnect(t)
    <2>1. Others(t)
      BY <1>2, PutOthers, ZenonT(20) DEF Kobo!Disconnect
    <2> QED
      BY <1>2, <2>1, DisconnectKeeps
  <1>3. CASE Kobo!Cancel(t)
    <2>1. Others(t)
      BY <1>3, PutOthers, ZenonT(20) DEF Kobo!Cancel
    <2> QED
      BY <1>3, <2>1, CancelKeeps
  <1>4. CASE Kobo!Refresh(t)
    <2>1. Others(t)
      BY <1>4, PutOthers, ZenonT(20) DEF Kobo!Refresh
    <2> QED
      BY <1>4, <2>1, RefreshKeeps
  <1>5. CASE Kobo!RefreshBegins(t)
    <2>1. Others(t)
      BY <1>5, PutOthers, ZenonT(20) DEF Kobo!RefreshBegins
    <2> QED
      BY <1>5, <2>1, RefreshBeginsKeeps
  <1>6. CASE Kobo!ReadIndex(t)
    <2>1. Others(t)
      BY <1>6, PutOthers, ZenonT(20) DEF Kobo!ReadIndex
    <2> QED
      BY <1>6, <2>1, ReadIndexKeeps
  <1>7. CASE Kobo!Compare(t)
    <2>1. Others(t)
      BY <1>7, PutOthers, ZenonT(20) DEF Kobo!Compare
    <2> QED
      BY <1>7, <2>1, CompareKeeps
  <1>8. CASE Kobo!Send(t)
    <2>1. Others(t)
      BY <1>8, PutOthers, ZenonT(20) DEF Kobo!Send
    <2> QED
      BY <1>8, <2>1, SendKeeps
  <1>9. CASE Kobo!ReadBook(t)
    <2>1. Others(t)
      BY <1>9, PutOthers, ZenonT(20) DEF Kobo!ReadBook, Kobo!SessionStep
    <2> QED
      BY <1>9, <2>1, LoadKeeps DEF Kobo!ReadBook, LoadPoints
  <1>10. CASE Kobo!ReadSource(t)
    <2>1. Others(t)
      BY <1>10, PutOthers, ZenonT(20) DEF Kobo!ReadSource, Kobo!SessionStep
    <2> QED
      BY <1>10, <2>1, LoadKeeps DEF Kobo!ReadSource, LoadPoints
  <1>11. CASE Kobo!Prepare(t)
    <2>1. Others(t)
      BY <1>11, PutOthers, ZenonT(20) DEF Kobo!Prepare, Kobo!SessionStep
    <2> QED
      BY <1>11, <2>1, LoadKeeps DEF Kobo!Prepare, LoadPoints
  <1>12. CASE Kobo!ScanAgain(t)
    <2>1. Others(t)
      BY <1>12, PutOthers, ZenonT(20) DEF Kobo!ScanAgain, Kobo!SessionStep
    <2> QED
      BY <1>12, <2>1, LoadKeeps DEF Kobo!ScanAgain, LoadPoints
  <1>13. CASE Kobo!ReadBookAgain(t)
    <2>1. Others(t)
      BY <1>13, PutOthers, ZenonT(20) DEF Kobo!ReadBookAgain, Kobo!SessionStep
    <2> QED
      BY <1>13, <2>1, ReadBookAgainKeeps
  <1>14. CASE Kobo!FindCopy(t)
    <2>1. Others(t)
      BY <1>14, PutOthers, FindCopyIs, Zenon
    <2> QED
      BY <1>14, <2>1, FindCopyKeeps
  <1>15. CASE Kobo!Journal(t)
    <2>1. Others(t)
      BY <1>15, PutOthers, ZenonT(20) DEF Kobo!Journal
    <2> QED
      BY <1>15, <2>1, JournalKeeps
  <1>16. CASE Kobo!CreateFile(t)
    <2>1. Others(t)
      BY <1>16, PutOthers, ZenonT(20) DEF Kobo!CreateFile
    <2> QED
      BY <1>16, <2>1, CreateFileKeeps
  <1>17. CASE Kobo!OwnFile(t)
    <2>0. \E r : Kobo!Put(t, r)
      BY <1>17, ZenonT(30) DEF Kobo!OwnFile
    <2>1. Others(t)
      BY <2>0, PutOthers, Zenon
    <2> QED
      BY <1>17, <2>1, OwnFileKeeps
  <1>18. CASE Kobo!WriteChunks(t)
    <2>1. Others(t)
      BY <1>18, PutOthers, ZenonT(20) DEF Kobo!WriteChunks
    <2> QED
      BY <1>18, <2>1, WriteChunksKeeps
  <1>19. CASE Kobo!CloseFile(t)
    <2>1. Others(t)
      BY <1>19, PutOthers, ZenonT(20) DEF Kobo!CloseFile
    <2> QED
      BY <1>19, <2>1, CloseFileKeeps
  <1>20. CASE Kobo!VerifyFile(t)
    <2>1. Others(t)
      BY <1>20, PutOthers, ZenonT(20) DEF Kobo!VerifyFile
    <2> QED
      BY <1>20, <2>1, VerifyFileKeeps
  <1>21. CASE Kobo!CleanUp(t)
    <2>1. Others(t)
      BY <1>21, PutOthers, ZenonT(20) DEF Kobo!CleanUp
    <2> QED
      BY <1>21, <2>1, CleanUpKeeps
  <1>22. CASE Kobo!Acknowledge(t)
    <2>0. UNCHANGED koboTab \/ \E r : Kobo!Put(t, r)
      BY <1>22 DEF Kobo!Acknowledge
    <2>1. Others(t)
      BY <2>0, PutOthers, Zenon
    <2> QED
      BY <1>22, <2>1, AcknowledgeKeeps
  <1>23. CASE Kobo!Crash(t)
    <2>1. Others(t)
      BY <1>23 DEF Kobo!Crash, KoboInv, Others
    <2> QED
      BY <1>23, <2>1, CrashKeeps
  <1> QED
    BY <1>1, <1>2, <1>3, <1>4, <1>5, <1>6, <1>7, <1>8, <1>9, <1>10, <1>11, <1>12, <1>13, <1>14, <1>15,
          <1>16, <1>17, <1>18, <1>19, <1>20, <1>21, <1>22, <1>23 DEF Kobo!SendSteps

LEMMA KoboStep ==
  ASSUME KoboInv, Kobo!Next
  PROVE  KoboInv' /\ \A t \in Tabs : Told(t)
  <1>1. ASSUME NEW t \in Tabs, KoboInv' /\ Told(t) /\ Others(t)
        PROVE  KoboInv' /\ \A u \in Tabs : Told(u)
    BY <1>1 DEF Others, Told
  <1>2. CASE Kobo!EditBook
    <2>1. UNCHANGED <<koboTab, koboFiles, koboSeen, koboStored, koboLock>>
      BY <1>2 DEF Kobo!EditBook
    <2> QED
      BY <2>1, KoboStutter DEF Told
  <1>3. ASSUME NEW t \in Tabs,
               \/ Kobo!Connect(t) \/ Kobo!Disconnect(t) \/ Kobo!Cancel(t)
               \/ Kobo!Refresh(t) \/ Kobo!RefreshBegins(t) \/ Kobo!ReadIndex(t) \/ Kobo!Compare(t)
               \/ Kobo!Send(t) \/ Kobo!SendSteps(t) \/ Kobo!Acknowledge(t) \/ Kobo!Crash(t)
        PROVE  KoboInv' /\ Told(t) /\ Others(t)
    BY <1>3, TabStepKeeps
  <1> QED
    BY <1>1, <1>2, <1>3 DEF Kobo!Next

\* The transfer counts with the Cardinality of FiniteSets.
LEMMA CountIsCardinality ==
  ASSUME NEW S
  PROVE  Kobo!Cardinality(S) = Cardinality(S)
  BY DEF Kobo!Cardinality, Cardinality

\* Of an edition there is one whole copy at most, and what is not whole is
\* recorded or was inspected.
LEMMA KoboFilesAreRight ==
  ASSUME KoboInv
  PROVE  KoboFilesAreKnown
  <1>1. Kobo!LeftoversAreNamed
    BY DEF KoboInv, Drive, Kobo!LeftoversAreNamed, Kobo!Intact
  <1>2. ASSUME NEW e \in Kobo!Editions
        PROVE  Cardinality({n \in Kobo!Copies(e) : Kobo!Intact(n)}) <= 1
    <2>1. PICK S : S = {n \in Kobo!Copies(e) : Kobo!Intact(n)}
      OBVIOUS
    <2>2. \A m, n \in S : m = n
      BY <2>1 DEF KoboInv, Drive, Kobo!Copies, Kobo!Intact
    <2>3. CASE S = {}
      BY <2>1, <2>3, FS_EmptySet
    <2>4. CASE S # {}
      <3>1. PICK n : S = {n}
        BY <2>2, <2>4
      <3> QED
        BY <2>1, <3>1, FS_Singleton
    <2> QED
      BY <2>3, <2>4
  <1>3. ASSUME NEW e \in Kobo!Editions
        PROVE  Kobo!Cardinality({n \in Kobo!Copies(e) : Kobo!Intact(n)}) <= 1
    BY <1>2, CountIsCardinality
  <1> QED
    BY <1>1, <1>3, Zenon DEF KoboFilesAreKnown, Kobo!OneCopyPerEdition

LEMMA ToldIsRight ==
  ASSUME \A t \in Tabs : Told(t)
  PROVE  \A t \in Tabs : koboTab[t].says # "cancelled" /\ koboTab'[t].says = "cancelled" =>
                           koboTab[t].name \notin DOMAIN koboFiles'
  BY DEF Told

-----------------------------------------------------------------------------
(***************************************************************************)
(* The authority over a connected Kindle.                                  *)
(***************************************************************************)

CtlFields == {"conn", "epoch", "stage", "busy", "tested", "inv", "rawEpoch", "queued"}
ReconFields == {"pc", "epoch", "files", "index"}
Removing == {"delete", "inventory", "compare"}

AuthorityTyped ==
  /\ authorityDevice \in [KindleHandles -> Authority!File \cup {Nobody}]
  /\ DOMAIN authorityCtl = CtlFields /\ authorityCtl.conn \in Nat /\ authorityCtl.epoch \in Nat
  /\ DOMAIN authoritySession = {"of", "open", "files"}
  /\ DOMAIN authorityPage = {"fresh", "pending", "busy"}
  /\ DOMAIN authorityPost = {"pc", "epoch"}
  /\ DOMAIN authorityJob = {"pc", "epoch", "asked", "left"}
  /\ DOMAIN authorityRecon = Authority!Slots
  /\ \A s \in Authority!Slots : DOMAIN authorityRecon[s] = ReconFields /\ authorityRecon[s].epoch \in Nat
  /\ DOMAIN authorityBudget = {"connects", "removals", "edits", "touches", "faults"}
  /\ authorityBudget.touches \in Nat

\* A connection is up as long as it has its session, and nothing runs while one
\* is being made.
Connected ==
  /\ authorityCtl.conn # 0 <=> authorityCtl.stage = "up"
  /\ authorityCtl.conn # 0 =>
       /\ authorityCtl.conn = authorityCtl.epoch
       /\ authoritySession.open /\ authoritySession.of = authorityCtl.conn
  /\ authorityCtl.stage \in {"choosing", "opening"} => ~authorityCtl.busy /\ authorityCtl.epoch # 0

\* One thing at a time has the hardware, on the connection it began with.
OneRuns ==
  /\ authorityPost.pc # "idle" =>
       /\ authorityCtl.busy /\ authorityJob.pc = "idle"
       /\ authorityPost.epoch \in Nat \ {0} /\ authorityCtl.conn \in {0, authorityPost.epoch}
  /\ authorityJob.pc # "idle" =>
       /\ authorityCtl.busy
       /\ authorityJob.epoch \in Nat \ {0} /\ authorityCtl.conn \in {0, authorityJob.epoch}
  /\ authorityRecon["hardware"].pc # "idle" =>
       \/ authorityPost.pc = "compare" /\ authorityRecon["hardware"].epoch = authorityPost.epoch
       \/ authorityJob.pc = "compare" /\ authorityRecon["hardware"].epoch = authorityJob.epoch
  /\ authorityRecon["background"].pc # "idle" => authorityRecon["background"].epoch <= authorityCtl.epoch
  /\ authorityRecon["background"].pc # "idle"
        /\ authorityRecon["background"].epoch = authorityCtl.epoch =>
       /\ authorityCtl.conn # 0 /\ ~authorityCtl.busy /\ authorityCtl.rawEpoch = 0
       /\ authorityRaw # Nobody /\ authorityRecon["background"].files = authorityRaw.files

\* The files of a comparison are those the connection itself has read, and
\* those of the Kindle.
Current(files) ==
  files = authoritySession.files /\ (authorityBudget.touches = 0 => files = authorityDevice)

RawIsCurrent ==
  /\ authorityRaw # Nobody =>
       /\ authorityCtl.conn # 0 /\ authorityRaw.of = authorityCtl.conn
       /\ authorityJob.pc \notin Removing => Current(authorityRaw.files)
  /\ authorityPost.pc \in {"test", "inventory", "compare"} => authorityRaw = Nobody
  /\ authorityRecon["hardware"].pc # "idle" /\ authorityRecon["hardware"].epoch = authorityCtl.conn =>
       Current(authorityRecon["hardware"].files)

\* What is shown as live is what is on the Kindle, until a removal begins.
ItemsAreTrue ==
  \A h \in KindleHandles :
    /\ authorityShown.items[h] = Nobody => authorityDevice[h] = Nobody
    /\ authorityShown.items[h] # Nobody => authorityShown.items[h].file = authorityDevice[h]

FreshIsTrue ==
  authorityPage.fresh =>
    /\ authorityCtl.stage \in {"up", "closing"}
    /\ authorityJob.pc # "idle" => authorityCtl.stage = "up"
    /\ authorityBudget.touches = 0 /\ authorityJob.pc \notin Removing => ItemsAreTrue

\* What is left to delete was confirmed, as the connection has it.
DeletesAreConfirmed ==
  /\ \A t \in authorityPage.pending : t.h \in KindleHandles
  /\ authorityJob.pc = "delete" =>
       /\ authorityPage.busy /\ authorityPage.pending = authorityJob.asked
       /\ \A h \in authorityJob.left : \E t \in authorityJob.asked :
            t.h = h /\ t.book = authoritySession.files[h].book /\ t.ed = authoritySession.files[h].ed

AuthorityInv ==
  AuthorityTyped /\ Connected /\ OneRuns /\ RawIsCurrent /\ FreshIsTrue /\ DeletesAreConfirmed

LEMMA ConnectKeepsAuthority ==
  ASSUME AuthorityInv, Authority!Connect
  PROVE  AuthorityInv'
  <1>1. AuthorityTyped'
    BY DEF AuthorityInv, AuthorityTyped, CtlFields, ReconFields, Authority!Connect, Authority!LastSeen,
         Authority!PageUnproven, Authority!Spend, Authority!WithoutAuthority, Authority!Slots
  <1>2. Connected'
    BY DEF AuthorityInv, AuthorityTyped, Connected, OneRuns, CtlFields, ReconFields, Authority!Connect,
         Authority!LastSeen, Authority!PageUnproven, Authority!Spend, Authority!WithoutAuthority
  <1>3. OneRuns'
    BY DEF AuthorityInv, AuthorityTyped, Connected, OneRuns, RawIsCurrent, CtlFields, ReconFields,
         Removing, Current, Authority!Connect, Authority!LastSeen, Authority!PageUnproven,
         Authority!Spend, Authority!WithoutAuthority, Authority!Slots
  <1>4. RawIsCurrent'
    BY DEF AuthorityInv, AuthorityTyped, Connected, OneRuns, RawIsCurrent, CtlFields, ReconFields,
         Removing, Current, Authority!Connect, Authority!LastSeen, Authority!PageUnproven,
         Authority!Spend, Authority!WithoutAuthority, Authority!Slots
  <1>5. FreshIsTrue'
    BY DEF AuthorityInv, AuthorityTyped, Connected, OneRuns, RawIsCurrent, FreshIsTrue, CtlFields,
         ReconFields, Removing, Current, ItemsAreTrue, Authority!Connect, Authority!LastSeen,
         Authority!PageUnproven, Authority!Spend, Authority!WithoutAuthority
  <1>6. DeletesAreConfirmed'
    BY DEF AuthorityInv, AuthorityTyped, Connected, OneRuns, RawIsCurrent, DeletesAreConfirmed,
         CtlFields, ReconFields, Removing, Current, Authority!Connect, Authority!LastSeen,
         Authority!PageUnproven, Authority!Spend, Authority!WithoutAuthority
  <1> QED
    BY <1>1, <1>2, <1>3, <1>4, <1>5, <1>6 DEF AuthorityInv

LEMMA ChooseKeepsAuthority ==
  ASSUME AuthorityInv, Authority!Choose
  PROVE  AuthorityInv'
  <1>1. AuthorityTyped'
    BY DEF AuthorityInv, AuthorityTyped, CtlFields, ReconFields, Authority!Choose, Authority!Slots
  <1>2. Connected'
    BY DEF AuthorityInv, AuthorityTyped, Connected, OneRuns, CtlFields, ReconFields, Authority!Choose
  <1>3. OneRuns'
    BY DEF AuthorityInv, AuthorityTyped, Connected, OneRuns, RawIsCurrent, CtlFields, ReconFields,
         Removing, Current, Authority!Choose, Authority!Slots
  <1>4. RawIsCurrent'
    BY DEF AuthorityInv, AuthorityTyped, Connected, OneRuns, RawIsCurrent, CtlFields, ReconFields,
         Removing, Current, Authority!Choose, Authority!Slots
  <1>5. FreshIsTrue'
    BY DEF AuthorityInv, AuthorityTyped, Connected, OneRuns, RawIsCurrent, FreshIsTrue, CtlFields,
         ReconFields, Removing, Current, ItemsAreTrue, Authority!Choose
  <1>6. DeletesAreConfirmed'
    BY DEF AuthorityInv, AuthorityTyped, Connected, OneRuns, RawIsCurrent, DeletesAreConfirmed,
         CtlFields, ReconFields, Removing, Current, Authority!Choose
  <1> QED
    BY <1>1, <1>2, <1>3, <1>4, <1>5, <1>6 DEF AuthorityInv

LEMMA OpenKeepsAuthority ==
  ASSUME AuthorityInv, Authority!Open
  PROVE  AuthorityInv'
  <1>1. AuthorityTyped'
    BY DEF AuthorityInv, AuthorityTyped, CtlFields, ReconFields, Authority!Open, Authority!Slots
  <1>2. Connected'
    BY DEF AuthorityInv, AuthorityTyped, Connected, OneRuns, CtlFields, ReconFields, Authority!Open
  <1>3. OneRuns'
    BY DEF AuthorityInv, AuthorityTyped, Connected, OneRuns, RawIsCurrent, CtlFields, ReconFields,
         Removing, Current, Authority!Open, Authority!Slots
  <1>4. RawIsCurrent'
    BY DEF AuthorityInv, AuthorityTyped, Connected, OneRuns, RawIsCurrent, CtlFields, ReconFields,
         Removing, Current, Authority!Open, Authority!Slots
  <1>5. FreshIsTrue'
    BY DEF AuthorityInv, AuthorityTyped, Connected, OneRuns, RawIsCurrent, FreshIsTrue, CtlFields,
         ReconFields, Removing, Current, ItemsAreTrue, Authority!Open
  <1>6. DeletesAreConfirmed'
    BY DEF AuthorityInv, AuthorityTyped, Connected, OneRuns, RawIsCurrent, DeletesAreConfirmed,
         CtlFields, ReconFields, Removing, Current, Authority!Open
  <1> QED
    BY <1>1, <1>2, <1>3, <1>4, <1>5, <1>6 DEF AuthorityInv

LEMMA OpenFailsKeepsAuthority ==
  ASSUME AuthorityInv, Authority!OpenFails
  PROVE  AuthorityInv'
  <1>1. AuthorityTyped'
    BY DEF AuthorityInv, AuthorityTyped, CtlFields, ReconFields, Authority!OpenFails, Authority!Spend,
         Authority!Slots
  <1>2. Connected'
    BY DEF AuthorityInv, AuthorityTyped, Connected, OneRuns, CtlFields, ReconFields,
         Authority!OpenFails, Authority!Spend
  <1>3. OneRuns'
    BY DEF AuthorityInv, AuthorityTyped, Connected, OneRuns, RawIsCurrent, CtlFields, ReconFields,
         Removing, Current, Authority!OpenFails, Authority!Spend, Authority!Slots
  <1>4. RawIsCurrent'
    BY DEF AuthorityInv, AuthorityTyped, Connected, OneRuns, RawIsCurrent, CtlFields, ReconFields,
         Removing, Current, Authority!OpenFails, Authority!Spend, Authority!Slots
  <1>5. FreshIsTrue'
    BY DEF AuthorityInv, AuthorityTyped, Connected, OneRuns, RawIsCurrent, FreshIsTrue, CtlFields,
         ReconFields, Removing, Current, ItemsAreTrue, Authority!OpenFails, Authority!Spend
  <1>6. DeletesAreConfirmed'
    BY DEF AuthorityInv, AuthorityTyped, Connected, OneRuns, RawIsCurrent, DeletesAreConfirmed,
         CtlFields, ReconFields, Removing, Current, Authority!OpenFails, Authority!Spend
  <1> QED
    BY <1>1, <1>2, <1>3, <1>4, <1>5, <1>6 DEF AuthorityInv

LEMMA SelfTestKeepsAuthority ==
  ASSUME AuthorityInv, Authority!SelfTest
  PROVE  AuthorityInv'
  <1>1. AuthorityTyped'
    BY DEF AuthorityInv, AuthorityTyped, CtlFields, ReconFields, Authority!SelfTest, Authority!Active,
         Authority!Slots
  <1>2. Connected'
    BY DEF AuthorityInv, AuthorityTyped, Connected, OneRuns, CtlFields, ReconFields,
         Authority!SelfTest, Authority!Active
  <1>3. OneRuns'
    BY DEF AuthorityInv, AuthorityTyped, Connected, OneRuns, RawIsCurrent, CtlFields, ReconFields,
         Removing, Current, Authority!SelfTest, Authority!Active, Authority!Slots
  <1>4. RawIsCurrent'
    BY DEF AuthorityInv, AuthorityTyped, Connected, OneRuns, RawIsCurrent, CtlFields, ReconFields,
         Removing, Current, Authority!SelfTest, Authority!Active, Authority!Slots
  <1>5. FreshIsTrue'
    BY DEF AuthorityInv, AuthorityTyped, Connected, OneRuns, RawIsCurrent, FreshIsTrue, CtlFields,
         ReconFields, Removing, Current, ItemsAreTrue, Authority!SelfTest, Authority!Active
  <1>6. DeletesAreConfirmed'
    BY DEF AuthorityInv, AuthorityTyped, Connected, OneRuns, RawIsCurrent, DeletesAreConfirmed,
         CtlFields, ReconFields, Removing, Current, Authority!SelfTest, Authority!Active
  <1> QED
    BY <1>1, <1>2, <1>3, <1>4, <1>5, <1>6 DEF AuthorityInv

LEMMA ReadInventoryKeepsAuthority ==
  ASSUME AuthorityInv, Authority!ReadInventory
  PROVE  AuthorityInv'
  <1>1. CASE Authority!Active(authorityPost.epoch)
    <2>0. /\ authorityPost.pc = "inventory" /\ authorityCtl.epoch = authorityPost.epoch
          /\ authorityCtl.conn = authorityPost.epoch
          /\ authoritySession' = [authoritySession EXCEPT !.files = authorityDevice]
          /\ authorityPost' = [authorityPost EXCEPT !.pc = "compare"]
          /\ authorityCtl' = [authorityCtl EXCEPT !.rawEpoch = 0, !.inv = "loading"]
          /\ authorityRecon' = [authorityRecon EXCEPT !["hardware"] =
               [pc |-> "index", epoch |-> authorityPost.epoch, files |-> authorityDevice,
                index |-> Nobody]]
          /\ UNCHANGED <<authorityDevice, authorityEdition, authorityRaw, authorityShown,
                         authorityPage, authorityJob, authorityBudget>>
      <3>1. authoritySession.of = authorityPost.epoch /\ authoritySession.open
        BY <1>1 DEF AuthorityInv, Connected, OneRuns, Authority!ReadInventory, Authority!Active
      <3> QED
        BY <1>1, <3>1 DEF Authority!ReadInventory, Authority!Active
    <2>1. AuthorityTyped'
      BY <2>0 DEF AuthorityInv, AuthorityTyped, CtlFields, ReconFields, Authority!Slots,
           Authority!IdleRecon, Authority!IdleJob
    <2>2. Connected'
      BY <2>0 DEF AuthorityInv, AuthorityTyped, Connected, OneRuns, CtlFields, ReconFields,
           Authority!Slots, Authority!IdleRecon, Authority!IdleJob
    <2>3. OneRuns'
      BY <2>0 DEF AuthorityInv, AuthorityTyped, Connected, OneRuns, RawIsCurrent, CtlFields,
           ReconFields, Removing, Current, Authority!Slots, Authority!IdleRecon, Authority!IdleJob
    <2>4. RawIsCurrent'
      BY <2>0 DEF AuthorityInv, AuthorityTyped, Connected, OneRuns, RawIsCurrent, CtlFields,
           ReconFields, Removing, Current, Authority!Slots, Authority!IdleRecon, Authority!IdleJob
    <2>5. FreshIsTrue'
      BY <2>0 DEF AuthorityInv, AuthorityTyped, Connected, OneRuns, RawIsCurrent, FreshIsTrue,
           CtlFields, ReconFields, Removing, Current, ItemsAreTrue, Authority!Slots,
           Authority!IdleRecon, Authority!IdleJob
    <2>6. DeletesAreConfirmed'
      BY <2>0 DEF AuthorityInv, AuthorityTyped, Connected, OneRuns, RawIsCurrent, DeletesAreConfirmed,
           CtlFields, ReconFields, Removing, Current, Authority!Slots, Authority!IdleRecon,
           Authority!IdleJob
    <2> QED
      BY <2>1, <2>2, <2>3, <2>4, <2>5, <2>6 DEF AuthorityInv
  <1>2. CASE ~Authority!Active(authorityPost.epoch)
    <2>1. AuthorityTyped'
      BY <1>2 DEF AuthorityInv, AuthorityTyped, CtlFields, ReconFields, Authority!ReadInventory,
           Authority!Active, Authority!Slots
    <2>2. Connected'
      BY <1>2 DEF AuthorityInv, AuthorityTyped, Connected, OneRuns, CtlFields, ReconFields,
           Authority!ReadInventory, Authority!Active
    <2>3. OneRuns'
      BY <1>2 DEF AuthorityInv, AuthorityTyped, Connected, OneRuns, RawIsCurrent, CtlFields,
           ReconFields, Removing, Current, Authority!ReadInventory, Authority!Active, Authority!Slots
    <2>4. RawIsCurrent'
      BY <1>2 DEF AuthorityInv, AuthorityTyped, Connected, OneRuns, RawIsCurrent, CtlFields,
           ReconFields, Removing, Current, Authority!ReadInventory, Authority!Active, Authority!Slots
    <2>5. FreshIsTrue'
      BY <1>2 DEF AuthorityInv, AuthorityTyped, Connected, OneRuns, RawIsCurrent, FreshIsTrue,
           CtlFields, ReconFields, Removing, Current, ItemsAreTrue, Authority!ReadInventory,
           Authority!Active
    <2>6. DeletesAreConfirmed'
      BY <1>2 DEF AuthorityInv, AuthorityTyped, Connected, OneRuns, RawIsCurrent, DeletesAreConfirmed,
           CtlFields, ReconFields, Removing, Current, Authority!ReadInventory, Authority!Active
    <2> QED
      BY <2>1, <2>2, <2>3, <2>4, <2>5, <2>6 DEF AuthorityInv
  <1> QED
    BY <1>1, <1>2

LEMMA InventoryFailsKeepsAuthority ==
  ASSUME AuthorityInv, Authority!InventoryFails
  PROVE  AuthorityInv'
  <1>1. AuthorityTyped'
    BY DEF AuthorityInv, AuthorityTyped, CtlFields, ReconFields, Authority!InventoryFails,
         Authority!Active, Authority!Spend, Authority!Slots
  <1>2. Connected'
    BY DEF AuthorityInv, AuthorityTyped, Connected, OneRuns, CtlFields, ReconFields,
         Authority!InventoryFails, Authority!Active, Authority!Spend
  <1>3. OneRuns'
    BY DEF AuthorityInv, AuthorityTyped, Connected, OneRuns, RawIsCurrent, CtlFields, ReconFields,
         Removing, Current, Authority!InventoryFails, Authority!Active, Authority!Spend, Authority!Slots
  <1>4. RawIsCurrent'
    BY DEF AuthorityInv, AuthorityTyped, Connected, OneRuns, RawIsCurrent, CtlFields, ReconFields,
         Removing, Current, Authority!InventoryFails, Authority!Active, Authority!Spend, Authority!Slots
  <1>5. FreshIsTrue'
    BY DEF AuthorityInv, AuthorityTyped, Connected, OneRuns, RawIsCurrent, FreshIsTrue, CtlFields,
         ReconFields, Removing, Current, ItemsAreTrue, Authority!InventoryFails, Authority!Active,
         Authority!Spend
  <1>6. DeletesAreConfirmed'
    BY DEF AuthorityInv, AuthorityTyped, Connected, OneRuns, RawIsCurrent, DeletesAreConfirmed,
         CtlFields, ReconFields, Removing, Current, Authority!InventoryFails, Authority!Active,
         Authority!Spend
  <1> QED
    BY <1>1, <1>2, <1>3, <1>4, <1>5, <1>6 DEF AuthorityInv

LEMMA PostFaultsKeepsAuthority ==
  ASSUME AuthorityInv, Authority!PostFaults
  PROVE  AuthorityInv'
  <1>1. AuthorityTyped'
    BY DEF AuthorityInv, AuthorityTyped, CtlFields, ReconFields, Authority!PostFaults,
         Authority!Active, Authority!Drop, Authority!LastSeen, Authority!PageUnproven,
         Authority!Retire, Authority!Spend, Authority!WithoutAuthority, Authority!Slots
  <1>2. Connected'
    BY DEF AuthorityInv, AuthorityTyped, Connected, OneRuns, CtlFields, ReconFields,
         Authority!PostFaults, Authority!Active, Authority!Drop, Authority!LastSeen,
         Authority!PageUnproven, Authority!Retire, Authority!Spend, Authority!WithoutAuthority
  <1>3. OneRuns'
    BY DEF AuthorityInv, AuthorityTyped, Connected, OneRuns, RawIsCurrent, CtlFields, ReconFields,
         Removing, Current, Authority!PostFaults, Authority!Active, Authority!Drop, Authority!LastSeen,
         Authority!PageUnproven, Authority!Retire, Authority!Spend, Authority!WithoutAuthority,
         Authority!Slots
  <1>4. RawIsCurrent'
    BY DEF AuthorityInv, AuthorityTyped, Connected, OneRuns, RawIsCurrent, CtlFields, ReconFields,
         Removing, Current, Authority!PostFaults, Authority!Active, Authority!Drop, Authority!LastSeen,
         Authority!PageUnproven, Authority!Retire, Authority!Spend, Authority!WithoutAuthority,
         Authority!Slots
  <1>5. FreshIsTrue'
    BY DEF AuthorityInv, AuthorityTyped, Connected, OneRuns, RawIsCurrent, FreshIsTrue, CtlFields,
         ReconFields, Removing, Current, ItemsAreTrue, Authority!PostFaults, Authority!Active,
         Authority!Drop, Authority!LastSeen, Authority!PageUnproven, Authority!Retire, Authority!Spend,
         Authority!WithoutAuthority
  <1>6. DeletesAreConfirmed'
    BY DEF AuthorityInv, AuthorityTyped, Connected, OneRuns, RawIsCurrent, DeletesAreConfirmed,
         CtlFields, ReconFields, Removing, Current, Authority!PostFaults, Authority!Active,
         Authority!Drop, Authority!LastSeen, Authority!PageUnproven, Authority!Retire, Authority!Spend,
         Authority!WithoutAuthority
  <1> QED
    BY <1>1, <1>2, <1>3, <1>4, <1>5, <1>6 DEF AuthorityInv

LEMMA PostEndsKeepsAuthority ==
  ASSUME AuthorityInv, Authority!PostEnds
  PROVE  AuthorityInv'
  <1>1. AuthorityTyped'
    BY DEF AuthorityInv, AuthorityTyped, CtlFields, ReconFields, Authority!PostEnds, Authority!Active,
         Authority!IdlePost, Authority!Slots
  <1>2. Connected'
    BY DEF AuthorityInv, AuthorityTyped, Connected, OneRuns, CtlFields, ReconFields,
         Authority!PostEnds, Authority!Active, Authority!IdlePost
  <1>3. OneRuns'
    BY DEF AuthorityInv, AuthorityTyped, Connected, OneRuns, RawIsCurrent, CtlFields, ReconFields,
         Removing, Current, Authority!PostEnds, Authority!Active, Authority!IdlePost, Authority!Slots
  <1>4. RawIsCurrent'
    BY DEF AuthorityInv, AuthorityTyped, Connected, OneRuns, RawIsCurrent, CtlFields, ReconFields,
         Removing, Current, Authority!PostEnds, Authority!Active, Authority!IdlePost, Authority!Slots
  <1>5. FreshIsTrue'
    BY DEF AuthorityInv, AuthorityTyped, Connected, OneRuns, RawIsCurrent, FreshIsTrue, CtlFields,
         ReconFields, Removing, Current, ItemsAreTrue, Authority!PostEnds, Authority!Active,
         Authority!IdlePost
  <1>6. DeletesAreConfirmed'
    BY DEF AuthorityInv, AuthorityTyped, Connected, OneRuns, RawIsCurrent, DeletesAreConfirmed,
         CtlFields, ReconFields, Removing, Current, Authority!PostEnds, Authority!Active,
         Authority!IdlePost
  <1> QED
    BY <1>1, <1>2, <1>3, <1>4, <1>5, <1>6 DEF AuthorityInv

LEMMA DisconnectKeepsAuthority ==
  ASSUME AuthorityInv, Authority!Disconnect
  PROVE  AuthorityInv'
  <1>1. AuthorityTyped'
    BY DEF AuthorityInv, AuthorityTyped, CtlFields, ReconFields, Authority!Disconnect,
         Authority!Aborted, Authority!IdleRecon, Authority!LastSeen, Authority!PageUnproven,
         Authority!Spend, Authority!WithoutAuthority, Authority!Slots
  <1>2. Connected'
    BY DEF AuthorityInv, AuthorityTyped, Connected, OneRuns, CtlFields, ReconFields,
         Authority!Disconnect, Authority!Aborted, Authority!IdleRecon, Authority!LastSeen,
         Authority!PageUnproven, Authority!Spend, Authority!WithoutAuthority
  <1>3. OneRuns'
    BY DEF AuthorityInv, AuthorityTyped, Connected, OneRuns, RawIsCurrent, CtlFields, ReconFields,
         Removing, Current, Authority!Disconnect, Authority!Aborted, Authority!IdleRecon,
         Authority!LastSeen, Authority!PageUnproven, Authority!Spend, Authority!WithoutAuthority,
         Authority!Slots
  <1>4. RawIsCurrent'
    BY DEF AuthorityInv, AuthorityTyped, Connected, OneRuns, RawIsCurrent, CtlFields, ReconFields,
         Removing, Current, Authority!Disconnect, Authority!Aborted, Authority!IdleRecon,
         Authority!LastSeen, Authority!PageUnproven, Authority!Spend, Authority!WithoutAuthority,
         Authority!Slots
  <1>5. FreshIsTrue'
    BY DEF AuthorityInv, AuthorityTyped, Connected, OneRuns, RawIsCurrent, FreshIsTrue, CtlFields,
         ReconFields, Removing, Current, ItemsAreTrue, Authority!Disconnect, Authority!Aborted,
         Authority!IdleRecon, Authority!LastSeen, Authority!PageUnproven, Authority!Spend,
         Authority!WithoutAuthority
  <1>6. DeletesAreConfirmed'
    BY DEF AuthorityInv, AuthorityTyped, Connected, OneRuns, RawIsCurrent, DeletesAreConfirmed,
         CtlFields, ReconFields, Removing, Current, Authority!Disconnect, Authority!Aborted,
         Authority!IdleRecon, Authority!LastSeen, Authority!PageUnproven, Authority!Spend,
         Authority!WithoutAuthority
  <1> QED
    BY <1>1, <1>2, <1>3, <1>4, <1>5, <1>6 DEF AuthorityInv

LEMMA DisconnectedKeepsAuthority ==
  ASSUME AuthorityInv, Authority!Disconnected
  PROVE  AuthorityInv'
  <1>1. AuthorityTyped'
    BY DEF AuthorityInv, AuthorityTyped, CtlFields, ReconFields, Authority!Disconnected,
         Authority!LastSeen, Authority!PageUnproven, Authority!Slots
  <1>2. Connected'
    BY DEF AuthorityInv, AuthorityTyped, Connected, OneRuns, CtlFields, ReconFields,
         Authority!Disconnected, Authority!LastSeen, Authority!PageUnproven
  <1>3. OneRuns'
    BY DEF AuthorityInv, AuthorityTyped, Connected, OneRuns, RawIsCurrent, CtlFields, ReconFields,
         Removing, Current, Authority!Disconnected, Authority!LastSeen, Authority!PageUnproven,
         Authority!Slots
  <1>4. RawIsCurrent'
    BY DEF AuthorityInv, AuthorityTyped, Connected, OneRuns, RawIsCurrent, CtlFields, ReconFields,
         Removing, Current, Authority!Disconnected, Authority!LastSeen, Authority!PageUnproven,
         Authority!Slots
  <1>5. FreshIsTrue'
    BY DEF AuthorityInv, AuthorityTyped, Connected, OneRuns, RawIsCurrent, FreshIsTrue, CtlFields,
         ReconFields, Removing, Current, ItemsAreTrue, Authority!Disconnected, Authority!LastSeen,
         Authority!PageUnproven
  <1>6. DeletesAreConfirmed'
    BY DEF AuthorityInv, AuthorityTyped, Connected, OneRuns, RawIsCurrent, DeletesAreConfirmed,
         CtlFields, ReconFields, Removing, Current, Authority!Disconnected, Authority!LastSeen,
         Authority!PageUnproven
  <1> QED
    BY <1>1, <1>2, <1>3, <1>4, <1>5, <1>6 DEF AuthorityInv

LEMMA UnpluggedKeepsAuthority ==
  ASSUME AuthorityInv, Authority!Unplugged
  PROVE  AuthorityInv'
  <1>1. AuthorityTyped'
    BY DEF AuthorityInv, AuthorityTyped, CtlFields, ReconFields, Authority!Unplugged,
         Authority!Aborted, Authority!Drop, Authority!IdleRecon, Authority!LastSeen,
         Authority!PageUnproven, Authority!Spend, Authority!WithoutAuthority, Authority!Slots
  <1>2. Connected'
    BY DEF AuthorityInv, AuthorityTyped, Connected, OneRuns, CtlFields, ReconFields,
         Authority!Unplugged, Authority!Aborted, Authority!Drop, Authority!IdleRecon,
         Authority!LastSeen, Authority!PageUnproven, Authority!Spend, Authority!WithoutAuthority
  <1>3. OneRuns'
    BY DEF AuthorityInv, AuthorityTyped, Connected, OneRuns, RawIsCurrent, CtlFields, ReconFields,
         Removing, Current, Authority!Unplugged, Authority!Aborted, Authority!Drop,
         Authority!IdleRecon, Authority!LastSeen, Authority!PageUnproven, Authority!Spend,
         Authority!WithoutAuthority, Authority!Slots
  <1>4. RawIsCurrent'
    BY DEF AuthorityInv, AuthorityTyped, Connected, OneRuns, RawIsCurrent, CtlFields, ReconFields,
         Removing, Current, Authority!Unplugged, Authority!Aborted, Authority!Drop,
         Authority!IdleRecon, Authority!LastSeen, Authority!PageUnproven, Authority!Spend,
         Authority!WithoutAuthority, Authority!Slots
  <1>5. FreshIsTrue'
    BY DEF AuthorityInv, AuthorityTyped, Connected, OneRuns, RawIsCurrent, FreshIsTrue, CtlFields,
         ReconFields, Removing, Current, ItemsAreTrue, Authority!Unplugged, Authority!Aborted,
         Authority!Drop, Authority!IdleRecon, Authority!LastSeen, Authority!PageUnproven,
         Authority!Spend, Authority!WithoutAuthority
  <1>6. DeletesAreConfirmed'
    BY DEF AuthorityInv, AuthorityTyped, Connected, OneRuns, RawIsCurrent, DeletesAreConfirmed,
         CtlFields, ReconFields, Removing, Current, Authority!Unplugged, Authority!Aborted,
         Authority!Drop, Authority!IdleRecon, Authority!LastSeen, Authority!PageUnproven,
         Authority!Spend, Authority!WithoutAuthority
  <1> QED
    BY <1>1, <1>2, <1>3, <1>4, <1>5, <1>6 DEF AuthorityInv

LEMMA HiddenKeepsAuthority ==
  ASSUME AuthorityInv, Authority!Hidden
  PROVE  AuthorityInv'
  <1>1. AuthorityTyped'
    BY DEF AuthorityInv, AuthorityTyped, CtlFields, ReconFields, Authority!Hidden, Authority!Aborted,
         Authority!Drop, Authority!IdleRecon, Authority!LastSeen, Authority!PageUnproven,
         Authority!Spend, Authority!WithoutAuthority, Authority!Slots
  <1>2. Connected'
    BY DEF AuthorityInv, AuthorityTyped, Connected, OneRuns, CtlFields, ReconFields, Authority!Hidden,
         Authority!Aborted, Authority!Drop, Authority!IdleRecon, Authority!LastSeen,
         Authority!PageUnproven, Authority!Spend, Authority!WithoutAuthority
  <1>3. OneRuns'
    BY DEF AuthorityInv, AuthorityTyped, Connected, OneRuns, RawIsCurrent, CtlFields, ReconFields,
         Removing, Current, Authority!Hidden, Authority!Aborted, Authority!Drop, Authority!IdleRecon,
         Authority!LastSeen, Authority!PageUnproven, Authority!Spend, Authority!WithoutAuthority,
         Authority!Slots
  <1>4. RawIsCurrent'
    BY DEF AuthorityInv, AuthorityTyped, Connected, OneRuns, RawIsCurrent, CtlFields, ReconFields,
         Removing, Current, Authority!Hidden, Authority!Aborted, Authority!Drop, Authority!IdleRecon,
         Authority!LastSeen, Authority!PageUnproven, Authority!Spend, Authority!WithoutAuthority,
         Authority!Slots
  <1>5. FreshIsTrue'
    BY DEF AuthorityInv, AuthorityTyped, Connected, OneRuns, RawIsCurrent, FreshIsTrue, CtlFields,
         ReconFields, Removing, Current, ItemsAreTrue, Authority!Hidden, Authority!Aborted,
         Authority!Drop, Authority!IdleRecon, Authority!LastSeen, Authority!PageUnproven,
         Authority!Spend, Authority!WithoutAuthority
  <1>6. DeletesAreConfirmed'
    BY DEF AuthorityInv, AuthorityTyped, Connected, OneRuns, RawIsCurrent, DeletesAreConfirmed,
         CtlFields, ReconFields, Removing, Current, Authority!Hidden, Authority!Aborted,
         Authority!Drop, Authority!IdleRecon, Authority!LastSeen, Authority!PageUnproven,
         Authority!Spend, Authority!WithoutAuthority
  <1> QED
    BY <1>1, <1>2, <1>3, <1>4, <1>5, <1>6 DEF AuthorityInv

LEMMA StartBackgroundKeepsAuthority ==
  ASSUME AuthorityInv, Authority!StartBackground
  PROVE  AuthorityInv'
  <1>1. AuthorityTyped'
    BY DEF AuthorityInv, AuthorityTyped, CtlFields, ReconFields, Authority!StartBackground,
         Authority!MayCompare, Authority!Slots
  <1>2. Connected'
    BY DEF AuthorityInv, AuthorityTyped, Connected, OneRuns, CtlFields, ReconFields,
         Authority!StartBackground, Authority!MayCompare
  <1>3. OneRuns'
    BY DEF AuthorityInv, AuthorityTyped, Connected, OneRuns, RawIsCurrent, CtlFields, ReconFields,
         Removing, Current, Authority!StartBackground, Authority!MayCompare, Authority!Slots
  <1>4. RawIsCurrent'
    BY DEF AuthorityInv, AuthorityTyped, Connected, OneRuns, RawIsCurrent, CtlFields, ReconFields,
         Removing, Current, Authority!StartBackground, Authority!MayCompare, Authority!Slots
  <1>5. FreshIsTrue'
    BY DEF AuthorityInv, AuthorityTyped, Connected, OneRuns, RawIsCurrent, FreshIsTrue, CtlFields,
         ReconFields, Removing, Current, ItemsAreTrue, Authority!StartBackground, Authority!MayCompare
  <1>6. DeletesAreConfirmed'
    BY DEF AuthorityInv, AuthorityTyped, Connected, OneRuns, RawIsCurrent, DeletesAreConfirmed,
         CtlFields, ReconFields, Removing, Current, Authority!StartBackground, Authority!MayCompare
  <1> QED
    BY <1>1, <1>2, <1>3, <1>4, <1>5, <1>6 DEF AuthorityInv

LEMMA ReadIndexKeepsAuthority ==
  ASSUME AuthorityInv, NEW s \in Authority!Slots, Authority!ReadIndex(s)
  PROVE  AuthorityInv'
  <1>1. AuthorityTyped'
    BY DEF AuthorityInv, AuthorityTyped, CtlFields, ReconFields, Authority!ReadIndex, Authority!Slots
  <1>2. Connected'
    BY DEF AuthorityInv, AuthorityTyped, Connected, OneRuns, CtlFields, ReconFields, Authority!ReadIndex
  <1>3. OneRuns'
    BY DEF AuthorityInv, AuthorityTyped, Connected, OneRuns, RawIsCurrent, CtlFields, ReconFields,
         Removing, Current, Authority!ReadIndex, Authority!Slots
  <1>4. RawIsCurrent'
    BY DEF AuthorityInv, AuthorityTyped, Connected, OneRuns, RawIsCurrent, CtlFields, ReconFields,
         Removing, Current, Authority!ReadIndex, Authority!Slots
  <1>5. FreshIsTrue'
    BY DEF AuthorityInv, AuthorityTyped, Connected, OneRuns, RawIsCurrent, FreshIsTrue, CtlFields,
         ReconFields, Removing, Current, ItemsAreTrue, Authority!ReadIndex
  <1>6. DeletesAreConfirmed'
    BY DEF AuthorityInv, AuthorityTyped, Connected, OneRuns, RawIsCurrent, DeletesAreConfirmed,
         CtlFields, ReconFields, Removing, Current, Authority!ReadIndex
  <1> QED
    BY <1>1, <1>2, <1>3, <1>4, <1>5, <1>6 DEF AuthorityInv

\* A comparison of the files of the Kindle is true of them, handle by handle.
LEMMA CompareIs ==
  ASSUME AuthorityTyped, NEW index, NEW h \in KindleHandles
  PROVE  /\ Authority!Compare(authorityDevice, index)[h] = Nobody => authorityDevice[h] = Nobody
         /\ Authority!Compare(authorityDevice, index)[h] # Nobody =>
              Authority!Compare(authorityDevice, index)[h].file = authorityDevice[h]
  <1>1. PICK match :
          match = IF authorityDevice[h].ed = index[authorityDevice[h].book] THEN "confirmed" ELSE "prior"
    OBVIOUS
  <1>2. Authority!Compare(authorityDevice, index)[h] =
          IF authorityDevice[h] = Nobody THEN Nobody ELSE [file |-> authorityDevice[h], match |-> match]
    BY <1>1 DEF Authority!Compare
  <1>3. CASE authorityDevice[h] = Nobody
    BY <1>2, <1>3
  <1>4. CASE authorityDevice[h] # Nobody
    <2>1. authorityDevice[h] \in [book : KindleBooks, ed : {1, 2}, date : {0, 1}]
      BY <1>4 DEF AuthorityTyped, Authority!File
    <2>2. [file |-> authorityDevice[h], match |-> match] # Nobody
      BY <1>1, <2>1, NobodyIsApart
    <2> QED
      BY <1>2, <1>4, <2>2
  <1> QED
    BY <1>3, <1>4

LEMMA InstallKeepsAuthority ==
  ASSUME AuthorityInv, NEW s \in Authority!Slots, Authority!Install(s)
  PROVE  AuthorityInv'
  <1>1. CASE s = "hardware" /\ Authority!Active(authorityRecon[s].epoch)
    <2>0. /\ authorityRecon["hardware"].pc = "install"
          /\ authorityCtl.epoch = authorityRecon["hardware"].epoch
          /\ authorityCtl.conn = authorityRecon["hardware"].epoch
          /\ authorityRaw'.of = authorityRecon["hardware"].epoch
          /\ authorityRaw'.files = authorityRecon["hardware"].files
          /\ authorityShown'.items = Authority!Compare(authorityRecon["hardware"].files,
                authorityRecon["hardware"].index)
          /\ authorityPage' = [authorityPage EXCEPT !.fresh = TRUE]
          /\ authorityCtl' = [authorityCtl EXCEPT !.rawEpoch = authorityCtl.epoch, !.inv = "ready"]
          /\ authorityRecon' = [authorityRecon EXCEPT !["hardware"] = Authority!IdleRecon]
          /\ \/ /\ authorityPost.pc = "compare" /\ authorityPost' = [authorityPost EXCEPT !.pc = "end"]
                  /\ UNCHANGED authorityJob
             \/ /\ authorityPost.pc # "compare" /\ authorityJob' = [authorityJob EXCEPT !.pc = "end"]
                  /\ UNCHANGED authorityPost
          /\ UNCHANGED <<authorityDevice, authorityEdition, authoritySession, authorityBudget>>
      BY <1>1 DEF Authority!Install, Authority!Active, Authority!Resumed
    <2>1. AuthorityTyped'
      BY <2>0 DEF AuthorityInv, AuthorityTyped, CtlFields, ReconFields, Authority!Slots,
           Authority!IdleRecon, Authority!IdleJob
    <2>2. Connected'
      BY <2>0 DEF AuthorityInv, AuthorityTyped, Connected, OneRuns, CtlFields, ReconFields,
           Authority!Slots, Authority!IdleRecon, Authority!IdleJob
    <2>3. OneRuns'
      BY <2>0 DEF AuthorityInv, AuthorityTyped, Connected, OneRuns, RawIsCurrent, CtlFields,
           ReconFields, Removing, Current, Authority!Slots, Authority!IdleRecon, Authority!IdleJob
    <2>4. RawIsCurrent'
      BY <2>0 DEF AuthorityInv, AuthorityTyped, Connected, OneRuns, RawIsCurrent, CtlFields,
           ReconFields, Removing, Current, Authority!Slots, Authority!IdleRecon, Authority!IdleJob
    <2>5. FreshIsTrue'
      <3>1. authorityBudget.touches = 0 => authorityRecon["hardware"].files = authorityDevice
        BY <2>0 DEF AuthorityInv, Connected, OneRuns, RawIsCurrent, Removing, Current
      <3>2. authorityBudget.touches = 0 => ItemsAreTrue'
        BY <2>0, <3>1, CompareIs DEF AuthorityInv, ItemsAreTrue
      <3>3. authorityCtl.stage = "up" /\ authorityCtl'.stage = "up"
        BY <2>0 DEF AuthorityInv, AuthorityTyped, CtlFields, Connected, OneRuns
      <3> QED
        BY <2>0, <3>2, <3>3 DEF FreshIsTrue
    <2>6. DeletesAreConfirmed'
      BY <2>0 DEF AuthorityInv, AuthorityTyped, Connected, OneRuns, RawIsCurrent, DeletesAreConfirmed,
           CtlFields, ReconFields, Removing, Current, Authority!Slots, Authority!IdleRecon,
           Authority!IdleJob
    <2> QED
      BY <2>1, <2>2, <2>3, <2>4, <2>5, <2>6 DEF AuthorityInv
  <1>2. CASE s = "background" /\ Authority!Active(authorityRecon[s].epoch)
    <2>0. /\ authorityRecon["background"].pc = "install"
          /\ authorityCtl.epoch = authorityRecon["background"].epoch
          /\ authorityCtl.conn = authorityRecon["background"].epoch
          /\ authorityRaw'.of = authorityRecon["background"].epoch
          /\ authorityRaw'.files = authorityRecon["background"].files
          /\ authorityShown'.items = Authority!Compare(authorityRecon["background"].files,
                authorityRecon["background"].index)
          /\ authorityPage' = [authorityPage EXCEPT !.fresh = TRUE]
          /\ authorityCtl' = [authorityCtl EXCEPT !.rawEpoch = authorityCtl.epoch, !.inv = "ready"]
          /\ authorityRecon' = [authorityRecon EXCEPT !["background"] = Authority!IdleRecon]
          /\ UNCHANGED <<authorityPost, authorityJob>>
          /\ UNCHANGED <<authorityDevice, authorityEdition, authoritySession, authorityBudget>>
      BY <1>2 DEF Authority!Install, Authority!Active, Authority!Resumed
    <2>1. AuthorityTyped'
      BY <2>0 DEF AuthorityInv, AuthorityTyped, CtlFields, ReconFields, Authority!Slots,
           Authority!IdleRecon, Authority!IdleJob
    <2>2. Connected'
      BY <2>0 DEF AuthorityInv, AuthorityTyped, Connected, OneRuns, CtlFields, ReconFields,
           Authority!Slots, Authority!IdleRecon, Authority!IdleJob
    <2>3. OneRuns'
      BY <2>0 DEF AuthorityInv, AuthorityTyped, Connected, OneRuns, RawIsCurrent, CtlFields,
           ReconFields, Removing, Current, Authority!Slots, Authority!IdleRecon, Authority!IdleJob
    <2>4. RawIsCurrent'
      BY <2>0 DEF AuthorityInv, AuthorityTyped, Connected, OneRuns, RawIsCurrent, CtlFields,
           ReconFields, Removing, Current, Authority!Slots, Authority!IdleRecon, Authority!IdleJob
    <2>5. FreshIsTrue'
      <3>1. authorityBudget.touches = 0 => authorityRecon["background"].files = authorityDevice
        BY <2>0 DEF AuthorityInv, Connected, OneRuns, RawIsCurrent, Removing, Current
      <3>2. authorityBudget.touches = 0 => ItemsAreTrue'
        BY <2>0, <3>1, CompareIs DEF AuthorityInv, ItemsAreTrue
      <3>3. authorityCtl.stage = "up" /\ authorityCtl'.stage = "up"
        BY <2>0 DEF AuthorityInv, AuthorityTyped, CtlFields, Connected, OneRuns, RawIsCurrent
      <3> QED
        BY <2>0, <3>2, <3>3 DEF FreshIsTrue
    <2>6. DeletesAreConfirmed'
      BY <2>0 DEF AuthorityInv, AuthorityTyped, Connected, OneRuns, RawIsCurrent, DeletesAreConfirmed,
           CtlFields, ReconFields, Removing, Current, Authority!Slots, Authority!IdleRecon,
           Authority!IdleJob
    <2> QED
      BY <2>1, <2>2, <2>3, <2>4, <2>5, <2>6 DEF AuthorityInv
  <1>3. CASE s = "hardware" /\ ~Authority!Active(authorityRecon[s].epoch)
    <2>0. /\ authorityRecon["hardware"].pc = "install"
          /\ ~Authority!Active(authorityRecon["hardware"].epoch)
          /\ authorityRecon' = [authorityRecon EXCEPT !["hardware"] = Authority!IdleRecon]
          /\ UNCHANGED <<authorityRaw, authorityShown, authorityPage, authorityCtl>>
          /\ \/ /\ authorityPost.pc = "compare" /\ authorityPost' = [authorityPost EXCEPT !.pc = "end"]
                  /\ UNCHANGED authorityJob
             \/ /\ authorityPost.pc # "compare" /\ authorityJob' = [authorityJob EXCEPT !.pc = "end"]
                  /\ UNCHANGED authorityPost
          /\ UNCHANGED <<authorityDevice, authorityEdition, authoritySession, authorityBudget>>
      BY <1>3 DEF Authority!Install, Authority!Resumed
    <2>1. AuthorityTyped'
      BY <2>0 DEF AuthorityInv, AuthorityTyped, CtlFields, ReconFields, Authority!Slots,
           Authority!IdleRecon, Authority!IdleJob
    <2>2. Connected'
      BY <2>0 DEF AuthorityInv, AuthorityTyped, Connected, OneRuns, CtlFields, ReconFields,
           Authority!Slots, Authority!IdleRecon, Authority!IdleJob
    <2>3. OneRuns'
      BY <2>0 DEF AuthorityInv, AuthorityTyped, Connected, OneRuns, RawIsCurrent, CtlFields,
           ReconFields, Removing, Current, Authority!Slots, Authority!IdleRecon, Authority!IdleJob
    <2>4. RawIsCurrent'
      <3>1. authorityPost.pc # "compare" => authorityCtl.conn = 0
        BY <2>0 DEF AuthorityInv, AuthorityTyped, Connected, OneRuns, Authority!Slots, Authority!Active
      <3> QED
        BY <2>0, <3>1 DEF AuthorityInv, AuthorityTyped, Connected, OneRuns, RawIsCurrent, Removing,
             Current,
             Authority!Slots, Authority!IdleRecon
    <2>5. FreshIsTrue'
      <3>1. authorityPost.pc # "compare" => ~authorityPage.fresh
        BY <2>0 DEF AuthorityInv, AuthorityTyped, Connected, OneRuns, FreshIsTrue, Authority!Slots,
             Authority!Active
      <3> QED
        BY <2>0, <3>1 DEF AuthorityInv, AuthorityTyped, FreshIsTrue, ItemsAreTrue, Removing
    <2>6. DeletesAreConfirmed'
      BY <2>0 DEF AuthorityInv, AuthorityTyped, Connected, OneRuns, RawIsCurrent, DeletesAreConfirmed,
           CtlFields, ReconFields, Removing, Current, Authority!Slots, Authority!IdleRecon,
           Authority!IdleJob
    <2> QED
      BY <2>1, <2>2, <2>3, <2>4, <2>5, <2>6 DEF AuthorityInv
  <1>4. CASE s = "background" /\ ~Authority!Active(authorityRecon[s].epoch)
    <2>0. /\ authorityRecon["background"].pc = "install"
          /\ ~Authority!Active(authorityRecon["background"].epoch)
          /\ authorityRecon' = [authorityRecon EXCEPT !["background"] = Authority!IdleRecon]
          /\ UNCHANGED <<authorityRaw, authorityShown, authorityPage, authorityCtl>>
          /\ UNCHANGED <<authorityPost, authorityJob>>
          /\ UNCHANGED <<authorityDevice, authorityEdition, authoritySession, authorityBudget>>
      BY <1>4 DEF Authority!Install, Authority!Resumed
    <2>1. AuthorityTyped'
      BY <2>0 DEF AuthorityInv, AuthorityTyped, CtlFields, ReconFields, Authority!Slots,
           Authority!IdleRecon, Authority!IdleJob
    <2>2. Connected'
      BY <2>0 DEF AuthorityInv, AuthorityTyped, Connected, OneRuns, CtlFields, ReconFields,
           Authority!Slots, Authority!IdleRecon, Authority!IdleJob
    <2>3. OneRuns'
      BY <2>0 DEF AuthorityInv, AuthorityTyped, Connected, OneRuns, RawIsCurrent, CtlFields,
           ReconFields, Removing, Current, Authority!Slots, Authority!IdleRecon, Authority!IdleJob
    <2>4. RawIsCurrent'
      BY <2>0 DEF AuthorityInv, AuthorityTyped, Connected, OneRuns, RawIsCurrent, CtlFields,
           ReconFields, Removing, Current, Authority!Slots, Authority!IdleRecon, Authority!IdleJob
    <2>5. FreshIsTrue'
      BY <2>0 DEF AuthorityInv, AuthorityTyped, Connected, OneRuns, RawIsCurrent, FreshIsTrue,
           CtlFields, ReconFields, Removing, Current, ItemsAreTrue, Authority!Slots,
           Authority!IdleRecon, Authority!IdleJob
    <2>6. DeletesAreConfirmed'
      BY <2>0 DEF AuthorityInv, AuthorityTyped, Connected, OneRuns, RawIsCurrent, DeletesAreConfirmed,
           CtlFields, ReconFields, Removing, Current, Authority!Slots, Authority!IdleRecon,
           Authority!IdleJob
    <2> QED
      BY <2>1, <2>2, <2>3, <2>4, <2>5, <2>6 DEF AuthorityInv
  <1> QED
    BY <1>1, <1>2, <1>3, <1>4 DEF Authority!Slots

LEMMA CompareFailsKeepsAuthority ==
  ASSUME AuthorityInv, NEW s \in Authority!Slots, Authority!CompareFails(s)
  PROVE  AuthorityInv'
  <1>1. CASE s = "hardware" /\ authorityJob.pc = "compare" /\ Authority!Active(authorityRecon[s].epoch)
    <2>0. /\ authorityRecon["hardware"].pc # "idle" /\ authorityJob.pc = "compare"
          /\ authorityCtl.epoch = authorityRecon["hardware"].epoch
          /\ authorityCtl.conn = authorityRecon["hardware"].epoch
          /\ authorityRaw'.of = authorityRecon["hardware"].epoch
          /\ authorityRaw'.files = authorityRecon["hardware"].files
          /\ authorityPage' = [authorityPage EXCEPT !.fresh = FALSE]
          /\ authorityCtl' = [authorityCtl EXCEPT !.rawEpoch = 0, !.inv = "failed"]
          /\ authorityRecon' = [authorityRecon EXCEPT !["hardware"] = Authority!IdleRecon]
          /\ \/ /\ authorityPost.pc = "compare" /\ authorityPost' = [authorityPost EXCEPT !.pc = "end"]
                /\ UNCHANGED authorityJob
             \/ /\ authorityPost.pc # "compare" /\ authorityJob' = [authorityJob EXCEPT !.pc = "end"]
                /\ UNCHANGED authorityPost
          /\ authorityBudget' = [authorityBudget EXCEPT !["faults"] = @ + 1]
          /\ UNCHANGED <<authorityDevice, authorityEdition, authoritySession>>
      BY <1>1 DEF Authority!CompareFails, Authority!Active, Authority!Resumed, Authority!Spend,
           Authority!PageUnproven
    <2>1. AuthorityTyped'
      BY <2>0 DEF AuthorityInv, AuthorityTyped, CtlFields, ReconFields, Authority!Slots,
           Authority!IdleRecon, Authority!IdleJob
    <2>2. Connected'
      BY <2>0 DEF AuthorityInv, AuthorityTyped, Connected, OneRuns, CtlFields, ReconFields,
           Authority!Slots, Authority!IdleRecon, Authority!IdleJob
    <2>3. OneRuns'
      BY <2>0 DEF AuthorityInv, AuthorityTyped, Connected, OneRuns, RawIsCurrent, CtlFields,
           ReconFields, Removing, Current, Authority!Slots, Authority!IdleRecon, Authority!IdleJob
    <2>4. RawIsCurrent'
      BY <2>0 DEF AuthorityInv, AuthorityTyped, Connected, OneRuns, RawIsCurrent, CtlFields,
           ReconFields, Removing, Current, Authority!Slots, Authority!IdleRecon, Authority!IdleJob
    <2>5. FreshIsTrue'
      BY <2>0 DEF AuthorityInv, AuthorityTyped, Connected, OneRuns, RawIsCurrent, FreshIsTrue,
           CtlFields, ReconFields, Removing, Current, ItemsAreTrue, Authority!Slots,
           Authority!IdleRecon, Authority!IdleJob
    <2>6. DeletesAreConfirmed'
      BY <2>0 DEF AuthorityInv, AuthorityTyped, Connected, OneRuns, RawIsCurrent, DeletesAreConfirmed,
           CtlFields, ReconFields, Removing, Current, Authority!Slots, Authority!IdleRecon,
           Authority!IdleJob
    <2> QED
      BY <2>1, <2>2, <2>3, <2>4, <2>5, <2>6 DEF AuthorityInv
  <1>2. CASE s = "hardware" /\ ~(authorityJob.pc = "compare"
        /\ Authority!Active(authorityRecon[s].epoch))
    <2>0. /\ authorityRecon["hardware"].pc # "idle"
          /\ UNCHANGED <<authorityRaw, authorityShown, authorityPage>>
          /\ authorityRecon' = [authorityRecon EXCEPT !["hardware"] = Authority!IdleRecon]
          /\ \/ /\ authorityPost.pc = "compare" /\ authorityPost' = [authorityPost EXCEPT !.pc = "end"]
                  /\ UNCHANGED authorityJob
             \/ /\ authorityPost.pc # "compare" /\ authorityJob' = [authorityJob EXCEPT !.pc = "end"]
                  /\ UNCHANGED authorityPost
          /\ authorityPost.pc # "compare" => ~(authorityJob.pc = "compare"
                /\ Authority!Active(authorityRecon["hardware"].epoch))
          /\ authorityBudget' = [authorityBudget EXCEPT !["faults"] = @ + 1]
          /\ UNCHANGED <<authorityDevice, authorityEdition, authoritySession>>
          /\ DOMAIN authorityCtl' = DOMAIN authorityCtl
          /\ authorityCtl'.rawEpoch \in {authorityCtl.rawEpoch, 0}
          /\ authorityCtl'.conn = authorityCtl.conn /\ authorityCtl'.epoch = authorityCtl.epoch
          /\ authorityCtl'.stage = authorityCtl.stage /\ authorityCtl'.busy = authorityCtl.busy
      <3>1. authorityCtl' = authorityCtl \/ authorityCtl' = [authorityCtl EXCEPT !.rawEpoch = 0,
              !.inv = "failed"]
        BY <1>2 DEF Authority!CompareFails
      <3>2. /\ authorityRecon["hardware"].pc # "idle"
            /\ UNCHANGED <<authorityRaw, authorityShown, authorityPage>>
            /\ authorityRecon' = [authorityRecon EXCEPT !["hardware"] = Authority!IdleRecon]
            /\ \/ /\ authorityPost.pc = "compare" /\ authorityPost' = [authorityPost EXCEPT !.pc = "end"]
                    /\ UNCHANGED authorityJob
               \/ /\ authorityPost.pc # "compare" /\ authorityJob' = [authorityJob EXCEPT !.pc = "end"]
                    /\ UNCHANGED authorityPost
            /\ authorityPost.pc # "compare" => ~(authorityJob.pc = "compare"
                  /\ Authority!Active(authorityRecon["hardware"].epoch))
            /\ authorityBudget' = [authorityBudget EXCEPT !["faults"] = @ + 1]
            /\ UNCHANGED <<authorityDevice, authorityEdition, authoritySession>>
        BY <1>2 DEF Authority!CompareFails, Authority!Resumed, Authority!Spend
      <3> QED
        BY <3>1, <3>2 DEF AuthorityInv, AuthorityTyped, CtlFields
    <2>1. AuthorityTyped'
      BY <2>0 DEF AuthorityInv, AuthorityTyped, CtlFields, ReconFields, Authority!Slots,
           Authority!IdleRecon, Authority!IdleJob
    <2>2. Connected'
      BY <2>0 DEF AuthorityInv, AuthorityTyped, Connected, OneRuns, CtlFields, ReconFields,
           Authority!Slots, Authority!IdleRecon, Authority!IdleJob
    <2>3. OneRuns'
      <3>1. authorityPost.pc # "compare" => authorityCtl.conn = 0
        BY <2>0 DEF AuthorityInv, AuthorityTyped, Connected, OneRuns, Authority!Slots, Authority!Active
      <3> QED
        BY <2>0, <3>1 DEF AuthorityInv, AuthorityTyped, Connected, OneRuns, RawIsCurrent, Removing,
             Current,
             Authority!Slots, Authority!IdleRecon
    <2>4. RawIsCurrent'
      <3>1. authorityPost.pc # "compare" => authorityCtl.conn = 0
        BY <2>0 DEF AuthorityInv, AuthorityTyped, Connected, OneRuns, Authority!Slots, Authority!Active
      <3> QED
        BY <2>0, <3>1 DEF AuthorityInv, AuthorityTyped, Connected, OneRuns, RawIsCurrent, Removing,
             Current,
             Authority!Slots, Authority!IdleRecon
    <2>5. FreshIsTrue'
      <3>1. authorityPost.pc # "compare" => ~authorityPage.fresh
        BY <2>0 DEF AuthorityInv, AuthorityTyped, Connected, OneRuns, FreshIsTrue, Authority!Slots,
             Authority!Active
      <3> QED
        BY <2>0, <3>1 DEF AuthorityInv, AuthorityTyped, FreshIsTrue, ItemsAreTrue, Removing
    <2>6. DeletesAreConfirmed'
      BY <2>0 DEF AuthorityInv, AuthorityTyped, Connected, OneRuns, RawIsCurrent, DeletesAreConfirmed,
           CtlFields, ReconFields, Removing, Current, Authority!Slots, Authority!IdleRecon,
           Authority!IdleJob
    <2> QED
      BY <2>1, <2>2, <2>3, <2>4, <2>5, <2>6 DEF AuthorityInv
  <1>3. CASE s = "background"
    <2>0. /\ authorityRecon["background"].pc # "idle"
          /\ UNCHANGED <<authorityRaw, authorityShown, authorityPage>>
          /\ authorityRecon' = [authorityRecon EXCEPT !["background"] = Authority!IdleRecon]
          /\ UNCHANGED <<authorityPost, authorityJob>>
          /\ authorityBudget' = [authorityBudget EXCEPT !["faults"] = @ + 1]
          /\ UNCHANGED <<authorityDevice, authorityEdition, authoritySession>>
          /\ DOMAIN authorityCtl' = DOMAIN authorityCtl
          /\ authorityCtl'.rawEpoch \in {authorityCtl.rawEpoch, 0}
          /\ authorityCtl'.conn = authorityCtl.conn /\ authorityCtl'.epoch = authorityCtl.epoch
          /\ authorityCtl'.stage = authorityCtl.stage /\ authorityCtl'.busy = authorityCtl.busy
      <3>1. authorityCtl' = authorityCtl \/ authorityCtl' = [authorityCtl EXCEPT !.rawEpoch = 0,
              !.inv = "failed"]
        BY <1>3 DEF Authority!CompareFails
      <3>2. /\ authorityRecon["background"].pc # "idle"
            /\ UNCHANGED <<authorityRaw, authorityShown, authorityPage>>
            /\ authorityRecon' = [authorityRecon EXCEPT !["background"] = Authority!IdleRecon]
            /\ UNCHANGED <<authorityPost, authorityJob>>
            /\ authorityBudget' = [authorityBudget EXCEPT !["faults"] = @ + 1]
            /\ UNCHANGED <<authorityDevice, authorityEdition, authoritySession>>
        BY <1>3 DEF Authority!CompareFails, Authority!Resumed, Authority!Spend
      <3> QED
        BY <3>1, <3>2 DEF AuthorityInv, AuthorityTyped, CtlFields
    <2>1. AuthorityTyped'
      BY <2>0 DEF AuthorityInv, AuthorityTyped, CtlFields, ReconFields, Authority!Slots,
           Authority!IdleRecon, Authority!IdleJob
    <2>2. Connected'
      BY <2>0 DEF AuthorityInv, AuthorityTyped, Connected, OneRuns, CtlFields, ReconFields,
           Authority!Slots, Authority!IdleRecon, Authority!IdleJob
    <2>3. OneRuns'
      BY <2>0 DEF AuthorityInv, AuthorityTyped, Connected, OneRuns, RawIsCurrent, CtlFields,
           ReconFields, Removing, Current, Authority!Slots, Authority!IdleRecon, Authority!IdleJob
    <2>4. RawIsCurrent'
      BY <2>0 DEF AuthorityInv, AuthorityTyped, Connected, OneRuns, RawIsCurrent, CtlFields,
           ReconFields, Removing, Current, Authority!Slots, Authority!IdleRecon, Authority!IdleJob
    <2>5. FreshIsTrue'
      BY <2>0 DEF AuthorityInv, AuthorityTyped, FreshIsTrue, ItemsAreTrue, Removing
    <2>6. DeletesAreConfirmed'
      BY <2>0 DEF AuthorityInv, AuthorityTyped, Connected, OneRuns, RawIsCurrent, DeletesAreConfirmed,
           CtlFields, ReconFields, Removing, Current, Authority!Slots, Authority!IdleRecon,
           Authority!IdleJob
    <2> QED
      BY <2>1, <2>2, <2>3, <2>4, <2>5, <2>6 DEF AuthorityInv
  <1> QED
    BY <1>1, <1>2, <1>3 DEF Authority!Slots

LEMMA NewEditionKeepsAuthority ==
  ASSUME AuthorityInv, NEW b \in KindleBooks, Authority!NewEdition(b)
  PROVE  AuthorityInv'
  <1>1. AuthorityTyped'
    BY DEF AuthorityInv, AuthorityTyped, CtlFields, ReconFields, Authority!NewEdition,
         Authority!PageUnproven, Authority!Spend, Authority!Slots
  <1>2. Connected'
    BY DEF AuthorityInv, AuthorityTyped, Connected, OneRuns, CtlFields, ReconFields,
         Authority!NewEdition, Authority!PageUnproven, Authority!Spend
  <1>3. OneRuns'
    BY DEF AuthorityInv, AuthorityTyped, Connected, OneRuns, RawIsCurrent, CtlFields, ReconFields,
         Removing, Current, Authority!NewEdition, Authority!PageUnproven, Authority!Spend,
         Authority!Slots
  <1>4. RawIsCurrent'
    BY DEF AuthorityInv, AuthorityTyped, Connected, OneRuns, RawIsCurrent, CtlFields, ReconFields,
         Removing, Current, Authority!NewEdition, Authority!PageUnproven, Authority!Spend,
         Authority!Slots
  <1>5. FreshIsTrue'
    BY DEF AuthorityInv, AuthorityTyped, Connected, OneRuns, RawIsCurrent, FreshIsTrue, CtlFields,
         ReconFields, Removing, Current, ItemsAreTrue, Authority!NewEdition, Authority!PageUnproven,
         Authority!Spend
  <1>6. DeletesAreConfirmed'
    BY DEF AuthorityInv, AuthorityTyped, Connected, OneRuns, RawIsCurrent, DeletesAreConfirmed,
         CtlFields, ReconFields, Removing, Current, Authority!NewEdition, Authority!PageUnproven,
         Authority!Spend
  <1> QED
    BY <1>1, <1>2, <1>3, <1>4, <1>5, <1>6 DEF AuthorityInv

LEMMA TouchKeepsAuthority ==
  ASSUME AuthorityInv, NEW h \in KindleHandles, Authority!Touch(h)
  PROVE  AuthorityInv'
  <1>1. CASE authorityDevice' = [authorityDevice EXCEPT ![h] = Nobody]
    <2>1. AuthorityTyped'
      BY <1>1 DEF AuthorityInv, AuthorityTyped, Authority!Touch, Authority!Spend
    <2>2. Connected'
      BY <1>1 DEF AuthorityInv, AuthorityTyped, Connected, OneRuns, CtlFields, ReconFields,
           Authority!Touch, Authority!Spend
    <2>3. OneRuns'
      BY <1>1 DEF AuthorityInv, AuthorityTyped, Connected, OneRuns, RawIsCurrent, CtlFields,
           ReconFields, Removing, Current, Authority!Touch, Authority!Spend, Authority!Slots
    <2>4. RawIsCurrent'
      BY <1>1 DEF AuthorityInv, AuthorityTyped, Connected, OneRuns, RawIsCurrent, CtlFields,
           ReconFields, Removing, Current, Authority!Touch, Authority!Spend, Authority!Slots
    <2>5. FreshIsTrue'
      BY <1>1 DEF AuthorityInv, AuthorityTyped, Connected, OneRuns, RawIsCurrent, FreshIsTrue,
           CtlFields, ReconFields, Removing, Current, ItemsAreTrue, Authority!Touch, Authority!Spend
    <2>6. DeletesAreConfirmed'
      BY <1>1 DEF AuthorityInv, AuthorityTyped, Connected, OneRuns, RawIsCurrent, DeletesAreConfirmed,
           CtlFields, ReconFields, Removing, Current, Authority!Touch, Authority!Spend
    <2> QED
      BY <2>1, <2>2, <2>3, <2>4, <2>5, <2>6 DEF AuthorityInv
  <1>2. CASE authorityDevice' = [authorityDevice EXCEPT ![h].date = 1]
    <2>1. AuthorityTyped'
      <3>1. authorityDevice[h] \in [book : KindleBooks, ed : {1, 2}, date : {0, 1}]
        BY DEF AuthorityInv, AuthorityTyped, Authority!Touch, Authority!File
      <3>2. [authorityDevice[h] EXCEPT !.date = 1] \in [book : KindleBooks, ed : {1, 2}, date : {0, 1}]
        BY <3>1
      <3>3. authorityDevice' \in [KindleHandles -> Authority!File \cup {Nobody}]
        BY <1>2, <3>2 DEF AuthorityInv, AuthorityTyped, Authority!File
      <3> QED
        BY <3>3 DEF AuthorityInv, AuthorityTyped, Authority!Touch, Authority!Spend
    <2>2. Connected'
      BY <1>2 DEF AuthorityInv, AuthorityTyped, Connected, OneRuns, CtlFields, ReconFields,
           Authority!Touch, Authority!Spend
    <2>3. OneRuns'
      BY <1>2 DEF AuthorityInv, AuthorityTyped, Connected, OneRuns, RawIsCurrent, CtlFields,
           ReconFields, Removing, Current, Authority!Touch, Authority!Spend, Authority!Slots
    <2>4. RawIsCurrent'
      BY <1>2 DEF AuthorityInv, AuthorityTyped, Connected, OneRuns, RawIsCurrent, CtlFields,
           ReconFields, Removing, Current, Authority!Touch, Authority!Spend, Authority!Slots
    <2>5. FreshIsTrue'
      BY <1>2 DEF AuthorityInv, AuthorityTyped, Connected, OneRuns, RawIsCurrent, FreshIsTrue,
           CtlFields, ReconFields, Removing, Current, ItemsAreTrue, Authority!Touch, Authority!Spend
    <2>6. DeletesAreConfirmed'
      BY <1>2 DEF AuthorityInv, AuthorityTyped, Connected, OneRuns, RawIsCurrent, DeletesAreConfirmed,
           CtlFields, ReconFields, Removing, Current, Authority!Touch, Authority!Spend
    <2> QED
      BY <2>1, <2>2, <2>3, <2>4, <2>5, <2>6 DEF AuthorityInv
  <1> QED
    BY <1>1, <1>2 DEF Authority!Touch

LEMMA RequestRemovalKeepsAuthority ==
  ASSUME AuthorityInv, Authority!RequestRemoval
  PROVE  AuthorityInv'
  <1>1. AuthorityTyped'
    BY DEF AuthorityInv, AuthorityTyped, CtlFields, ReconFields, Authority!RequestRemoval,
         Authority!Removable, Authority!Spend, Authority!TargetOf, Authority!Slots
  <1>2. Connected'
    BY DEF AuthorityInv, AuthorityTyped, Connected, OneRuns, CtlFields, ReconFields,
         Authority!RequestRemoval, Authority!Removable, Authority!Spend, Authority!TargetOf
  <1>3. OneRuns'
    BY DEF AuthorityInv, AuthorityTyped, Connected, OneRuns, RawIsCurrent, CtlFields, ReconFields,
         Removing, Current, Authority!RequestRemoval, Authority!Removable, Authority!Spend,
         Authority!TargetOf, Authority!Slots
  <1>4. RawIsCurrent'
    BY DEF AuthorityInv, AuthorityTyped, Connected, OneRuns, RawIsCurrent, CtlFields, ReconFields,
         Removing, Current, Authority!RequestRemoval, Authority!Removable, Authority!Spend,
         Authority!TargetOf, Authority!Slots
  <1>5. FreshIsTrue'
    BY DEF AuthorityInv, AuthorityTyped, Connected, OneRuns, RawIsCurrent, FreshIsTrue, CtlFields,
         ReconFields, Removing, Current, ItemsAreTrue, Authority!RequestRemoval, Authority!Removable,
         Authority!Spend, Authority!TargetOf
  <1>6. DeletesAreConfirmed'
    BY DEF AuthorityInv, AuthorityTyped, Connected, OneRuns, RawIsCurrent, DeletesAreConfirmed,
         CtlFields, ReconFields, Removing, Current, Authority!RequestRemoval, Authority!Removable,
         Authority!Spend, Authority!TargetOf
  <1> QED
    BY <1>1, <1>2, <1>3, <1>4, <1>5, <1>6 DEF AuthorityInv

LEMMA CancelRemovalKeepsAuthority ==
  ASSUME AuthorityInv, Authority!CancelRemoval
  PROVE  AuthorityInv'
  <1>1. AuthorityTyped'
    BY DEF AuthorityInv, AuthorityTyped, CtlFields, ReconFields, Authority!CancelRemoval, Authority!Slots
  <1>2. Connected'
    BY DEF AuthorityInv, AuthorityTyped, Connected, OneRuns, CtlFields, ReconFields,
         Authority!CancelRemoval
  <1>3. OneRuns'
    BY DEF AuthorityInv, AuthorityTyped, Connected, OneRuns, RawIsCurrent, CtlFields, ReconFields,
         Removing, Current, Authority!CancelRemoval, Authority!Slots
  <1>4. RawIsCurrent'
    BY DEF AuthorityInv, AuthorityTyped, Connected, OneRuns, RawIsCurrent, CtlFields, ReconFields,
         Removing, Current, Authority!CancelRemoval, Authority!Slots
  <1>5. FreshIsTrue'
    BY DEF AuthorityInv, AuthorityTyped, Connected, OneRuns, RawIsCurrent, FreshIsTrue, CtlFields,
         ReconFields, Removing, Current, ItemsAreTrue, Authority!CancelRemoval
  <1>6. DeletesAreConfirmed'
    BY DEF AuthorityInv, AuthorityTyped, Connected, OneRuns, RawIsCurrent, DeletesAreConfirmed,
         CtlFields, ReconFields, Removing, Current, Authority!CancelRemoval
  <1> QED
    BY <1>1, <1>2, <1>3, <1>4, <1>5, <1>6 DEF AuthorityInv

LEMMA ConfirmRemovalKeepsAuthority ==
  ASSUME AuthorityInv, Authority!ConfirmRemoval
  PROVE  AuthorityInv'
  <1>1. AuthorityTyped'
    BY DEF AuthorityInv, AuthorityTyped, CtlFields, ReconFields, Authority!ConfirmRemoval,
         Authority!Ready, Authority!StillExact, Authority!Slots
  <1>2. Connected'
    BY DEF AuthorityInv, AuthorityTyped, Connected, OneRuns, CtlFields, ReconFields,
         Authority!ConfirmRemoval, Authority!Ready, Authority!StillExact
  <1>3. OneRuns'
    BY DEF AuthorityInv, AuthorityTyped, Connected, OneRuns, RawIsCurrent, CtlFields, ReconFields,
         Removing, Current, Authority!ConfirmRemoval, Authority!Ready, Authority!StillExact,
         Authority!Slots
  <1>4. RawIsCurrent'
    BY DEF AuthorityInv, AuthorityTyped, Connected, OneRuns, RawIsCurrent, CtlFields, ReconFields,
         Removing, Current, Authority!ConfirmRemoval, Authority!Ready, Authority!StillExact,
         Authority!Slots
  <1>5. FreshIsTrue'
    BY DEF AuthorityInv, AuthorityTyped, Connected, OneRuns, RawIsCurrent, FreshIsTrue, CtlFields,
         ReconFields, Removing, Current, ItemsAreTrue, Authority!ConfirmRemoval, Authority!Ready,
         Authority!StillExact
  <1>6. DeletesAreConfirmed'
    BY DEF AuthorityInv, AuthorityTyped, Connected, OneRuns, RawIsCurrent, DeletesAreConfirmed,
         CtlFields, ReconFields, Removing, Current, Authority!ConfirmRemoval, Authority!Ready,
         Authority!StillExact
  <1> QED
    BY <1>1, <1>2, <1>3, <1>4, <1>5, <1>6 DEF AuthorityInv

LEMMA DeleteNextKeepsAuthority ==
  ASSUME AuthorityInv, Authority!DeleteNext
  PROVE  AuthorityInv'
  <1>1. AuthorityTyped'
    BY DEF AuthorityInv, AuthorityTyped, CtlFields, ReconFields, Authority!DeleteNext,
         Authority!FirstLeft, Authority!Slots
  <1>2. Connected'
    BY DEF AuthorityInv, AuthorityTyped, Connected, OneRuns, CtlFields, ReconFields,
         Authority!DeleteNext, Authority!FirstLeft
  <1>3. OneRuns'
    BY DEF AuthorityInv, AuthorityTyped, Connected, OneRuns, RawIsCurrent, CtlFields, ReconFields,
         Removing, Current, Authority!DeleteNext, Authority!FirstLeft, Authority!Slots
  <1>4. RawIsCurrent'
    BY DEF AuthorityInv, AuthorityTyped, Connected, OneRuns, RawIsCurrent, CtlFields, ReconFields,
         Removing, Current, Authority!DeleteNext, Authority!FirstLeft, Authority!Slots
  <1>5. FreshIsTrue'
    BY DEF AuthorityInv, AuthorityTyped, Connected, OneRuns, RawIsCurrent, FreshIsTrue, CtlFields,
         ReconFields, Removing, Current, ItemsAreTrue, Authority!DeleteNext, Authority!FirstLeft
  <1>6. DeletesAreConfirmed'
    BY DEF AuthorityInv, AuthorityTyped, Connected, OneRuns, RawIsCurrent, DeletesAreConfirmed,
         CtlFields, ReconFields, Removing, Current, Authority!DeleteNext, Authority!FirstLeft
  <1> QED
    BY <1>1, <1>2, <1>3, <1>4, <1>5, <1>6 DEF AuthorityInv

LEMMA AllDeletedKeepsAuthority ==
  ASSUME AuthorityInv, Authority!AllDeleted
  PROVE  AuthorityInv'
  <1>1. AuthorityTyped'
    BY DEF AuthorityInv, AuthorityTyped, CtlFields, ReconFields, Authority!AllDeleted, Authority!Slots
  <1>2. Connected'
    BY DEF AuthorityInv, AuthorityTyped, Connected, OneRuns, CtlFields, ReconFields, Authority!AllDeleted
  <1>3. OneRuns'
    BY DEF AuthorityInv, AuthorityTyped, Connected, OneRuns, RawIsCurrent, CtlFields, ReconFields,
         Removing, Current, Authority!AllDeleted, Authority!Slots
  <1>4. RawIsCurrent'
    BY DEF AuthorityInv, AuthorityTyped, Connected, OneRuns, RawIsCurrent, CtlFields, ReconFields,
         Removing, Current, Authority!AllDeleted, Authority!Slots
  <1>5. FreshIsTrue'
    BY DEF AuthorityInv, AuthorityTyped, Connected, OneRuns, RawIsCurrent, FreshIsTrue, CtlFields,
         ReconFields, Removing, Current, ItemsAreTrue, Authority!AllDeleted
  <1>6. DeletesAreConfirmed'
    BY DEF AuthorityInv, AuthorityTyped, Connected, OneRuns, RawIsCurrent, DeletesAreConfirmed,
         CtlFields, ReconFields, Removing, Current, Authority!AllDeleted
  <1> QED
    BY <1>1, <1>2, <1>3, <1>4, <1>5, <1>6 DEF AuthorityInv

LEMMA RemovalFailsKeepsAuthority ==
  ASSUME AuthorityInv, Authority!RemovalFails
  PROVE  AuthorityInv'
  <1>1. CASE Authority!Active(authorityJob.epoch)
    <2>0. /\ authorityJob.pc = "delete"
          /\ authorityJob' = [authorityJob EXCEPT !.pc = "end"]
          /\ authoritySession' = [authoritySession EXCEPT !.files = Nobody]
          /\ authorityCtl' = [authorityCtl EXCEPT !.rawEpoch = 0, !.inv = "failed"]
          /\ authorityRaw' = Nobody
          /\ authorityPage' = [authorityPage EXCEPT !.fresh = FALSE]
          /\ UNCHANGED <<authorityPost, authorityRecon>>
      BY <1>1 DEF Authority!RemovalFails, Authority!Drop, Authority!PageUnproven,
           Authority!WithoutAuthority
    <2>1. AuthorityTyped'
      <3>1. authorityDevice' \in [KindleHandles -> Authority!File \cup {Nobody}]
        BY DEF AuthorityInv, AuthorityTyped, Authority!RemovalFails, Authority!MaybeDeleted
      <3> QED
        BY <1>1, <3>1 DEF AuthorityInv, AuthorityTyped, CtlFields, Authority!RemovalFails,
          Authority!Drop, Authority!PageUnproven, Authority!WithoutAuthority
    <2>2. Connected'
      BY <2>0 DEF AuthorityInv, AuthorityTyped, CtlFields, Connected
    <2>3. OneRuns'
      BY <2>0 DEF AuthorityInv, AuthorityTyped, CtlFields, OneRuns, RawIsCurrent
    <2>4. RawIsCurrent'
      BY <1>1 DEF AuthorityInv, AuthorityTyped, Connected, OneRuns, RawIsCurrent, CtlFields,
           ReconFields, Removing, Current, Authority!RemovalFails, Authority!Active, Authority!Drop,
           Authority!FirstLeft, Authority!LastSeen, Authority!MaybeDeleted, Authority!PageUnproven,
           Authority!WithoutAuthority, Authority!Slots
    <2>5. FreshIsTrue'
      BY <1>1 DEF AuthorityInv, AuthorityTyped, Connected, OneRuns, RawIsCurrent, FreshIsTrue,
           CtlFields, ReconFields, Removing, Current, ItemsAreTrue, Authority!RemovalFails,
           Authority!Active, Authority!Drop, Authority!FirstLeft, Authority!LastSeen,
           Authority!MaybeDeleted, Authority!PageUnproven, Authority!WithoutAuthority
    <2>6. DeletesAreConfirmed'
      BY <1>1 DEF AuthorityInv, AuthorityTyped, Connected, OneRuns, RawIsCurrent, DeletesAreConfirmed,
           CtlFields, ReconFields, Removing, Current, Authority!RemovalFails, Authority!Active,
           Authority!Drop, Authority!FirstLeft, Authority!LastSeen, Authority!MaybeDeleted,
           Authority!PageUnproven, Authority!WithoutAuthority
    <2> QED
      BY <2>1, <2>2, <2>3, <2>4, <2>5, <2>6 DEF AuthorityInv
  <1>2. CASE ~Authority!Active(authorityJob.epoch)
    <2>1. AuthorityTyped'
      BY <1>2 DEF AuthorityInv, AuthorityTyped, CtlFields, ReconFields, Authority!RemovalFails,
           Authority!Active, Authority!Drop, Authority!FirstLeft, Authority!LastSeen,
           Authority!MaybeDeleted, Authority!PageUnproven, Authority!WithoutAuthority, Authority!Slots
    <2>2. Connected'
      BY <1>2 DEF AuthorityInv, AuthorityTyped, Connected, OneRuns, CtlFields, ReconFields,
           Authority!RemovalFails, Authority!Active, Authority!Drop, Authority!FirstLeft,
           Authority!LastSeen, Authority!MaybeDeleted, Authority!PageUnproven, Authority!WithoutAuthority
    <2>3. OneRuns'
      BY <1>2 DEF AuthorityInv, AuthorityTyped, Connected, OneRuns, RawIsCurrent, CtlFields,
           ReconFields, Removing, Current, Authority!RemovalFails, Authority!Active, Authority!Drop,
           Authority!FirstLeft, Authority!LastSeen, Authority!MaybeDeleted, Authority!PageUnproven,
           Authority!WithoutAuthority, Authority!Slots
    <2>4. RawIsCurrent'
      BY <1>2 DEF AuthorityInv, AuthorityTyped, Connected, OneRuns, RawIsCurrent, CtlFields,
           ReconFields, Removing, Current, Authority!RemovalFails, Authority!Active, Authority!Drop,
           Authority!FirstLeft, Authority!LastSeen, Authority!MaybeDeleted, Authority!PageUnproven,
           Authority!WithoutAuthority, Authority!Slots
    <2>5. FreshIsTrue'
      BY <1>2 DEF AuthorityInv, AuthorityTyped, Connected, OneRuns, RawIsCurrent, FreshIsTrue,
           CtlFields, ReconFields, Removing, Current, ItemsAreTrue, Authority!RemovalFails,
           Authority!Active, Authority!Drop, Authority!FirstLeft, Authority!LastSeen,
           Authority!MaybeDeleted, Authority!PageUnproven, Authority!WithoutAuthority
    <2>6. DeletesAreConfirmed'
      BY <1>2 DEF AuthorityInv, AuthorityTyped, Connected, OneRuns, RawIsCurrent, DeletesAreConfirmed,
           CtlFields, ReconFields, Removing, Current, Authority!RemovalFails, Authority!Active,
           Authority!Drop, Authority!FirstLeft, Authority!LastSeen, Authority!MaybeDeleted,
           Authority!PageUnproven, Authority!WithoutAuthority
    <2> QED
      BY <2>1, <2>2, <2>3, <2>4, <2>5, <2>6 DEF AuthorityInv
  <1> QED
    BY <1>1, <1>2

LEMMA RemovalFaultsKeepsAuthority ==
  ASSUME AuthorityInv, Authority!RemovalFaults
  PROVE  AuthorityInv'
  <1>1. AuthorityTyped'
    BY DEF AuthorityInv, AuthorityTyped, CtlFields, ReconFields, Authority!RemovalFaults,
         Authority!Active, Authority!Drop, Authority!LastSeen, Authority!PageUnproven,
         Authority!Retire, Authority!Spend, Authority!WithoutAuthority, Authority!Slots
  <1>2. Connected'
    BY DEF AuthorityInv, AuthorityTyped, Connected, OneRuns, CtlFields, ReconFields,
         Authority!RemovalFaults, Authority!Active, Authority!Drop, Authority!LastSeen,
         Authority!PageUnproven, Authority!Retire, Authority!Spend, Authority!WithoutAuthority
  <1>3. OneRuns'
    BY DEF AuthorityInv, AuthorityTyped, Connected, OneRuns, RawIsCurrent, CtlFields, ReconFields,
         Removing, Current, Authority!RemovalFaults, Authority!Active, Authority!Drop,
         Authority!LastSeen, Authority!PageUnproven, Authority!Retire, Authority!Spend,
         Authority!WithoutAuthority, Authority!Slots
  <1>4. RawIsCurrent'
    BY DEF AuthorityInv, AuthorityTyped, Connected, OneRuns, RawIsCurrent, CtlFields, ReconFields,
         Removing, Current, Authority!RemovalFaults, Authority!Active, Authority!Drop,
         Authority!LastSeen, Authority!PageUnproven, Authority!Retire, Authority!Spend,
         Authority!WithoutAuthority, Authority!Slots
  <1>5. FreshIsTrue'
    BY DEF AuthorityInv, AuthorityTyped, Connected, OneRuns, RawIsCurrent, FreshIsTrue, CtlFields,
         ReconFields, Removing, Current, ItemsAreTrue, Authority!RemovalFaults, Authority!Active,
         Authority!Drop, Authority!LastSeen, Authority!PageUnproven, Authority!Retire, Authority!Spend,
         Authority!WithoutAuthority
  <1>6. DeletesAreConfirmed'
    BY DEF AuthorityInv, AuthorityTyped, Connected, OneRuns, RawIsCurrent, DeletesAreConfirmed,
         CtlFields, ReconFields, Removing, Current, Authority!RemovalFaults, Authority!Active,
         Authority!Drop, Authority!LastSeen, Authority!PageUnproven, Authority!Retire, Authority!Spend,
         Authority!WithoutAuthority
  <1> QED
    BY <1>1, <1>2, <1>3, <1>4, <1>5, <1>6 DEF AuthorityInv

LEMMA RefreshAfterRemovalKeepsAuthority ==
  ASSUME AuthorityInv, Authority!RefreshAfterRemoval
  PROVE  AuthorityInv'
  <1>1. AuthorityTyped'
    BY DEF AuthorityInv, AuthorityTyped, CtlFields, ReconFields, Authority!RefreshAfterRemoval,
         Authority!Slots
  <1>2. Connected'
    BY DEF AuthorityInv, AuthorityTyped, Connected, OneRuns, CtlFields, ReconFields,
         Authority!RefreshAfterRemoval
  <1>3. OneRuns'
    BY DEF AuthorityInv, AuthorityTyped, Connected, OneRuns, RawIsCurrent, CtlFields, ReconFields,
         Removing, Current, Authority!RefreshAfterRemoval, Authority!Slots
  <1>4. RawIsCurrent'
    BY DEF AuthorityInv, AuthorityTyped, Connected, OneRuns, RawIsCurrent, CtlFields, ReconFields,
         Removing, Current, Authority!RefreshAfterRemoval, Authority!Slots
  <1>5. FreshIsTrue'
    BY DEF AuthorityInv, AuthorityTyped, Connected, OneRuns, RawIsCurrent, FreshIsTrue, CtlFields,
         ReconFields, Removing, Current, ItemsAreTrue, Authority!RefreshAfterRemoval
  <1>6. DeletesAreConfirmed'
    BY DEF AuthorityInv, AuthorityTyped, Connected, OneRuns, RawIsCurrent, DeletesAreConfirmed,
         CtlFields, ReconFields, Removing, Current, Authority!RefreshAfterRemoval
  <1> QED
    BY <1>1, <1>2, <1>3, <1>4, <1>5, <1>6 DEF AuthorityInv

LEMMA RefreshFailsKeepsAuthority ==
  ASSUME AuthorityInv, Authority!RefreshFails
  PROVE  AuthorityInv'
  <1>1. CASE Authority!Active(authorityJob.epoch) /\ ~Authority!Retire
    <2>0. /\ authorityJob.pc = "inventory"
          /\ authorityJob' = [authorityJob EXCEPT !.pc = "end"]
          /\ authorityCtl' = [authorityCtl EXCEPT !.rawEpoch = 0, !.inv = "failed"]
          /\ authorityRaw' = Nobody
          /\ authorityPage' = [authorityPage EXCEPT !.fresh = FALSE]
          /\ authorityBudget' = [authorityBudget EXCEPT !["faults"] = @ + 1]
          /\ UNCHANGED <<authorityDevice, authoritySession, authorityPost, authorityRecon>>
      BY <1>1 DEF Authority!RefreshFails, Authority!Drop, Authority!PageUnproven,
           Authority!WithoutAuthority, Authority!Spend
    <2>1. AuthorityTyped'
      BY <2>0 DEF AuthorityInv, AuthorityTyped, CtlFields, ReconFields, Authority!Slots,
           Authority!IdleRecon, Authority!IdleJob
    <2>2. Connected'
      BY <2>0 DEF AuthorityInv, AuthorityTyped, Connected, OneRuns, CtlFields, ReconFields,
           Authority!Slots, Authority!IdleRecon, Authority!IdleJob
    <2>3. OneRuns'
      BY <2>0 DEF AuthorityInv, AuthorityTyped, Connected, OneRuns, RawIsCurrent, CtlFields,
           ReconFields, Removing, Current, Authority!Slots, Authority!IdleRecon, Authority!IdleJob
    <2>4. RawIsCurrent'
      BY <2>0 DEF AuthorityInv, AuthorityTyped, Connected, OneRuns, RawIsCurrent, CtlFields,
           ReconFields, Removing, Current, Authority!Slots, Authority!IdleRecon, Authority!IdleJob
    <2>5. FreshIsTrue'
      BY <2>0 DEF AuthorityInv, AuthorityTyped, Connected, OneRuns, RawIsCurrent, FreshIsTrue,
           CtlFields, ReconFields, Removing, Current, ItemsAreTrue, Authority!Slots,
           Authority!IdleRecon, Authority!IdleJob
    <2>6. DeletesAreConfirmed'
      BY <2>0 DEF AuthorityInv, AuthorityTyped, Connected, OneRuns, RawIsCurrent, DeletesAreConfirmed,
           CtlFields, ReconFields, Removing, Current, Authority!Slots, Authority!IdleRecon,
           Authority!IdleJob
    <2> QED
      BY <2>1, <2>2, <2>3, <2>4, <2>5, <2>6 DEF AuthorityInv
  <1>2. CASE Authority!Active(authorityJob.epoch) /\ Authority!Retire
    <2>1. AuthorityTyped'
      BY <1>2 DEF AuthorityInv, AuthorityTyped, CtlFields, ReconFields, Authority!RefreshFails,
           Authority!Active, Authority!Drop, Authority!LastSeen, Authority!PageUnproven,
           Authority!Retire, Authority!Spend, Authority!WithoutAuthority, Authority!Slots
    <2>2. Connected'
      BY <1>2 DEF AuthorityInv, AuthorityTyped, Connected, OneRuns, CtlFields, ReconFields,
           Authority!RefreshFails, Authority!Active, Authority!Drop, Authority!LastSeen,
           Authority!PageUnproven, Authority!Retire, Authority!Spend, Authority!WithoutAuthority
    <2>3. OneRuns'
      BY <1>2 DEF AuthorityInv, AuthorityTyped, Connected, OneRuns, RawIsCurrent, CtlFields,
           ReconFields, Removing, Current, Authority!RefreshFails, Authority!Active, Authority!Drop,
           Authority!LastSeen, Authority!PageUnproven, Authority!Retire, Authority!Spend,
           Authority!WithoutAuthority, Authority!Slots
    <2>4. RawIsCurrent'
      BY <1>2 DEF AuthorityInv, AuthorityTyped, Connected, OneRuns, RawIsCurrent, CtlFields,
           ReconFields, Removing, Current, Authority!RefreshFails, Authority!Active, Authority!Drop,
           Authority!LastSeen, Authority!PageUnproven, Authority!Retire, Authority!Spend,
           Authority!WithoutAuthority, Authority!Slots
    <2>5. FreshIsTrue'
      BY <1>2 DEF AuthorityInv, AuthorityTyped, Connected, OneRuns, RawIsCurrent, FreshIsTrue,
           CtlFields, ReconFields, Removing, Current, ItemsAreTrue, Authority!RefreshFails,
           Authority!Active, Authority!Drop, Authority!LastSeen, Authority!PageUnproven,
           Authority!Retire, Authority!Spend, Authority!WithoutAuthority
    <2>6. DeletesAreConfirmed'
      BY <1>2 DEF AuthorityInv, AuthorityTyped, Connected, OneRuns, RawIsCurrent, DeletesAreConfirmed,
           CtlFields, ReconFields, Removing, Current, Authority!RefreshFails, Authority!Active,
           Authority!Drop, Authority!LastSeen, Authority!PageUnproven, Authority!Retire,
           Authority!Spend, Authority!WithoutAuthority
    <2> QED
      BY <2>1, <2>2, <2>3, <2>4, <2>5, <2>6 DEF AuthorityInv
  <1>3. CASE ~Authority!Active(authorityJob.epoch)
    <2>1. AuthorityTyped'
      BY <1>3 DEF AuthorityInv, AuthorityTyped, CtlFields, ReconFields, Authority!RefreshFails,
           Authority!Active, Authority!Drop, Authority!LastSeen, Authority!PageUnproven,
           Authority!Retire, Authority!Spend, Authority!WithoutAuthority, Authority!Slots
    <2>2. Connected'
      BY <1>3 DEF AuthorityInv, AuthorityTyped, Connected, OneRuns, CtlFields, ReconFields,
           Authority!RefreshFails, Authority!Active, Authority!Drop, Authority!LastSeen,
           Authority!PageUnproven, Authority!Retire, Authority!Spend, Authority!WithoutAuthority
    <2>3. OneRuns'
      BY <1>3 DEF AuthorityInv, AuthorityTyped, Connected, OneRuns, RawIsCurrent, CtlFields,
           ReconFields, Removing, Current, Authority!RefreshFails, Authority!Active, Authority!Drop,
           Authority!LastSeen, Authority!PageUnproven, Authority!Retire, Authority!Spend,
           Authority!WithoutAuthority, Authority!Slots
    <2>4. RawIsCurrent'
      BY <1>3 DEF AuthorityInv, AuthorityTyped, Connected, OneRuns, RawIsCurrent, CtlFields,
           ReconFields, Removing, Current, Authority!RefreshFails, Authority!Active, Authority!Drop,
           Authority!LastSeen, Authority!PageUnproven, Authority!Retire, Authority!Spend,
           Authority!WithoutAuthority, Authority!Slots
    <2>5. FreshIsTrue'
      BY <1>3 DEF AuthorityInv, AuthorityTyped, Connected, OneRuns, RawIsCurrent, FreshIsTrue,
           CtlFields, ReconFields, Removing, Current, ItemsAreTrue, Authority!RefreshFails,
           Authority!Active, Authority!Drop, Authority!LastSeen, Authority!PageUnproven,
           Authority!Retire, Authority!Spend, Authority!WithoutAuthority
    <2>6. DeletesAreConfirmed'
      BY <1>3 DEF AuthorityInv, AuthorityTyped, Connected, OneRuns, RawIsCurrent, DeletesAreConfirmed,
           CtlFields, ReconFields, Removing, Current, Authority!RefreshFails, Authority!Active,
           Authority!Drop, Authority!LastSeen, Authority!PageUnproven, Authority!Retire,
           Authority!Spend, Authority!WithoutAuthority
    <2> QED
      BY <2>1, <2>2, <2>3, <2>4, <2>5, <2>6 DEF AuthorityInv
  <1> QED
    BY <1>1, <1>2, <1>3

LEMMA RemovalEndsKeepsAuthority ==
  ASSUME AuthorityInv, Authority!RemovalEnds
  PROVE  AuthorityInv'
  <1>1. AuthorityTyped'
    BY DEF AuthorityInv, AuthorityTyped, CtlFields, ReconFields, Authority!RemovalEnds,
         Authority!IdleJob, Authority!Slots
  <1>2. Connected'
    BY DEF AuthorityInv, AuthorityTyped, Connected, OneRuns, CtlFields, ReconFields,
         Authority!RemovalEnds, Authority!IdleJob
  <1>3. OneRuns'
    BY DEF AuthorityInv, AuthorityTyped, Connected, OneRuns, RawIsCurrent, CtlFields, ReconFields,
         Removing, Current, Authority!RemovalEnds, Authority!IdleJob, Authority!Slots
  <1>4. RawIsCurrent'
    BY DEF AuthorityInv, AuthorityTyped, Connected, OneRuns, RawIsCurrent, CtlFields, ReconFields,
         Removing, Current, Authority!RemovalEnds, Authority!IdleJob, Authority!Slots
  <1>5. FreshIsTrue'
    BY DEF AuthorityInv, AuthorityTyped, Connected, OneRuns, RawIsCurrent, FreshIsTrue, CtlFields,
         ReconFields, Removing, Current, ItemsAreTrue, Authority!RemovalEnds, Authority!IdleJob
  <1>6. DeletesAreConfirmed'
    BY DEF AuthorityInv, AuthorityTyped, Connected, OneRuns, RawIsCurrent, DeletesAreConfirmed,
         CtlFields, ReconFields, Removing, Current, Authority!RemovalEnds, Authority!IdleJob
  <1> QED
    BY <1>1, <1>2, <1>3, <1>4, <1>5, <1>6 DEF AuthorityInv

LEMMA AuthorityStart ==
  ASSUME Authority!Init
  PROVE  AuthorityInv
  <1> DEFINE Inject(f) == \A g, h \in KindleHandles : f[g] = f[h] => g = h
             Maps == [KindleHandles -> [book : KindleBooks, ed : {1}, date : {0}]]
  <1>1. \E f \in Maps : Inject(f)
    <2>1. PICK f \in [KindleHandles -> KindleBooks] : Inject(f)
      BY FilesHaveBooks
    <2> DEFINE file == [h \in KindleHandles |-> [book |-> f[h], ed |-> 1, date |-> 0]]
    <2>2. file \in Maps
      BY <2>1
    <2>3. Inject(file)
      BY <2>1
    <2> QED
      BY <2>2, <2>3
  <1>2. authorityDevice = CHOOSE f \in Maps : Inject(f)
    BY DEF Authority!Init
  <1> HIDE DEF Inject, Maps
  <1>3. authorityDevice \in Maps
    BY <1>1, <1>2
  <1>4. authorityDevice \in [KindleHandles -> Authority!File \cup {Nobody}]
    BY <1>3 DEF Maps, Authority!File
  <1>5. AuthorityTyped
    BY <1>4 DEF Authority!Init, AuthorityTyped, CtlFields, ReconFields, Authority!IdlePost,
         Authority!IdleJob, Authority!IdleRecon, Authority!Slots
  <1>6. Connected /\ OneRuns /\ RawIsCurrent /\ FreshIsTrue /\ DeletesAreConfirmed
    BY DEF Authority!Init, Connected, OneRuns, RawIsCurrent, FreshIsTrue, DeletesAreConfirmed,
         Authority!IdlePost, Authority!IdleJob, Authority!IdleRecon, Authority!Slots
  <1> QED
    BY <1>5, <1>6 DEF AuthorityInv

LEMMA AuthorityStutter ==
  ASSUME AuthorityInv, UNCHANGED authorityVars
  PROVE  AuthorityInv'
  BY DEF AuthorityInv, authorityVars, AuthorityTyped, Connected, OneRuns, RawIsCurrent, FreshIsTrue,
     DeletesAreConfirmed, CtlFields, ReconFields, Current, ItemsAreTrue

LEMMA AuthorityStep ==
  ASSUME AuthorityInv, Authority!Next
  PROVE  AuthorityInv'
  <1>1. CASE Authority!Connect \/ Authority!Choose \/ Authority!Open \/ Authority!OpenFails
    BY <1>1, ConnectKeepsAuthority, ChooseKeepsAuthority, OpenKeepsAuthority, OpenFailsKeepsAuthority
  <1>2. CASE Authority!SelfTest \/ Authority!ReadInventory \/ Authority!InventoryFails
          \/ Authority!PostFaults \/ Authority!PostEnds
    BY <1>2, SelfTestKeepsAuthority, ReadInventoryKeepsAuthority, InventoryFailsKeepsAuthority,
         PostFaultsKeepsAuthority, PostEndsKeepsAuthority
  <1>3. CASE Authority!Disconnect \/ Authority!Disconnected \/ Authority!Unplugged \/ Authority!Hidden
    BY <1>3, DisconnectKeepsAuthority, DisconnectedKeepsAuthority, UnpluggedKeepsAuthority,
         HiddenKeepsAuthority
  <1>4. CASE Authority!StartBackground
    BY <1>4, StartBackgroundKeepsAuthority
  <1>5. ASSUME NEW s \in Authority!Slots, Authority!ReadIndex(s) \/ Authority!Install(s)
          \/ Authority!CompareFails(s)
        PROVE  AuthorityInv'
    BY <1>5, ReadIndexKeepsAuthority, InstallKeepsAuthority, CompareFailsKeepsAuthority
  <1>6. ASSUME NEW b \in KindleBooks, Authority!NewEdition(b)
        PROVE  AuthorityInv'
    BY <1>6, NewEditionKeepsAuthority
  <1>7. ASSUME NEW h \in KindleHandles, Authority!Touch(h)
        PROVE  AuthorityInv'
    BY <1>7, TouchKeepsAuthority
  <1>8. CASE Authority!RequestRemoval \/ Authority!CancelRemoval \/ Authority!ConfirmRemoval
          \/ Authority!DeleteNext \/ Authority!AllDeleted
    BY <1>8, RequestRemovalKeepsAuthority, CancelRemovalKeepsAuthority, ConfirmRemovalKeepsAuthority,
         DeleteNextKeepsAuthority, AllDeletedKeepsAuthority
  <1>9. CASE Authority!RemovalFails \/ Authority!RemovalFaults \/ Authority!RefreshAfterRemoval
          \/ Authority!RefreshFails \/ Authority!RemovalEnds
    BY <1>9, RemovalFailsKeepsAuthority, RemovalFaultsKeepsAuthority,
         RefreshAfterRemovalKeepsAuthority, RefreshFailsKeepsAuthority, RemovalEndsKeepsAuthority
  <1> QED
    BY <1>1, <1>2, <1>3, <1>4, <1>5, <1>6, <1>7, <1>8, <1>9 DEF Authority!Next

LEMMA AuthorityIsRight ==
  ASSUME AuthorityInv
  PROVE  LiveComparisonIsTrue
  <1>1. ASSUME authorityShown # Nobody, authorityPage.fresh, ~authorityCtl.busy,
               authorityBudget.touches = 0
        PROVE  \A h \in KindleHandles :
                 IF authorityShown.items[h] = Nobody THEN authorityDevice[h] = Nobody
                 ELSE authorityShown.items[h].file = authorityDevice[h]
    <2>1. ItemsAreTrue
      BY <1>1 DEF AuthorityInv, OneRuns, FreshIsTrue, Removing
    <2> TAKE h \in KindleHandles
    <2> QED
      BY <2>1 DEF ItemsAreTrue
  <1>2. Authority!LiveComparisonIsTrue
    BY <1>1 DEF Authority!LiveComparisonIsTrue
  <1>3. Authority!AuthorityIsCurrent
    BY DEF AuthorityInv, Connected, OneRuns, RawIsCurrent, Removing, Current,
       Authority!AuthorityIsCurrent, Authority!Ready
  <1> QED
    BY <1>2, <1>3 DEF LiveComparisonIsTrue

\* A step that changes a file while a removal runs, unless it is the Kindle's
\* own, is the removal of a file as the owner confirmed it.
LEMMA RemovalsAreConfirmed ==
  ASSUME AuthorityInv, Authority!Next, NEW h \in KindleHandles,
         authorityJob.pc # "idle", authorityBudget'.touches = authorityBudget.touches,
         authorityDevice'[h] # authorityDevice[h]
  PROVE  \E t \in authorityPage.pending :
           t.book = authorityDevice[h].book /\ t.ed = authorityDevice[h].ed
  <1>1. SUFFICES ASSUME authorityJob.pc = "delete", h \in authorityJob.left,
                        authorityDevice[h] = authoritySession.files[h]
                 PROVE  \E t \in authorityPage.pending :
                          t.book = authorityDevice[h].book /\ t.ed = authorityDevice[h].ed
    <2>1. ASSUME Authority!DeleteNext
          PROVE  /\ authorityJob.pc = "delete" /\ h \in authorityJob.left
                 /\ authorityDevice[h] = authoritySession.files[h]
      <3>1. authorityJob.left \in SUBSET KindleHandles
        BY <2>1 DEF Authority!DeleteNext, AuthorityInv, DeletesAreConfirmed
      <3>2. \E g \in authorityJob.left : \A k \in authorityJob.left : g <= k
        BY <2>1, <3>1, HandlesAreOrdered DEF Authority!DeleteNext
      <3>3. Authority!FirstLeft \in authorityJob.left
        BY <3>2 DEF Authority!FirstLeft
      <3>4. h = Authority!FirstLeft
        BY <2>1 DEF Authority!DeleteNext, AuthorityInv, AuthorityTyped
      <3> QED
        BY <2>1, <3>3, <3>4 DEF Authority!DeleteNext
    <2>2. ASSUME Authority!RemovalFails
          PROVE  /\ authorityJob.pc = "delete" /\ h \in authorityJob.left
                 /\ authorityDevice[h] = authoritySession.files[h]
      <3>1. PICK g \in authorityJob.left :
              /\ authorityDevice[g] = authoritySession.files[g]
              /\ authorityDevice' = [authorityDevice EXCEPT ![g] = Nobody]
        BY <2>2 DEF Authority!RemovalFails, Authority!MaybeDeleted
      <3>2. h = g
        BY <3>1 DEF AuthorityInv, AuthorityTyped
      <3> QED
        BY <2>2, <3>1, <3>2 DEF Authority!RemovalFails
    <2>3. ASSUME Authority!Open
          PROVE  FALSE
      BY <2>3 DEF Authority!Open, AuthorityInv, Connected, OneRuns
    <2>4. ASSUME NEW k \in KindleHandles, Authority!Touch(k)
          PROVE  FALSE
      BY <2>4 DEF Authority!Touch, Authority!Spend, AuthorityInv, AuthorityTyped
    <2>5. ASSUME Authority!Connect \/ Authority!Choose \/ Authority!OpenFails
          PROVE  authorityDevice' = authorityDevice
      BY <2>5 DEF Authority!Connect, Authority!Choose, Authority!OpenFails
    <2>6. ASSUME Authority!SelfTest \/ Authority!ReadInventory \/ Authority!InventoryFails
            \/ Authority!PostFaults \/ Authority!PostEnds
          PROVE  authorityDevice' = authorityDevice
      BY <2>6 DEF Authority!SelfTest, Authority!ReadInventory, Authority!InventoryFails,
           Authority!PostFaults, Authority!PostEnds
    <2>7. ASSUME Authority!Disconnect \/ Authority!Disconnected \/ Authority!Unplugged
            \/ Authority!Hidden
          PROVE  authorityDevice' = authorityDevice
      BY <2>7 DEF Authority!Disconnect, Authority!Disconnected, Authority!Unplugged, Authority!Hidden
    <2>8. ASSUME Authority!StartBackground
          PROVE  authorityDevice' = authorityDevice
      BY <2>8 DEF Authority!StartBackground
    <2>9. ASSUME NEW s \in Authority!Slots, Authority!ReadIndex(s) \/ Authority!Install(s)
            \/ Authority!CompareFails(s)
          PROVE  authorityDevice' = authorityDevice
      BY <2>9 DEF Authority!ReadIndex, Authority!Install, Authority!CompareFails
    <2>10. ASSUME NEW b \in KindleBooks, Authority!NewEdition(b)
          PROVE  authorityDevice' = authorityDevice
      BY <2>10 DEF Authority!NewEdition
    <2>11. ASSUME Authority!RequestRemoval \/ Authority!CancelRemoval \/ Authority!ConfirmRemoval
            \/ Authority!AllDeleted
          PROVE  authorityDevice' = authorityDevice
      BY <2>11 DEF Authority!RequestRemoval, Authority!CancelRemoval, Authority!ConfirmRemoval,
           Authority!AllDeleted
    <2>12. ASSUME Authority!RemovalFaults \/ Authority!RefreshAfterRemoval \/ Authority!RefreshFails
            \/ Authority!RemovalEnds
          PROVE  authorityDevice' = authorityDevice
      BY <2>12 DEF Authority!RemovalFaults, Authority!RefreshAfterRemoval, Authority!RefreshFails,
           Authority!RemovalEnds
    <2> QED
      BY <2>1, <2>2, <2>3, <2>4, <2>5, <2>6, <2>7, <2>8, <2>9, <2>10, <2>11, <2>12 DEF Authority!Next
  <1> QED
    BY <1>1 DEF AuthorityInv, DeletesAreConfirmed

-----------------------------------------------------------------------------
(***************************************************************************)
(* The inventory of a Kindle.                                              *)
(***************************************************************************)

\* The folders that are descended into.
Descended == Inventory!Folders \ Inventory!Sidecars

LEMMA Tree ==
  /\ IsFiniteSet(Objects)
  /\ Nobody \notin Objects /\ Nobody \notin Inventory!Sidecars
  /\ Inventory!Folders \subseteq Objects /\ Inventory!Sidecars \subseteq Inventory!Folders
  /\ \A o \in Objects : \/ Inventory!Parent[o] = Nobody
                        \/ /\ Inventory!Parent[o] \in Inventory!Folders
                           /\ Inventory!Parent[Inventory!Parent[o]] = Nobody
  /\ Inventory!Managed \cap Inventory!Vague = {}
  <1>1. Objects \subseteq {"folder", "one", "two", "twin", "sdr", "asset", "token", "kfx"}
    BY InventoryBounds
  <1>2. IsFiniteSet({"folder", "one", "two", "twin", "sdr", "asset", "token", "kfx"})
    <2> DEFINE names == <<"folder", "one", "two", "twin", "sdr", "asset", "token", "kfx">>
    <2>1. names \in Surjection(1..8, {"folder", "one", "two", "twin", "sdr", "asset", "token", "kfx"})
      BY DEF Surjection
    <2>2. IsFiniteSet(1..8)
      <3>1. 1 \in Int /\ 8 \in Int
        OBVIOUS
      <3> QED
        BY <3>1, FS_Interval
    <2> QED
      BY <2>1, <2>2, FS_Surjection
  <1>3. IsFiniteSet(Objects)
    BY <1>1, <1>2, FS_Subset
  <1>4. Nobody \notin Objects /\ Nobody \notin Inventory!Sidecars
    BY InventoryBounds DEF Inventory!Sidecars
  <1>5. \A o \in Objects : \/ Inventory!Parent[o] = Nobody
                           \/ /\ Inventory!Parent[o] \in Inventory!Folders
                              /\ Inventory!Parent[Inventory!Parent[o]] = Nobody
    BY <1>1 DEF Inventory!Parent, Inventory!Folders
  <1> QED
    BY <1>3, <1>4, <1>5, InventoryBounds
       DEF Inventory!Folders, Inventory!Sidecars, Inventory!Managed, Inventory!Vague

\* The sequence of a set has every element.
LEMMA EveryoneIsListed ==
  ASSUME NEW S, S \subseteq Objects
  PROVE  /\ Inventory!SetToSeq(S) \in Seq(S)
         /\ \A o \in S : \E i \in 1..Len(Inventory!SetToSeq(S)) : Inventory!SetToSeq(S)[i] = o
  <1> DEFINE n == Cardinality(S)
             f == Inventory!SetToSeq(S)
  <1>1. IsFiniteSet(S)
    BY Tree, FS_Subset
  <1>2. n \in Nat /\ ExistsBijection(1..n, S)
    BY <1>1, FS_CardinalityType
  <1>3. \E g \in [1..n -> S] : IsInjective(g)
    BY <1>2 DEF ExistsBijection, Bijection, Injection
  <1>4. Inventory!Cardinality(S) = n /\ \A g : Inventory!IsInjective(g) <=> IsInjective(g)
    BY DEF Inventory!Cardinality, Cardinality, Inventory!IsInjective, IsInjective
  <1>5. f \in [1..n -> S] /\ IsInjective(f)
    BY <1>3, <1>4 DEF Inventory!SetToSeq
  <1>6. f \in Injection(1..n, S)
    BY <1>5 DEF Injection
  <1>7. IsFiniteSet(1..n) /\ Cardinality(1..n) = n
    BY <1>2, FS_Interval
  <1>8. f \in Surjection(1..n, S)
    BY <1>1, <1>6, <1>7, FS_Injection
  <1>9. f \in Seq(S) /\ Len(f) = n
    BY <1>2, <1>5
  <1> QED
    BY <1>8, <1>9 DEF Surjection

\* What an inventory keeps is stated for the versions v of the contents and the
\* objects st that have not changed since it began.

\* An entry of a cache: a content of this date was that of the book.
Right(v, o, date, meta) == date <= v[o] /\ (date = v[o] => meta = v[o])

CacheRight(v, cache) ==
  cache \subseteq Inventory!Cached /\ \A e \in cache : Right(v, e.o, e.date, e.meta)

Seeds == UNION {[D -> Nat] : D \in SUBSET Objects}

SeedRight(v, st, s) ==
  s # Nobody => /\ s \in Seeds
                /\ \A o \in DOMAIN s : s[o] <= v[o] /\ (o \in st => s[o] = v[o])

\* The objects listed are listed once, and those that did not change with their date.
ListRight(v, st, list) ==
  /\ list \in Seq(Inventory!Listed)
  /\ \A i, j \in 1..Len(list) : list[i].o = list[j].o => i = j
  /\ \A i \in 1..Len(list) :
       /\ list[i].o \in Inventory!InScope
       /\ list[i].date <= v[list[i].o]
       /\ list[i].o \in st => list[i].date = v[list[i].o]

Lists(list, o) == \E i \in 1..Len(list) : list[i].o = o

\* What is known of the first n objects of the list.
FoundRight(v, list, n, found) ==
  /\ found \subseteq Inventory!Found
  /\ \A f, g \in found : f.o = g.o => f = g
  /\ \A f \in found : \E k \in 1..n :
       /\ list[k].o = f.o
       /\ f.state = "known" => f.meta \in Nat /\ Right(v, f.o, list[k].date, f.meta)
  /\ \A f \in found : f.state = "managed" => f.o \in Inventory!Managed
  /\ \A k \in 1..n : list[k].o \in Inventory!Books => \E f \in found : f.o = list[k].o

\* A folder that waits to be listed; of the first one the listing may have begun.
Waits(w, folder) ==
  \E i \in 1..Len(w.queue) : w.queue[i].folder = folder /\ (w.step = "children" => i > 1)

\* Without an issue, no object that stayed is forgotten.
Accounted(w, o) ==
  \/ Lists(w.objects, o)
  \/ w.step = "children" /\ \E i \in 1..Len(w.todo) : w.todo[i] = o
  \/ w.step # "metadata" /\ Waits(w, Inventory!Parent[o])
  \/ /\ w.step # "metadata" /\ Inventory!Parent[o] # Nobody
     /\ ~Lists(w.objects, Inventory!Parent[o])

Remembers(st, w) ==
  w.issues = 0 => \A o \in st \cap Inventory!InScope : Accounted(w, o)

Waiting == [folder : Descended \cup {Nobody}, depth : Nat, adjusted : BOOLEAN]

WorkRecord ==
  [step : {"folders", "children", "metadata"}, limits : Limits, seed : Seeds \cup {Nobody},
   issues : Nat, queue : Seq(Waiting), todo : Seq(Objects), serves : BOOLEAN,
   seen : SUBSET Objects, objects : Seq(Inventory!Listed), at : Nat \ {0},
   hits : SUBSET Inventory!Cached, found : SUBSET Inventory!Found, tried : Nat, cached : Nat,
   bytes : Nat, batch : SUBSET Inventory!Cached, writing : BOOLEAN]

\* A listing from the seed is of the children of its folder.
Serves(w) ==
  w.step = "children" =>
    /\ w.queue # <<>>
    /\ w.serves => /\ w.seed # Nobody
                   /\ \A i \in 1..Len(w.todo) : /\ w.todo[i] \in DOMAIN w.seed
                                                /\ Inventory!Parent[w.todo[i]] = w.queue[1].folder

\* What is looked up is of an object of the list.
HitsRight(w) ==
  \A e \in w.hits : \E k \in 1..Len(w.objects) : w.objects[k].o = e.o /\ w.objects[k].date = e.date

WorkRight(v, st, w) ==
  /\ w \in WorkRecord
  /\ SeedRight(v, st, w.seed)
  /\ ListRight(v, st, w.objects)
  /\ \A i \in 1..Len(w.objects) : w.objects[i].o \in w.seen
  /\ Serves(w)
  /\ CacheRight(v, w.hits) /\ CacheRight(v, w.batch) /\ HitsRight(w)
  /\ w.step # "metadata" => w.found = {} /\ w.at = 1
  /\ w.at <= Len(w.objects) + 1
  /\ FoundRight(v, w.objects, w.at - 1, w.found)
  /\ Remembers(st, w)

OutcomeRight(v, st, out) ==
  /\ ListRight(v, st, out.objects)
  /\ FoundRight(v, out.objects, Len(out.objects), out.found)
  /\ out.status = "complete" => \A o \in st \cap Inventory!InScope : Lists(out.objects, o)
  /\ out.metadata = "complete" =>
       \A f \in out.found : /\ f.state \in {"managed", "known"}
                            /\ f.state = "known" => f.o \notin Inventory!Vague

InventoryInv ==
  /\ inventoryPresent \subseteq Objects /\ Inventory!Folders \subseteq inventoryPresent
  /\ inventorySteady \subseteq inventoryPresent
  /\ inventoryVer \in [Objects -> Nat]
  /\ inventorySeed # Nobody \/ inventoryOp # Nobody => Inventory!Folders \subseteq inventorySteady
  /\ SeedRight(inventoryVer, inventorySteady, inventorySeed)
  /\ CacheRight(inventoryVer, inventoryBrowser)
  /\ inventorySlots \in (SUBSET Inventory!Cached) \X (SUBSET Inventory!Cached)
  /\ CacheRight(inventoryVer, inventorySlots[1]) /\ CacheRight(inventoryVer, inventorySlots[2])
  /\ inventoryOp # Nobody => WorkRight(inventoryVer, inventorySteady, inventoryOp)
  /\ inventoryOutcome # Nobody => OutcomeRight(inventoryVer, inventorySteady, inventoryOutcome)

LEMMA InventoryStart ==
  ASSUME Inventory!Init
  PROVE  InventoryInv
  <1>1. inventoryVer \in [Objects -> Nat]
    BY DEF Inventory!Init
  <1>2. inventorySlots = <<{}, {}>> /\ CacheRight(inventoryVer, {})
    BY DEF Inventory!Init, CacheRight
  <1> QED
    BY <1>1, <1>2, Tree DEF Inventory!Init, InventoryInv, SeedRight

-----------------------------------------------------------------------------
(* What the device does beside an inventory.                                *)

\* Contents get newer, and what has changed does not count as steady again.
Later(v, st, v2, st2) ==
  /\ v \in [Objects -> Nat] /\ v2 \in [Objects -> Nat]
  /\ \A o \in Objects : v[o] <= v2[o]
  /\ st2 \subseteq st /\ st \subseteq Objects
  /\ \A o \in st2 : v2[o] = v[o]

LEMMA RightLater ==
  ASSUME NEW v, NEW st, NEW v2, NEW st2, Later(v, st, v2, st2),
         NEW o \in Objects, NEW date \in Nat, NEW meta \in Nat, Right(v, o, date, meta)
  PROVE  Right(v2, o, date, meta)
  <1>1. v[o] \in Nat /\ v2[o] \in Nat /\ v[o] <= v2[o]
    BY DEF Later
  <1> QED
    BY <1>1 DEF Right

LEMMA CacheLater ==
  ASSUME NEW v, NEW st, NEW v2, NEW st2, Later(v, st, v2, st2), NEW cache, CacheRight(v, cache)
  PROVE  CacheRight(v2, cache)
  BY RightLater DEF CacheRight, Inventory!Cached

LEMMA SeedLater ==
  ASSUME NEW v, NEW st, NEW v2, NEW st2, Later(v, st, v2, st2), NEW s, SeedRight(v, st, s)
  PROVE  SeedRight(v2, st2, s)
  <1> SUFFICES ASSUME s # Nobody
               PROVE  /\ s \in Seeds
                      /\ \A o \in DOMAIN s : s[o] <= v2[o] /\ (o \in st2 => s[o] = v2[o])
    BY DEF SeedRight
  <1>1. PICK D \in SUBSET Objects : s \in [D -> Nat]
    BY DEF SeedRight, Seeds
  <1>2. ASSUME NEW o \in DOMAIN s
        PROVE  s[o] <= v2[o] /\ (o \in st2 => s[o] = v2[o])
    <2>1. s[o] \in Nat /\ v[o] \in Nat /\ v2[o] \in Nat /\ v[o] <= v2[o]
      BY <1>1, <1>2 DEF Later
    <2> QED
      BY <2>1, <1>2 DEF SeedRight, Later
  <1> QED
    BY <1>2 DEF SeedRight

LEMMA ListLater ==
  ASSUME NEW v, NEW st, NEW v2, NEW st2, Later(v, st, v2, st2), NEW list, ListRight(v, st, list)
  PROVE  ListRight(v2, st2, list)
  <1>1. ASSUME NEW i \in 1..Len(list)
        PROVE  /\ list[i].o \in Inventory!InScope
               /\ list[i].date <= v2[list[i].o]
               /\ list[i].o \in st2 => list[i].date = v2[list[i].o]
    <2>1. list[i] \in Inventory!Listed
      BY DEF ListRight
    <2>2. list[i].o \in Objects /\ list[i].date \in Nat
      BY <2>1 DEF Inventory!Listed
    <2>3. v[list[i].o] \in Nat /\ v2[list[i].o] \in Nat /\ v[list[i].o] <= v2[list[i].o]
      BY <2>2 DEF Later
    <2> QED
      BY <2>2, <2>3 DEF ListRight, Later
  <1> QED
    BY <1>1 DEF ListRight

LEMMA FoundLater ==
  ASSUME NEW v, NEW st, NEW v2, NEW st2, Later(v, st, v2, st2), NEW list \in Seq(Inventory!Listed),
         NEW n \in 0..Len(list), NEW found, FoundRight(v, list, n, found)
  PROVE  FoundRight(v2, list, n, found)
  <1>1. ASSUME NEW f \in found
        PROVE  \E k \in 1..n :
                 /\ list[k].o = f.o
                 /\ f.state = "known" => f.meta \in Nat /\ Right(v2, f.o, list[k].date, f.meta)
    <2>1. PICK k \in 1..n :
            /\ list[k].o = f.o
            /\ f.state = "known" => f.meta \in Nat /\ Right(v, f.o, list[k].date, f.meta)
      BY DEF FoundRight
    <2>2. list[k] \in Inventory!Listed
      OBVIOUS
    <2>3. f.o \in Objects /\ list[k].date \in Nat
      BY <2>1, <2>2 DEF Inventory!Listed
    <2> QED
      BY <2>1, <2>3, RightLater
  <1> QED
    BY <1>1 DEF FoundRight

LEMMA WorkLater ==
  ASSUME NEW v, NEW st, NEW v2, NEW st2, Later(v, st, v2, st2), NEW w, WorkRight(v, st, w)
  PROVE  WorkRight(v2, st2, w)
  <1>1. w.objects \in Seq(Inventory!Listed) /\ w.at \in Nat \ {0} /\ w.at <= Len(w.objects) + 1
    BY DEF WorkRight, WorkRecord
  <1>2. w.at - 1 \in 0..Len(w.objects)
    BY <1>1
  <1>3. FoundRight(v2, w.objects, w.at - 1, w.found)
    BY <1>1, <1>2, FoundLater DEF WorkRight
  <1>4. Remembers(st2, w)
    BY DEF WorkRight, Remembers, Later, Accounted
  <1> QED
    BY <1>3, <1>4, CacheLater, SeedLater, ListLater DEF WorkRight

LEMMA OutcomeLater ==
  ASSUME NEW v, NEW st, NEW v2, NEW st2, Later(v, st, v2, st2), NEW out, OutcomeRight(v, st, out)
  PROVE  OutcomeRight(v2, st2, out)
  <1>1. out.objects \in Seq(Inventory!Listed)
    BY DEF OutcomeRight, ListRight
  <1>2. Len(out.objects) \in 0..Len(out.objects)
    BY <1>1
  <1>3. FoundRight(v2, out.objects, Len(out.objects), out.found)
    BY <1>1, <1>2, FoundLater DEF OutcomeRight
  <1>4. st2 \subseteq st
    BY DEF Later
  <1> QED
    BY <1>3, <1>4, ListLater DEF OutcomeRight

LEMMA TouchKeeps ==
  ASSUME InventoryInv, NEW o \in Objects, Inventory!Touch(o)
  PROVE  InventoryInv'
  <1>1. /\ inventorySteady' = inventorySteady \ {o} /\ o \notin Inventory!Folders
        /\ UNCHANGED <<inventorySeed, inventoryBrowser, inventorySlots, inventoryOp,
                       inventoryOutcome>>
    BY DEF Inventory!Touch
  <1>2. /\ inventoryPresent' \subseteq Objects /\ Inventory!Folders \subseteq inventoryPresent'
        /\ inventorySteady' \subseteq inventoryPresent'
    BY <1>1 DEF InventoryInv, Inventory!Touch
  <1>3. Later(inventoryVer, inventorySteady, inventoryVer', inventorySteady')
    BY <1>1 DEF InventoryInv, Inventory!Touch, Later
  <1>4. inventoryVer' \in [Objects -> Nat]
    BY <1>3 DEF Later
  <1> QED
    BY <1>1, <1>2, <1>3, <1>4, WorkLater, OutcomeLater, CacheLater, SeedLater DEF InventoryInv

LEMMA CaptureKeeps ==
  ASSUME InventoryInv, Inventory!Capture
  PROVE  InventoryInv'
  <1>1. /\ inventorySteady' = inventoryPresent /\ inventoryOutcome' = Nobody /\ inventoryOp = Nobody
        /\ UNCHANGED <<inventoryPresent, inventoryVer, inventoryBrowser, inventorySlots, inventoryOp>>
    BY DEF Inventory!Capture, Inventory!device
  <1>2. inventorySeed' = [o \in Inventory!Children(Nobody) |-> inventoryVer[o]]
    BY DEF Inventory!Capture
  <1>3. Inventory!Children(Nobody) \subseteq Objects
    BY DEF Inventory!Children, InventoryInv
  <1>4. inventorySeed' \in [Inventory!Children(Nobody) -> Nat]
    BY <1>2, <1>3 DEF InventoryInv
  <1>5. SeedRight(inventoryVer, inventoryPresent, inventorySeed')
    BY <1>2, <1>3, <1>4 DEF SeedRight, Seeds, InventoryInv
  <1> QED
    BY <1>1, <1>5 DEF InventoryInv

LEMMA ReconnectKeeps ==
  ASSUME InventoryInv, Inventory!Reconnect
  PROVE  InventoryInv'
  BY DEF InventoryInv, Inventory!Reconnect, Inventory!device, SeedRight

-----------------------------------------------------------------------------
(* The hierarchy.                                                           *)

LEMMA StartKeeps ==
  ASSUME InventoryInv, NEW limits \in Limits, Inventory!Start(limits)
  PROVE  InventoryInv'
  <1> DEFINE v == inventoryVer
             st == inventorySteady'
             w == inventoryOp'
  <1>1. /\ UNCHANGED <<inventoryPresent, inventoryVer, inventoryBrowser, inventorySlots>>
        /\ inventorySeed' = Nobody /\ inventoryOutcome' = Nobody
        /\ st = IF inventorySeed = Nobody THEN inventoryPresent ELSE inventorySteady
    BY DEF Inventory!Start, Inventory!device
  <1>2. w = [step |-> "folders", limits |-> limits, seed |-> inventorySeed, issues |-> 0,
             queue |-> <<[folder |-> Nobody, depth |-> 0, adjusted |-> FALSE]>>,
             todo |-> <<>>, serves |-> FALSE, seen |-> {}, objects |-> <<>>,
             at |-> 1, hits |-> {}, found |-> {}, tried |-> 0, cached |-> 0, bytes |-> 0,
             batch |-> {}, writing |-> TRUE]
    BY DEF Inventory!Start
  <1>3. Inventory!Folders \subseteq st /\ st \subseteq inventoryPresent
    BY <1>1 DEF InventoryInv
  <1>4. SeedRight(v, st, inventorySeed)
    BY <1>1 DEF InventoryInv, SeedRight
  <1>5. inventorySeed \in Seeds \cup {Nobody}
    BY <1>4 DEF SeedRight
  <1>6. w \in WorkRecord
    BY <1>2, <1>5 DEF WorkRecord, Waiting
  <1>7. Remembers(st, w)
    <2> SUFFICES ASSUME NEW o \in st \cap Inventory!InScope
                 PROVE  Accounted(w, o)
      BY DEF Remembers
    <2>1. w.step = "folders" /\ Len(w.queue) = 1 /\ w.queue[1].folder = Nobody /\ w.objects = <<>>
      BY <1>2
    <2>2. Waits(w, Nobody) /\ \A p : ~Lists(w.objects, p)
      BY <2>1 DEF Waits, Lists
    <2> QED
      BY <2>1, <2>2 DEF Accounted
  <1>8. /\ w.seed = inventorySeed /\ w.objects = <<>> /\ w.hits = {} /\ w.batch = {}
        /\ w.found = {} /\ w.at = 1 /\ w.step = "folders"
    BY <1>2
  <1>9. CacheRight(v, {}) /\ ListRight(v, st, <<>>) /\ FoundRight(v, <<>>, 0, {})
    BY DEF CacheRight, ListRight, FoundRight
  <1>10. WorkRight(v, st, w)
    BY <1>4, <1>6, <1>7, <1>8, <1>9 DEF WorkRight, Serves, HitsRight
  <1> QED
    BY <1>1, <1>3, <1>10 DEF InventoryInv, SeedRight

\* Most steps change the inventory under way only.
LEMMA OnlyTheWork ==
  ASSUME InventoryInv, Inventory!Idle,
         \/ inventoryOp' = Nobody
         \/ inventoryOp # Nobody /\ WorkRight(inventoryVer, inventorySteady, inventoryOp')
  PROVE  InventoryInv'
  BY DEF InventoryInv, Inventory!Idle, Inventory!device

LEMMA ThrowsKeeps ==
  ASSUME InventoryInv, Inventory!Throws
  PROVE  InventoryInv'
  BY OnlyTheWork DEF Inventory!Throws

\* While folders are listed.
SameList(w, w2) ==
  /\ w2 \in WorkRecord
  /\ w2.step \in {"folders", "children"}
  /\ w2.seed = w.seed /\ w2.objects = w.objects /\ w.seen \subseteq w2.seen
  /\ w2.hits = w.hits /\ w2.batch = w.batch /\ w2.found = w.found /\ w2.at = w.at

LEMMA ListingKeeps ==
  ASSUME NEW v, NEW st, NEW w, NEW w2, WorkRight(v, st, w), w.step # "metadata", SameList(w, w2),
         Serves(w2), Remembers(st, w2)
  PROVE  WorkRight(v, st, w2)
  BY DEF WorkRight, SameList, HitsRight

LEMMA IssueKeeps ==
  ASSUME NEW v, NEW st, NEW w, NEW w2, WorkRight(v, st, w), w.step # "metadata", SameList(w, w2),
         Serves(w2), w2.issues = w.issues + 1
  PROVE  WorkRight(v, st, w2)
  <1>1. w2.issues # 0
    BY DEF WorkRight, WorkRecord
  <1> QED
    BY <1>1, ListingKeeps DEF Remembers

LEMMA IssueIs ==
  ASSUME NEW w \in WorkRecord
  PROVE  LET i == Inventory!Issue(w)
         IN  /\ i \in WorkRecord /\ i.issues = w.issues + 1
             /\ i.step = w.step /\ i.seed = w.seed /\ i.queue = w.queue /\ i.todo = w.todo
             /\ i.serves = w.serves /\ i.seen = w.seen /\ i.objects = w.objects /\ i.at = w.at
             /\ i.hits = w.hits /\ i.found = w.found /\ i.batch = w.batch
  <1> DEFINE i == Inventory!Issue(w)
  <1>1. i = [w EXCEPT !.issues = w.issues + 1]
    BY DEF Inventory!Issue
  <1>2. w.issues + 1 \in Nat
    BY DEF WorkRecord
  <1> HIDE DEF i
  <1>3. i \in WorkRecord
    BY <1>1, <1>2 DEF WorkRecord
  <1>4. /\ i.issues = w.issues + 1
        /\ i.step = w.step /\ i.seed = w.seed /\ i.queue = w.queue /\ i.todo = w.todo
        /\ i.serves = w.serves /\ i.seen = w.seen /\ i.objects = w.objects /\ i.at = w.at
        /\ i.hits = w.hits /\ i.found = w.found /\ i.batch = w.batch
    BY <1>1 DEF WorkRecord
  <1> QED
    BY <1>3, <1>4 DEF i

LEMMA ListFolderKeeps ==
  ASSUME InventoryInv, Inventory!ListFolder
  PROVE  InventoryInv'
  <1> DEFINE v == inventoryVer
             st == inventorySteady
             w == inventoryOp
             w2 == inventoryOp'
             folder == Head(w.queue)
             S == Inventory!Children(folder.folder)
  <1>1. WorkRight(v, st, w) /\ w \in WorkRecord /\ w.step = "folders" /\ w.queue # <<>>
    BY DEF Inventory!ListFolder, Inventory!At, InventoryInv, WorkRight
  <1>2. /\ w.queue \in Seq(Waiting) /\ Tail(w.queue) \in Seq(Waiting) /\ folder = w.queue[1]
        /\ w.issues \in Nat
    BY <1>1 DEF WorkRecord
  <1>3. ASSUME NEW q \in Seq(Waiting), w2 = Inventory!Issue([w EXCEPT !.queue = q])
        PROVE  WorkRight(v, st, w2)
    <2> DEFINE w1 == [w EXCEPT !.queue = q]
    <2>1. w1 \in WorkRecord
      BY <1>1, <1>3 DEF WorkRecord
    <2>2. /\ w1.step = "folders" /\ w1.seed = w.seed /\ w1.objects = w.objects /\ w1.seen = w.seen
          /\ w1.hits = w.hits /\ w1.batch = w.batch /\ w1.found = w.found /\ w1.at = w.at
          /\ w1.issues = w.issues
      BY <1>1 DEF WorkRecord
    <2>3. SameList(w, w2) /\ w2.issues = w.issues + 1 /\ w2.step = "folders"
      <3> HIDE DEF w1, w
      <3>1. w2 = Inventory!Issue(w1)
        BY <1>3 DEF w1
      <3> HIDE DEF w2
      <3> QED
        BY <2>1, <2>2, <3>1, IssueIs DEF SameList
    <2>4. Serves(w2) /\ w.step # "metadata"
      BY <1>1, <2>3 DEF Serves
    <2> HIDE DEF v, st, w, w2
    <2> QED
      BY <1>1, <2>3, <2>4, IssueKeeps
  <1>4. ASSUME NEW t \in Seq(Objects), NEW b \in BOOLEAN,
               w2 = [w EXCEPT !.step = "children", !.todo = t, !.serves = b],
               \A o \in st : Inventory!Parent[o] = folder.folder => \E i \in 1..Len(t) : t[i] = o,
               b => /\ w.seed # Nobody
                    /\ \A i \in 1..Len(t) : /\ t[i] \in DOMAIN w.seed
                                            /\ Inventory!Parent[t[i]] = folder.folder
        PROVE  WorkRight(v, st, w2)
    <2>1. w2 \in WorkRecord
      BY <1>1, <1>4 DEF WorkRecord
    <2>2. /\ w2.step = "children" /\ w2.todo = t /\ w2.serves = b /\ w2.queue = w.queue
          /\ w2.issues = w.issues /\ SameList(w, w2)
      BY <1>1, <1>4, <2>1 DEF WorkRecord, SameList
    <2>3. Serves(w2)
      BY <1>1, <1>2, <1>4, <2>2 DEF Serves, SameList
    <2>4. ASSUME NEW o \in st \cap Inventory!InScope, Accounted(w, o)
          PROVE  Accounted(w2, o)
      <3>1. CASE Waits(w, Inventory!Parent[o])
        <4>1. PICK i \in 1..Len(w.queue) : w.queue[i].folder = Inventory!Parent[o]
          BY <3>1 DEF Waits
        <4>2. CASE i = 1
          BY <1>2, <1>4, <2>2, <4>1, <4>2 DEF Accounted
        <4>3. CASE i # 1
          BY <1>2, <2>2, <4>1, <4>3 DEF Accounted, Waits
        <4> QED
          BY <4>2, <4>3
      <3>2. CASE ~Waits(w, Inventory!Parent[o])
        BY <1>1, <2>2, <2>4, <3>2 DEF Accounted, SameList
      <3> QED
        BY <3>1, <3>2
    <2>5. Remembers(st, w2)
      BY <1>1, <2>2, <2>4 DEF Remembers, WorkRight
    <2> QED
      BY <1>1, <2>2, <2>3, <2>5, ListingKeeps
  <1>5. S \subseteq Objects /\ \A o \in S : Inventory!Parent[o] = folder.folder
    BY DEF Inventory!Children, InventoryInv
  <1>6. \A o \in st : Inventory!Parent[o] = folder.folder => o \in S
    BY DEF Inventory!Children, InventoryInv
  <1> DEFINE all == Inventory!SetToSeq(S)
  <1>7. all \in Seq(S) /\ \A o \in S : \E i \in 1..Len(all) : all[i] = o
    BY <1>5, EveryoneIsListed
  <1>8. all \in Seq(Objects) /\ \A i \in 1..Len(all) : all[i] \in S
    BY <1>5, <1>7
  <1>9. ASSUME w2 = [w EXCEPT !.step = "children", !.todo = all,
                              !.serves = Inventory!SeedServes(folder.folder, S)]
        PROVE  WorkRight(v, st, w2)
    <2>1. Inventory!SeedServes(folder.folder, S) => w.seed # Nobody /\ DOMAIN w.seed = S
      BY DEF Inventory!SeedServes
    <2>2. Inventory!SeedServes(folder.folder, S) \in BOOLEAN
      BY DEF Inventory!SeedServes
    <2> HIDE DEF all, S
    <2> QED
      BY <1>4, <1>5, <1>6, <1>7, <1>8, <1>9, <2>1, <2>2
  <1>10. ASSUME NEW o \in inventoryPresent,
                w2 = [w EXCEPT !.step = "children", !.serves = FALSE, !.todo = Append(all, o)]
         PROVE  WorkRight(v, st, w2)
    <2> DEFINE t == Append(all, o)
    <2>1. o \in Objects
      BY <1>10 DEF InventoryInv
    <2>2. t \in Seq(Objects)
      BY <1>8, <2>1
    <2>3. \A x \in S : \E i \in 1..Len(t) : t[i] = x
      BY <1>7, <1>8
    <2>4. w2 = [w EXCEPT !.step = "children", !.todo = t, !.serves = FALSE]
      BY <1>1, <1>10 DEF WorkRecord
    <2> HIDE DEF t, S
    <2> QED
      BY <1>4, <1>6, <2>2, <2>3, <2>4
  <1>11. WorkRight(v, st, w2)
    <2>1. <<>> \in Seq(Waiting)
      OBVIOUS
    <2> HIDE DEF v, st, w, w2, folder, S, all
    <2> QED
      BY <1>2, <1>3, <1>9, <1>10, <2>1 DEF Inventory!ListFolder, v, st, w, w2, folder, S, all
  <1> QED
    BY <1>11, OnlyTheWork DEF Inventory!ListFolder, Inventory!At

\* The next object of a folder is taken into the list.
Taken(v, st, w, w2, o, date, r, x) ==
  /\ v \in [Objects -> Nat] /\ WorkRight(v, st, w) /\ w2 \in WorkRecord
  /\ w.step = "children" /\ w.todo # <<>>
  /\ o \in Objects /\ o = Head(w.todo) /\ o \notin w.seen
  /\ Inventory!Parent[o] = w.queue[1].folder
  /\ date \in Nat /\ date <= v[o] /\ (o \in st => date = v[o])
  /\ r \in Inventory!Listed /\ r.o = o /\ r.date = date
  /\ x \in Waiting /\ (x.folder = o \/ o \notin Descended)
  /\ w2.objects = Append(w.objects, r) /\ w2.seen = w.seen \cup {o} /\ w2.todo = Tail(w.todo)
  /\ w2.queue = IF o \in Descended THEN Append(w.queue, x) ELSE w.queue
  /\ w2.step = "children" /\ w2.serves = w.serves /\ w2.seed = w.seed
  /\ w2.issues = 0 => w.issues = 0
  /\ w2.hits = w.hits /\ w2.batch = w.batch /\ w2.found = w.found /\ w2.at = w.at

LEMMA TakeKeeps ==
  ASSUME NEW v, NEW st, NEW w, NEW w2, NEW o, NEW date, NEW r, NEW x,
         Taken(v, st, w, w2, o, date, r, x)
  PROVE  WorkRight(v, st, w2)
  <1> USE DEF Taken
  <1>1. /\ w \in WorkRecord /\ w.objects \in Seq(Inventory!Listed) /\ w.queue \in Seq(Waiting)
        /\ w.queue # <<>> /\ w.todo \in Seq(Objects) /\ w.at = 1 /\ w.found = {}
    BY DEF WorkRight, WorkRecord, Serves
  <1>2. o \in Inventory!InScope
    <2>1. w.queue[1] \in Waiting
      BY <1>1
    <2> QED
      BY <2>1, Tree DEF Waiting, Descended, Inventory!InScope
  <1>3. /\ Len(w2.objects) = Len(w.objects) + 1 /\ w2.objects[Len(w.objects) + 1] = r
        /\ \A i \in 1..Len(w.objects) : w2.objects[i] = w.objects[i]
        /\ w2.objects \in Seq(Inventory!Listed)
    BY <1>1
  <1>4. ListRight(v, st, w2.objects)
    <2>1. ASSUME NEW i \in 1..Len(w.objects)
          PROVE  w2.objects[i].o # o
      BY <2>1, <1>3 DEF WorkRight
    <2>2. \A i, j \in 1..Len(w2.objects) : w2.objects[i].o = w2.objects[j].o => i = j
      BY <1>1, <1>3, <2>1 DEF WorkRight, ListRight
    <2>3. r = w2.objects[Len(w.objects) + 1] /\ ListRight(v, st, w.objects)
      BY <1>3 DEF WorkRight
    <2>4. ASSUME NEW i \in 1..Len(w2.objects)
          PROVE  /\ w2.objects[i].o \in Inventory!InScope
                 /\ w2.objects[i].date <= v[w2.objects[i].o]
                 /\ w2.objects[i].o \in st => w2.objects[i].date = v[w2.objects[i].o]
      <3>1. CASE i \in 1..Len(w.objects)
        BY <1>3, <2>3, <3>1 DEF ListRight
      <3>2. CASE i = Len(w.objects) + 1
        BY <1>2, <2>3, <3>2
      <3> QED
        BY <1>1, <1>3, <3>1, <3>2
    <2> QED
      BY <1>3, <2>2, <2>4 DEF ListRight
  <1>5. \A i \in 1..Len(w2.objects) : w2.objects[i].o \in w2.seen
    BY <1>1, <1>3 DEF WorkRight
  <1>6. /\ Len(w2.todo) = Len(w.todo) - 1 /\ Len(w.todo) \in Nat \ {0} /\ w.todo[1] = o
        /\ \A i \in 1..Len(w2.todo) : w2.todo[i] = w.todo[i + 1] /\ i + 1 \in 1..Len(w.todo)
    BY <1>1
  <1>7. w2.queue # <<>> /\ \A i \in 1..Len(w.queue) : i \in 1..Len(w2.queue) /\ w2.queue[i] = w.queue[i]
    <2>1. CASE w2.queue = w.queue
      BY <1>1, <2>1
    <2>2. CASE w2.queue = Append(w.queue, x)
      <3> DEFINE q == w.queue
      <3>1. q \in Seq(Waiting) /\ x \in Waiting
        BY <1>1
      <3> HIDE DEF q, Taken
      <3>2. Append(q, x) # <<>> /\ \A i \in 1..Len(q) :
              i \in 1..Len(Append(q, x)) /\ Append(q, x)[i] = q[i]
        BY <3>1
      <3> QED
        BY <2>2, <3>2 DEF q
    <2> QED
      BY <2>1, <2>2
  <1>8. 1 \in 1..Len(w.queue)
    BY <1>1
  <1>9. Serves(w2)
    BY <1>6, <1>7, <1>8 DEF Serves, WorkRight
  <1>10. HitsRight(w2)
    <2>1. HitsRight(w) /\ w2.hits = w.hits /\ Len(w.objects) \in Nat
      BY <1>1 DEF WorkRight
    <2> HIDE DEF Taken
    <2>2. 1..Len(w.objects) \subseteq 1..Len(w2.objects)
      BY <1>3, <2>1
    <2> QED
      BY <1>3, <2>1, <2>2 DEF HitsRight
  <1>11. FoundRight(v, w2.objects, w2.at - 1, w2.found)
    BY <1>1 DEF FoundRight
  <1>12. ASSUME NEW p \in st \cap Inventory!InScope, Accounted(w, p)
         PROVE  Accounted(w2, p)
    <2>1. \A y : Lists(w2.objects, y) <=> Lists(w.objects, y) \/ y = o
      BY <1>1, <1>3 DEF Lists
    <2>2. \A f : Waits(w, f) => Waits(w2, f)
      BY <1>7 DEF Waits
    <2>3. CASE Lists(w.objects, p) \/ Waits(w, Inventory!Parent[p])
      BY <2>1, <2>2, <2>3 DEF Accounted
    <2>4. CASE \E i \in 1..Len(w.todo) : w.todo[i] = p
      <3>1. PICK i \in 1..Len(w.todo) : w.todo[i] = p
        BY <2>4
      <3>2. CASE i = 1
        BY <1>6, <2>1, <3>1, <3>2 DEF Accounted
      <3>3. CASE i # 1
        <4>1. i - 1 \in 1..Len(w2.todo) /\ w2.todo[i - 1] = p
          BY <1>6, <3>1, <3>3
        <4> QED
          BY <4>1 DEF Accounted
      <3> QED
        BY <3>2, <3>3
    <2>5. CASE Inventory!Parent[p] # Nobody /\ ~Lists(w.objects, Inventory!Parent[p])
      <3>1. CASE Inventory!Parent[p] = o
        <4>1. o \in Descended
          BY <3>1, Tree, <2>5 DEF Inventory!InScope, Descended
        <4>2. /\ Len(w2.queue) = Len(w.queue) + 1 /\ w2.queue[Len(w.queue) + 1] = x
              /\ Len(w.queue) \in Nat \ {0}
          BY <1>1, <4>1
        <4>3. Waits(w2, o)
          BY <4>1, <4>2 DEF Waits
        <4> QED
          BY <3>1, <4>3 DEF Accounted
      <3>2. CASE Inventory!Parent[p] # o
        BY <2>1, <2>5, <3>2 DEF Accounted
      <3> QED
        BY <3>1, <3>2
    <2> QED
      BY <1>12, <2>3, <2>4, <2>5 DEF Accounted
  <1>13. Remembers(st, w2)
    BY <1>12 DEF Remembers, WorkRight
  <1>14. w2.at <= Len(w2.objects) + 1
    BY <1>1, <1>3
  <1> QED
    BY <1>1, <1>4, <1>5, <1>9, <1>10, <1>11, <1>13, <1>14 DEF WorkRight

LEMMA NextChildKeeps ==
  ASSUME InventoryInv, Inventory!NextChild
  PROVE  InventoryInv'
  <1> DEFINE v == inventoryVer
             st == inventorySteady
             w == inventoryOp
             w2 == inventoryOp'
             o == Head(w.todo)
             folder == Head(w.queue)
  <1>1. WorkRight(v, st, w) /\ w \in WorkRecord /\ w.step = "children" /\ w.todo # <<>>
    BY DEF Inventory!NextChild, Inventory!At, InventoryInv, WorkRight
  <1>2. /\ w.queue \in Seq(Waiting) /\ w.queue # <<>> /\ folder = w.queue[1] /\ folder \in Waiting
        /\ w.todo \in Seq(Objects) /\ o \in Objects /\ o = w.todo[1] /\ Tail(w.todo) \in Seq(Objects)
        /\ w.issues \in Nat
    BY <1>1 DEF WorkRecord, WorkRight, Serves
  <1>3. /\ Len(Tail(w.todo)) = Len(w.todo) - 1 /\ Len(w.todo) \in Nat \ {0}
        /\ \A i \in 1..Len(Tail(w.todo)) : Tail(w.todo)[i] = w.todo[i + 1] /\ i + 1 \in 1..Len(w.todo)
    BY <1>1, <1>2
  <1>4. ASSUME w2 = Inventory!Issue([w EXCEPT !.queue = <<>>, !.todo = <<>>, !.step = "folders"])
        PROVE  WorkRight(v, st, w2)
    <2> DEFINE w1 == [w EXCEPT !.queue = <<>>, !.todo = <<>>, !.step = "folders"]
    <2>1. w1 \in WorkRecord
      <3>1. <<>> \in Seq(Waiting) /\ <<>> \in Seq(Objects)
        OBVIOUS
      <3> QED
        BY <1>1, <3>1 DEF WorkRecord
    <2>2. /\ w1.step = "folders" /\ w1.seed = w.seed /\ w1.objects = w.objects /\ w1.seen = w.seen
          /\ w1.hits = w.hits /\ w1.batch = w.batch /\ w1.found = w.found /\ w1.at = w.at
          /\ w1.issues = w.issues
      BY <1>1 DEF WorkRecord
    <2>3. SameList(w, w2) /\ w2.issues = w.issues + 1 /\ w2.step = "folders"
      <3> HIDE DEF w1, w
      <3>1. w2 = Inventory!Issue(w1)
        BY <1>4 DEF w1
      <3> HIDE DEF w2
      <3> QED
        BY <2>1, <2>2, <3>1, IssueIs DEF SameList
    <2>4. Serves(w2) /\ w.step # "metadata"
      BY <1>1, <2>3 DEF Serves
    <2> HIDE DEF v, st, w, w2
    <2> QED
      BY <1>1, <2>3, <2>4, IssueKeeps
  <1>5. ASSUME NEW looked \in SUBSET Objects, w.seen \subseteq looked,
               w2 = Inventory!Issue([w EXCEPT !.todo = Tail(w.todo), !.seen = looked])
        PROVE  WorkRight(v, st, w2)
    <2> DEFINE w1 == [w EXCEPT !.todo = Tail(w.todo), !.seen = looked]
    <2>1. w1 \in WorkRecord
      BY <1>1, <1>2, <1>5 DEF WorkRecord
    <2>2. /\ w1.step = "children" /\ w1.seed = w.seed /\ w1.objects = w.objects
          /\ w.seen \subseteq w1.seen /\ w1.hits = w.hits /\ w1.batch = w.batch
          /\ w1.found = w.found /\ w1.at = w.at /\ w1.issues = w.issues /\ w1.queue = w.queue
          /\ w1.todo = Tail(w.todo) /\ w1.serves = w.serves
      BY <1>1, <1>5 DEF WorkRecord
    <2>3. /\ SameList(w, w2) /\ w2.issues = w.issues + 1 /\ w2.step = "children"
          /\ w2.queue = w.queue /\ w2.todo = Tail(w.todo) /\ w2.serves = w.serves
      <3> HIDE DEF w1
      <3> QED
        BY <1>5, <2>1, <2>2, IssueIs DEF SameList, w1
    <2>4. Serves(w2)
      BY <1>1, <1>3, <2>3 DEF Serves, SameList, WorkRight
    <2> QED
      BY <1>1, <2>3, <2>4, IssueKeeps
  <1>6. ASSUME NEW date \in Nat, date <= v[o], o \in st => date = v[o], o \notin w.seen,
               Inventory!Parent[o] = folder.folder,
               w2 = [Inventory!Take(o, date) EXCEPT !.todo = Tail(w.todo), !.seen = w.seen \cup {o}]
        PROVE  WorkRight(v, st, w2)
    <2> DEFINE adjusted == folder.adjusted \/ o \in inventoryOdd
               r == [o |-> o, date |-> date, adjusted |-> adjusted]
               x == [folder |-> o, depth |-> folder.depth + 1, adjusted |-> adjusted]
               q == IF o \in Inventory!Folders /\ o \notin Inventory!Sidecars
                    THEN Append(w.queue, x) ELSE w.queue
               listed == [w EXCEPT !.objects = Append(@, r), !.queue = q]
    <2>1. adjusted \in BOOLEAN /\ folder.depth \in Nat
      BY <1>2 DEF Waiting
    <2>2. r \in Inventory!Listed /\ r.o = o /\ r.date = date
      BY <1>2, <2>1 DEF Inventory!Listed
    <2>3. q \in Seq(Waiting) /\ q = IF o \in Descended THEN Append(w.queue, x) ELSE w.queue
      <3>1. o \in Descended <=> o \in Inventory!Folders /\ o \notin Inventory!Sidecars
        BY DEF Descended
      <3>2. o \in Descended => x \in Waiting
        BY <2>1 DEF Waiting
      <3> QED
        BY <1>2, <3>1, <3>2
    <2>4. Inventory!Take(o, date) = IF o \in inventoryOdd THEN Inventory!Issue(listed) ELSE listed
      BY DEF Inventory!Take
    <2>5. Append(w.objects, r) \in Seq(Inventory!Listed) /\ w.seen \cup {o} \in SUBSET Objects
      BY <1>1, <1>2, <2>2 DEF WorkRecord
    <2> HIDE DEF r, q, x, adjusted
    <2>6. /\ w2 \in WorkRecord
          /\ w2.objects = Append(w.objects, r) /\ w2.queue = q /\ w2.todo = Tail(w.todo)
          /\ w2.seen = w.seen \cup {o} /\ w2.step = w.step /\ w2.serves = w.serves
          /\ w2.seed = w.seed /\ w2.hits = w.hits /\ w2.batch = w.batch /\ w2.found = w.found
          /\ w2.at = w.at /\ (w2.issues = 0 => w.issues = 0)
      <3>1. CASE o \in inventoryOdd
        <4> DEFINE i == Inventory!Issue(listed)
        <4>1. w2 = [i EXCEPT !.todo = Tail(w.todo), !.seen = w.seen \cup {o}]
          BY <1>6, <2>4, <3>1
        <4>2. listed \in WorkRecord
          BY <1>1, <2>3, <2>5 DEF WorkRecord
        <4>3. /\ listed.objects = Append(w.objects, r) /\ listed.queue = q
              /\ listed.step = w.step /\ listed.serves = w.serves /\ listed.seed = w.seed
              /\ listed.hits = w.hits /\ listed.batch = w.batch /\ listed.found = w.found
              /\ listed.at = w.at /\ listed.issues = w.issues
          BY <1>1 DEF WorkRecord
        <4> HIDE DEF listed
        <4>4. i \in WorkRecord /\ i.issues = w.issues + 1
          BY <4>2, <4>3, IssueIs
        <4>5. /\ i.objects = Append(w.objects, r) /\ i.queue = q
              /\ i.step = w.step /\ i.serves = w.serves /\ i.seed = w.seed
              /\ i.hits = w.hits /\ i.batch = w.batch /\ i.found = w.found /\ i.at = w.at
          BY <4>2, <4>3, IssueIs
        <4> HIDE DEF i
        <4>6. w2 \in WorkRecord
          BY <1>2, <2>5, <4>1, <4>4 DEF WorkRecord
        <4>7. /\ w2.objects = i.objects /\ w2.queue = i.queue /\ w2.todo = Tail(w.todo)
              /\ w2.seen = w.seen \cup {o} /\ w2.step = i.step /\ w2.serves = i.serves
              /\ w2.seed = i.seed /\ w2.hits = i.hits /\ w2.batch = i.batch /\ w2.found = i.found
              /\ w2.at = i.at /\ w2.issues = i.issues
          BY <4>1, <4>4 DEF WorkRecord
        <4>8. w.issues + 1 # 0
          BY <1>2
        <4> QED
          BY <4>4, <4>5, <4>6, <4>7, <4>8
      <3>2. CASE o \notin inventoryOdd
        <4>1. w2 = [listed EXCEPT !.todo = Tail(w.todo), !.seen = w.seen \cup {o}]
          BY <1>6, <2>4, <3>2
        <4> QED
          BY <1>1, <1>2, <2>3, <2>5, <4>1 DEF WorkRecord
      <3> QED
        BY <3>1, <3>2
    <2> DEFINE y == IF o \in Descended THEN x ELSE w.queue[1]
    <2>7. y \in Waiting /\ (y.folder = o \/ o \notin Descended)
      BY <1>2, <2>1 DEF Waiting, x, adjusted
    <2>8. w2.queue = IF o \in Descended THEN Append(w.queue, y) ELSE w.queue
      BY <2>3, <2>6
    <2>9. v \in [Objects -> Nat]
      BY DEF InventoryInv
    <2>10. o = Head(w.todo) /\ Inventory!Parent[o] = w.queue[1].folder
      BY <1>2, <1>6
    <2> HIDE DEF y, v, st, w, w2, o, folder, listed
    <2>11. Taken(v, st, w, w2, o, date, r, y)
      BY <1>1, <1>2, <1>6, <2>2, <2>6, <2>7, <2>8, <2>9, <2>10 DEF Taken
    <2> QED
      BY <2>11, TakeKeeps
  <1>7. WorkRight(v, st, w2)
    <2>1. CASE w.serves
      <3>1. o \in DOMAIN w.seed /\ Inventory!Parent[o] = folder.folder /\ w.seed # Nobody
        BY <1>1, <1>2, <1>3, <2>1 DEF WorkRight, Serves
      <3>2. w.seed \in Seeds /\ w.seed[o] <= v[o] /\ (o \in st => w.seed[o] = v[o])
        BY <1>1, <3>1 DEF WorkRight, SeedRight
      <3>3. w.seed[o] \in Nat
        BY <3>1, <3>2 DEF Seeds
      <3>4. \/ w2 = Inventory!Issue([w EXCEPT !.queue = <<>>, !.todo = <<>>, !.step = "folders"])
            \/ w2 = Inventory!Issue([w EXCEPT !.todo = Tail(w.todo)])
            \/ o \notin w.seen
               /\ w2 = [Inventory!Take(o, w.seed[o]) EXCEPT !.todo = Tail(w.todo),
                                                            !.seen = w.seen \cup {o}]
        BY <1>1, <2>1 DEF Inventory!NextChild, WorkRecord
      <3>5. [w EXCEPT !.todo = Tail(w.todo)] = [w EXCEPT !.todo = Tail(w.todo), !.seen = w.seen]
        BY <1>1 DEF WorkRecord
      <3>6. w.seen \in SUBSET Objects
        BY <1>1 DEF WorkRecord
      <3> HIDE DEF v, st, w, w2, o, folder
      <3> QED
        BY <1>4, <1>5, <1>6, <3>1, <3>2, <3>3, <3>4, <3>5, <3>6
    <2>2. CASE ~w.serves
      <3>1. \/ w2 = Inventory!Issue([w EXCEPT !.queue = <<>>, !.todo = <<>>, !.step = "folders"])
            \/ w2 = Inventory!Issue([w EXCEPT !.todo = Tail(w.todo)])
            \/ w2 = Inventory!Issue([w EXCEPT !.todo = Tail(w.todo), !.seen = w.seen \cup {o}])
            \/ /\ o \notin w.seen /\ Inventory!Parent[o] = folder.folder
               /\ w2 = [Inventory!Take(o, v[o]) EXCEPT !.todo = Tail(w.todo),
                                                       !.seen = w.seen \cup {o}]
        BY <1>1, <2>2 DEF Inventory!NextChild, WorkRecord
      <3>2. [w EXCEPT !.todo = Tail(w.todo)] = [w EXCEPT !.todo = Tail(w.todo), !.seen = w.seen]
        BY <1>1 DEF WorkRecord
      <3>3. w.seen \in SUBSET Objects /\ w.seen \cup {o} \in SUBSET Objects
        BY <1>1, <1>2 DEF WorkRecord
      <3>4. v[o] \in Nat /\ v[o] <= v[o]
        BY <1>2 DEF InventoryInv
      <3> HIDE DEF v, st, w, w2, o, folder
      <3> QED
        BY <1>4, <1>5, <1>6, <3>1, <3>2, <3>3, <3>4
    <2> QED
      BY <2>1, <2>2
  <1> QED
    BY <1>7, OnlyTheWork DEF Inventory!NextChild, Inventory!At

LEMMA FolderDoneKeeps ==
  ASSUME InventoryInv, Inventory!FolderDone
  PROVE  InventoryInv'
  <1> DEFINE v == inventoryVer
             st == inventorySteady
             w == inventoryOp
             w2 == inventoryOp'
  <1>1. WorkRight(v, st, w) /\ w \in WorkRecord /\ w.step = "children" /\ w.todo = <<>>
    BY DEF Inventory!FolderDone, Inventory!At, InventoryInv, WorkRight
  <1>2. w.queue \in Seq(Waiting) /\ w.queue # <<>> /\ Tail(w.queue) \in Seq(Waiting)
    BY <1>1 DEF WorkRecord, WorkRight, Serves
  <1>3. w2 = [w EXCEPT !.step = "folders", !.queue = Tail(w.queue)]
    BY <1>1 DEF Inventory!FolderDone, WorkRecord
  <1>4. w2 \in WorkRecord
    BY <1>1, <1>2, <1>3 DEF WorkRecord
  <1>5. SameList(w, w2) /\ w2.step = "folders" /\ w2.queue = Tail(w.queue) /\ w2.issues = w.issues
    BY <1>1, <1>3, <1>4 DEF WorkRecord, SameList
  <1>6. ASSUME NEW o, Accounted(w, o)
        PROVE  Accounted(w2, o)
    <2>1. \A f : Waits(w, f) => Waits(w2, f)
      <3> SUFFICES ASSUME NEW f, Waits(w, f)
                   PROVE  Waits(w2, f)
        OBVIOUS
      <3>1. PICK i \in 1..Len(w.queue) : w.queue[i].folder = f /\ i > 1
        BY <1>1 DEF Waits
      <3>2. i - 1 \in 1..Len(Tail(w.queue)) /\ Tail(w.queue)[i - 1] = w.queue[i]
        BY <1>2, <3>1
      <3> QED
        BY <1>5, <3>1, <3>2 DEF Waits
    <2>2. ~\E i \in 1..Len(w.todo) : w.todo[i] = o
      BY <1>1
    <2> QED
      BY <1>1, <1>5, <1>6, <2>1, <2>2 DEF Accounted, SameList
  <1>7. Remembers(st, w2)
    BY <1>1, <1>5, <1>6 DEF Remembers, WorkRight
  <1>8. WorkRight(v, st, w2)
    BY <1>1, <1>5, <1>7, ListingKeeps DEF Serves
  <1> QED
    BY <1>8, OnlyTheWork DEF Inventory!FolderDone, Inventory!At

-----------------------------------------------------------------------------
(* The metadata of the books.                                               *)

\* With every folder listed, an object that stayed is in the list.
LEMMA AllAreListed ==
  ASSUME NEW v, NEW st, NEW w, WorkRight(v, st, w), w.step = "folders", w.queue = <<>>,
         w.issues = 0, Inventory!Folders \subseteq st, NEW o \in st \cap Inventory!InScope
  PROVE  Lists(w.objects, o)
  <1>1. \A f : ~Waits(w, f)
    BY DEF Waits
  <1>2. \A p \in st \cap Inventory!InScope :
          \/ Lists(w.objects, p)
          \/ Inventory!Parent[p] # Nobody /\ ~Lists(w.objects, Inventory!Parent[p])
    BY <1>1 DEF WorkRight, Remembers, Accounted
  <1>3. SUFFICES ASSUME Inventory!Parent[o] # Nobody
                 PROVE  Lists(w.objects, Inventory!Parent[o])
    BY <1>2
  <1>4. /\ Inventory!Parent[o] \in Inventory!Folders
        /\ Inventory!Parent[Inventory!Parent[o]] = Nobody
    BY <1>3, Tree DEF Inventory!InScope
  <1>5. Inventory!Parent[o] \in st \cap Inventory!InScope
    BY <1>4, Tree DEF Inventory!InScope
  <1> QED
    BY <1>2, <1>4, <1>5

LEMMA LookUpKeeps ==
  ASSUME InventoryInv, Inventory!LookUp
  PROVE  InventoryInv'
  <1> DEFINE v == inventoryVer
             st == inventorySteady
             w == inventoryOp
             w2 == inventoryOp'
             all == inventorySlots[1] \cup inventorySlots[2] \cup inventoryBrowser
  <1>1. WorkRight(v, st, w) /\ w \in WorkRecord /\ w.step = "folders" /\ w.queue = <<>>
    BY DEF Inventory!LookUp, Inventory!At, InventoryInv, WorkRight
  <1>2. CacheRight(v, all)
    BY DEF InventoryInv, CacheRight
  <1> DEFINE portable == UNION {Inventory!Entries(inventorySlots[1] \cup inventorySlots[2], r) :
                                  r \in Inventory!PortableHits}
             others == Inventory!Leading(Inventory!Candidates \ Inventory!PortableHits,
                         w.limits.reads - Inventory!Cardinality(Inventory!PortableHits))
             mine == UNION {Inventory!Entries(inventoryBrowser, r) : r \in others}
  <1>3. \E hits : /\ w2 = [w EXCEPT !.step = "metadata", !.hits = hits]
                  /\ hits \subseteq portable \cup mine
    BY DEF Inventory!LookUp
  <1>4. PICK hits : /\ w2 = [w EXCEPT !.step = "metadata", !.hits = hits]
                    /\ hits \subseteq portable \cup mine
    BY <1>3
  <1>5. \A r \in Inventory!Candidates : \E k \in 1..Len(w.objects) : w.objects[k] = r
    <2>1. w.objects \in Seq(Inventory!Listed)
      BY <1>1 DEF WorkRecord
    <2> QED
      BY <2>1 DEF Inventory!Candidates, Inventory!ToSet
  <1>6. Inventory!PortableHits \subseteq Inventory!Candidates /\ others \subseteq Inventory!Candidates
    BY DEF Inventory!PortableHits, Inventory!Leading
  <1>7. ASSUME NEW e \in portable \cup mine
        PROVE  /\ e \in all
               /\ \E k \in 1..Len(w.objects) : w.objects[k].o = e.o /\ w.objects[k].date = e.date
    <2>1. \E r \in Inventory!Candidates : e \in all /\ e.o = r.o /\ e.date = r.date
      BY <1>6, <1>7 DEF Inventory!Entries
    <2> QED
      BY <1>5, <2>1
  <1>8. hits \subseteq all
    BY <1>4, <1>7
  <1>9. hits \subseteq Inventory!Cached
    BY <1>2, <1>8 DEF CacheRight
  <1>10. w2 \in WorkRecord
    BY <1>1, <1>4, <1>9 DEF WorkRecord
  <1>11. /\ w2.step = "metadata" /\ w2.hits = hits /\ w2.seed = w.seed /\ w2.objects = w.objects
         /\ w2.seen = w.seen /\ w2.batch = w.batch /\ w2.found = w.found /\ w2.at = w.at
         /\ w2.issues = w.issues
    BY <1>1, <1>4 DEF WorkRecord
  <1>12. CacheRight(v, w2.hits) /\ HitsRight(w2)
    <2>1. \A e \in w2.hits : e \in all /\ e \in portable \cup mine
      BY <1>4, <1>8, <1>11
    <2> HIDE DEF all, portable, mine, w, w2, v
    <2> QED
      BY <1>2, <1>7, <1>11, <2>1 DEF CacheRight, HitsRight
  <1>13. Remembers(st, w2)
    <2>1. Inventory!Folders \subseteq st
      BY DEF InventoryInv, Inventory!LookUp, Inventory!At
    <2> QED
      BY <1>1, <1>11, <2>1, AllAreListed DEF Remembers, Accounted
  <1>14. WorkRight(v, st, w2)
    BY <1>1, <1>10, <1>11, <1>12, <1>13 DEF WorkRight, Serves
  <1> QED
    BY <1>14, OnlyTheWork DEF Inventory!LookUp, Inventory!At

\* The next object of the list is done with, and what is found of it is kept.
LEMMA FoundOneMore ==
  ASSUME NEW v, NEW st, NEW list, ListRight(v, st, list), NEW n \in 1..Len(list), NEW found,
         FoundRight(v, list, n - 1, found), NEW f \in Inventory!Found, f.o = list[n].o,
         f.state = "known" => f.meta \in Nat /\ Right(v, f.o, list[n].date, f.meta),
         f.state = "managed" => f.o \in Inventory!Managed
  PROVE  FoundRight(v, list, n, found \cup {f})
  <1>1. \A k \in 1..(n - 1) : k \in 1..n /\ k \in 1..Len(list) /\ k # n
    BY DEF ListRight
  <1>2. \A g \in found : g.o # f.o
    <2>1. ASSUME NEW g \in found
          PROVE  \E k \in 1..(n - 1) : list[k].o = g.o
      BY DEF FoundRight
    <2> QED
      BY <1>1, <2>1 DEF ListRight
  <1>3. n \in 1..n /\ \A k \in 1..n : k = n \/ k \in 1..(n - 1)
    BY DEF ListRight
  <1>4. ASSUME NEW g \in found \cup {f}
        PROVE  \E k \in 1..n : /\ list[k].o = g.o
                               /\ g.state = "known" =>
                                    g.meta \in Nat /\ Right(v, g.o, list[k].date, g.meta)
    BY <1>1, <1>3 DEF FoundRight
  <1>5. \A g, h \in found \cup {f} : g.o = h.o => g = h
    BY <1>2 DEF FoundRight
  <1>6. \A k \in 1..n : list[k].o \in Inventory!Books => \E g \in found \cup {f} : g.o = list[k].o
    BY <1>3 DEF FoundRight
  <1> QED
    BY <1>4, <1>5, <1>6 DEF FoundRight

LEMMA FoundNothing ==
  ASSUME NEW v, NEW st, NEW list, ListRight(v, st, list), NEW n \in 1..Len(list), NEW found,
         FoundRight(v, list, n - 1, found), list[n].o \notin Inventory!Books
  PROVE  FoundRight(v, list, n, found)
  <1>1. \A k \in 1..(n - 1) : k \in 1..n
    BY DEF ListRight
  <1>2. \A k \in 1..n : k = n \/ k \in 1..(n - 1)
    BY DEF ListRight
  <1> QED
    BY <1>1, <1>2 DEF FoundRight

LEMMA ReadingKeeps ==
  ASSUME NEW v, NEW st, NEW w, NEW w2, WorkRight(v, st, w), w.step = "metadata", w2 \in WorkRecord,
         w2.step = "metadata", w2.seed = w.seed, w2.objects = w.objects, w2.seen = w.seen,
         w2.issues = w.issues, w2.hits = w.hits, w2.at <= Len(w.objects) + 1,
         CacheRight(v, w2.batch), FoundRight(v, w.objects, w2.at - 1, w2.found)
  PROVE  WorkRight(v, st, w2)
  <1>1. Remembers(st, w2)
    BY DEF WorkRight, Remembers, Accounted
  <1> QED
    BY <1>1 DEF WorkRight, Serves, HitsRight

\* What a step does with the current object.
LEMMA CurrentKeeps ==
  ASSUME InventoryInv, Inventory!At("metadata"), inventoryOp.at <= Len(inventoryOp.objects),
         Inventory!Idle, NEW found \in SUBSET Inventory!Found, NEW batch \in SUBSET Inventory!Cached,
         NEW tried \in Nat, NEW cached \in Nat, NEW bytes \in Nat,
         FoundRight(inventoryVer, inventoryOp.objects, inventoryOp.at, found),
         CacheRight(inventoryVer, batch),
         inventoryOp' = [inventoryOp EXCEPT !.found = found, !.batch = batch, !.tried = tried,
                                            !.cached = cached, !.bytes = bytes,
                                            !.at = inventoryOp.at + 1]
  PROVE  InventoryInv'
  <1> DEFINE v == inventoryVer
             st == inventorySteady
             w == inventoryOp
             w2 == inventoryOp'
  <1>1. WorkRight(v, st, w) /\ w \in WorkRecord /\ w.step = "metadata" /\ w # Nobody
    BY DEF Inventory!At, InventoryInv, WorkRight
  <1>2. w.at \in Nat \ {0} /\ w.at + 1 \in Nat \ {0} /\ w.at + 1 - 1 = w.at /\ Len(w.objects) \in Nat
    BY <1>1 DEF WorkRecord
  <1>3. w2 \in WorkRecord
    BY <1>1, <1>2 DEF WorkRecord
  <1>4. /\ w2.step = "metadata" /\ w2.seed = w.seed /\ w2.objects = w.objects /\ w2.seen = w.seen
        /\ w2.issues = w.issues /\ w2.hits = w.hits /\ w2.at = w.at + 1 /\ w2.batch = batch
        /\ w2.found = found
    BY <1>1 DEF WorkRecord
  <1>5. w2.at <= Len(w.objects) + 1 /\ w2.at - 1 = w.at
    BY <1>2, <1>4
  <1>6. WorkRight(v, st, w2)
    <2> HIDE DEF v, st, w, w2
    <2>1. CacheRight(v, w2.batch) /\ FoundRight(v, w.objects, w2.at - 1, w2.found)
      BY <1>4, <1>5 DEF v, w
    <2> QED
      BY <1>1, <1>3, <1>4, <1>5, <2>1, ReadingKeeps
  <1> QED
    BY <1>1, <1>6, OnlyTheWork

\* The facts of a step that looks at the current object.
LEMMA CurrentFacts ==
  ASSUME InventoryInv, Inventory!At("metadata"), inventoryOp.at <= Len(inventoryOp.objects)
  PROVE  /\ WorkRight(inventoryVer, inventorySteady, inventoryOp) /\ inventoryOp \in WorkRecord
         /\ inventoryOp.at \in 1..Len(inventoryOp.objects)
         /\ ListRight(inventoryVer, inventorySteady, inventoryOp.objects)
         /\ FoundRight(inventoryVer, inventoryOp.objects, inventoryOp.at - 1, inventoryOp.found)
         /\ CacheRight(inventoryVer, inventoryOp.batch)
         /\ Inventory!Current \in Inventory!Listed
         /\ Inventory!Current = inventoryOp.objects[inventoryOp.at]
         /\ Inventory!Current.o \in Objects /\ Inventory!Current.date \in Nat
         /\ Inventory!Current.date <= inventoryVer[Inventory!Current.o]
         /\ inventoryVer[Inventory!Current.o] \in Nat
  <1>1. WorkRight(inventoryVer, inventorySteady, inventoryOp) /\ inventoryOp \in WorkRecord
    BY DEF Inventory!At, InventoryInv, WorkRight
  <1>2. /\ ListRight(inventoryVer, inventorySteady, inventoryOp.objects)
        /\ FoundRight(inventoryVer, inventoryOp.objects, inventoryOp.at - 1, inventoryOp.found)
        /\ CacheRight(inventoryVer, inventoryOp.batch)
    BY <1>1 DEF WorkRight
  <1>3. /\ inventoryOp.at \in 1..Len(inventoryOp.objects)
        /\ inventoryOp.objects \in Seq(Inventory!Listed)
    BY <1>1 DEF WorkRecord
  <1>4. /\ Inventory!Current \in Inventory!Listed
        /\ Inventory!Current = inventoryOp.objects[inventoryOp.at]
    BY <1>3 DEF Inventory!Current
  <1>5. Inventory!Current.o \in Objects /\ Inventory!Current.date \in Nat
    BY <1>4 DEF Inventory!Listed
  <1>6. Inventory!Current.date <= inventoryVer[Inventory!Current.o]
    BY <1>2, <1>3, <1>4 DEF ListRight
  <1> QED
    BY <1>1, <1>2, <1>3, <1>4, <1>5, <1>6 DEF InventoryInv

LEMMA NoReadNeededKeeps ==
  ASSUME InventoryInv, Inventory!NoReadNeeded
  PROVE  InventoryInv'
  <1> DEFINE v == inventoryVer
             w == inventoryOp
             c == Inventory!Current
             f == Inventory!Known("managed", Nobody)
  <1>1. Inventory!At("metadata") /\ w.at <= Len(w.objects) /\ Inventory!Idle
    BY DEF Inventory!NoReadNeeded
  <1>2. /\ w \in WorkRecord /\ w.at \in 1..Len(w.objects) /\ FoundRight(v, w.objects, w.at - 1, w.found)
        /\ ListRight(v, inventorySteady, w.objects) /\ CacheRight(v, w.batch)
        /\ c = w.objects[w.at] /\ c.o \in Objects
    BY <1>1, CurrentFacts
  <1>3. CASE c.o \in Inventory!Folders
    <2>1. inventoryOp' = [w EXCEPT !.found = w.found, !.batch = w.batch, !.tried = w.tried,
                                   !.cached = w.cached, !.bytes = w.bytes, !.at = w.at + 1]
      BY <1>2, <1>3 DEF Inventory!NoReadNeeded, Inventory!Next1, WorkRecord
    <2>2. FoundRight(v, w.objects, w.at, w.found)
      BY <1>2, <1>3, FoundNothing DEF Inventory!Books
    <2>3. /\ w.found \in SUBSET Inventory!Found /\ w.batch \in SUBSET Inventory!Cached
          /\ w.tried \in Nat /\ w.cached \in Nat /\ w.bytes \in Nat
      BY <1>2 DEF WorkRecord
    <2> QED
      BY <1>1, <1>2, <2>1, <2>2, <2>3, CurrentKeeps
  <1>4. CASE c.o \notin Inventory!Folders
    <2>1. c.o \in Inventory!Managed
      BY <1>4 DEF Inventory!NoReadNeeded
    <2>2. inventoryOp' = [w EXCEPT !.found = w.found \cup {f}, !.batch = w.batch, !.tried = w.tried,
                                   !.cached = w.cached, !.bytes = w.bytes, !.at = w.at + 1]
      BY <1>2, <1>4 DEF Inventory!NoReadNeeded, Inventory!Next1, WorkRecord
    <2>3. f \in Inventory!Found /\ f.o = c.o /\ f.state = "managed"
      BY <1>2 DEF Inventory!Known, Inventory!Found
    <2> HIDE DEF f, c, w, v
    <2>4. FoundRight(v, w.objects, w.at, w.found \cup {f})
      BY <1>2, <2>1, <2>3, FoundOneMore
    <2>5. w.found \cup {f} \in SUBSET Inventory!Found
      BY <2>4 DEF FoundRight
    <2> USE DEF w, v
    <2> QED
      BY <1>1, <1>2, <2>2, <2>4, <2>5, CurrentKeeps DEF WorkRecord
  <1> QED
    BY <1>3, <1>4

LEMMA FromCacheKeeps ==
  ASSUME InventoryInv, Inventory!FromCache
  PROVE  InventoryInv'
  <1> DEFINE v == inventoryVer
             w == inventoryOp
             c == Inventory!Current
             e == CHOOSE x \in Inventory!Hit : TRUE
             f == Inventory!Known("known", e.meta)
             known == [w EXCEPT !.cached = w.cached + 1, !.found = w.found \cup {f}]
  <1>1. Inventory!At("metadata") /\ w.at <= Len(w.objects) /\ Inventory!Idle
    BY DEF Inventory!FromCache, Inventory!NeedsMetadata
  <1>2. /\ w \in WorkRecord /\ w.at \in 1..Len(w.objects) /\ FoundRight(v, w.objects, w.at - 1, w.found)
        /\ ListRight(v, inventorySteady, w.objects) /\ CacheRight(v, w.batch)
        /\ c = w.objects[w.at] /\ c.o \in Objects /\ c.date \in Nat
    BY <1>1, CurrentFacts
  <1>3. e \in w.hits /\ e.o = c.o
    BY DEF Inventory!FromCache, Inventory!Hit
  <1>4. HitsRight(w) /\ CacheRight(v, w.hits)
    BY <1>1, CurrentFacts DEF WorkRight
  <1>5. e.date = c.date
    <2>1. PICK k \in 1..Len(w.objects) : w.objects[k].o = e.o /\ w.objects[k].date = e.date
      BY <1>3, <1>4 DEF HitsRight
    <2> QED
      BY <1>2, <1>3, <2>1 DEF ListRight
  <1>6. e.meta \in Nat /\ Right(v, c.o, c.date, e.meta)
    BY <1>3, <1>4, <1>5 DEF CacheRight, Inventory!Cached
  <1>7. f \in Inventory!Found /\ f.o = c.o /\ f.state = "known" /\ f.meta = e.meta
    BY <1>2, <1>6 DEF Inventory!Known, Inventory!Found
  <1>8. FoundRight(v, w.objects, w.at, w.found \cup {f})
    <2> HIDE DEF f, c, w, v, e
    <2> QED
      BY <1>2, <1>6, <1>7, FoundOneMore
  <1>9. w.found \cup {f} \in SUBSET Inventory!Found
    BY <1>8 DEF FoundRight
  <1> DEFINE more == w.batch \cup {Inventory!Entry(c, e.meta)}
  <1>10. CacheRight(v, more)
    <2>1. Inventory!Entry(c, e.meta) \in Inventory!Cached
      BY <1>2, <1>6 DEF Inventory!Entry, Inventory!Cached
    <2>2. Inventory!Entry(c, e.meta).o = c.o /\ Inventory!Entry(c, e.meta).date = c.date
          /\ Inventory!Entry(c, e.meta).meta = e.meta
      BY DEF Inventory!Entry
    <2> HIDE DEF c, e, w, v
    <2> QED
      BY <1>2, <1>6, <2>1, <2>2 DEF CacheRight
  <1>11. inventoryOp' = Inventory!Next1(
           IF e \in inventorySlots[1] \cup inventorySlots[2]
           THEN Inventory!Remembered(known, c, e.meta) ELSE known)
    BY DEF Inventory!FromCache
  <1>12. \/ inventoryOp' = Inventory!Next1(known)
         \/ inventoryOp' = Inventory!Next1([known EXCEPT !.batch = known.batch
                                               \cup {Inventory!Entry(c, e.meta)}])
    BY <1>11 DEF Inventory!Remembered
  <1> HIDE DEF f, e, c
  <1>13. \E batch \in {w.batch, more} :
           inventoryOp' = [w EXCEPT !.found = w.found \cup {f}, !.batch = batch, !.tried = w.tried,
                                    !.cached = w.cached + 1, !.bytes = w.bytes, !.at = w.at + 1]
    <2>1. CASE inventoryOp' = Inventory!Next1(known)
      <3>1. inventoryOp' = [w EXCEPT !.found = w.found \cup {f}, !.batch = w.batch, !.tried = w.tried,
                                     !.cached = w.cached + 1, !.bytes = w.bytes, !.at = w.at + 1]
        BY <1>2, <2>1 DEF Inventory!Next1, WorkRecord
      <3> QED
        BY <3>1
    <2>2. CASE inventoryOp' = Inventory!Next1([known EXCEPT !.batch = known.batch
                                                   \cup {Inventory!Entry(c, e.meta)}])
      <3> DEFINE k == [known EXCEPT !.batch = known.batch \cup {Inventory!Entry(c, e.meta)}]
      <3>1. k = [w EXCEPT !.found = w.found \cup {f}, !.batch = more, !.cached = w.cached + 1]
        BY <1>2 DEF WorkRecord
      <3>2. inventoryOp' = [k EXCEPT !.at = k.at + 1]
        BY <2>2 DEF Inventory!Next1
      <3> HIDE DEF k, more
      <3>3. inventoryOp' = [w EXCEPT !.found = w.found \cup {f}, !.batch = more, !.tried = w.tried,
                                     !.cached = w.cached + 1, !.bytes = w.bytes, !.at = w.at + 1]
        BY <1>2, <3>1, <3>2 DEF WorkRecord
      <3> QED
        BY <3>3
    <2> QED
      BY <1>12, <2>1, <2>2
  <1>14. w.tried \in Nat /\ w.cached + 1 \in Nat /\ w.bytes \in Nat
    BY <1>2 DEF WorkRecord
  <1>15. w.batch \in SUBSET Inventory!Cached /\ more \in SUBSET Inventory!Cached
    BY <1>2, <1>10 DEF CacheRight
  <1> HIDE DEF more
  <1> QED
    <2>1. PICK batch \in {w.batch, more} :
            inventoryOp' = [w EXCEPT !.found = w.found \cup {f}, !.batch = batch, !.tried = w.tried,
                                     !.cached = w.cached + 1, !.bytes = w.bytes, !.at = w.at + 1]
      BY <1>13
    <2>2. batch \in SUBSET Inventory!Cached /\ CacheRight(v, batch)
      BY <1>2, <1>10, <1>15
    <2> QED
      BY <1>1, <1>8, <1>9, <1>14, <2>1, <2>2, CurrentKeeps

LEMMA SkippedKeeps ==
  ASSUME InventoryInv, Inventory!Skipped
  PROVE  InventoryInv'
  <1> DEFINE v == inventoryVer
             w == inventoryOp
             c == Inventory!Current
             f == Inventory!Known("skipped", Nobody)
  <1>1. Inventory!At("metadata") /\ w.at <= Len(w.objects) /\ Inventory!Idle
    BY DEF Inventory!Skipped, Inventory!NeedsMetadata
  <1>2. /\ w \in WorkRecord /\ w.at \in 1..Len(w.objects) /\ FoundRight(v, w.objects, w.at - 1, w.found)
        /\ ListRight(v, inventorySteady, w.objects) /\ CacheRight(v, w.batch)
        /\ c = w.objects[w.at] /\ c.o \in Objects
    BY <1>1, CurrentFacts
  <1>3. inventoryOp' = [w EXCEPT !.found = w.found \cup {f}, !.batch = w.batch, !.tried = w.tried,
                                 !.cached = w.cached, !.bytes = w.bytes, !.at = w.at + 1]
    BY <1>2 DEF Inventory!Skipped, Inventory!Next1, WorkRecord
  <1>4. f \in Inventory!Found /\ f.o = c.o /\ f.state = "skipped"
    BY <1>2 DEF Inventory!Known, Inventory!Found
  <1>5. FoundRight(v, w.objects, w.at, w.found \cup {f})
    <2> HIDE DEF f, c, w, v
    <2> QED
      BY <1>2, <1>4, FoundOneMore
  <1>6. w.found \cup {f} \in SUBSET Inventory!Found
    BY <1>5 DEF FoundRight
  <1> HIDE DEF f
  <1> QED
    BY <1>1, <1>2, <1>3, <1>5, <1>6, CurrentKeeps DEF WorkRecord

LEMMA ReadBookKeeps ==
  ASSUME InventoryInv, Inventory!ReadBook
  PROVE  InventoryInv'
  <1> DEFINE v == inventoryVer
             w == inventoryOp
             c == Inventory!Current
             meta == v[c.o]
             tried == [w EXCEPT !.tried = w.tried + 1, !.bytes = w.bytes + Inventory!Size]
  <1>1. Inventory!At("metadata") /\ w.at <= Len(w.objects) /\ Inventory!Idle
    BY DEF Inventory!ReadBook, Inventory!NeedsMetadata
  <1>2. /\ w \in WorkRecord /\ w.at \in 1..Len(w.objects) /\ FoundRight(v, w.objects, w.at - 1, w.found)
        /\ ListRight(v, inventorySteady, w.objects) /\ CacheRight(v, w.batch)
        /\ c = w.objects[w.at] /\ c.o \in Objects /\ c.date \in Nat
        /\ c.date <= meta /\ meta \in Nat
    BY <1>1, CurrentFacts
  <1>3. Right(v, c.o, c.date, meta)
    BY <1>2 DEF Right
  <1> DEFINE more == w.batch \cup {Inventory!Entry(c, meta)}
  <1>4. CacheRight(v, more)
    <2>1. Inventory!Entry(c, meta) \in Inventory!Cached
      BY <1>2 DEF Inventory!Entry, Inventory!Cached
    <2>2. Inventory!Entry(c, meta).o = c.o /\ Inventory!Entry(c, meta).date = c.date
          /\ Inventory!Entry(c, meta).meta = meta
      BY DEF Inventory!Entry
    <2> HIDE DEF c, meta, w, v
    <2> QED
      BY <1>2, <1>3, <2>1, <2>2 DEF CacheRight
  <1>5. ASSUME NEW f \in {Inventory!Known("known", meta), Inventory!Known("failed", Nobody)}
        PROVE  FoundRight(v, w.objects, w.at, w.found \cup {f})
    <2>1. /\ f \in Inventory!Found /\ f.o = c.o /\ f.state # "managed"
          /\ f.state = "known" => f.meta = meta
      BY <1>2, <1>5 DEF Inventory!Known, Inventory!Found
    <2> HIDE DEF c, w, v, meta
    <2> QED
      BY <1>2, <1>3, <2>1, FoundOneMore
  <1>6. \E f \in {Inventory!Known("known", meta), Inventory!Known("failed", Nobody)} :
          \/ inventoryOp' = Inventory!Next1([tried EXCEPT !.found = tried.found \cup {f}])
          \/ inventoryOp' = Inventory!Next1(
               Inventory!Remembered([tried EXCEPT !.found = tried.found \cup {f}], c, meta))
    BY DEF Inventory!ReadBook
  <1>7. PICK f \in {Inventory!Known("known", meta), Inventory!Known("failed", Nobody)} :
          \/ inventoryOp' = Inventory!Next1([tried EXCEPT !.found = tried.found \cup {f}])
          \/ inventoryOp' = Inventory!Next1(
               Inventory!Remembered([tried EXCEPT !.found = tried.found \cup {f}], c, meta))
    BY <1>6
  <1> DEFINE known == [tried EXCEPT !.found = tried.found \cup {f}]
  <1>8. \/ inventoryOp' = Inventory!Next1(known)
        \/ inventoryOp' = Inventory!Next1([known EXCEPT !.batch = known.batch
                                              \cup {Inventory!Entry(c, meta)}])
    BY <1>7 DEF Inventory!Remembered
  <1>9. FoundRight(v, w.objects, w.at, w.found \cup {f})
    BY <1>5
  <1>10. w.found \cup {f} \in SUBSET Inventory!Found
    BY <1>9 DEF FoundRight
  <1> HIDE DEF c, meta
  <1>11. \E batch \in {w.batch, more} :
           inventoryOp' = [w EXCEPT !.found = w.found \cup {f}, !.batch = batch,
                                    !.tried = w.tried + 1, !.cached = w.cached,
                                    !.bytes = w.bytes + Inventory!Size, !.at = w.at + 1]
    <2>1. CASE inventoryOp' = Inventory!Next1(known)
      <3>1. inventoryOp' = [w EXCEPT !.found = w.found \cup {f}, !.batch = w.batch,
                                     !.tried = w.tried + 1, !.cached = w.cached,
                                     !.bytes = w.bytes + Inventory!Size, !.at = w.at + 1]
        BY <1>2, <2>1 DEF Inventory!Next1, WorkRecord
      <3> QED
        BY <3>1
    <2>2. CASE inventoryOp' = Inventory!Next1([known EXCEPT !.batch = known.batch
                                                   \cup {Inventory!Entry(c, meta)}])
      <3> DEFINE k == [known EXCEPT !.batch = known.batch \cup {Inventory!Entry(c, meta)}]
      <3>1. k = [w EXCEPT !.found = w.found \cup {f}, !.batch = more, !.tried = w.tried + 1,
                          !.bytes = w.bytes + Inventory!Size]
        BY <1>2 DEF WorkRecord
      <3>2. inventoryOp' = [k EXCEPT !.at = k.at + 1]
        BY <2>2 DEF Inventory!Next1
      <3> HIDE DEF k, more
      <3>3. inventoryOp' = [w EXCEPT !.found = w.found \cup {f}, !.batch = more,
                                     !.tried = w.tried + 1, !.cached = w.cached,
                                     !.bytes = w.bytes + Inventory!Size, !.at = w.at + 1]
        BY <1>2, <3>1, <3>2 DEF WorkRecord
      <3> QED
        BY <3>3
    <2> QED
      BY <1>8, <2>1, <2>2
  <1>12. w.tried + 1 \in Nat /\ w.cached \in Nat /\ w.bytes + Inventory!Size \in Nat
    BY <1>2 DEF WorkRecord, Inventory!Size
  <1>13. w.batch \in SUBSET Inventory!Cached /\ more \in SUBSET Inventory!Cached
    BY <1>2, <1>4 DEF CacheRight
  <1> HIDE DEF more
  <1> QED
    <2>1. PICK batch \in {w.batch, more} :
            inventoryOp' = [w EXCEPT !.found = w.found \cup {f}, !.batch = batch,
                                     !.tried = w.tried + 1, !.cached = w.cached,
                                     !.bytes = w.bytes + Inventory!Size, !.at = w.at + 1]
      BY <1>11
    <2>2. batch \in SUBSET Inventory!Cached /\ CacheRight(v, batch)
      BY <1>2, <1>4, <1>13
    <2> QED
      BY <1>1, <1>9, <1>10, <1>12, <2>1, <2>2, CurrentKeeps

LEMMA FlushKeeps ==
  ASSUME InventoryInv, Inventory!Flush
  PROVE  InventoryInv'
  <1> DEFINE v == inventoryVer
             st == inventorySteady
             w == inventoryOp
             w2 == inventoryOp'
  <1>1. WorkRight(v, st, w) /\ w \in WorkRecord /\ w.step = "metadata" /\ w # Nobody
    BY DEF Inventory!Flush, Inventory!At, InventoryInv, WorkRight
  <1>2. PICK accepted \in BOOLEAN : w2 = [w EXCEPT !.batch = {}, !.writing = accepted]
    BY DEF Inventory!Flush
  <1>3. w2 \in WorkRecord
    BY <1>1, <1>2 DEF WorkRecord
  <1>4. /\ w2.step = "metadata" /\ w2.seed = w.seed /\ w2.objects = w.objects /\ w2.seen = w.seen
        /\ w2.issues = w.issues /\ w2.hits = w.hits /\ w2.at = w.at /\ w2.batch = {}
        /\ w2.found = w.found
    BY <1>1, <1>2 DEF WorkRecord
  <1>5. CacheRight(v, w2.batch)
    BY <1>4 DEF CacheRight
  <1>6. WorkRight(v, st, w2)
    <2>1. w.at <= Len(w.objects) + 1 /\ FoundRight(v, w.objects, w.at - 1, w.found)
      BY <1>1 DEF WorkRight
    <2> QED
      BY <1>1, <1>3, <1>4, <1>5, <2>1, ReadingKeeps
  <1>7. inventoryBrowser' \subseteq inventoryBrowser \cup w.batch
    BY DEF Inventory!Flush, Inventory!Overwrite
  <1>8. CacheRight(v, inventoryBrowser')
    BY <1>1, <1>7 DEF CacheRight, InventoryInv, WorkRight
  <1> QED
    BY <1>1, <1>6, <1>8 DEF Inventory!Flush, Inventory!device, InventoryInv

\* What goes to the device of an inventory is what was found of its objects.
LEMMA PortableIsRight ==
  ASSUME NEW v, NEW st, WorkRight(v, st, inventoryOp),
         inventoryOp.at = Len(inventoryOp.objects) + 1
  PROVE  CacheRight(v, Inventory!Portable)
  <1> DEFINE w == inventoryOp
  <1>1. /\ w.objects \in Seq(Inventory!Listed) /\ ListRight(v, st, w.objects)
        /\ Len(w.objects) \in Nat /\ w.at - 1 = Len(w.objects)
        /\ FoundRight(v, w.objects, w.at - 1, w.found)
    BY DEF WorkRight, WorkRecord
  <1>2. ASSUME NEW x \in Inventory!Portable
        PROVE  x \in Inventory!Cached /\ Right(v, x.o, x.date, x.meta)
    <2>1. PICK r \in Inventory!ToSet(w.objects) :
            /\ \E f \in w.found : f.o = r.o /\ f.state = "known"
            /\ x = Inventory!Entry(r, (CHOOSE f \in w.found : f.o = r.o).meta)
      BY DEF Inventory!Portable
    <2>2. PICK i \in 1..Len(w.objects) : w.objects[i] = r
      BY <1>1 DEF Inventory!ToSet
    <2> DEFINE f == CHOOSE f \in w.found : f.o = r.o
    <2>3. f \in w.found /\ f.o = r.o /\ f.state = "known"
      <3>1. PICK g \in w.found : g.o = r.o /\ g.state = "known"
        BY <2>1
      <3>2. f \in w.found /\ f.o = r.o
        BY <3>1
      <3> HIDE DEF f
      <3> QED
        BY <1>1, <3>1, <3>2 DEF FoundRight
    <2> HIDE DEF f
    <2>4. PICK k \in 1..Len(w.objects) :
            w.objects[k].o = f.o /\ f.meta \in Nat /\ Right(v, f.o, w.objects[k].date, f.meta)
      BY <1>1, <2>3 DEF FoundRight
    <2>5. k = i
      BY <1>1, <2>2, <2>3, <2>4 DEF ListRight
    <2>6. r \in Inventory!Listed
      BY <1>1, <2>2
    <2>7. x = Inventory!Entry(r, f.meta)
      BY <2>1 DEF f
    <2> QED
      BY <2>2, <2>3, <2>4, <2>5, <2>6, <2>7 DEF Inventory!Entry, Inventory!Cached, Inventory!Listed
  <1> QED
    BY <1>2 DEF CacheRight

LEMMA FinishInventoryKeeps ==
  ASSUME InventoryInv, Inventory!Finish
  PROVE  InventoryInv'
  <1> DEFINE v == inventoryVer
             st == inventorySteady
             w == inventoryOp
             out == inventoryOutcome'
  <1>1. WorkRight(v, st, w) /\ w \in WorkRecord /\ w.step = "metadata" /\ w.at > Len(w.objects)
    BY DEF Inventory!Finish, Inventory!At, InventoryInv, WorkRight
  <1>2. w.at = Len(w.objects) + 1 /\ w.at - 1 = Len(w.objects)
    BY <1>1 DEF WorkRight, WorkRecord
  <1>3. /\ out.status = IF w.issues = 0 THEN "complete" ELSE "partial"
        /\ out.metadata = Inventory!Summary /\ out.objects = w.objects /\ out.found = w.found
        /\ inventoryOp' = Nobody
        /\ UNCHANGED <<inventoryPresent, inventoryVer, inventorySeed, inventoryBrowser,
                       inventorySteady>>
    BY DEF Inventory!Finish, Inventory!device
  <1>4. OutcomeRight(v, st, out)
    <2>1. ListRight(v, st, out.objects) /\ FoundRight(v, out.objects, Len(out.objects), out.found)
      BY <1>1, <1>2, <1>3 DEF WorkRight
    <2>2. out.status = "complete" => \A o \in st \cap Inventory!InScope : Lists(out.objects, o)
      BY <1>1, <1>3 DEF WorkRight, Remembers, Accounted
    <2>3. out.metadata = "complete" =>
            \A f \in out.found : /\ f.state \in {"managed", "known"}
                                 /\ f.state = "known" => f.o \notin Inventory!Vague
      BY <1>3 DEF Inventory!Summary
    <2> QED
      BY <2>1, <2>2, <2>3 DEF OutcomeRight
  <1>5. inventorySlots' = inventorySlots \/ inventorySlots' = <<Inventory!Portable, inventorySlots[1]>>
    BY DEF Inventory!Finish
  <1>6. CacheRight(v, Inventory!Portable)
    BY <1>1, <1>2, PortableIsRight
  <1>7. /\ inventorySlots' \in (SUBSET Inventory!Cached) \X (SUBSET Inventory!Cached)
        /\ CacheRight(v, inventorySlots'[1]) /\ CacheRight(v, inventorySlots'[2])
    BY <1>5, <1>6 DEF InventoryInv, CacheRight
  <1> QED
    BY <1>3, <1>4, <1>7 DEF InventoryInv

LEMMA InventoryStep ==
  ASSUME InventoryInv, Inventory!Next
  PROVE  InventoryInv'
  BY TouchKeeps, CaptureKeeps, ReconnectKeeps, StartKeeps, ListFolderKeeps, NextChildKeeps,
     FolderDoneKeeps, LookUpKeeps, NoReadNeededKeeps, FromCacheKeeps, SkippedKeeps, ReadBookKeeps,
     FlushKeeps, FinishInventoryKeeps, ThrowsKeeps DEF Inventory!Next

LEMMA InventoryStutter ==
  ASSUME InventoryInv, UNCHANGED inventoryVars
  PROVE  InventoryInv'
  BY DEF InventoryInv, inventoryVars

LEMMA InventoryIsRight ==
  ASSUME InventoryInv
  PROVE  Inventory!CompleteIsEverything /\ Inventory!KnownBooksAreKnown
  <1> DEFINE v == inventoryVer
             st == inventorySteady
             out == inventoryOutcome
             list == out.objects
  <1>1. SUFFICES ASSUME out # Nobody
                 PROVE  Inventory!CompleteIsEverything /\ Inventory!KnownBooksAreKnown
    BY DEF Inventory!CompleteIsEverything, Inventory!KnownBooksAreKnown
  <1>2. OutcomeRight(v, st, out) /\ v \in [Objects -> Nat] /\ st \subseteq Objects
    BY <1>1 DEF InventoryInv
  <1>3. ListRight(v, st, list) /\ list \in Seq(Inventory!Listed) /\ Len(list) \in Nat
    BY <1>2 DEF OutcomeRight, ListRight
  <1>4. FoundRight(v, list, Len(list), out.found)
    BY <1>2 DEF OutcomeRight
  <1>5. ASSUME out.status = "complete", NEW o \in st \cap Inventory!InScope
        PROVE  Inventory!Cardinality({k \in 1..Len(list) : list[k].o = o}) = 1
    <2>1. PICK i \in 1..Len(list) : list[i].o = o
      BY <1>2, <1>5 DEF OutcomeRight, Lists
    <2>2. {k \in 1..Len(list) : list[k].o = o} = {i}
      BY <1>3, <2>1 DEF ListRight
    <2>3. Cardinality({i}) = 1
      BY FS_Singleton
    <2> QED
      BY <2>2, <2>3 DEF Inventory!Cardinality, Cardinality
  <1>6. Inventory!CompleteIsEverything
    BY <1>3, <1>5 DEF Inventory!CompleteIsEverything, ListRight
  <1>7. ASSUME NEW f \in out.found, f.state = "known", f.o \in st
        PROVE  f.meta = v[f.o]
    <2>1. PICK k \in 1..Len(list) : list[k].o = f.o /\ Right(v, f.o, list[k].date, f.meta)
      BY <1>4, <1>7 DEF FoundRight
    <2> QED
      BY <1>3, <1>7, <2>1 DEF ListRight, Right
  <1>8. ASSUME out.metadata = "complete", NEW k \in 1..Len(list), list[k].o \in Inventory!Books
        PROVE  \E f \in out.found : /\ f.o = list[k].o /\ f.state \in {"managed", "known"}
                                    /\ f.o \notin Inventory!Vague
    <2>1. PICK f \in out.found : f.o = list[k].o
      BY <1>4, <1>8 DEF FoundRight
    <2> QED
      BY <1>2, <1>4, <1>8, <2>1, Tree DEF OutcomeRight, FoundRight
  <1>9. Inventory!KnownBooksAreKnown
    BY <1>7, <1>8 DEF Inventory!KnownBooksAreKnown
  <1> QED
    BY <1>6, <1>9

-----------------------------------------------------------------------------
(***************************************************************************)
(* The theorems.                                                           *)
(***************************************************************************)

\* A step of the composition is a step of one part and stutters in the others.
LEMMA StepOfAPart ==
  ASSUME [PartsNext]_allVars
  PROVE  /\ Kobo!Next \/ UNCHANGED koboVars
         /\ Authority!Next \/ UNCHANGED authorityVars
         /\ Inventory!Next \/ UNCHANGED inventoryVars
  BY DEF PartsNext, allVars

LEMMA KoboAlways == PartsSpec => []KoboInv
  <1>1. PartsInit => KoboInv
    BY KoboStart DEF PartsInit
  <1>2. KoboInv /\ [PartsNext]_allVars => KoboInv'
    BY KoboStep, KoboStutter, StepOfAPart DEF koboVars
  <1> QED
    BY <1>1, <1>2, PTL DEF PartsSpec

\* Whatever fails or dies on the way, a file that is not a whole book is named by
\* the recovery record until the user has inspected it, and no edition has two
\* whole copies (kobo/device.ts:342-344).
THEOREM KoboFilesStayKnown == PartsSpec => []KoboFilesAreKnown
  <1>1. KoboInv => KoboFilesAreKnown
    BY KoboFilesAreRight
  <1> QED
    BY <1>1, KoboAlways, PTL

\* A send reported as cancelled leaves no file of its own behind
\* (kobo/catalog-session.ts:240-241).
THEOREM CancelledMeansNothingLeft == PartsSpec => Kobo!CancelledLeavesNothing
  <1>1. KoboInv /\ [PartsNext]_allVars =>
          [\A t \in Tabs : koboTab[t].says # "cancelled" /\ koboTab'[t].says = "cancelled" =>
             koboTab[t].name \notin DOMAIN koboFiles']_(Kobo!vars)
    BY KoboStep, ToldIsRight, StepOfAPart DEF Kobo!vars, koboVars
  <1> QED
    BY <1>1, KoboAlways, PTL DEF PartsSpec, Kobo!CancelledLeavesNothing

LEMMA AuthorityAlways == PartsSpec => []AuthorityInv
  <1>1. PartsInit => AuthorityInv
    BY AuthorityStart DEF PartsInit
  <1>2. AuthorityInv /\ [PartsNext]_allVars => AuthorityInv'
    BY AuthorityStep, AuthorityStutter, StepOfAPart
  <1> QED
    BY <1>1, <1>2, PTL DEF PartsSpec

\* What the page shows as a complete, matched, live comparison names exactly the
\* files of the connected Kindle, and a comparison that authorizes writes is of
\* the connection's own inventory (controller.ts #reconcileCatalogInventory).
THEOREM LiveComparisonsStayTrue == PartsSpec => []LiveComparisonIsTrue
  <1>1. AuthorityInv => LiveComparisonIsTrue
    BY AuthorityIsRight
  <1> QED
    BY <1>1, AuthorityAlways, PTL

\* A Kindle file is deleted only as the owner confirmed it, however handles were
\* renumbered since (controller.ts removeCatalogBooks), and a Kobo send reported
\* as cancelled leaves no file behind (kobo/catalog-session.ts:240-241).
THEOREM DecisionsStayCarriedOut == PartsSpec => DecisionsAreCarriedOut
  <1>1. AuthorityInv /\ [PartsNext]_allVars =>
          [\A h \in KindleHandles :
             (authorityJob.pc # "idle" /\ authorityBudget'.touches = authorityBudget.touches
                   /\ authorityDevice'[h] # authorityDevice[h])
               => \E t \in authorityPage.pending :
                 t.book = authorityDevice[h].book /\ t.ed = authorityDevice[h].ed]_(Authority!vars)
    BY RemovalsAreConfirmed, StepOfAPart DEF Authority!vars, authorityVars
  <1>2. PartsSpec => Authority!OnlyConfirmedCopies
    BY <1>1, AuthorityAlways, PTL DEF PartsSpec, Authority!OnlyConfirmedCopies
  <1> QED
    BY <1>2, CancelledMeansNothingLeft DEF DecisionsAreCarriedOut

LEMMA InventoryAlways == PartsSpec => []InventoryInv
  <1>1. PartsInit => InventoryInv
    BY InventoryStart DEF PartsInit
  <1>2. InventoryInv /\ [PartsNext]_allVars => InventoryInv'
    BY InventoryStep, InventoryStutter, StepOfAPart
  <1> QED
    BY <1>1, <1>2, PTL DEF PartsSpec

\* A complete inventory names every object that stayed in its folder once, and
\* what it says a book is, by content or by a cache, is what the book is
\* (inventory.ts:1322 "A partial hierarchy result must never be interpreted as
\* proof that a book is absent").
THEOREM InventoriesStayTrue == PartsSpec => []InventoryIsTrue
  <1>1. InventoryInv => InventoryIsTrue
    BY InventoryIsRight DEF InventoryIsTrue
  <1> QED
    BY <1>1, InventoryAlways, PTL
===============================================================================
