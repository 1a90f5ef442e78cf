-------------------------- MODULE MCSettings_proofs ---------------------------
(***************************************************************************)
(* Theorems of the composition MCSettings about the libraries and their    *)
(* folders, the key of a provider, the covers users chose and the inbox of *)
(* issues, for any set of libraries, folders, services, browsers, books,   *)
(* pictures and requests, and any bound on changes, scans and faults.      *)
(***************************************************************************)
EXTENDS MCSettings, FiniteSetTheorems, TLAPS

-----------------------------------------------------------------------------
(***************************************************************************)
(* The key of the provider.                                                *)
(***************************************************************************)

RowRecord == [key : Provider!Secrets, revision : Nat, tested : Provider!Results,
              state : {"never-configured", "configured", "removed"}]
TestRecord == [id : 0..MaxRequests, key : Provider!Secrets, revision : Nat]
AskedFor == [id : 0..MaxRequests, kind : {"load", "save", "remove", "test"},
             key : Provider!Secrets, expected : Nat]
UiRecord == [load : {"idle", "loading", "ready", "error"}, editing : BOOLEAN,
             busy : BOOLEAN, known : Provider!Known \union {None}]
OpRecord == [id : 0..MaxRequests, kind : {"load", "save", "remove", "test"},
             answers : SUBSET (Provider!Known \union {None})]

\* What a browser knows of the row, or is about to learn, was so once.
Told(s) ==
  /\ s.revision <= providerRow.revision
  /\ s.revision = providerRow.revision => s.key = providerRow.key
  /\ s.tested = "working" => s.key \notin {"bad", None}

RowRight ==
  /\ providerRow.tested = "working" => providerRow.key \notin {"bad", None}
  /\ providerDecided => providerRow.key # "env" /\ providerRow.state # "never-configured"

TestsRight ==
  \A x \in providerTests :
    /\ x.revision <= providerRow.revision
    /\ x.revision = providerRow.revision => x.key = providerRow.key

WireRight ==
  \A m \in providerWire :
    /\ m.kind = "save" => m.key \in Provider!Entered
    /\ m.kind = "remove" => m.key = None

PagesTold == \A t \in Browsers : providerUi[t].known # None => Told(providerUi[t].known)

AnswersTold ==
  \A t \in Browsers : providerOp[t] # None =>
    \A s \in providerOp[t].answers \ {None} : Told(s)

ProvInv ==
  /\ Provider!TypeOK
  /\ RowRight /\ TestsRight /\ WireRight /\ PagesTold /\ AnswersTold

LEMMA ProvStart ==
  ASSUME Provider!Init
  PROVE  ProvInv
  <1>1. Provider!TypeOK
    BY NoneIsNoKey, ProviderBounds DEF Provider!Init, Provider!TypeOK, Provider!Known, Provider!Secrets,
       Provider!Results, Provider!Entered, Provider!Environment, Provider!State
  <1>2. TestsRight /\ WireRight /\ AnswersTold
    BY DEF Provider!Init, TestsRight, WireRight, AnswersTold
  <1>3. PICK key \in Provider!Entered \union {None} :
          /\ providerRow = IF key = None
               THEN [key |-> None, revision |-> 0, state |-> "never-configured", tested |-> None]
               ELSE [key |-> key, revision |-> 1, state |-> "configured", tested |-> None]
          /\ providerDecided = (key # None)
          /\ providerUi = [t \in Browsers |->
               [load |-> IF key = None THEN "idle" ELSE "ready", editing |-> FALSE, busy |-> FALSE,
                known |-> IF key = None THEN None ELSE Provider!State]]
    BY DEF Provider!Init
  <1>4. RowRight
    BY <1>3, NoneIsNoKey DEF RowRight, Provider!Entered
  <1>5. PagesTold
    <2> SUFFICES ASSUME NEW t \in Browsers, providerUi[t].known # None PROVE Told(providerUi[t].known)
      BY DEF PagesTold
    <2>1. providerUi[t].known = Provider!State /\ providerRow.revision \in Nat
          /\ providerRow.tested = None
      BY <1>3
    <2>2. Provider!State = [key |-> providerRow.key, revision |-> providerRow.revision, tested |-> None]
      BY <2>1 DEF Provider!State
    <2> QED
      BY <2>1, <2>2, NoneIsNoKey DEF Told
  <1> QED
    BY <1>1, <1>2, <1>4, <1>5 DEF ProvInv

LEMMA ProvStutter ==
  ASSUME ProvInv, UNCHANGED providerVars
  PROVE  ProvInv'
  BY DEF ProvInv, providerVars, Provider!TypeOK, RowRight, TestsRight, WireRight, PagesTold,
        AnswersTold, Told

\* What was true of the row stays true of it when the key is replaced.
LEMMA RowMoves ==
  ASSUME ProvInv, providerRow' \in RowRecord, providerRow'.revision = providerRow.revision + 1
  PROVE  /\ \A s \in Provider!Known : Told(s) => Told(s)'
         /\ providerTests' \subseteq providerTests => TestsRight'
  BY DEF ProvInv, Provider!TypeOK, Provider!Known, RowRecord, Told, TestsRight

\* The types of what a tab is left with.
LEMMA ProvTypes ==
  ASSUME Provider!TypeOK
  PROVE  /\ \A t \in Browsers : providerUi[t] \in UiRecord
         /\ \A t \in Browsers : providerOp[t] # None => providerOp[t] \in OpRecord
         /\ Provider!State \in Provider!Known /\ providerRow \in RowRecord
         /\ \A t \in Browsers : Provider!Answers(t) \ {None} \subseteq Provider!Known
  BY DEF Provider!TypeOK, UiRecord, OpRecord, Provider!State, Provider!Known, RowRecord, Provider!Answers

\* A request is sent: only what was asked for is new.
LEMMA AskIs ==
  ASSUME ProvInv, NEW t \in Browsers, NEW kind \in {"load", "save", "remove", "test"},
         NEW key \in Provider!Secrets, NEW revision \in Nat,
         Provider!Ask(t, kind, key, revision),
         kind = "save" => key \in Provider!Entered,
         kind = "remove" => key = None,
         providerUi' \in [Browsers -> UiRecord],
         \A u \in Browsers : providerUi'[u].known = providerUi[u].known
  PROVE  ProvInv'
  <1> DEFINE m == [id |-> providerRequests, kind |-> kind, key |-> key, expected |-> revision]
             o == [id |-> providerRequests, kind |-> kind, answers |-> {}]
  <1>1. /\ providerRequests \in 0..MaxRequests /\ providerRequests + 1 \in 0..MaxRequests
        /\ providerRequests' = providerRequests + 1
    BY ProviderBounds DEF Provider!Ask, ProvInv, Provider!TypeOK
  <1>2. m \in AskedFor /\ o \in OpRecord
    BY <1>1 DEF AskedFor, OpRecord
  <1>3. /\ providerWire' = providerWire \union {m}
        /\ providerOp' = [providerOp EXCEPT ![t] = o]
        /\ UNCHANGED <<providerRow, providerReplays, providerTests, providerDecided, providerStarts,
              providerFaults>>
    BY DEF Provider!Ask, Provider!server
  <1>4. Provider!TypeOK'
    BY <1>1, <1>2, <1>3 DEF ProvInv, Provider!TypeOK, AskedFor, OpRecord, UiRecord
  <1>5. RowRight' /\ TestsRight'
    BY <1>3 DEF ProvInv, RowRight, TestsRight
  <1>6. WireRight'
    BY <1>3 DEF ProvInv, WireRight
  <1>7. PagesTold'
    BY <1>3 DEF ProvInv, PagesTold, Told
  <1>8. AnswersTold'
    <2> SUFFICES ASSUME NEW u \in Browsers, providerOp'[u] # None,
          NEW s \in providerOp'[u].answers \ {None}
                 PROVE  Told(s)'
      BY DEF AnswersTold
    <2>1. u # t
      BY <1>3 DEF ProvInv, Provider!TypeOK
    <2> QED
      BY <1>3, <2>1 DEF ProvInv, AnswersTold, Told, Provider!TypeOK
  <1> QED
    BY <1>4, <1>5, <1>6, <1>7, <1>8 DEF ProvInv

LEMMA ProvAsks ==
  ASSUME ProvInv, NEW t \in Browsers,
         \/ \E force \in BOOLEAN : Provider!Load(t, force)
         \/ \E key \in Provider!Entered : Provider!Save(t, key)
         \/ Provider!Remove(t)
         \/ Provider!TestWhatWasSaved(t)
  PROVE  ProvInv'
  <1>1. providerUi[t] \in UiRecord /\ providerUi \in [Browsers -> UiRecord]
    BY DEF ProvInv, Provider!TypeOK, UiRecord
  <1>2. Provider!KnownRevision(t) \in Nat /\ None \in Provider!Secrets
        /\ Provider!Entered \subseteq Provider!Secrets
    BY <1>1 DEF Provider!KnownRevision, UiRecord, Provider!Known, Provider!Secrets
  <1>3. ASSUME NEW force \in BOOLEAN, Provider!Load(t, force) PROVE ProvInv'
    <2>1. /\ providerUi' \in [Browsers -> UiRecord]
          /\ \A u \in Browsers : providerUi'[u].known = providerUi[u].known
      BY <1>1, <1>3 DEF Provider!Load, UiRecord
    <2> QED
      BY <1>2, <1>3, <2>1, AskIs DEF Provider!Load
  <1>4. ASSUME NEW key \in Provider!Entered, Provider!Save(t, key) PROVE ProvInv'
    <2>1. /\ providerUi' \in [Browsers -> UiRecord]
          /\ \A u \in Browsers : providerUi'[u].known = providerUi[u].known
      BY <1>1, <1>4 DEF Provider!Save, UiRecord
    <2> QED
      BY <1>2, <1>4, <2>1, AskIs DEF Provider!Save
  <1>5. ASSUME Provider!Remove(t) PROVE ProvInv'
    <2>1. /\ providerUi' \in [Browsers -> UiRecord]
          /\ \A u \in Browsers : providerUi'[u].known = providerUi[u].known
      BY <1>1, <1>5 DEF Provider!Remove, UiRecord
    <2> QED
      BY <1>2, <1>5, <2>1, AskIs DEF Provider!Remove
  <1>6. ASSUME Provider!TestWhatWasSaved(t) PROVE ProvInv'
    <2>1. PICK s \in Provider!Answers(t) \ {None} : Provider!Ask(t, "test", None, s.revision)
          /\ UNCHANGED providerUi
      BY <1>6 DEF Provider!TestWhatWasSaved
    <2>2. s.revision \in Nat
      BY ProvTypes DEF ProvInv, Provider!Known
    <2> QED
      BY <1>1, <1>2, <2>1, <2>2, AskIs
  <1> QED
    BY <1>3, <1>4, <1>5, <1>6

LEMMA ProvEdit ==
  ASSUME ProvInv, NEW t \in Browsers, Provider!Edit(t)
  PROVE  ProvInv'
  <1>1. providerUi \in [Browsers -> UiRecord]
    BY DEF ProvInv, Provider!TypeOK, UiRecord
  <1>2. providerUi' \in [Browsers -> UiRecord]
        /\ \A u \in Browsers : providerUi'[u].known = providerUi[u].known
    BY <1>1 DEF Provider!Edit, UiRecord
  <1> QED
    BY <1>2 DEF Provider!Edit, Provider!server, ProvInv, Provider!TypeOK, UiRecord, RowRight, TestsRight,
       WireRight, PagesTold, AnswersTold, Told

LEMMA ProvLearn ==
  ASSUME ProvInv, NEW t \in Browsers, Provider!Learn(t)
  PROVE  ProvInv'
  <1>1. PICK s \in Provider!Answers(t) \ {None} :
          providerUi' = [providerUi EXCEPT ![t] =
             [load |-> "ready", busy |-> FALSE, known |-> s,
              editing |-> providerOp[t].kind = "test" /\ s.tested # "working"]]
    BY DEF Provider!Learn
  <1>2. s \in Provider!Known /\ Told(s)
    BY ProvTypes DEF ProvInv, AnswersTold, Provider!Answers
  <1>3. providerOp' = [providerOp EXCEPT ![t] = None]
        /\ UNCHANGED <<providerRow, providerReplays, providerTests, providerDecided, providerStarts,
              providerFaults,
                       providerWire, providerRequests>>
    BY DEF Provider!Learn, Provider!server
  <1>4. [load |-> "ready", busy |-> FALSE, known |-> s,
              editing |-> providerOp[t].kind = "test" /\ s.tested # "working"] \in UiRecord
    BY <1>2 DEF UiRecord
  <1>5. Provider!TypeOK'
    BY <1>1, <1>3, <1>4 DEF ProvInv, Provider!TypeOK, UiRecord
  <1>6. PagesTold' 
    BY <1>1, <1>2, <1>3 DEF ProvInv, Provider!TypeOK, PagesTold, Told
  <1>7. AnswersTold'
    BY <1>3 DEF ProvInv, Provider!TypeOK, AnswersTold, Told
  <1> QED
    BY <1>3, <1>5, <1>6, <1>7 DEF ProvInv, RowRight, TestsRight, WireRight

LEMMA ProvFails ==
  ASSUME ProvInv, NEW t \in Browsers, Provider!Fails(t)
  PROVE  ProvInv'
  <1>1. providerUi \in [Browsers -> UiRecord] /\ providerOp[t] \in OpRecord
    BY DEF ProvInv, Provider!TypeOK, UiRecord, OpRecord, Provider!Fails
  <1>2. providerUi' \in [Browsers -> UiRecord]
        /\ \A u \in Browsers : providerUi'[u].known = providerUi[u].known
    <2>1. PICK load \in {"idle", "loading", "ready", "error"}, editing \in BOOLEAN :
            providerUi' = [providerUi EXCEPT ![t].busy = FALSE, ![t].load = load, ![t].editing = editing]
      <3>1. CASE providerOp[t].kind = "load"
        BY <1>1, <3>1 DEF Provider!Fails, UiRecord
      <3>2. CASE providerOp[t].kind = "remove"
        BY <1>1, <3>2 DEF Provider!Fails, UiRecord
      <3>3. CASE providerOp[t].kind \notin {"load", "remove"}
        BY <1>1, <3>3 DEF Provider!Fails, UiRecord
      <3> QED
        BY <3>1, <3>2, <3>3
    <2>2. ASSUME NEW u \in Browsers
          PROVE  providerUi'[u] \in UiRecord /\ providerUi'[u].known = providerUi[u].known
      <3>1. CASE u # t
        BY <1>1, <2>1, <3>1
      <3>2. CASE u = t
        <4> DEFINE old == providerUi[t]
                   new == [old EXCEPT !.busy = FALSE, !.load = load, !.editing = editing]
        <4>1. old \in UiRecord
          BY <1>1
        <4>2. providerUi'[t] = new
          BY <1>1, <2>1
        <4> HIDE DEF old
        <4>3. new \in UiRecord /\ new.known = old.known
          BY <4>1 DEF UiRecord
        <4> QED
          BY <3>2, <4>2, <4>3 DEF old
      <3> QED
        BY <3>1, <3>2
    <2> QED
      BY <1>1, <2>1, <2>2
  <1>3. providerOp' = [providerOp EXCEPT ![t] = None]
        /\ UNCHANGED <<providerRow, providerReplays, providerTests, providerDecided, providerStarts,
                       providerWire, providerRequests>>
    BY DEF Provider!Fails, Provider!server
  <1>4. providerFaults' \in 0..MaxProviderFaults
    BY ProviderBounds DEF Provider!Fails, Provider!Fault, ProvInv, Provider!TypeOK
  <1>5. Provider!TypeOK'
    BY <1>2, <1>3, <1>4 DEF ProvInv, Provider!TypeOK, UiRecord
  <1>6. AnswersTold'
    BY <1>3 DEF ProvInv, Provider!TypeOK, AnswersTold, Told
  <1> QED
    BY <1>2, <1>3, <1>5, <1>6 DEF ProvInv, RowRight, TestsRight, WireRight, PagesTold, Told

\* A request is answered with the row as it is now, or with an error.
LEMMA AnswerIs ==
  ASSUME ProvInv, NEW id, NEW s \in (Provider!Known \union {None}), Provider!Answer(id, s),
         s # None => Told(s)',
         \A r \in Provider!Known : Told(r) => Told(r)'
  PROVE  /\ providerOp' \in [Browsers -> OpRecord \union {None}]
         /\ AnswersTold'
  <1>1. ASSUME NEW t \in Browsers
        PROVE  \/ providerOp'[t] = providerOp[t]
               \/ providerOp[t] # None /\ providerOp'[t] = [providerOp[t] EXCEPT !.answers = {s}]
    BY DEF Provider!Answer
  <1>2. \A t \in Browsers : providerOp[t] # None => providerOp[t] \in OpRecord
    BY ProvTypes DEF ProvInv
  <1>3. ASSUME NEW t \in Browsers, providerOp[t] # None
        PROVE  [providerOp[t] EXCEPT !.answers = {s}] \in OpRecord
    BY <1>2, <1>3 DEF OpRecord
  <1>4. providerOp' \in [Browsers -> OpRecord \union {None}]
    <2>1. \A t \in Browsers : providerOp'[t] \in OpRecord \union {None}
      BY <1>1, <1>2, <1>3
    <2>2. providerOp' = [t \in Browsers |-> providerOp'[t]]
      BY DEF Provider!Answer
    <2> QED
      BY <2>1, <2>2
  <1>5. ASSUME NEW t \in Browsers, providerOp'[t] # None, NEW r \in providerOp'[t].answers \ {None}
        PROVE  Told(r)'
    <2>1. CASE providerOp'[t] = providerOp[t]
      <3>1. r \in Provider!Known /\ Told(r)
        BY <1>2, <1>5, <2>1 DEF ProvInv, AnswersTold, OpRecord
      <3> QED
        BY <3>1
    <2>2. CASE providerOp[t] # None /\ providerOp'[t] = [providerOp[t] EXCEPT !.answers = {s}]
      <3>1. r = s /\ s # None
        BY <1>2, <1>5, <2>2 DEF OpRecord
      <3> QED
        BY <3>1
    <2> QED
      BY <1>1, <2>1, <2>2
  <1> QED
    BY <1>4, <1>5 DEF AnswersTold

\* The service answers without a change.
LEMMA ProvAnswers ==
  ASSUME ProvInv, NEW m \in providerWire,
         Provider!HandleLoad(m) \/ Provider!Replay(m) \/ Provider!Refuse(m)
  PROVE  ProvInv'
  <1>1. PICK s \in {Provider!State, None} : Provider!Reply(m, s)
    BY DEF Provider!HandleLoad, Provider!Replay, Provider!Refuse
  <1>2. UNCHANGED <<providerRow, providerReplays, providerTests, providerDecided, providerStarts,
                    providerUi, providerRequests>>
    BY DEF Provider!HandleLoad, Provider!Replay, Provider!Refuse, Provider!Reply, Provider!server
  <1>3. s \in Provider!Known \union {None} /\ (s # None => Told(s)')
    BY <1>1, <1>2, ProvTypes DEF ProvInv, Provider!State, Told, RowRight, RowRecord, Provider!TypeOK
  <1>4. \A r \in Provider!Known : Told(r) => Told(r)'
    BY <1>2 DEF Told
  <1>5. providerOp' \in [Browsers -> OpRecord \union {None}] /\ AnswersTold'
    BY <1>1, <1>3, <1>4, AnswerIs DEF Provider!Reply
  <1>6. providerWire' \subseteq providerWire /\ providerFaults' \in 0..MaxProviderFaults
    BY <1>1, ProviderBounds DEF Provider!Reply, Provider!Fault, ProvInv, Provider!TypeOK
  <1>7. Provider!TypeOK'
    BY <1>2, <1>5, <1>6 DEF ProvInv, Provider!TypeOK, OpRecord
  <1> QED
    BY <1>2, <1>5, <1>6, <1>7 DEF ProvInv, RowRight, TestsRight, WireRight, PagesTold, Told

LEMMA ProvMutate ==
  ASSUME ProvInv, NEW m \in providerWire, Provider!Mutate(m)
  PROVE  ProvInv'
  <1>1. /\ providerRow' = [key |-> m.key, revision |-> providerRow.revision + 1,
                           state |-> IF m.kind = "save" THEN "configured" ELSE "removed",
                                 tested |-> None]
        /\ m.kind \in {"save", "remove"} /\ providerDecided' = TRUE
        /\ UNCHANGED <<providerTests, providerStarts, providerUi, providerRequests>>
        /\ providerReplays' = providerReplays \union {[id |-> m.id, revision |-> providerRow'.revision]}
        /\ Provider!Answer(m.id, Provider!State')
        /\ providerWire' \subseteq providerWire
    BY DEF Provider!Mutate, Provider!Changed, Provider!Reply
  <1>2. m \in AskedFor /\ providerRow \in RowRecord
    BY DEF ProvInv, Provider!TypeOK, AskedFor, RowRecord
  <1>3. providerRow' \in RowRecord /\ providerRow'.revision = providerRow.revision + 1
    BY <1>1, <1>2 DEF AskedFor, RowRecord, Provider!Results
  <1>4. (\A s \in Provider!Known : Told(s) => Told(s)') /\ TestsRight'
    BY <1>1, <1>3, RowMoves
  <1>5. RowRight'
    BY <1>1, NoneIsNoKey DEF ProvInv, WireRight, RowRight, Provider!Entered
  <1>6. PICK s \in Provider!Known : s = Provider!State'
    BY <1>3 DEF Provider!State, Provider!Known, RowRecord
  <1>12. Told(s)'
    BY <1>3, <1>5, <1>6 DEF Provider!State, RowRecord, Told, RowRight
  <1>7. providerOp' \in [Browsers -> OpRecord \union {None}] /\ AnswersTold'
    BY <1>1, <1>4, <1>6, <1>12, AnswerIs
  <1>8. providerFaults' \in 0..MaxProviderFaults
    BY ProviderBounds DEF Provider!Mutate, Provider!Reply, Provider!Fault, ProvInv, Provider!TypeOK
  <1>9. providerReplays' \subseteq [id : 0..MaxRequests, revision : Nat]
    BY <1>1, <1>2, <1>3 DEF ProvInv, Provider!TypeOK, AskedFor, RowRecord
  <1>10. Provider!TypeOK'
    BY <1>1, <1>3, <1>7, <1>8, <1>9 DEF ProvInv, Provider!TypeOK, OpRecord, RowRecord
  <1>11. PagesTold'
    BY <1>1, <1>4, ProvTypes DEF ProvInv, PagesTold, UiRecord
  <1> QED
    BY <1>1, <1>4, <1>5, <1>7, <1>10, <1>11 DEF ProvInv, WireRight

LEMMA ProvTestBegins ==
  ASSUME ProvInv, NEW m \in providerWire, Provider!TestBegins(m)
  PROVE  ProvInv'
  <1>1. /\ providerTests' = providerTests \union
             {[id |-> m.id, key |-> providerRow.key, revision |-> providerRow.revision]}
        /\ providerWire' = providerWire \ {m}
        /\ UNCHANGED <<providerRow, providerReplays, providerDecided, providerStarts, providerUi,
              providerOp,
                       providerRequests, providerFaults>>
    BY DEF Provider!TestBegins
  <1>2. m \in AskedFor /\ providerRow \in RowRecord
    BY DEF ProvInv, Provider!TypeOK, AskedFor, RowRecord
  <1>3. Provider!TypeOK'
    BY <1>1, <1>2 DEF ProvInv, Provider!TypeOK, AskedFor, RowRecord
  <1>4. TestsRight'
    BY <1>1, <1>2 DEF ProvInv, TestsRight, RowRecord
  <1> QED
    BY <1>1, <1>3, <1>4 DEF ProvInv, RowRight, WireRight, PagesTold, AnswersTold, Told

\* A result that comes late is of a key that was replaced, and is not kept.
LEMMA ProvTestEnds ==
  ASSUME ProvInv, NEW x \in providerTests, Provider!TestEnds(x)
  PROVE  ProvInv'
  <1>1. PICK result \in {"working", "error"} :
          /\ result = "working" => x.key # "bad"
          /\ IF Provider!OfThisKey(x)
               THEN providerRow' = [providerRow EXCEPT !.tested = result] /\ Provider!Answer(x.id,
                     Provider!State')
               ELSE UNCHANGED providerRow /\ Provider!Answer(x.id, None)
    BY DEF Provider!TestEnds
  <1>2. /\ providerTests' = providerTests \ {x}
        /\ UNCHANGED <<providerReplays, providerDecided, providerStarts, providerWire, providerUi,
                       providerRequests, providerFaults>>
    BY DEF Provider!TestEnds
  <1>3. x \in TestRecord /\ providerRow \in RowRecord
    BY DEF ProvInv, Provider!TypeOK, TestRecord, RowRecord
  <1>4. /\ providerRow' \in RowRecord
        /\ providerRow'.revision = providerRow.revision /\ providerRow'.key = providerRow.key
        /\ providerRow'.state = providerRow.state
        /\ providerRow'.tested = "working" => providerRow'.key \notin {"bad", None}
    <2>1. CASE Provider!OfThisKey(x)
      BY <1>1, <1>3, <2>1 DEF Provider!OfThisKey, RowRecord, Provider!Results, ProvInv, TestsRight
    <2>2. CASE ~Provider!OfThisKey(x)
      BY <1>1, <1>3, <2>2 DEF RowRecord, ProvInv, RowRight
    <2> QED
      BY <2>1, <2>2
  <1>5. RowRight'
    BY <1>2, <1>4 DEF ProvInv, RowRight
  <1>6. \A r \in Provider!Known : Told(r) => Told(r)'
    BY <1>4 DEF Told
  <1>7. PICK s \in Provider!Known : s = Provider!State'
    BY <1>4 DEF Provider!State, Provider!Known, RowRecord
  <1>11. Told(s)'
    BY <1>4, <1>7 DEF Provider!State, RowRecord, Told
  <1>8. providerOp' \in [Browsers -> OpRecord \union {None}] /\ AnswersTold'
    BY <1>1, <1>6, <1>7, <1>11, AnswerIs
  <1>9. Provider!TypeOK'
    BY <1>2, <1>4, <1>8 DEF ProvInv, Provider!TypeOK, OpRecord, RowRecord
  <1>10. PagesTold'
    BY <1>2, <1>6, ProvTypes DEF ProvInv, PagesTold, UiRecord
  <1> QED
    BY <1>2, <1>4, <1>5, <1>8, <1>9, <1>10 DEF ProvInv, TestsRight, WireRight

LEMMA ProvLose ==
  ASSUME ProvInv,
         \/ \E x \in providerTests : Provider!TestAborts(x)
         \/ \E m \in providerWire : Provider!Lose(m)
  PROVE  ProvInv'
  <1>1. /\ providerTests' \subseteq providerTests /\ providerWire' \subseteq providerWire
        /\ UNCHANGED <<providerRow, providerReplays, providerDecided, providerStarts, providerUi,
              providerOp,
                       providerRequests>>
        /\ Provider!Fault
    BY DEF Provider!TestAborts, Provider!Lose, Provider!server
  <1>2. providerFaults' \in 0..MaxProviderFaults
    BY <1>1, ProviderBounds DEF Provider!Fault, ProvInv, Provider!TypeOK
  <1>3. Provider!TypeOK'
    BY <1>1, <1>2 DEF ProvInv, Provider!TypeOK
  <1> QED
    BY <1>1, <1>3 DEF ProvInv, RowRight, TestsRight, WireRight, PagesTold, AnswersTold, Told

\* The key of the environment comes only where no key ever was.
LEMMA ProvRestart ==
  ASSUME ProvInv, NEW legacy \in BOOLEAN, Provider!Start(legacy)
  PROVE  ProvInv'
  <1>1. /\ providerRow' = IF legacy /\ Provider!NeverConfigured
             THEN [key |-> "env", revision |-> 1, state |-> "configured",
                   tested |-> None] ELSE providerRow
        /\ providerTests' = {} /\ providerWire' = {}
        /\ UNCHANGED <<providerReplays, providerDecided, providerUi, providerOp, providerRequests,
              providerFaults>>
    BY DEF Provider!Start, Provider!Environment
  <1>2. providerStarts' \in 0..MaxStarts
    BY ProviderBounds DEF Provider!Start, ProvInv, Provider!TypeOK
  <1>3. providerRow' \in RowRecord /\ (providerRow' # providerRow =>
        providerRow'.revision = providerRow.revision + 1)
    BY <1>1 DEF ProvInv, Provider!TypeOK, RowRecord, Provider!NeverConfigured, Provider!Secrets,
          Provider!Results,
       Provider!Environment
  <1>4. \A r \in Provider!Known : Told(r) => Told(r)'
    <2>1. CASE providerRow' = providerRow
      BY <2>1 DEF Told
    <2>2. CASE providerRow' # providerRow
      BY <1>3, <2>2, RowMoves
    <2> QED
      BY <2>1, <2>2
  <1>5. RowRight'
    BY <1>1, NoneIsNoKey DEF ProvInv, RowRight, Provider!NeverConfigured
  <1>6. Provider!TypeOK'
    BY <1>1, <1>2, <1>3 DEF ProvInv, Provider!TypeOK, RowRecord
  <1>7. PagesTold'
    BY <1>1, <1>4, ProvTypes DEF ProvInv, PagesTold, UiRecord
  <1>8. AnswersTold'
    BY <1>1, <1>4, ProvTypes DEF ProvInv, AnswersTold, OpRecord
  <1> QED
    BY <1>1, <1>5, <1>6, <1>7, <1>8 DEF ProvInv, TestsRight, WireRight

LEMMA ProvStep ==
  ASSUME ProvInv, Provider!Next
  PROVE  ProvInv'
  BY ProvAsks, ProvEdit, ProvLearn, ProvFails, ProvAnswers, ProvMutate, ProvTestBegins, ProvTestEnds,
        ProvLose,
     ProvRestart DEF Provider!Next

LEMMA CredentialsAreRight ==
  ASSUME ProvInv
  PROVE  Provider!TestedMeansAccepted /\ Provider!RemovedStaysRemoved
  BY DEF ProvInv, RowRight, PagesTold, Told, Provider!TestedMeansAccepted, Provider!RemovedStaysRemoved,
     Provider!Environment

-----------------------------------------------------------------------------
(***************************************************************************)
(* The covers users chose.                                                 *)
(***************************************************************************)

OverRecord == [there : BOOLEAN, cover : Pictures \cup {None}, version : Nat]
WorkRecord == [step : Covers!Steps, book : CoverBooks \cup {None}, key : Pictures \cup {None},
               version : Nat, left : SUBSET Pictures]

Stores(w, k) == w.key = k /\ w.step \in {"writing", "stored"}
Unlinks(w, k) == w.key = k /\ w.step \in {"retiring", "discarding", "removing"}

\* Request w is about to unlink k, or to look whether it has to.
Accounts(w, k) ==
  \/ w.key = k /\ w.step \in {"stored", "retiring", "discarding", "removing"}
  \/ k \in w.left /\ w.step \in {"listing", "sweeping", "removing"}

Named == Covers!Referenced(coversOver)

CoverTyped ==
  /\ coversFiles \subseteq Pictures /\ coversRows \subseteq Pictures /\ coversRaced \subseteq Pictures
  /\ coversOver \in [CoverBooks -> OverRecord]
  /\ coversRequest \in [Uploads -> WorkRecord]
  /\ coversLeaked \in BOOLEAN

WorkRight(w) ==
  w.step \in {"looking", "writing", "stored", "reading"} => w.key \in Pictures /\ w.book \in CoverBooks

\* Whoever is about to unlink a picture saw that no book names it; only a store
\* that overlaps with the unlink can change that.
CoverInv ==
  /\ CoverTyped
  /\ \A r \in Uploads : WorkRight(coversRequest[r])
  /\ \A q, r \in Uploads, k \in Pictures :
       Stores(coversRequest[q], k) /\ Unlinks(coversRequest[r], k) => k \in coversRaced
  /\ Named \subseteq coversRows
  /\ \A k \in Named : k \notin coversRaced => k \in coversFiles
  /\ \A r \in Uploads, k \in Pictures :
       Unlinks(coversRequest[r], k) /\ k \notin coversRaced => k \notin Named
  /\ \A r \in Uploads :
       coversRequest[r].step = "stored" /\ coversRequest[r].key \notin coversRaced
         => coversRequest[r].key \in coversFiles
  /\ coversLeaked = FALSE =>
       \A k \in coversFiles \ Named : \E r \in Uploads : Accounts(coversRequest[r], k)
  /\ \A r \in Uploads : coversRequest[r].step = "missing" => coversRequest[r].key \in coversRaced

LEMMA IdleIs == /\ Covers!Idle \in WorkRecord /\ Covers!Idle.step = "idle" /\ WorkRight(Covers!Idle)
                /\ \A k : ~Unlinks(Covers!Idle, k) /\ ~Accounts(Covers!Idle, k)
  BY DEF Covers!Idle, WorkRecord, Covers!Steps, WorkRight, Unlinks, Accounts

LEMMA CoverStart ==
  ASSUME Covers!Init
  PROVE  CoverInv
  <1>1. coversOver \in [CoverBooks -> OverRecord] /\ Named \subseteq Pictures
    BY DEF Covers!Init, Covers!Overrides, Covers!Versions, OverRecord, Named, Covers!Referenced
  <1>2. coversRequest = [r \in Uploads |-> Covers!Idle] /\ coversFiles = Named /\ coversRows = Named
        /\ coversRaced = {} /\ coversLeaked = FALSE
    BY DEF Covers!Init, Named
  <1>3. CoverTyped
    BY <1>1, <1>2, IdleIs DEF CoverTyped
  <1> QED
    BY <1>1, <1>2, <1>3, IdleIs DEF CoverInv

LEMMA CoverStutter ==
  ASSUME CoverInv, UNCHANGED coversVars
  PROVE  CoverInv'
  BY DEF CoverInv, coversVars, CoverTyped, Named, WorkRight, Stores, Unlinks, Accounts, Covers!Referenced

LEMMA GoesIs ==
  ASSUME CoverTyped, NEW r \in Uploads, NEW w \in WorkRecord, Covers!Goes(r, w)
  PROVE  /\ coversRequest' \in [Uploads -> WorkRecord]
         /\ coversRequest'[r] = w /\ \A q \in Uploads \ {r} : coversRequest'[q] = coversRequest[q]
         /\ coversRaced \subseteq coversRaced' /\ coversRaced' \subseteq Pictures
         /\ \A p, q \in Uploads, k \in Pictures :
              Stores(coversRequest'[p], k) /\ Unlinks(coversRequest'[q], k) => k \in coversRaced'
  <1>1. /\ coversRequest' = [coversRequest EXCEPT ![r] = w]
        /\ coversRaced' = coversRaced \cup
             {k \in Pictures : Covers!Storing(coversRequest', k) /\ Covers!Unlinking(coversRequest', k)}
    BY DEF Covers!Goes
  <1>2. \A p, q \in Uploads, k \in Pictures :
          Stores(coversRequest'[p], k) /\ Unlinks(coversRequest'[q], k)
            => Covers!Storing(coversRequest', k) /\ Covers!Unlinking(coversRequest', k)
    BY DEF Stores, Unlinks, Covers!Storing, Covers!Unlinking
  <1> QED
    BY <1>1, <1>2 DEF CoverTyped

\* A step of request r that leaves it as w.
LEMMA CoverGoes ==
  ASSUME CoverInv, NEW r \in Uploads, NEW w \in WorkRecord, Covers!Goes(r, w), WorkRight(w),
         coversOver' \in [CoverBooks -> OverRecord], coversFiles' \subseteq Pictures,
         coversRows' \subseteq Pictures, coversLeaked' \in BOOLEAN,
         Named' \subseteq coversRows',
         \A k \in Named' \ Named : coversRequest[r].step = "stored" /\ coversRequest[r].key = k,
         \A k \in coversFiles \ coversFiles' : Unlinks(coversRequest[r], k),
         \A k \in Pictures : Unlinks(w, k) => k \notin Named',
         w.step = "stored" => w.key \in coversFiles',
         w.step = "missing" => w.key \in coversRaced,
         coversLeaked' = FALSE => coversLeaked = FALSE,
         coversLeaked' = FALSE => \A k \in coversFiles' \ Named' :
           Accounts(w, k) \/ (k \in coversFiles \ Named /\ ~Accounts(coversRequest[r], k))
  PROVE  CoverInv'
  <1>1. /\ coversRequest' \in [Uploads -> WorkRecord]
        /\ coversRequest'[r] = w /\ \A q \in Uploads \ {r} : coversRequest'[q] = coversRequest[q]
        /\ coversRaced \subseteq coversRaced' /\ coversRaced' \subseteq Pictures
        /\ \A p, q \in Uploads, k \in Pictures :
             Stores(coversRequest'[p], k) /\ Unlinks(coversRequest'[q], k) => k \in coversRaced'
    BY GoesIs DEF CoverInv
  <1>2. CoverTyped'
    BY <1>1 DEF CoverTyped
  <1>3. \A q \in Uploads : WorkRight(coversRequest'[q])
    BY <1>1 DEF CoverInv
  <1>4. Named \subseteq Pictures /\ Named' \subseteq Pictures
    BY DEF CoverInv, CoverTyped
  <1>5. ASSUME NEW k \in Named', k \notin coversRaced' PROVE k \in coversFiles'
    <2>1. k \in coversFiles
      BY <1>1, <1>5 DEF CoverInv
    <2>2. ~Unlinks(coversRequest[r], k)
      <3>1. CASE k \in Named
        BY <1>1, <1>4, <1>5, <3>1 DEF CoverInv
      <3>2. CASE k \notin Named
        BY <1>5, <3>2 DEF Unlinks
      <3> QED
        BY <3>1, <3>2
    <2> QED
      BY <2>1, <2>2
  <1>6. ASSUME NEW q \in Uploads, NEW k \in Pictures, Unlinks(coversRequest'[q], k),
        k \notin coversRaced'
        PROVE  k \notin Named'
    <2>1. CASE q = r
      BY <1>1, <1>6, <2>1
    <2>2. CASE q # r
      <3>1. Unlinks(coversRequest[q], k) /\ k \notin coversRaced
        BY <1>1, <1>6, <2>2
      <3>2. k \notin Named /\ ~Stores(coversRequest[r], k)
        BY <3>1 DEF CoverInv
      <3> QED
        BY <3>2 DEF Stores
    <2> QED
      BY <2>1, <2>2
  <1>7. ASSUME NEW q \in Uploads, coversRequest'[q].step = "stored",
        coversRequest'[q].key \notin coversRaced'
        PROVE  coversRequest'[q].key \in coversFiles'
    <2>1. CASE q = r
      BY <1>1, <1>7, <2>1
    <2>2. CASE q # r
      <3> DEFINE k == coversRequest[q].key
      <3>1. coversRequest[q].step = "stored" /\ k \notin coversRaced /\ coversRequest'[q].key = k
        BY <1>1, <1>7, <2>2
      <3>2. k \in coversFiles /\ k \in Pictures
        BY <3>1 DEF CoverInv, CoverTyped
      <3>3. ~Unlinks(coversRequest[r], k)
        BY <3>1, <3>2 DEF CoverInv, Stores
      <3> QED
        BY <3>1, <3>2, <3>3
    <2> QED
      BY <2>1, <2>2
  <1>8. ASSUME coversLeaked' = FALSE, NEW k \in coversFiles' \ Named'
        PROVE  \E q \in Uploads : Accounts(coversRequest'[q], k)
    <2>1. CASE Accounts(w, k)
      BY <1>1, <2>1
    <2>2. CASE k \in coversFiles \ Named /\ ~Accounts(coversRequest[r], k)
      <3>1. PICK q \in Uploads : Accounts(coversRequest[q], k)
        BY <1>8, <2>2 DEF CoverInv
      <3> QED
        BY <1>1, <2>2, <3>1
    <2> QED
      BY <1>8, <2>1, <2>2
  <1>9. \A q \in Uploads : coversRequest'[q].step = "missing" => coversRequest'[q].key \in coversRaced'
    BY <1>1 DEF CoverInv
  <1> HIDE DEF CoverTyped, Named
  <1> QED
    BY <1>1, <1>2, <1>3, <1>5, <1>6, <1>7, <1>8, <1>9 DEF CoverInv

\* A step that changes nothing but what request r is doing.
LEMMA CoverMoves ==
  ASSUME CoverInv, NEW r \in Uploads, NEW w \in WorkRecord, Covers!Goes(r, w), WorkRight(w),
         UNCHANGED <<coversFiles, coversRows, coversOver, coversLeaked>>,
         \A k \in Pictures : Unlinks(w, k) => k \notin Named,
         w.step = "stored" => w.key \in coversFiles,
         w.step = "missing" => w.key \in coversRaced,
         \A k \in coversFiles \ Named : Accounts(coversRequest[r], k) => Accounts(w, k)
  PROVE  CoverInv'
  <1>1. Named' = Named
    BY DEF Named, Covers!Referenced
  <1> QED
    BY <1>1, CoverGoes DEF CoverInv, CoverTyped

LEMMA CoverAsks ==
  ASSUME CoverInv, NEW r \in Uploads, NEW b \in CoverBooks,
         Covers!Ask(r, b) \/ \E k \in Pictures : Covers!Choose(r, b, k)
  PROVE  CoverInv'
  <1>1. ~\E k : Accounts(coversRequest[r], k)
    BY DEF Covers!Ask, Covers!Choose, Accounts
  <1>2. coversOver[b] \in OverRecord
    BY DEF CoverInv, CoverTyped
  <1>3. CASE Covers!Ask(r, b)
    <2> DEFINE w == [Covers!Idle EXCEPT !.step = "reading", !.book = b, !.key = coversOver[b].cover]
    <2>1. Covers!Goes(r, w) /\ UNCHANGED <<coversFiles, coversRows, coversOver, coversLeaked>>
          /\ coversOver[b].cover # None
      BY <1>3 DEF Covers!Ask
    <2>2. w \in WorkRecord /\ w.step = "reading" /\ w.book = b /\ w.key \in Pictures
      BY <1>2, <2>1, IdleIs DEF WorkRecord, Covers!Steps, OverRecord
    <2>3. WorkRight(w) /\ \A k : ~Unlinks(w, k)
      BY <2>2 DEF WorkRight, Unlinks
    <2> HIDE DEF w
    <2> QED
      BY <1>1, <2>1, <2>2, <2>3, CoverMoves
  <1>4. CASE \E k \in Pictures : Covers!Choose(r, b, k)
    <2> PICK p \in Pictures : Covers!Choose(r, b, p)
      BY <1>4
    <2> DEFINE w == [Covers!Idle EXCEPT !.step = "looking", !.book = b, !.key = p,
                                        !.version = coversOver[b].version]
    <2>1. Covers!Goes(r, w) /\ UNCHANGED <<coversFiles, coversRows, coversOver, coversLeaked>>
      BY DEF Covers!Choose
    <2>2. w \in WorkRecord /\ w.step = "looking" /\ w.book = b /\ w.key = p
      BY <1>2, IdleIs DEF WorkRecord, Covers!Steps, OverRecord
    <2>3. WorkRight(w) /\ \A k : ~Unlinks(w, k)
      BY <2>2 DEF WorkRight, Unlinks
    <2> HIDE DEF w
    <2> QED
      BY <1>1, <2>1, <2>2, <2>3, CoverMoves
  <1> QED
    BY <1>3, <1>4

\* A request that ends and was not about to unlink anything.
LEMMA CoverIdles ==
  ASSUME CoverInv, NEW r \in Uploads, Covers!NoPicture(r) \/ Covers!SweepEnds(r) \/ Covers!Leave(r)
  PROVE  CoverInv'
  <1>1. Covers!Goes(r, Covers!Idle) /\ UNCHANGED <<coversFiles, coversRows, coversOver, coversLeaked>>
    BY DEF Covers!NoPicture, Covers!SweepEnds, Covers!Leave
  <1>2. ~\E k : Accounts(coversRequest[r], k)
    BY DEF Covers!NoPicture, Covers!SweepEnds, Covers!Leave, Accounts
  <1> QED
    BY <1>1, <1>2, IdleIs, CoverMoves

LEMMA CoverLook ==
  ASSUME CoverInv, NEW r \in Uploads, Covers!Look(r)
  PROVE  CoverInv'
  <1> DEFINE v == coversRequest[r]
             w == [v EXCEPT !.step = IF v.key \in coversFiles THEN "stored" ELSE "writing"]
  <1>1. v \in WorkRecord /\ WorkRight(v) /\ v.step = "looking"
    BY DEF Covers!Look, CoverInv, CoverTyped
  <1>2. Covers!Goes(r, w) /\ UNCHANGED <<coversFiles, coversRows, coversOver, coversLeaked>>
    BY DEF Covers!Look
  <1>3. w \in WorkRecord /\ w.key = v.key /\ w.book = v.book
        /\ \/ w.step = "stored" /\ v.key \in coversFiles
           \/ w.step = "writing"
    BY <1>1 DEF WorkRecord, Covers!Steps
  <1>4. ~\E k : Accounts(v, k)
    BY <1>1 DEF Accounts
  <1>5. WorkRight(w) /\ \A k : ~Unlinks(w, k)
    BY <1>1, <1>3 DEF WorkRight, Unlinks
  <1> HIDE DEF w
  <1> QED
    BY <1>2, <1>3, <1>4, <1>5, CoverMoves

LEMMA CoverWrite ==
  ASSUME CoverInv, NEW r \in Uploads, Covers!Write(r)
  PROVE  CoverInv'
  <1> DEFINE v == coversRequest[r]
             w == [v EXCEPT !.step = "stored"]
  <1>1. v \in WorkRecord /\ WorkRight(v) /\ v.step = "writing" /\ v.key \in Pictures
    BY DEF Covers!Write, CoverInv, CoverTyped, WorkRight
  <1>2. ~\E k : Accounts(v, k)
    BY <1>1 DEF Accounts
  <1>3. UNCHANGED <<coversRows, coversOver, coversLeaked>>
    BY DEF Covers!Write
  <1>4. CASE coversFiles' = coversFiles \cup {v.key} /\ Covers!Goes(r, w)
    <2>1. w \in WorkRecord /\ w.key = v.key /\ w.book = v.book /\ w.step = "stored"
      BY <1>1 DEF WorkRecord, Covers!Steps
    <2>2. WorkRight(w) /\ (\A k : ~Unlinks(w, k)) /\ Accounts(w, v.key)
      BY <1>1, <2>1 DEF WorkRight, Unlinks, Accounts
    <2>3. Named' = Named
      BY <1>3 DEF Named, Covers!Referenced
    <2> HIDE DEF w
    <2> QED
      BY <1>1, <1>2, <1>3, <1>4, <2>1, <2>2, <2>3, CoverGoes DEF CoverInv, CoverTyped
  <1>5. CASE coversFiles' = coversFiles /\ Covers!Goes(r, Covers!Idle)
    BY <1>2, <1>3, <1>5, IdleIs, CoverMoves
  <1> QED
    BY <1>4, <1>5 DEF Covers!Write

LEMMA CoverRefuse ==
  ASSUME CoverInv, NEW r \in Uploads, Covers!Refuse(r)
  PROVE  CoverInv'
  <1> DEFINE v == coversRequest[r]
             w == [Covers!Idle EXCEPT !.step = "discarding", !.key = v.key]
  <1>1. v \in WorkRecord /\ v.step = "stored" /\ v.key \in Pictures
    BY DEF Covers!Refuse, CoverInv, CoverTyped, WorkRight
  <1>2. UNCHANGED <<coversFiles, coversRows, coversOver, coversLeaked>>
    BY DEF Covers!Refuse
  <1>3. CASE v.key \in Named
    <2>1. Covers!Goes(r, Covers!Idle)
      BY <1>3 DEF Covers!Refuse, Named
    <2>2. \A k \in coversFiles \ Named : ~Accounts(v, k)
      BY <1>1, <1>3 DEF Accounts
    <2> QED
      BY <1>2, <2>1, <2>2, IdleIs, CoverMoves
  <1>4. CASE v.key \notin Named
    <2>1. Covers!Goes(r, w)
      BY <1>4 DEF Covers!Refuse, Named
    <2>2. w \in WorkRecord /\ w.step = "discarding" /\ w.key = v.key
      BY <1>1, IdleIs DEF WorkRecord, Covers!Steps
    <2>3. WorkRight(w)
      BY <2>2 DEF WorkRight
    <2>4. /\ \A k : Unlinks(w, k) => k = v.key
          /\ \A k : Accounts(v, k) => Accounts(w, k)
      BY <1>1, <2>2 DEF Unlinks, Accounts
    <2> HIDE DEF w
    <2> QED
      BY <1>2, <1>4, <2>1, <2>2, <2>3, <2>4, CoverMoves
  <1> QED
    BY <1>3, <1>4

\* Book b is covered by p from now on, and the cover it had is unlinked if no
\* other book names it.
LEMMA CoverReplaces ==
  ASSUME CoverInv, NEW r \in Uploads, NEW b \in CoverBooks, NEW p \in Pictures \cup {None},
         coversOver' = Covers!Covered(b, p), coversRows' \subseteq Pictures,
         Covers!Replaced(r, coversOver[b].cover, coversOver'),
         coversRows \subseteq coversRows', p # None => p \in coversRows',
         p # None => coversRequest[r].step = "stored" /\ coversRequest[r].key = p,
         p = None => coversRequest[r].step = "idle",
         UNCHANGED <<coversFiles, coversLeaked>>
  PROVE  CoverInv'
  <1> DEFINE old == coversOver[b].cover
             w == [Covers!Idle EXCEPT !.step = "retiring", !.key = old]
  <1>1. coversOver \in [CoverBooks -> OverRecord] /\ old \in Pictures \cup {None}
    BY DEF CoverInv, CoverTyped, OverRecord
  <1>2. coversOver' \in [CoverBooks -> OverRecord] /\ coversOver'[b].cover = p
        /\ \A c \in CoverBooks \ {b} : coversOver'[c] = coversOver[c]
    BY <1>1 DEF Covers!Covered, OverRecord
  <1>3. /\ Named' \subseteq Named \cup ({p} \ {None})
        /\ Named \subseteq Named' \cup {old}
        /\ p \in Named' \cup {None}
    BY <1>2 DEF Named, Covers!Referenced
  <1>4. Named' \subseteq coversRows'
    BY <1>3 DEF CoverInv
  <1>5. \A k \in Pictures \ Named' : ~Accounts(coversRequest[r], k)
    BY <1>3 DEF Accounts
  <1>6. \A k \in Named' \ Named : coversRequest[r].step = "stored" /\ coversRequest[r].key = k
    BY <1>3
  <1>7. CASE old \notin Named' \cup {None}
    <2>1. Covers!Goes(r, w)
      BY <1>7 DEF Covers!Replaced, Named
    <2>2. w \in WorkRecord /\ w.step = "retiring" /\ w.key = old
      BY <1>1, <1>7, IdleIs DEF WorkRecord, Covers!Steps
    <2>3. WorkRight(w)
      BY <2>2 DEF WorkRight
    <2>4. (\A k : Unlinks(w, k) => k = old) /\ Accounts(w, old)
      BY <2>2 DEF Unlinks, Accounts
    <2>5. \A k \in coversFiles' \ Named' : Accounts(w, k)
            \/ (k \in coversFiles \ Named /\ ~Accounts(coversRequest[r], k))
      BY <1>3, <1>5, <2>4 DEF CoverInv, CoverTyped
    <2> HIDE DEF w
    <2> QED
      BY <1>2, <1>4, <1>6, <1>7, <2>1, <2>2, <2>3, <2>4, <2>5, CoverGoes DEF CoverInv, CoverTyped
  <1>8. CASE old \in Named' \cup {None}
    <2>1. Covers!Goes(r, Covers!Idle)
      BY <1>8 DEF Covers!Replaced, Named
    <2>2. Named \subseteq Named'
      BY <1>3, <1>8 DEF Named, Covers!Referenced
    <2>3. \A k \in coversFiles' \ Named' : k \in coversFiles \ Named /\ ~Accounts(coversRequest[r], k)
      BY <1>5, <2>2 DEF CoverInv, CoverTyped
    <2> QED
      BY <1>2, <1>4, <1>6, <2>1, <2>3, IdleIs, CoverGoes DEF CoverInv, CoverTyped
  <1> QED
    BY <1>7, <1>8

LEMMA CoverSets ==
  ASSUME CoverInv, NEW r \in Uploads, Covers!Set(r) \/ \E b \in CoverBooks : Covers!Reset(r, b)
  PROVE  CoverInv'
  <1>1. CASE Covers!Set(r)
    <2>1. coversRequest[r].book \in CoverBooks /\ coversRequest[r].key \in Pictures
      BY <1>1 DEF Covers!Set, CoverInv, WorkRight
    <2>2. coversRows' = coversRows \cup {coversRequest[r].key} /\ coversRows' \subseteq Pictures
      BY <1>1, <2>1 DEF Covers!Set, CoverInv, CoverTyped
    <2>3. coversRequest[r].key # None
      BY <2>1, NoneIsNoCover
    <2> QED
      BY <1>1, <2>1, <2>2, <2>3, CoverReplaces DEF Covers!Set
  <1>2. CASE \E b \in CoverBooks : Covers!Reset(r, b)
    <2> PICK b \in CoverBooks : Covers!Reset(r, b)
      BY <1>2
    <2> QED
      BY CoverReplaces DEF Covers!Reset, CoverInv, CoverTyped
  <1> QED
    BY <1>1, <1>2

\* The unlink of a cover that is not named, by the request that saw that.
LEMMA CoverUnlink ==
  ASSUME CoverInv, NEW r \in Uploads, Covers!Unlink(r)
  PROVE  CoverInv'
  <1> DEFINE v == coversRequest[r]
  <1>1. v \in WorkRecord /\ v.step \in {"retiring", "discarding"} /\ Covers!Goes(r, Covers!Idle)
    BY DEF Covers!Unlink, CoverInv, CoverTyped
  <1>2. Named' = Named /\ coversOver' = coversOver
    BY DEF Covers!Unlink, Named, Covers!Referenced
  <1>3. \A k : Accounts(v, k) <=> k = v.key
    BY <1>1 DEF Accounts
  <1>4. \A k : Unlinks(v, k) <=> k = v.key
    BY <1>1 DEF Unlinks
  <1>5. CASE /\ coversFiles' = coversFiles \ {v.key}
             /\ coversRows' = IF v.step = "retiring" THEN coversRows \cap Covers!Referenced(coversOver)
                                                     ELSE coversRows
             /\ UNCHANGED coversLeaked
    <2>1. Named \subseteq coversRows' /\ coversRows' \subseteq Pictures
      BY <1>5 DEF CoverInv, CoverTyped, Named
    <2>2. \A k \in coversFiles \ coversFiles' : Unlinks(v, k)
      BY <1>4, <1>5
    <2>3. \A k \in coversFiles' \ Named' : k \in coversFiles \ Named /\ ~Accounts(v, k)
      BY <1>2, <1>3, <1>5
    <2> QED
      BY <1>1, <1>2, <1>5, <2>1, <2>2, <2>3, IdleIs, CoverGoes DEF CoverInv, CoverTyped
  <1>6. CASE coversLeaked' = TRUE /\ UNCHANGED <<coversFiles, coversRows>>
    BY <1>1, <1>2, <1>6, IdleIs, CoverGoes DEF CoverInv, CoverTyped
  <1> QED
    BY <1>5, <1>6 DEF Covers!Unlink

LEMMA CoverEdit ==
  ASSUME CoverInv, NEW b \in CoverBooks, Covers!Edit(b)
  PROVE  CoverInv'
  <1>1. coversOver' = [coversOver EXCEPT ![b].version = @ + 1]
        /\ UNCHANGED <<coversFiles, coversRows, coversRequest, coversRaced, coversLeaked>>
    BY DEF Covers!Edit
  <1>2. coversOver \in [CoverBooks -> OverRecord]
    BY DEF CoverInv, CoverTyped
  <1>3. coversOver' \in [CoverBooks -> OverRecord]
        /\ \A c \in CoverBooks : coversOver'[c].cover = coversOver[c].cover
    BY <1>1, <1>2 DEF OverRecord
  <1>4. Named' = Named
    BY <1>3 DEF Named, Covers!Referenced
  <1> QED
    BY <1>1, <1>3, <1>4 DEF CoverInv, CoverTyped, WorkRight, Stores, Unlinks, Accounts

LEMMA CoverDelete ==
  ASSUME CoverInv, NEW r \in Uploads, NEW b \in CoverBooks, Covers!Delete(r, b)
  PROVE  CoverInv'
  <1> DEFINE w == [Covers!Idle EXCEPT !.step = "listing", !.left = Pictures \ Named']
  <1>1. /\ coversOver' = [coversOver EXCEPT ![b].there = FALSE, ![b].cover = None]
        /\ coversRows' = coversRows \cap Named'
        /\ Covers!Goes(r, w)
        /\ UNCHANGED <<coversFiles, coversLeaked>>
        /\ coversRequest[r].step = "idle"
    BY DEF Covers!Delete, Named
  <1>2. coversOver \in [CoverBooks -> OverRecord]
    BY DEF CoverInv, CoverTyped
  <1>3. coversOver' \in [CoverBooks -> OverRecord] /\ coversOver'[b].cover = None
        /\ \A c \in CoverBooks \ {b} : coversOver'[c] = coversOver[c]
    BY <1>1, <1>2 DEF OverRecord
  <1>4. Named' \subseteq Named
    BY <1>3 DEF Named, Covers!Referenced
  <1>5. w \in WorkRecord /\ w.step = "listing" /\ w.left = Pictures \ Named'
    BY IdleIs DEF WorkRecord, Covers!Steps
  <1>6. WorkRight(w) /\ (\A k : ~Unlinks(w, k)) /\ \A k \in Pictures \ Named' : Accounts(w, k)
    BY <1>5 DEF WorkRight, Unlinks, Accounts
  <1> HIDE DEF w
  <1> QED
    BY <1>1, <1>3, <1>4, <1>5, <1>6, CoverGoes DEF CoverInv, CoverTyped

LEMMA CoverList ==
  ASSUME CoverInv, NEW r \in Uploads, Covers!List(r)
  PROVE  CoverInv'
  <1> DEFINE v == coversRequest[r]
             w == [v EXCEPT !.step = "sweeping", !.left = @ \cap coversFiles]
  <1>1. v \in WorkRecord /\ v.step = "listing"
    BY DEF Covers!List, CoverInv, CoverTyped
  <1>2. Covers!Goes(r, w) /\ UNCHANGED <<coversFiles, coversRows, coversOver, coversLeaked>>
    BY DEF Covers!List
  <1>3. w \in WorkRecord /\ w.step = "sweeping" /\ w.left = v.left \cap coversFiles
    BY <1>1 DEF WorkRecord, Covers!Steps
  <1>4. /\ WorkRight(w) /\ \A k : ~Unlinks(w, k)
        /\ \A k \in coversFiles : Accounts(v, k) => Accounts(w, k)
    BY <1>1, <1>3 DEF WorkRight, Unlinks, Accounts
  <1> HIDE DEF w
  <1> QED
    BY <1>2, <1>3, <1>4, CoverMoves

LEMMA CoverSweep ==
  ASSUME CoverInv, NEW r \in Uploads, NEW p \in Pictures, Covers!Sweep(r, p)
  PROVE  CoverInv'
  <1> DEFINE v == coversRequest[r]
             kept == [v EXCEPT !.left = @ \ {p}]
             w == [v EXCEPT !.step = "removing", !.key = p, !.left = @ \ {p}]
  <1>1. v \in WorkRecord /\ v.step = "sweeping" /\ p \in v.left
    BY DEF Covers!Sweep, CoverInv, CoverTyped
  <1>2. UNCHANGED <<coversFiles, coversRows, coversOver, coversLeaked>>
    BY DEF Covers!Sweep
  <1>3. CASE p \in Named
    <2>1. Covers!Goes(r, kept)
      BY <1>3 DEF Covers!Sweep, Named
    <2>2. kept \in WorkRecord /\ kept.step = "sweeping" /\ kept.left = v.left \ {p}
      BY <1>1 DEF WorkRecord
    <2>3. /\ WorkRight(kept) /\ \A k : ~Unlinks(kept, k)
          /\ \A k : Accounts(v, k) /\ k # p => Accounts(kept, k)
      BY <1>1, <2>2 DEF WorkRight, Unlinks, Accounts
    <2> HIDE DEF kept
    <2> QED
      BY <1>2, <1>3, <2>1, <2>2, <2>3, CoverMoves
  <1>4. CASE p \notin Named
    <2>1. Covers!Goes(r, w)
      BY <1>4 DEF Covers!Sweep, Named
    <2>2. w \in WorkRecord /\ w.step = "removing" /\ w.key = p /\ w.left = v.left \ {p}
      BY <1>1 DEF WorkRecord, Covers!Steps
    <2>3. /\ WorkRight(w) /\ \A k : Unlinks(w, k) => k = p
          /\ \A k : Accounts(v, k) => Accounts(w, k)
      BY <1>1, <2>2 DEF WorkRight, Unlinks, Accounts
    <2> HIDE DEF w
    <2> QED
      BY <1>2, <1>4, <2>1, <2>2, <2>3, CoverMoves
  <1> QED
    BY <1>3, <1>4

LEMMA CoverRemove ==
  ASSUME CoverInv, NEW r \in Uploads, Covers!Remove(r)
  PROVE  CoverInv'
  <1> DEFINE v == coversRequest[r]
             w == [v EXCEPT !.step = "sweeping", !.key = None]
  <1>1. v \in WorkRecord /\ v.step = "removing"
    BY DEF Covers!Remove, CoverInv, CoverTyped
  <1>2. Named' = Named /\ UNCHANGED <<coversRows, coversOver>>
    BY DEF Covers!Remove, Named, Covers!Referenced
  <1>3. CASE coversFiles' = coversFiles \ {v.key} /\ Covers!Goes(r, w) /\ UNCHANGED coversLeaked
    <2>1. w \in WorkRecord /\ w.step = "sweeping" /\ w.left = v.left
      BY <1>1 DEF WorkRecord, Covers!Steps
    <2>2. /\ WorkRight(w) /\ \A k : ~Unlinks(w, k)
          /\ \A k : Accounts(v, k) => Accounts(w, k) \/ k = v.key
          /\ Unlinks(v, v.key)
      BY <1>1, <2>1 DEF WorkRight, Unlinks, Accounts
    <2> HIDE DEF w
    <2>3. \A k \in coversFiles \ coversFiles' : Unlinks(v, k)
      BY <1>3, <2>2
    <2>4. \A k \in coversFiles' \ Named' :
            Accounts(w, k) \/ (k \in coversFiles \ Named /\ ~Accounts(v, k))
      BY <1>2, <1>3, <2>2
    <2> QED
      BY <1>2, <1>3, <2>1, <2>2, <2>3, <2>4, CoverGoes DEF CoverInv, CoverTyped
  <1>4. CASE coversFiles' = coversFiles /\ Covers!Goes(r, Covers!Idle) /\ coversLeaked' = TRUE
    BY <1>2, <1>4, IdleIs, CoverGoes DEF CoverInv, CoverTyped
  <1> QED
    BY <1>3, <1>4 DEF Covers!Remove

LEMMA CoverRestart ==
  ASSUME CoverInv, Covers!Restart
  PROVE  CoverInv'
  <1>1. /\ coversRequest' = [q \in Uploads |-> Covers!Idle]
        /\ coversRows' = coversRows \cap Named /\ coversFiles' = coversFiles \cap Named
        /\ coversLeaked' = FALSE /\ UNCHANGED <<coversOver, coversRaced>>
    BY DEF Covers!Restart, Named
  <1>2. Named' = Named
    BY <1>1 DEF Named, Covers!Referenced
  <1>3. CoverTyped'
    BY <1>1, IdleIs DEF CoverInv, CoverTyped
  <1>4. \A q \in Uploads : coversRequest'[q] = Covers!Idle
    BY <1>1
  <1>5. \A k \in Named' : k \notin coversRaced' => k \in coversFiles'
    BY <1>1, <1>2 DEF CoverInv
  <1>6. coversFiles' \ Named' = {} /\ Named' \subseteq coversRows'
    BY <1>1, <1>2 DEF CoverInv
  <1> QED
    BY <1>3, <1>4, <1>5, <1>6, IdleIs DEF CoverInv

\* A cover that is missing although its book names it lost its file in a race.
LEMMA CoverAnswer ==
  ASSUME CoverInv, NEW r \in Uploads, Covers!Answer(r)
  PROVE  CoverInv'
  <1> DEFINE v == coversRequest[r]
             w == [v EXCEPT !.step = "missing"]
  <1>1. v \in WorkRecord /\ v.step = "reading" /\ v.key \in Pictures /\ v.book \in CoverBooks
    BY DEF Covers!Answer, CoverInv, CoverTyped, WorkRight
  <1>2. UNCHANGED <<coversFiles, coversRows, coversOver, coversLeaked>>
    BY DEF Covers!Answer
  <1>3. ~\E k : Accounts(v, k)
    BY <1>1 DEF Accounts
  <1>4. CASE Covers!Missing(r)
    <2>1. Covers!Goes(r, w)
      BY <1>4 DEF Covers!Answer
    <2>2. v.key \notin coversFiles /\ v.key \in Named
      BY <1>1, <1>4, NoneIsNoCover DEF Covers!Missing, Named, Covers!Referenced
    <2>3. v.key \in coversRaced
      BY <2>2 DEF CoverInv
    <2>4. w \in WorkRecord /\ w.step = "missing" /\ w.key = v.key
      BY <1>1 DEF WorkRecord, Covers!Steps
    <2>5. WorkRight(w) /\ \A k : ~Unlinks(w, k)
      BY <2>4 DEF WorkRight, Unlinks
    <2> HIDE DEF w
    <2> QED
      BY <1>2, <1>3, <2>1, <2>3, <2>4, <2>5, CoverMoves
  <1>5. CASE ~Covers!Missing(r)
    <2>1. Covers!Goes(r, Covers!Idle)
      BY <1>5 DEF Covers!Answer
    <2> QED
      BY <1>2, <1>3, <2>1, IdleIs, CoverMoves
  <1> QED
    BY <1>4, <1>5

LEMMA CoverStep ==
  ASSUME CoverInv, Covers!Next
  PROVE  CoverInv'
  BY CoverAsks, CoverIdles, CoverLook, CoverWrite, CoverRefuse, CoverSets, CoverUnlink, CoverEdit,
     CoverDelete, CoverList, CoverSweep, CoverRemove, CoverRestart, CoverAnswer DEF Covers!Next

LEMMA CoversAreRight ==
  ASSUME CoverInv
  PROVE  Covers!NamedCoversAreThere /\ Covers!QuietStoreIsExact /\ Covers!NamedCoversAreServed
  <1>1. Covers!NamedCoversAreThere
    BY DEF CoverInv, Covers!NamedCoversAreThere, Named
  <1>2. Covers!QuietStoreIsExact
    BY DEF CoverInv, Covers!QuietStoreIsExact, Named, Accounts
  <1>3. Covers!NamedCoversAreServed
    BY DEF CoverInv, Covers!NamedCoversAreServed
  <1> QED
    BY <1>1, <1>2, <1>3

-----------------------------------------------------------------------------
(***************************************************************************)
(* The inbox of issues.                                                    *)
(***************************************************************************)

LEMMA SameCardinality == \A S : Issues!Cardinality(S) = Cardinality(S)
  BY DEF Cardinality, Issues!Cardinality

\* What is derived from the facts is finite.
LEMMA DerivedIsFinite ==
  ASSUME issuesFacts \in Facts
  PROVE  IsFiniteSet(Issues!Derived)
  <1> DEFINE C == issuesFacts.coverless
             T == issuesFacts.twins
             of(x) == [reason |-> "cover-missing", books |-> {x}]
             as(x) == [reason |-> "suspected-duplicate", books |-> x]
             cs == {of(x) : x \in C}
             ts == {as(x) : x \in T}
  <1>1. C \in SUBSET IssueBooks /\ T \in SUBSET SUBSET IssueBooks
    BY IssueBounds
  <1>2. IsFiniteSet(C) /\ IsFiniteSet(T)
    BY <1>1, IssueBounds, FS_Subset, FS_SUBSET
  <1>3. [x \in C |-> of(x)] \in Surjection(C, cs) /\ [x \in T |-> as(x)] \in Surjection(T, ts)
    BY DEF Surjection
  <1>4. IsFiniteSet(cs) /\ IsFiniteSet(ts)
    BY <1>2, <1>3, FS_Surjection
  <1>5. Issues!Derived = cs \cup ts
    BY DEF Issues!Derived
  <1> QED
    BY <1>4, <1>5, FS_Union

\* No more rows of resolved issues are kept than there is room for.
LEMMA KeptIsBounded ==
  ASSUME NEW room \in Int, room = MaxRows - 1 - Cardinality(DOMAIN issuesRows \cap Issues!Derived),
         room >= 0
  PROVE  IsFiniteSet(Issues!Kept(1)) /\ Cardinality(Issues!Kept(1)) <= room
  <1> DEFINE n == IF room < 0 THEN 0 ELSE IF room < MaxHistory THEN room ELSE MaxHistory
             D == 1..n \cap DOMAIN Issues!Resolved
             K == {Issues!Resolved[i] : i \in D}
  <1>1. Issues!Kept(1) = K
    BY SameCardinality DEF Issues!Kept
  <1>2. n \in Nat /\ n <= room
    BY IssueBounds
  <1> HIDE DEF n
  <1>3. IsFiniteSet(1..n) /\ Cardinality(1..n) = n
    BY <1>2, FS_Interval
  <1>4. IsFiniteSet(D) /\ Cardinality(D) <= n
    BY <1>3, FS_Subset
  <1>5. [i \in D |-> Issues!Resolved[i]] \in Surjection(D, K)
    BY DEF Surjection
  <1> HIDE DEF D
  <1>6. IsFiniteSet(K) /\ Cardinality(K) <= Cardinality(D)
    BY <1>4, <1>5, FS_Surjection
  <1>7. Cardinality(D) \in Nat /\ Cardinality(K) \in Nat
    BY <1>4, <1>6, FS_CardinalityType
  <1> HIDE DEF K
  <1> QED
    BY <1>1, <1>2, <1>4, <1>6, <1>7

\* The rows that are kept leave room for an issue without a row.
LEMMA RoomIsKept ==
  ASSUME issuesFacts \in Facts, IsFiniteSet(DOMAIN issuesRows), Issues!Derivable,
         NEW s \in Issues!Derived \ DOMAIN issuesRows
  PROVE  Cardinality(Issues!Surviving(1)) < MaxRows
  <1> DEFINE L == DOMAIN issuesRows \cap Issues!Derived
             E == Issues!Derived \ {s}
  <1>0. IsFiniteSet(Issues!Derived)
    BY DerivedIsFinite
  <1>1. Cardinality(Issues!Derived) <= MaxRows /\ Cardinality(Issues!Derived) \in Nat
    BY <1>0, FS_CardinalityType, SameCardinality DEF Issues!Derivable
  <1>2. IsFiniteSet(E) /\ Cardinality(E) = Cardinality(Issues!Derived) - 1
    BY <1>0, <1>1, FS_RemoveElement
  <1>3. IsFiniteSet(L) /\ Cardinality(L) <= Cardinality(E)
    BY <1>2, FS_Subset
  <1>4. Cardinality(L) \in Nat
    BY <1>3, FS_CardinalityType
  <1> DEFINE room == MaxRows - 1 - Cardinality(L)
  <1>5. room \in Int /\ room >= 0
    BY <1>1, <1>2, <1>3, <1>4, IssueBounds
  <1>6. IsFiniteSet(Issues!Kept(1)) /\ Cardinality(Issues!Kept(1)) <= room
    BY <1>5, KeptIsBounded
  <1>7. Cardinality(Issues!Kept(1)) \in Nat
    BY <1>6, FS_CardinalityType
  <1>8. /\ IsFiniteSet(L \cup Issues!Kept(1)) /\ Cardinality(L \cup Issues!Kept(1)) =
             Cardinality(L) + Cardinality(Issues!Kept(1)) - Cardinality(L \cap Issues!Kept(1))
        /\ Cardinality(L \cap Issues!Kept(1)) \in Nat
    BY <1>3, <1>6, FS_Union, FS_Intersection, FS_CardinalityType
  <1>9. Issues!Surviving(1) \subseteq L \cup Issues!Kept(1)
    BY DEF Issues!Surviving
  <1>10. IsFiniteSet(Issues!Surviving(1))
        /\ Cardinality(Issues!Surviving(1)) <= Cardinality(L \cup Issues!Kept(1))
         /\ Cardinality(Issues!Surviving(1)) \in Nat
    BY <1>8, <1>9, FS_Subset, FS_CardinalityType
  <1> HIDE DEF L
  <1> QED
    BY <1>4, <1>6, <1>7, <1>8, <1>10, IssueBounds

\* A page that shows, of every issue whose row was never pruned, what was
\* decided, or an earlier revision of it.
Older(page) ==
  \A s \in DOMAIN page \ issuesRetired :
    /\ page[s].revision \in Nat
    /\ \/ page[s].revision < Issues!Disposition(s).revision
       \/ page[s] = Issues!Disposition(s)

\* A page that shows of all of them what was decided.
Newest(page) == \A s \in DOMAIN page \ issuesRetired : page[s] = Issues!Disposition(s)

TabIsRecord ==
  /\ issuesTab = [state |-> issuesTab.state, page |-> issuesTab.page, load |-> issuesTab.load,
                  found |-> issuesTab.found, call |-> issuesTab.call, hint |-> issuesTab.hint,
                  open |-> issuesTab.open]
  /\ issuesTab.hint \in BOOLEAN /\ issuesTab.open \in BOOLEAN

RowsAreBounded ==
  IsFiniteSet(DOMAIN issuesRows) /\ Cardinality(DOMAIN issuesRows) <= MaxRows

IssueInv ==
  /\ TabIsRecord
  /\ issuesFacts \in Facts /\ RowsAreBounded
  /\ \A s \in DOMAIN issuesRows : issuesRows[s].revision \in Nat
  /\ Older(issuesTab.page) /\ Older(issuesTab.found)
  /\ issuesTab.open /\ ~issuesTab.hint => Newest(issuesTab.found)
  /\ issuesTab.open /\ ~issuesTab.hint /\ issuesTab.state = "ready" => Newest(issuesTab.page)

LEMMA NoPageIs == DOMAIN Issues!NoPage = {} /\ Older(Issues!NoPage) /\ Newest(Issues!NoPage)
  BY DEF Issues!NoPage, Older, Newest

LEMMA IssueStart ==
  ASSUME Issues!Init
  PROVE  IssueInv
  <1>1. issuesTab = [state |-> "idle", page |-> Issues!NoPage, load |-> "none",
                     found |-> Issues!NoPage, call |-> None, hint |-> FALSE, open |-> TRUE]
        /\ issuesRows = Issues!NoPage
    BY DEF Issues!Init
  <1>2. TabIsRecord
    BY <1>1 DEF TabIsRecord
  <1>3. issuesFacts \in Facts /\ RowsAreBounded
    BY <1>1, NoPageIs, FS_EmptySet, IssueBounds DEF Issues!Init, RowsAreBounded
  <1> QED
    BY <1>1, <1>2, <1>3, NoPageIs DEF IssueInv

LEMMA IssueStutter ==
  ASSUME IssueInv, UNCHANGED issuesVars
  PROVE  IssueInv'
  BY DEF IssueInv, issuesVars, RowsAreBounded, TabIsRecord, Older, Newest, Issues!Disposition

\* Without a decision no page gets older: what is pruned is retired.
LEMMA PruneKeeps ==
  ASSUME \A s \in DOMAIN issuesRows : issuesRows[s].revision \in Nat, RowsAreBounded,
         \/ UNCHANGED <<issuesRows, issuesRetired>>
         \/ \E keep \in SUBSET DOMAIN issuesRows : Issues!Prune(keep)
  PROVE  /\ RowsAreBounded'
         /\ \A s \in DOMAIN issuesRows' : issuesRows'[s].revision \in Nat
         /\ issuesRetired \subseteq issuesRetired'
         /\ \A s : s \notin issuesRetired' => Issues!Disposition(s)' = Issues!Disposition(s)
  <1>1. CASE UNCHANGED <<issuesRows, issuesRetired>>
    BY <1>1 DEF Issues!Disposition, RowsAreBounded
  <1>2. CASE \E keep \in SUBSET DOMAIN issuesRows : Issues!Prune(keep)
    <2> PICK keep \in SUBSET DOMAIN issuesRows : Issues!Prune(keep)
      BY <1>2
    <2>1. /\ issuesRows' = [s \in keep |-> issuesRows[s]]
          /\ issuesRetired' = issuesRetired \cup (DOMAIN issuesRows \ keep)
      BY DEF Issues!Prune
    <2>2. ASSUME NEW s, s \notin issuesRetired'
          PROVE  Issues!Disposition(s)' = Issues!Disposition(s)
      BY <2>1, <2>2 DEF Issues!Disposition
    <2>3. RowsAreBounded'
      <3>1. DOMAIN issuesRows' = keep
        BY <2>1
      <3>2. IsFiniteSet(keep) /\ Cardinality(keep) <= Cardinality(DOMAIN issuesRows)
        BY FS_Subset DEF RowsAreBounded
      <3>3. Cardinality(keep) \in Nat /\ Cardinality(DOMAIN issuesRows) \in Nat
        BY <3>2, FS_CardinalityType DEF RowsAreBounded
      <3> QED
        BY <3>1, <3>2, <3>3, IssueBounds DEF RowsAreBounded
    <2> QED
      BY <2>1, <2>2, <2>3
  <1> QED
    BY <1>1, <1>2

LEMMA PageIs ==
  ASSUME \A s \in DOMAIN issuesRows : issuesRows[s].revision \in Nat, NEW filter \in BOOLEAN
  PROVE  Older(Issues!Page(filter)) /\ Newest(Issues!Page(filter))
  <1>1. \A s : Issues!Disposition(s).revision \in Nat
    BY DEF Issues!Disposition, Issues!Untouched
  <1>2. \A s \in DOMAIN Issues!Page(filter) : Issues!Page(filter)[s] = Issues!Disposition(s)
    BY DEF Issues!Page
  <1> QED
    BY <1>1, <1>2 DEF Older, Newest

\* A step without a decision.
LEMMA IssueKeeps ==
  ASSUME IssueInv, TabIsRecord', issuesFacts' \in Facts,
         \/ UNCHANGED <<issuesRows, issuesRetired>>
         \/ \E keep \in SUBSET DOMAIN issuesRows : Issues!Prune(keep),
         issuesTab'.page \in {issuesTab.page, issuesTab.found},
         \/ issuesTab'.found \in {issuesTab.found, Issues!NoPage}
         \/ \E f \in BOOLEAN : issuesTab'.found = Issues!Page(f),
         issuesTab'.open /\ ~issuesTab'.hint =>
           \/ issuesTab.open /\ ~issuesTab.hint
           \/ issuesTab'.state # "ready" /\ issuesTab'.found = Issues!NoPage,
         issuesTab'.state = "ready" =>
           (issuesTab.state = "ready" /\ issuesTab'.page = issuesTab.page)
             \/ issuesTab'.page = issuesTab.found
  PROVE  IssueInv'
  <1>1. /\ RowsAreBounded' /\ \A s \in DOMAIN issuesRows' : issuesRows'[s].revision \in Nat
        /\ issuesRetired \subseteq issuesRetired'
        /\ \A s : s \notin issuesRetired' => Issues!Disposition(s)' = Issues!Disposition(s)
    BY PruneKeeps DEF IssueInv
  <1>2. Older(issuesTab.page)'
    BY <1>1 DEF IssueInv, Older
  <1>3. Older(issuesTab'.found)
    BY NoPageIs, PageIs DEF IssueInv
  <1>4. Older(issuesTab.found)'
    BY <1>1, <1>3 DEF Older
  <1>5. ASSUME issuesTab'.open, ~issuesTab'.hint PROVE Newest(issuesTab.found)'
    <2>1. Newest(issuesTab'.found)
      BY <1>5, NoPageIs, PageIs DEF IssueInv
    <2> QED
      BY <1>1, <2>1 DEF Newest
  <1>6. ASSUME issuesTab'.open, ~issuesTab'.hint, issuesTab'.state = "ready"
        PROVE  Newest(issuesTab.page)'
    <2>1. Newest(issuesTab'.page)
      BY <1>6 DEF IssueInv
    <2> QED
      BY <1>1, <2>1 DEF Newest
  <1> QED
    BY <1>1, <1>2, <1>4, <1>5, <1>6 DEF IssueInv

\* The steps that leave what was decided as it is.
LEMMA IssueQuietStep ==
  ASSUME IssueInv,
         \/ Issues!CatalogChanges \/ Issues!Open \/ Issues!Loaded \/ Issues!LoadFails
         \/ Issues!LoadTimesOut \/ Issues!Refuse \/ Issues!Repeat \/ Issues!Answered
         \/ Issues!CallFails \/ Issues!Hinted \/ Issues!StreamBreaks \/ Issues!StreamOpens
         \/ \E d \in Issues!Decisions, s \in DOMAIN issuesTab.page : Issues!Decide(s, d)
  PROVE  IssueInv'
  <1> USE DEF IssueInv, TabIsRecord
  <1>1. CASE Issues!CatalogChanges
    BY <1>1, IssueKeeps DEF Issues!CatalogChanges
  <1>2. CASE Issues!Open
    BY <1>2, IssueKeeps DEF Issues!Open, Issues!Loading
  <1>3. CASE Issues!Loaded
    BY <1>3, IssueKeeps DEF Issues!Loaded
  <1>4. CASE Issues!LoadFails
    BY <1>4, IssueKeeps DEF Issues!LoadFails
  <1>5. CASE Issues!LoadTimesOut
    BY <1>5, IssueKeeps DEF Issues!LoadTimesOut
  <1>6. CASE Issues!Refuse
    BY <1>6, IssueKeeps DEF Issues!Refuse, Issues!Ends
  <1>7. CASE Issues!Repeat
    BY <1>7, IssueKeeps DEF Issues!Repeat, Issues!Ends
  <1>8. CASE Issues!Answered
    BY <1>8, IssueKeeps DEF Issues!Answered, Issues!Loading
  <1>9. CASE Issues!CallFails
    BY <1>9, IssueKeeps DEF Issues!CallFails
  <1>10. CASE Issues!Hinted
    BY <1>10, IssueKeeps DEF Issues!Hinted, Issues!Loading
  <1>11. CASE Issues!StreamBreaks
    BY <1>11, IssueKeeps DEF Issues!StreamBreaks
  <1>12. CASE Issues!StreamOpens
    BY <1>12, IssueKeeps DEF Issues!StreamOpens
  <1>13. CASE \E d \in Issues!Decisions, s \in DOMAIN issuesTab.page : Issues!Decide(s, d)
    BY <1>13, IssueKeeps DEF Issues!Decide
  <1> QED
    BY <1>1, <1>2, <1>3, <1>4, <1>5, <1>6, <1>7, <1>8, <1>9, <1>10, <1>11, <1>12, <1>13

LEMMA IssueList ==
  ASSUME IssueInv, NEW f \in BOOLEAN, Issues!List(f)
  PROVE  IssueInv'
  <1>1. CASE Issues!Prune(Issues!Surviving(0))
             /\ issuesTab' = [issuesTab EXCEPT !.load = "answered", !.found = Issues!Page(f)]
    <2>1. Issues!Surviving(0) \in SUBSET DOMAIN issuesRows
      BY DEF Issues!Surviving
    <2>2. TabIsRecord' /\ issuesTab'.page = issuesTab.page /\ issuesTab'.found = Issues!Page(f)
          /\ issuesTab'.open = issuesTab.open /\ issuesTab'.hint = issuesTab.hint
          /\ issuesTab'.state = issuesTab.state
      BY <1>1 DEF IssueInv, TabIsRecord
    <2>3. issuesFacts' \in Facts
      BY DEF Issues!List, IssueInv
    <2> QED
      BY <1>1, <2>1, <2>2, <2>3, IssueKeeps
  <1>2. CASE issuesTab' = [issuesTab EXCEPT !.load = "failed"] /\ UNCHANGED <<issuesRows, issuesRetired>>
    <2>2. TabIsRecord' /\ issuesTab'.page = issuesTab.page /\ issuesTab'.found = issuesTab.found
          /\ issuesTab'.open = issuesTab.open /\ issuesTab'.hint = issuesTab.hint
          /\ issuesTab'.state = issuesTab.state
      BY <1>2 DEF IssueInv, TabIsRecord
    <2>3. issuesFacts' \in Facts
      BY DEF Issues!List, IssueInv
    <2> QED
      BY <1>2, <2>2, <2>3, IssueKeeps
  <1> QED
    BY <1>1, <1>2 DEF Issues!List

\* A decision makes a new revision of one issue, and is announced.
LEMMA IssueStore ==
  ASSUME IssueInv, NEW c, NEW p, Issues!Store(c, p), p.open = issuesTab.open,
         p \in {issuesTab, Issues!Ends("applied")}
  PROVE  IssueInv'
  <1> DEFINE keep == Issues!Room(c.sig)
  <1>1. /\ issuesRows' = [s \in keep \cup {c.sig} |->
                            IF s = c.sig THEN Issues!Decided(c) ELSE issuesRows[s]]
        /\ issuesRetired' = issuesRetired \cup (DOMAIN issuesRows \ keep)
        /\ issuesTab' = [p EXCEPT !.hint = issuesTab.hint \/ p.open]
    BY DEF Issues!Store, Issues!Ends, IssueInv, TabIsRecord
  <1>2. keep \subseteq DOMAIN issuesRows
    BY DEF Issues!Room, Issues!Surviving
  <1>3. Issues!Decided(c).revision = Issues!Disposition(c.sig).revision + 1
    BY DEF Issues!Decided
  <1>4. \A s : Issues!Disposition(s).revision \in Nat
    BY DEF Issues!Disposition, Issues!Untouched, IssueInv
  <1> HIDE DEF keep
  <1>5. \A s \in DOMAIN issuesRows' : issuesRows'[s].revision \in Nat
    BY <1>1, <1>2, <1>3, <1>4 DEF IssueInv
  <1>6. ASSUME NEW s, s \notin issuesRetired', s # c.sig
        PROVE  Issues!Disposition(s)' = Issues!Disposition(s)
    BY <1>1, <1>2, <1>6 DEF Issues!Disposition
  <1>7. Issues!Disposition(c.sig)'.revision = Issues!Disposition(c.sig).revision + 1
    BY <1>1, <1>3 DEF Issues!Disposition
  <1>8. /\ TabIsRecord' /\ issuesTab'.page = issuesTab.page /\ issuesTab'.found = issuesTab.found
        /\ issuesTab'.open => issuesTab'.hint
    BY <1>1 DEF IssueInv, TabIsRecord, Issues!Ends
  <1>9. \A s \in DOMAIN issuesTab.page \ issuesRetired' :
          /\ issuesTab.page[s].revision \in Nat
          /\ \/ issuesTab.page[s].revision < Issues!Disposition(s)'.revision
             \/ issuesTab.page[s] = Issues!Disposition(s)'
    BY <1>1, <1>4, <1>6, <1>7 DEF IssueInv, Older
  <1>10. \A s \in DOMAIN issuesTab.found \ issuesRetired' :
          /\ issuesTab.found[s].revision \in Nat
          /\ \/ issuesTab.found[s].revision < Issues!Disposition(s)'.revision
             \/ issuesTab.found[s] = Issues!Disposition(s)'
    BY <1>1, <1>4, <1>6, <1>7 DEF IssueInv, Older
  <1>11. Older(issuesTab.page)' /\ Older(issuesTab.found)'
    BY <1>8, <1>9, <1>10 DEF Older
  <1>12. RowsAreBounded'
    <2>1. DOMAIN issuesRows' = keep \cup {c.sig} /\ IsFiniteSet(DOMAIN issuesRows)
      BY <1>1 DEF IssueInv, RowsAreBounded
    <2>2. CASE c.sig \in DOMAIN issuesRows
      <3>1. DOMAIN issuesRows' = DOMAIN issuesRows
        BY <2>1, <2>2 DEF keep, Issues!Room
      <3> QED
        BY <3>1 DEF IssueInv, RowsAreBounded
    <2>3. CASE c.sig \notin DOMAIN issuesRows
      <3>1. Cardinality(keep) < MaxRows
        BY <2>3, SameCardinality DEF Issues!Store, keep
      <3>2. IsFiniteSet(keep) /\ Cardinality(keep) \in Nat
        BY <1>2, <2>1, FS_Subset, FS_CardinalityType
      <3>3. IsFiniteSet(keep \cup {c.sig}) /\ Cardinality(keep \cup {c.sig}) <= Cardinality(keep) + 1
        BY <3>2, FS_AddElement
      <3>4. Cardinality(keep \cup {c.sig}) \in Nat
        BY <3>3, FS_CardinalityType
      <3> QED
        BY <2>1, <3>1, <3>2, <3>3, <3>4, IssueBounds DEF RowsAreBounded
    <2> QED
      BY <2>2, <2>3
  <1>13. issuesFacts' \in Facts
    BY DEF Issues!Store, IssueInv
  <1> QED
    BY <1>5, <1>8, <1>11, <1>12, <1>13 DEF IssueInv

LEMMA IssueStep ==
  ASSUME IssueInv, Issues!Next
  PROVE  IssueInv'
  <1>1. CASE \E f \in BOOLEAN : Issues!List(f)
    BY <1>1, IssueList
  <1>2. CASE Issues!Accept
    <2>1. Issues!Ends("applied").open = issuesTab.open
      BY DEF Issues!Ends, IssueInv, TabIsRecord
    <2> QED
      BY <1>2, <2>1, IssueStore DEF Issues!Accept
  <1>3. CASE \E d \in Issues!Decisions, s \in Issues!Derived : Issues!Elsewhere(s, d)
    <2> PICK d \in Issues!Decisions, s \in Issues!Derived : Issues!Elsewhere(s, d)
      BY <1>3
    <2> DEFINE c == [sig |-> s, revision |-> Issues!Disposition(s).revision, decision |-> d,
          at |-> "sent"]
    <2>1. Issues!Store(c, issuesTab)
      BY DEF Issues!Elsewhere
    <2> QED
      BY <2>1, IssueStore
  <1>4. CASE \/ Issues!CatalogChanges \/ Issues!Open \/ Issues!Loaded \/ Issues!LoadFails
             \/ Issues!LoadTimesOut \/ Issues!Refuse \/ Issues!Repeat \/ Issues!Answered
             \/ Issues!CallFails \/ Issues!Hinted \/ Issues!StreamBreaks \/ Issues!StreamOpens
             \/ \E d \in Issues!Decisions, s \in DOMAIN issuesTab.page : Issues!Decide(s, d)
    BY <1>4, IssueQuietStep
  <1> QED
    BY <1>1, <1>2, <1>3, <1>4 DEF Issues!Next

LEMMA IssuesAreRight ==
  ASSUME IssueInv
  PROVE  Issues!ShownIsDecidedOn /\ Issues!QuietInboxIsFresh /\ Issues!RoomForEveryIssue
  <1>1. Issues!ShownIsDecidedOn
    <2>1. \A s : Issues!Disposition(s).revision \in Nat
      BY DEF Issues!Disposition, Issues!Untouched, IssueInv
    <2> QED
      BY <2>1 DEF IssueInv, Older, Issues!ShownIsDecidedOn
  <1>2. Issues!QuietInboxIsFresh
    BY DEF IssueInv, Newest, Issues!QuietInboxIsFresh
  <1>3. Issues!RoomForEveryIssue
    BY RoomIsKept, SameCardinality DEF IssueInv, RowsAreBounded, Issues!RoomForEveryIssue
  <1> QED
    BY <1>1, <1>2, <1>3

-----------------------------------------------------------------------------
(***************************************************************************)
(* The libraries and their folders.  A change of Settings is followed as a *)
(* transaction: one that is Sound may be committed (CommitKeeps), and the  *)
(* inputs of a configuration are taken one after another (Half).           *)
(***************************************************************************)

\* The records of a transaction and of an input.
Marks == {"on", "off", "none"}
Ask == [id : Roots \union {None}, path : Paths, options : {v.options : v \in Variants},
        enabled : BOOLEAN]
Tx == [root : [Roots -> Configs \union {None}], used : SUBSET Roots,
       member : [Profiles -> [Roots -> Marks]], rows : [Roots -> SUBSET Paths],
       indexed : [Roots -> Configs \union {None}], due : SUBSET Roots, kept : SUBSET Roots,
       ok : BOOLEAN]

ConfigOf(in) == [path |-> in.path, options |-> in.options]
MarkOf(in) == IF in.enabled THEN "on" ELSE "off"

\* Of several roots one comes first.
LEMMA LeastRoot ==
  ASSUME NEW rs \in SUBSET Roots, rs # {}
  PROVE  Min(rs) \in rs
  <1>1. PICK r \in rs : \A x \in rs : r <= x
    BY RootsAreOrdered
  <1> QED
    BY <1>1 DEF Min

\* A configuration is a record of a path and options, and not None.
LEMMA ConfigsTyped ==
  /\ \A c \in Configs : c \in [path : Paths, options : {v.options : v \in Variants}] /\ c # None
  /\ \A in \in Ask : ConfigOf(in) \in Configs /\ ConfigOf(in).path = in.path
                     /\ ConfigOf(in).options = in.options
  BY RootBounds DEF Configs, Ask, ConfigOf

\* What one folder of a save does to the transaction.
Root(tx, in, r) ==
  /\ in.id # None => r = in.id
  /\ in.id = None =>
       \/ tx.root[r] # None /\ tx.root[r].path = in.path
       \/ r \notin tx.used /\ \A x \in Roots : tx.root[x] # None => tx.root[x].path # in.path
Changes(tx, in, r) == tx.root[r] # None /\ tx.root[r] # ConfigOf(in)
Allowed(tx, p, in, r) ==
  /\ in.id # None => tx.member[p][r] # "none"
  /\ Changes(tx, in, r) =>
       \A x \in Roots \ {r} : tx.root[x] # None => tx.root[x].path # in.path
Due(tx, p, save, in, r) ==
  \/ Changes(tx, in, r)
  \/ /\ save.enabled /\ in.enabled
     /\ profile[p] = "off" \/ tx.root[r] = None \/ tx.member[p][r] # "on"
Goes(tx, in, r) == tx.root[r] # None /\ tx.root[r].path # in.path

Takes(t, tx, p, save, in, r) ==
  /\ t.root = [tx.root EXCEPT ![r] = ConfigOf(in)]
  /\ t.used = tx.used \union {r} /\ t.kept = tx.kept \union {r}
  /\ t.member = [tx.member EXCEPT ![p] = [tx.member[p] EXCEPT ![r] = MarkOf(in)]]
  /\ t.rows = [tx.rows EXCEPT ![r] = IF Goes(tx, in, r) THEN {} ELSE tx.rows[r]]
  /\ t.indexed = [tx.indexed EXCEPT ![r] = IF Goes(tx, in, r) THEN None ELSE tx.indexed[r]]
  /\ t.due = IF Due(tx, p, save, in, r) THEN tx.due \union {r} ELSE tx.due

\* An input is about the folder it names, the one at its path, or a new one.
LEMMA RootIs ==
  ASSUME NEW tx \in Tx, NEW in, in.id \in Roots \union {None}, RootOf(tx, in) # None
  PROVE  RootOf(tx, in) \in Roots /\ Root(tx, in, RootOf(tx, in))
  <1>1. CASE in.id # None
    BY <1>1 DEF RootOf, Root
  <1>2. CASE in.id = None /\ PathTaken(tx, in.path, None)
    <2>1. \E r \in Roots : tx.root[r] # None /\ tx.root[r].path = in.path
      BY <1>2 DEF PathTaken
    <2> QED
      BY <1>2, <2>1 DEF RootOf, Root
  <1>3. CASE in.id = None /\ ~PathTaken(tx, in.path, None)
    <2>1. \A x \in Roots : tx.root[x] # None => tx.root[x].path # in.path
      BY <1>3, RootBounds DEF PathTaken
    <2>2. ~(Roots \subseteq tx.used) /\ RootOf(tx, in) = Min(Roots \ tx.used)
      BY <1>3 DEF RootOf
    <2>3. Min(Roots \ tx.used) \in Roots \ tx.used
      BY <2>2, LeastRoot
    <2> QED
      BY <1>3, <2>1, <2>2, <2>3 DEF Root
  <1> QED
    BY <1>1, <1>2, <1>3

\* What Moved does to each field of a transaction.
LEMMA MovedIs ==
  ASSUME NEW tx \in Tx, NEW c \in Configs, NEW r \in Roots
  PROVE  /\ Moved(tx, r, c) \in Tx
         /\ Moved(tx, r, c).root = [tx.root EXCEPT ![r] = c]
         /\ Moved(tx, r, c).rows = [tx.rows EXCEPT ![r] = IF Goes(tx, c, r) THEN {} ELSE tx.rows[r]]
         /\ Moved(tx, r, c).indexed =
              [tx.indexed EXCEPT ![r] = IF Goes(tx, c, r) THEN None ELSE tx.indexed[r]]
         /\ \A f \in {"used", "member", "due", "kept", "ok"} : Moved(tx, r, c)[f] = tx[f]
  <1>1. CASE Goes(tx, c, r)
    BY <1>1 DEF Moved, Goes, Tx
  <1>2. CASE ~Goes(tx, c, r)
    BY <1>2 DEF Moved, Goes, Tx
  <1> QED
    BY <1>1, <1>2

\* An input that is taken is allowed, and changes its folder as Takes says.
LEMMA TakeIs ==
  ASSUME NEW tx \in Tx, NEW p \in Profiles, NEW save, NEW in \in Ask,
         TakeRoot(tx, p, save, in).ok
  PROVE  \E r \in Roots : /\ Root(tx, in, r) /\ Allowed(tx, p, in, r) /\ tx.ok
                          /\ TakeRoot(tx, p, save, in) \in Tx
                          /\ Takes(TakeRoot(tx, p, save, in), tx, p, save, in, r)
  <1> DEFINE r == RootOf(tx, in)
             t == TakeRoot(tx, p, save, in)
             w == Moved(tx, r, ConfigOf(in))
  <1>1. /\ tx.ok /\ r # None
        /\ ~(in.id # None /\ tx.member[p][r] = "none")
        /\ ~(Changes(tx, in, r) /\ PathTaken(tx, in.path, r))
        /\ t = [w EXCEPT !.used = @ \union {r}, !.kept = @ \union {r},
                         !.member[p][r] = MarkOf(in),
                         !.due = IF Due(tx, p, save, in, r) THEN @ \union {r} ELSE @]
    BY DEF TakeRoot, Changes, Due, ConfigOf, MarkOf, Tx
  <1>2. r \in Roots /\ Root(tx, in, r)
    BY <1>1, RootIs DEF Ask
  <1>3. Allowed(tx, p, in, r)
    BY <1>1, <1>2 DEF Allowed, PathTaken
  <1>4. MarkOf(in) \in Marks
    BY DEF MarkOf, Marks
  <1> HIDE DEF r
  <1>5. /\ w \in Tx /\ w.root = [tx.root EXCEPT ![r] = ConfigOf(in)]
        /\ w.rows = [tx.rows EXCEPT ![r] = IF Goes(tx, in, r) THEN {} ELSE tx.rows[r]]
        /\ w.indexed = [tx.indexed EXCEPT ![r] = IF Goes(tx, in, r) THEN None ELSE tx.indexed[r]]
        /\ w.used = tx.used /\ w.member = tx.member /\ w.due = tx.due /\ w.kept = tx.kept /\ w.ok = tx.ok
    BY <1>2, MovedIs, ConfigsTyped DEF Goes
  <1> HIDE DEF t, w
  <1>6. Takes(t, tx, p, save, in, r)
    BY <1>1, <1>2, <1>4, <1>5 DEF Tx, Takes
  <1>7. t \in Tx
    <2>1. /\ t.used \in SUBSET Roots /\ t.kept \in SUBSET Roots /\ t.due \in SUBSET Roots
          /\ t.member \in [Profiles -> [Roots -> Marks]]
      BY <1>2, <1>4, <1>6 DEF Takes, Tx
    <2>2. /\ t.root = w.root /\ t.rows = w.rows /\ t.indexed = w.indexed /\ t.ok = w.ok
          /\ t = [root |-> t.root, used |-> t.used, member |-> t.member, rows |-> t.rows,
                  indexed |-> t.indexed, due |-> t.due, kept |-> t.kept, ok |-> t.ok]
      BY <1>1, <1>5 DEF Tx
    <2>3. w.root \in [Roots -> Configs \union {None}] /\ w.rows \in [Roots -> SUBSET Paths]
          /\ w.indexed \in [Roots -> Configs \union {None}] /\ w.ok \in BOOLEAN
      BY <1>5 DEF Tx
    <2> QED
      BY <2>1, <2>2, <2>3 DEF Tx
  <1> QED
    BY <1>1, <1>2, <1>3, <1>6, <1>7 DEF t

\* A refused input leaves a transaction that is typed as well.
LEMMA TakeTyped ==
  ASSUME NEW tx \in Tx, NEW p \in Profiles, NEW save, NEW in \in Ask
  PROVE  TakeRoot(tx, p, save, in) \in Tx
  <1> DEFINE r == RootOf(tx, in)
             w == Moved(tx, r, ConfigOf(in))
  <1>1. CASE TakeRoot(tx, p, save, in).ok
    BY <1>1, TakeIs
  <1>2. CASE TakeRoot(tx, p, save, in) = [tx EXCEPT !.ok = FALSE]
    BY <1>2 DEF Tx
  <1>3. CASE /\ r # None /\ tx.ok
             /\ TakeRoot(tx, p, save, in) =
                  [w EXCEPT !.used = @ \union {r}, !.kept = @ \union {r},
                            !.member[p][r] = MarkOf(in),
                            !.due = IF Due(tx, p, save, in, r) THEN @ \union {r} ELSE @]
    <2>1. w \in Tx /\ w.ok
      BY <1>3, RootIs, MovedIs, ConfigsTyped DEF Ask
    <2> HIDE DEF w
    <2>2. TakeRoot(tx, p, save, in).ok
      BY <1>3, <2>1 DEF Tx
    <2> QED
      BY <2>2, <1>1
  <1> QED
    BY <1>1, <1>2, <1>3 DEF TakeRoot, Due, Changes, ConfigOf, MarkOf

(* What is kept. *)

\* A save as the browser sends it.
SaveOK(m) ==
  /\ m.key \in Keys /\ m.save.enabled \in BOOLEAN
  /\ m.save.roots \in Seq(Ask) /\ Len(m.save.roots) <= 2 /\ Separate(m.save.roots)

\* The folders are sound, ids are not used twice, and what is not configured has
\* no rows and no request.
FoldersInv ==
  /\ TypeOK /\ FoldersAreApart /\ ChangesAreScanned
  /\ Configured \subseteq used
  /\ \A r \in Roots : root[r] = None => rows[r] = {} /\ request[r] = "idle"
  /\ \A p \in Profiles, r \in Roots : ~Exists(p) => member[p][r] = "none"

\* One key is of one save, and one that was applied is held or forgotten.
SavesInv ==
  /\ \A m \in sent : SaveOK(m)
  /\ \A m, n \in sent : m.key = n.key => m = n
  /\ \A k \in Keys : applied[k] # 0 => k \in Held \union forgotten
  /\ SavesApplyOnce
RootsInv == FoldersInv /\ SavesInv

\* A transaction that may be committed with the libraries as pr says.
Sound(tx, pr) ==
  /\ tx \in Tx
  /\ \A r, x \in Roots : r # x /\ tx.root[r] # None /\ tx.root[x] # None =>
       tx.root[r].path # tx.root[x].path /\ ~Nested(tx.root[r].path, tx.root[x].path)
  /\ \A r \in Roots : tx.root[r] # None <=> Owners(tx.member, r) # {}
  /\ \A r \in Roots : IF tx.root[r] = None THEN tx.rows[r] = {} ELSE r \in tx.used
  /\ \A q \in Profiles, r \in Roots : pr[q] \notin {"on", "off"} => tx.member[q][r] = "none"
  /\ \A r \in Roots \ tx.due :
       /\ tx.root[r] # None
       /\ \E q \in Profiles : pr[q] = "on" /\ tx.member[q][r] = "on"
       => /\ tx.root[r] = root[r] /\ tx.indexed[r] = indexed[r] /\ tx.rows[r] = rows[r]
          /\ Active(r)

\* Committing a sound transaction keeps the folders sound: a folder with no scan
\* to come that is active was active and scanned before, or the transaction would
\* have made its scan due.
LEMMA CommitKeeps ==
  ASSUME FoldersInv, NEW tx, Sound(tx, profile'), Commit(tx), scan' = scan, writes > 0,
         profile' \in [Profiles -> {"new", "on", "off", "gone"}],
         ledger' \in [Profiles -> SUBSET Keys], applied' \in [Keys -> Nat],
         forgotten' \subseteq Keys, scans' = scans
  PROVE  FoldersInv'
  <1>1. /\ tx \in Tx /\ root' = tx.root /\ used' = tx.used /\ member' = tx.member /\ rows' = tx.rows
        /\ indexed' = tx.indexed /\ writes' = writes - 1
        /\ request' = [r \in Roots |-> IF tx.root[r] = None THEN "idle"
                                      ELSE IF r \in tx.due THEN "open" ELSE request[r]]
    BY DEF Sound, Commit
  <1>2. TypeOK'
    <2>1. root' \in [Roots -> Configs \union {None}] /\ used' \subseteq Roots
          /\ member' \in [Profiles -> [Roots -> {"on", "off", "none"}]]
          /\ rows' \in [Roots -> SUBSET Paths] /\ indexed' \in [Roots -> Configs \union {None}]
      BY <1>1 DEF Tx, Marks
    <2>2. request' \in [Roots -> {"idle", "open"} \union Services]
      BY <1>1 DEF FoldersInv, TypeOK
    <2>3. writes' \in 0..MaxWrites
      BY <1>1, RootBounds DEF FoldersInv, TypeOK
    <2>4. scan' \in [Services -> [root : Roots, config : Configs, claimed : BOOLEAN]
                                   \union {None}]
          /\ scans' \in 0..MaxScans
      BY DEF FoldersInv, TypeOK
    <2> QED
      BY <2>1, <2>2, <2>3, <2>4 DEF TypeOK
  <1>3. FoldersAreApart'
    BY <1>1 DEF FoldersAreApart, Configured, Sound, Owners
  <1>4. ChangesAreScanned'
    <2>1. ASSUME NEW r \in Roots, Active(r)', request'[r] = "idle"
          PROVE  rows'[r] \subseteq {root'[r].path} /\ indexed'[r] = root'[r]
      <3>1. PICK q \in Profiles : profile'[q] = "on" /\ tx.member[q][r] = "on"
        BY <1>1, <2>1 DEF Active
      <3>2. tx.root[r] # None
        <4>1. q \in Owners(tx.member, r)
          BY <3>1 DEF Owners
        <4> QED
          BY <4>1 DEF Sound
      <3>3. r \notin tx.due /\ request[r] = "idle"
        BY <1>1, <2>1, <3>2
      <3>4. /\ tx.root[r] = root[r] /\ tx.indexed[r] = indexed[r] /\ tx.rows[r] = rows[r]
            /\ Active(r)
        BY <3>1, <3>2, <3>3 DEF Sound
      <3>5. rows[r] \subseteq {root[r].path} /\ indexed[r] = root[r]
        BY <3>3, <3>4 DEF FoldersInv, ChangesAreScanned
      <3> QED
        BY <1>1, <3>4, <3>5
    <2> QED
      BY <2>1 DEF ChangesAreScanned
  <1>6. /\ Configured' \subseteq used'
        /\ \A r \in Roots : root'[r] = None => rows'[r] = {} /\ request'[r] = "idle"
    BY <1>1 DEF Sound, Configured
  <1>7. \A p \in Profiles, r \in Roots : ~Exists(p)' => member'[p][r] = "none"
    BY <1>1 DEF Sound, Exists
  <1> QED
    BY <1>2, <1>3, <1>4, <1>6, <1>7 DEF FoldersInv

\* What Swept does to each field: orphans go with their rows.
LEMMA SweptIs ==
  ASSUME NEW tx \in Tx
  PROVE  /\ Swept(tx) \in Tx
         /\ \A f \in {"used", "member", "due", "kept", "ok"} : Swept(tx)[f] = tx[f]
         /\ \A r \in Roots :
              IF tx.root[r] # None /\ Owners(tx.member, r) = {}
              THEN Swept(tx).root[r] = None /\ Swept(tx).rows[r] = {} /\ Swept(tx).indexed[r] = None
              ELSE Swept(tx).root[r] = tx.root[r] /\ Swept(tx).rows[r] = tx.rows[r]
                   /\ Swept(tx).indexed[r] = tx.indexed[r]
  <1> DEFINE orphans == {r \in Roots : tx.root[r] # None /\ Owners(tx.member, r) = {}}
  <1>1. Swept(tx) = [tx EXCEPT !.root = [r \in Roots |-> IF r \in orphans THEN None ELSE tx.root[r]],
                     !.rows = [r \in Roots |-> IF r \in orphans THEN {} ELSE tx.rows[r]],
                     !.indexed = [r \in Roots |-> IF r \in orphans THEN None ELSE tx.indexed[r]]]
    BY DEF Swept
  <1>2. \A r \in Roots : r \in orphans <=> tx.root[r] # None /\ Owners(tx.member, r) = {}
    OBVIOUS
  <1> HIDE DEF orphans
  <1>3. Swept(tx).root = [r \in Roots |-> IF r \in orphans THEN None ELSE tx.root[r]]
        /\ Swept(tx).rows = [r \in Roots |-> IF r \in orphans THEN {} ELSE tx.rows[r]]
        /\ Swept(tx).indexed = [r \in Roots |-> IF r \in orphans THEN None ELSE tx.indexed[r]]
    BY <1>1 DEF Tx
  <1>4. \A f \in {"used", "member", "due", "kept", "ok"} : Swept(tx)[f] = tx[f]
    BY <1>1 DEF Tx
  <1>5. Swept(tx) \in Tx
    <2>1. Swept(tx) = [root |-> Swept(tx).root, used |-> Swept(tx).used, member |-> Swept(tx).member,
                       rows |-> Swept(tx).rows, indexed |-> Swept(tx).indexed, due |-> Swept(tx).due,
                       kept |-> Swept(tx).kept, ok |-> Swept(tx).ok]
      BY <1>1 DEF Tx
    <2>2. /\ Swept(tx).root \in [Roots -> Configs \union {None}]
          /\ Swept(tx).rows \in [Roots -> SUBSET Paths]
          /\ Swept(tx).indexed \in [Roots -> Configs \union {None}]
      BY <1>3 DEF Tx
    <2>3. Swept(tx).used \subseteq Roots /\ Swept(tx).member \in [Profiles -> [Roots -> Marks]]
          /\ Swept(tx).due \subseteq Roots /\ Swept(tx).kept \subseteq Roots /\ Swept(tx).ok \in BOOLEAN
      BY <1>4 DEF Tx
    <2> QED
      BY <2>1, <2>2, <2>3 DEF Tx
  <1> QED
    BY <1>2, <1>3, <1>4, <1>5

\* A transaction begins typed.
LEMMA BegunIs ==
  ASSUME FoldersInv
  PROVE  Begun \in Tx
  BY DEF Begun, Tx, Marks, FoldersInv, TypeOK

(* Changes of a single folder, and of a library. *)

\* What sweeping leaves is sound, if what it is given is but for orphans.
LEMMA SweepIsSound ==
  ASSUME FoldersInv, NEW tx \in Tx, NEW pr,
         tx.root = root, tx.rows = rows, tx.indexed = indexed, tx.used = used,
         \A q \in Profiles, r \in Roots : tx.member[q][r] \in {member[q][r], "none"},
         \A q \in Profiles, r \in Roots : pr[q] = profile[q] \/ tx.member[q][r] = "none"
  PROVE  Sound(Swept(tx), pr)
  <1> DEFINE t == Swept(tx)
  <1>1. /\ t \in Tx /\ t.used = used /\ t.member = tx.member /\ t.due = tx.due
        /\ \A r \in Roots :
             IF root[r] # None /\ Owners(tx.member, r) = {}
             THEN t.root[r] = None /\ t.rows[r] = {} /\ t.indexed[r] = None
             ELSE t.root[r] = root[r] /\ t.rows[r] = rows[r] /\ t.indexed[r] = indexed[r]
    BY SweptIs
  <1> HIDE DEF t
  <1>2. \A r \in Roots : Owners(tx.member, r) \subseteq Owners(member, r)
    BY DEF Owners, FoldersInv, TypeOK
  <1>3. \A r, x \in Roots : r # x /\ t.root[r] # None /\ t.root[x] # None =>
          t.root[r].path # t.root[x].path /\ ~Nested(t.root[r].path, t.root[x].path)
    BY <1>1 DEF FoldersInv, FoldersAreApart, Configured
  <1>4. \A r \in Roots : t.root[r] # None <=> Owners(t.member, r) # {}
    BY <1>1, <1>2 DEF FoldersInv, FoldersAreApart
  <1>5. \A r \in Roots : IF t.root[r] = None THEN t.rows[r] = {} ELSE r \in t.used
    BY <1>1 DEF FoldersInv, Configured
  <1>6. \A q \in Profiles, r \in Roots : pr[q] \notin {"on", "off"} => t.member[q][r] = "none"
    BY <1>1 DEF FoldersInv, Exists
  <1>7. ASSUME NEW r \in Roots, t.root[r] # None
        PROVE  /\ t.root[r] = root[r] /\ t.indexed[r] = indexed[r] /\ t.rows[r] = rows[r]
               /\ (\E q \in Profiles : pr[q] = "on" /\ t.member[q][r] = "on") => Active(r)
    BY <1>1, <1>7 DEF Active
  <1> QED
    BY <1>1, <1>3, <1>4, <1>5, <1>6, <1>7 DEF Sound, t

\* A folder that is taken out of a library keeps the others sound.
LEMMA DeleteRootKeeps ==
  ASSUME FoldersInv, NEW p \in Profiles, NEW r \in Roots, DeleteRoot(p, r)
  PROVE  FoldersInv'
  <1> DEFINE tx == [Begun EXCEPT !.member[p][r] = "none"]
  <1>1. Begun \in Tx
    BY BegunIs
  <1>2. /\ tx.root = root /\ tx.rows = rows /\ tx.indexed = indexed /\ tx.used = used
        /\ tx.member = [member EXCEPT ![p] = [member[p] EXCEPT ![r] = "none"]]
    BY DEF Begun, FoldersInv, TypeOK
  <1>3. tx \in Tx
    BY <1>1 DEF Tx, Marks
  <1> HIDE DEF tx
  <1>4. \A q \in Profiles, x \in Roots : tx.member[q][x] \in {member[q][x], "none"}
    BY <1>2 DEF FoldersInv, TypeOK
  <1>5. Sound(Swept(tx), profile')
    BY <1>2, <1>3, <1>4, SweepIsSound DEF DeleteRoot
  <1> QED
    BY <1>5, CommitKeeps DEF DeleteRoot, tx, FoldersInv, TypeOK

\* So does the deletion of a library.
LEMMA DeleteProfileKeeps ==
  ASSUME FoldersInv, NEW p \in Profiles, DeleteProfile(p)
  PROVE  FoldersInv'
  <1> DEFINE tx == [Begun EXCEPT !.member[p] = [r \in Roots |-> "none"]]
  <1>1. Begun \in Tx
    BY BegunIs
  <1>2. /\ tx.root = root /\ tx.rows = rows /\ tx.indexed = indexed /\ tx.used = used
        /\ tx.member = [member EXCEPT ![p] = [r \in Roots |-> "none"]]
    BY DEF Begun, FoldersInv, TypeOK
  <1>3. tx \in Tx
    BY <1>1 DEF Tx, Marks
  <1> HIDE DEF tx
  <1>4. \A q \in Profiles, x \in Roots : tx.member[q][x] \in {member[q][x], "none"}
    BY <1>2 DEF FoldersInv, TypeOK
  <1>5. \A q \in Profiles : q = p \/ profile'[q] = profile[q]
    BY DEF DeleteProfile, FoldersInv, TypeOK
  <1>6. \A x \in Roots : tx.member[p][x] = "none"
    BY <1>2 DEF FoldersInv, TypeOK
  <1>7. Sound(Swept(tx), profile')
    <2>1. \A q \in Profiles, x \in Roots : profile'[q] = profile[q] \/ tx.member[q][x] = "none"
      BY <1>5, <1>6
    <2>2. tx.root = root /\ tx.rows = rows /\ tx.indexed = indexed /\ tx.used = used
      BY <1>2
    <2> QED
      BY <1>3, <1>4, <2>1, <2>2, SweepIsSound
  <1>8. /\ profile' \in [Profiles -> {"new", "on", "off", "gone"}]
        /\ ledger' \in [Profiles -> SUBSET Keys] /\ forgotten' \subseteq Keys
    BY DEF DeleteProfile, FoldersInv, TypeOK
  <1> QED
    BY <1>7, <1>8, CommitKeeps DEF DeleteProfile, tx, FoldersInv, TypeOK

\* A library that is enabled again has its enabled folders scanned.
LEMMA UpdateProfileKeeps ==
  ASSUME FoldersInv, NEW p \in Profiles, NEW e \in BOOLEAN, UpdateProfile(p, e)
  PROVE  FoldersInv'
  <1> DEFINE on == {r \in Roots : member[p][r] = "on"}
             tx == [Begun EXCEPT !.due = IF profile[p] = "off" /\ e THEN on ELSE {}]
  <1>1. Begun \in Tx
    BY BegunIs
  <1>2. /\ tx.root = root /\ tx.rows = rows /\ tx.indexed = indexed /\ tx.used = used
        /\ tx.member = member /\ tx.due = IF profile[p] = "off" /\ e THEN on ELSE {}
    BY DEF Begun
  <1>3. tx \in Tx
    BY <1>1 DEF Tx
  <1> HIDE DEF tx
  <1>4. profile' = [profile EXCEPT ![p] = IF e THEN "on" ELSE "off"] /\ Exists(p)
    BY DEF UpdateProfile
  <1>5. \A r, x \in Roots : r # x /\ root[r] # None /\ root[x] # None =>
          root[r].path # root[x].path /\ ~Nested(root[r].path, root[x].path)
    BY DEF FoldersInv, FoldersAreApart, Configured
  <1>6. \A r \in Roots : IF root[r] = None THEN rows[r] = {} ELSE r \in used
    BY DEF FoldersInv, Configured
  <1>7. \A q \in Profiles, r \in Roots : profile'[q] \notin {"on", "off"} => member[q][r] = "none"
    BY <1>4 DEF FoldersInv, TypeOK, Exists
  <1>8. ASSUME NEW r \in Roots \ tx.due, NEW q \in Profiles, profile'[q] = "on", member[q][r] = "on"
        PROVE  Active(r)
    BY <1>2, <1>4, <1>8 DEF FoldersInv, TypeOK, Exists, Active
  <1>9. Sound(tx, profile')
    BY <1>2, <1>3, <1>5, <1>6, <1>7, <1>8 DEF Sound, FoldersInv, FoldersAreApart
  <1>10. profile' \in [Profiles -> {"new", "on", "off", "gone"}]
    BY <1>4 DEF FoldersInv, TypeOK
  <1> QED
    BY <1>9, <1>10, CommitKeeps DEF UpdateProfile, tx, on, FoldersInv, TypeOK

\* A new folder, or one that is shared, overlaps no other.
LEMMA CreateRootKeeps ==
  ASSUME FoldersInv, NEW p \in Profiles, NEW c \in Configs, NEW e \in BOOLEAN, CreateRoot(p, c, e)
  PROVE  FoldersInv'
  <1> DEFINE in == [id |-> None, path |-> c.path]
             r == RootOf(Begun, in)
             mark == IF e THEN "on" ELSE "off"
             due == IF profile[p] = "on" /\ e THEN {r} ELSE {}
             tx == [Begun EXCEPT !.root[r] = c, !.used = @ \union {r}, !.member[p][r] = mark,
                                 !.due = due]
  <1>1. Begun \in Tx /\ Begun.root = root /\ Begun.used = used
    BY BegunIs DEF Begun
  <1>2. /\ Exists(p) /\ r # None /\ ~Overlaps(c.path, {}) /\ member[p][r] = "none"
        /\ root[r] \in {None, c} /\ Commit(tx) /\ writes > 0
        /\ UNCHANGED <<profile, scan, sent, ledger, applied, forgotten, scans>>
    BY DEF CreateRoot
  <1>3. r \in Roots /\ Root(Begun, in, r)
    BY <1>1, <1>2, RootIs
  <1>4. root[r] = None => \A x \in Roots : root[x] # None => root[x].path # c.path
    BY <1>1, <1>3 DEF Root
  <1> HIDE DEF r
  <1>5. mark \in Marks /\ due \subseteq Roots /\ c # None
    BY <1>3, ConfigsTyped DEF Marks
  <1> HIDE DEF mark
  <1>6. /\ tx.root = [root EXCEPT ![r] = c] /\ tx.rows = rows /\ tx.indexed = indexed
        /\ tx.used = used \union {r} /\ tx.due = due
        /\ tx.member = [member EXCEPT ![p] = [member[p] EXCEPT ![r] = mark]]
    BY <1>3 DEF Begun, FoldersInv, TypeOK
  <1>15. tx = [Begun EXCEPT !.root[r] = c, !.used = @ \union {r}, !.member[p][r] = mark,
                           !.due = due]
    OBVIOUS
  <1> HIDE DEF tx, due
  <1>7. tx \in Tx
    <2>1. tx = [root |-> tx.root, used |-> tx.used, member |-> tx.member, rows |-> tx.rows,
                indexed |-> tx.indexed, due |-> tx.due, kept |-> tx.kept, ok |-> tx.ok]
          /\ tx.kept \subseteq Roots /\ tx.ok \in BOOLEAN
      BY <1>1, <1>15 DEF Tx
    <2>2. /\ tx.root \in [Roots -> Configs \union {None}] /\ tx.used \subseteq Roots
          /\ tx.due \subseteq Roots
          /\ tx.rows \in [Roots -> SUBSET Paths] /\ tx.indexed \in [Roots -> Configs \union {None}]
      BY <1>3, <1>5, <1>6 DEF FoldersInv, TypeOK
    <2>3. tx.member \in [Profiles -> [Roots -> Marks]]
      BY <1>3, <1>5, <1>6 DEF FoldersInv, TypeOK, Marks
    <2> QED
      BY <2>1, <2>2, <2>3 DEF Tx
  <1>8. ASSUME NEW x \in Roots, x # r, root[x] # None
        PROVE  root[x].path # c.path /\ ~Nested(root[x].path, c.path)
    BY <1>2, <1>3, <1>4, <1>8 DEF Overlaps, Configured, FoldersInv, FoldersAreApart
  <1>9. \A x, y \in Roots : x # y /\ tx.root[x] # None /\ tx.root[y] # None =>
          tx.root[x].path # tx.root[y].path /\ ~Nested(tx.root[x].path, tx.root[y].path)
    <2>1. \A x \in Roots : tx.root[x] = IF x = r THEN c ELSE root[x]
      BY <1>3, <1>6 DEF FoldersInv, TypeOK
    <2>2. ASSUME NEW x \in Roots, x # r, root[x] # None
          PROVE  c.path # root[x].path /\ ~Nested(c.path, root[x].path)
      BY <1>8, <2>2 DEF Nested
    <2>3. \A x, y \in Roots : x # y /\ root[x] # None /\ root[y] # None =>
            root[x].path # root[y].path /\ ~Nested(root[x].path, root[y].path)
      BY DEF FoldersInv, FoldersAreApart, Configured
    <2> QED
      BY <1>8, <2>1, <2>2, <2>3
  <1>10. \A x \in Roots : tx.root[x] # None <=> Owners(tx.member, x) # {}
    <2>1. CASE mark # "none"
      BY <2>1, <1>3, <1>5, <1>6 DEF FoldersInv, TypeOK, FoldersAreApart, Owners
    <2> QED
      BY <2>1 DEF mark
  <1>11. \A x \in Roots : IF tx.root[x] = None THEN tx.rows[x] = {} ELSE x \in tx.used
    BY <1>2, <1>3, <1>5, <1>6 DEF FoldersInv, TypeOK, Configured
  <1>12. \A q \in Profiles, x \in Roots : profile'[q] \notin {"on", "off"} => tx.member[q][x] = "none"
    BY <1>2, <1>3, <1>6 DEF FoldersInv, TypeOK, Exists
  <1>13. ASSUME NEW x \in Roots \ tx.due, tx.root[x] # None
         PROVE  (\E q \in Profiles : profile'[q] = "on" /\ tx.member[q][x] = "on") =>
                  /\ tx.root[x] = root[x] /\ tx.indexed[x] = indexed[x] /\ tx.rows[x] = rows[x]
                  /\ Active(x)
    <2>1. root[x] # None => tx.root[x] = root[x]
      BY <1>2, <1>3, <1>6 DEF FoldersInv, TypeOK
    <2>2. ASSUME NEW q \in Profiles, profile'[q] = "on", tx.member[q][x] = "on"
          PROVE  member[q][x] = "on"
      <3>1. ~(q = p /\ x = r)
        BY <2>2, <1>2, <1>3, <1>6, <1>13 DEF FoldersInv, TypeOK, mark, due
      <3> QED
        BY <3>1, <2>2, <1>3, <1>6 DEF FoldersInv, TypeOK
    <2>3. ASSUME NEW q \in Profiles, profile'[q] = "on", tx.member[q][x] = "on"
          PROVE  Active(x) /\ root[x] # None
      <3>1. q \in Owners(member, x)
        BY <2>2, <2>3 DEF Owners
      <3> QED
        BY <1>2, <2>2, <2>3, <3>1 DEF Active, FoldersInv, FoldersAreApart
    <2> QED
      BY <2>1, <2>3, <1>6
  <1>14. Sound(tx, profile')
    BY <1>7, <1>9, <1>10, <1>11, <1>12, <1>13 DEF Sound
  <1> QED
    BY <1>2, <1>14, CommitKeeps DEF FoldersInv, TypeOK

\* A folder that moves or changes its options is scanned again, and overlaps none.
LEMMA UpdateRootKeeps ==
  ASSUME FoldersInv, NEW p \in Profiles, NEW r \in Roots, NEW c \in Configs, NEW e \in BOOLEAN,
         UpdateRoot(p, r, c, e)
  PROVE  FoldersInv'
  <1> DEFINE mark == IF e THEN "on" ELSE "off"
             w == Moved(Begun, r, c)
             due == IF root[r] # c \/ (profile[p] = "on" /\ e /\ member[p][r] = "off")
                    THEN {r} ELSE {}
             tx == [w EXCEPT !.member[p][r] = mark, !.due = due]
  <1>1. /\ Exists(p) /\ member[p][r] # "none" /\ Commit(tx) /\ writes > 0
        /\ root[r] # c => Owners(member, r) = {p}
        /\ root[r].path # c.path => ~Overlaps(c.path, {r}) /\ ~PathTaken(Begun, c.path, r)
        /\ UNCHANGED <<profile, scan, sent, ledger, applied, forgotten, scans>>
    BY DEF UpdateRoot
  <1>2. Begun \in Tx /\ Begun.root = root /\ Begun.used = used /\ Begun.member = member
        /\ Begun.rows = rows /\ Begun.indexed = indexed
    BY BegunIs DEF Begun
  <1>3. p \in Owners(member, r) /\ root[r] # None /\ r \in used
    BY <1>1 DEF Owners, FoldersInv, FoldersAreApart, Configured
  <1>4. /\ w \in Tx /\ w.root = [root EXCEPT ![r] = c]
        /\ w.rows = [rows EXCEPT ![r] = IF root[r].path # c.path THEN {} ELSE rows[r]]
        /\ w.indexed = [indexed EXCEPT ![r] = IF root[r].path # c.path THEN None ELSE indexed[r]]
        /\ w.used = used /\ w.member = member
    <2>1. Goes(Begun, c, r) <=> root[r].path # c.path
      BY <1>2, <1>3 DEF Goes
    <2>2. /\ w \in Tx /\ w.root = [Begun.root EXCEPT ![r] = c]
          /\ w.rows = [Begun.rows EXCEPT ![r] = IF Goes(Begun, c, r) THEN {} ELSE Begun.rows[r]]
          /\ w.indexed =
               [Begun.indexed EXCEPT ![r] = IF Goes(Begun, c, r) THEN None ELSE Begun.indexed[r]]
          /\ w.used = Begun.used /\ w.member = Begun.member
      <3>1. Begun \in Tx
        BY <1>2
      <3> HIDE DEF mark, due, tx
      <3> QED
        BY <3>1, MovedIs
    <2> HIDE DEF w
    <2> QED
      BY <1>2, <2>1, <2>2
  <1>5. mark \in Marks \ {"none"} /\ due \subseteq Roots /\ c # None
        /\ tx = [w EXCEPT !.member[p][r] = mark, !.due = due]
    BY ConfigsTyped DEF Marks
  <1> HIDE DEF mark, w, due, tx
  <1>6. /\ tx.root = w.root /\ tx.rows = w.rows /\ tx.indexed = w.indexed /\ tx.used = used
        /\ tx.due = due /\ tx.member = [member EXCEPT ![p] = [member[p] EXCEPT ![r] = mark]]
    BY <1>4, <1>5 DEF FoldersInv, TypeOK, Tx
  <1>7. tx \in Tx
    <2>1. tx = [root |-> tx.root, used |-> tx.used, member |-> tx.member, rows |-> tx.rows,
                indexed |-> tx.indexed, due |-> tx.due, kept |-> tx.kept, ok |-> tx.ok]
          /\ tx.kept \subseteq Roots /\ tx.ok \in BOOLEAN
      BY <1>4, <1>5 DEF Tx
    <2>2. /\ tx.root \in [Roots -> Configs \union {None}] /\ tx.used \subseteq Roots
          /\ tx.due \subseteq Roots
          /\ tx.rows \in [Roots -> SUBSET Paths] /\ tx.indexed \in [Roots -> Configs \union {None}]
      BY <1>4, <1>5, <1>6 DEF Tx
    <2>3. tx.member \in [Profiles -> [Roots -> Marks]]
      <3>1. mark \in {"on", "off", "none"}
        BY DEF mark
      <3> QED
        BY <1>6, <3>1 DEF FoldersInv, TypeOK, Marks
    <2> QED
      BY <2>1, <2>2, <2>3 DEF Tx
  <1>8. /\ \A x \in Roots : tx.root[x] = IF x = r THEN c ELSE root[x]
        /\ \A x \in Roots : x # r => tx.rows[x] = rows[x] /\ tx.indexed[x] = indexed[x]
        /\ \A q \in Profiles, x \in Roots :
             tx.member[q][x] = IF q = p /\ x = r THEN mark ELSE member[q][x]
    BY <1>4, <1>6 DEF FoldersInv, TypeOK
  <1>9. ASSUME NEW x \in Roots, x # r, root[x] # None
        PROVE  root[x].path # c.path /\ ~Nested(root[x].path, c.path)
    BY <1>1, <1>2, <1>3, <1>9 DEF Overlaps, PathTaken, Configured, FoldersInv, FoldersAreApart
  <1>10. \A x, y \in Roots : x # y /\ tx.root[x] # None /\ tx.root[y] # None =>
          tx.root[x].path # tx.root[y].path /\ ~Nested(tx.root[x].path, tx.root[y].path)
    <2>1. ASSUME NEW x \in Roots, x # r, root[x] # None
          PROVE  c.path # root[x].path /\ ~Nested(c.path, root[x].path)
      BY <1>9, <2>1 DEF Nested
    <2>2. \A x, y \in Roots : x # y /\ root[x] # None /\ root[y] # None =>
            root[x].path # root[y].path /\ ~Nested(root[x].path, root[y].path)
      BY DEF FoldersInv, FoldersAreApart, Configured
    <2> QED
      BY <1>8, <1>9, <2>1, <2>2
  <1>11. \A x \in Roots : tx.root[x] # None <=> Owners(tx.member, x) # {}
    <2>1. \A x \in Roots : Owners(tx.member, x) = Owners(member, x)
      BY <1>1, <1>5, <1>8 DEF Owners
    <2> QED
      BY <1>3, <1>5, <1>8, <2>1 DEF FoldersInv, FoldersAreApart
  <1>12. \A x \in Roots : IF tx.root[x] = None THEN tx.rows[x] = {} ELSE x \in tx.used
    BY <1>3, <1>5, <1>6, <1>8 DEF FoldersInv, Configured
  <1>13. \A q \in Profiles, x \in Roots : profile'[q] \notin {"on", "off"} => tx.member[q][x] = "none"
    BY <1>1, <1>8 DEF FoldersInv, Exists
  <1>14. ASSUME NEW x \in Roots \ tx.due, tx.root[x] # None
         PROVE  (\E q \in Profiles : profile'[q] = "on" /\ tx.member[q][x] = "on") =>
                  /\ tx.root[x] = root[x] /\ tx.indexed[x] = indexed[x] /\ tx.rows[x] = rows[x]
                  /\ Active(x)
    <2>1. tx.root[x] = root[x]
      BY <1>6, <1>8, <1>14 DEF due
    <2>2. tx.indexed[x] = indexed[x] /\ tx.rows[x] = rows[x]
      BY <1>4, <1>6, <1>8, <2>1 DEF FoldersInv, TypeOK
    <2>3. ASSUME NEW q \in Profiles, profile'[q] = "on", tx.member[q][x] = "on"
          PROVE  member[q][x] = "on"
      BY <1>1, <1>6, <1>8, <1>14, <2>3 DEF due, mark, FoldersInv, TypeOK
    <2> QED
      BY <1>1, <2>1, <2>2, <2>3 DEF Active
  <1>15. Sound(tx, profile')
    BY <1>7, <1>10, <1>11, <1>12, <1>13, <1>14 DEF Sound
  <1> QED
    BY <1>1, <1>15, CommitKeeps DEF FoldersInv, TypeOK

(* The scans. *)

\* The steps of a scan keep the folders sound: one that was claimed has the request,
\* and acknowledges it only for the folder as it is configured.
LEMMA ScansKeep ==
  ASSUME FoldersInv
  PROVE  /\ \A r \in Roots : Rescan(r) => FoldersInv'
         /\ \A s \in Services, r \in Roots : ListRoot(s, r) => FoldersInv'
         /\ \A s \in Services :
              Claim(s) \/ ScanWrites(s) \/ ScanCompletes(s) \/ ScanStops(s) => FoldersInv'
  <1> USE DEF FoldersInv, catalog, saves
  <1>1. ASSUME NEW r \in Roots, Active(r) PROVE root[r] \in Configs
    <2>1. Owners(member, r) # {}
      BY <1>1 DEF Active, Owners
    <2> QED
      BY <2>1 DEF TypeOK, FoldersAreApart
  <1>2. ASSUME NEW r \in Roots, Rescan(r) PROVE FoldersInv'
    <2>1. TypeOK'
      BY <1>2 DEF Rescan, TypeOK
    <2>2. ChangesAreScanned'
      BY <1>2 DEF Rescan, TypeOK, ChangesAreScanned, Active
    <2>3. root[r] # None
      BY <1>1, <1>2, ConfigsTyped DEF Rescan
    <2>4. \A x \in Roots : root'[x] = None => rows'[x] = {} /\ request'[x] = "idle"
      BY <1>2, <2>3 DEF Rescan, TypeOK
    <2> QED
      BY <1>2, <2>1, <2>2, <2>4 DEF Rescan, FoldersAreApart, Configured, Exists
  <1>3. ASSUME NEW s \in Services, NEW r \in Roots, ListRoot(s, r) PROVE FoldersInv'
    <2>1. root[r] \in Configs
      BY <1>1, <1>3 DEF ListRoot
    <2>2. TypeOK'
      BY <1>3, <2>1, RootBounds DEF ListRoot, TypeOK
    <2> QED
      BY <1>3, <2>2 DEF ListRoot, FoldersAreApart, Configured, Exists, ChangesAreScanned, Active
  <1>4. ASSUME NEW s \in Services, ScanStops(s) PROVE FoldersInv'
    <2>1. TypeOK'
      BY <1>4 DEF ScanStops, TypeOK
    <2> QED
      BY <1>4, <2>1 DEF ScanStops, FoldersAreApart, Configured, Exists, ChangesAreScanned, Active
  <1>5. ASSUME NEW s \in Services, scan[s] # None
        PROVE  /\ scan[s] \in [root : Roots, config : Configs, claimed : BOOLEAN]
               /\ scan[s].root \in Roots /\ scan[s].config \in Configs
               /\ scan[s].config.path \in Paths
               /\ s \notin {"idle", "open"}
    <2>1. scan[s] \in [root : Roots, config : Configs, claimed : BOOLEAN]
      BY <1>5 DEF TypeOK
    <2> QED
      BY <2>1, ConfigsTyped, RootBounds
  <1>6. ASSUME NEW s \in Services, Claim(s) PROVE FoldersInv'
    <2> DEFINE r == scan[s].root
    <2>1. scan[s] # None /\ request[r] # "idle"
          /\ scan' = [scan EXCEPT ![s] = [scan[s] EXCEPT !.claimed = TRUE]]
          /\ request' = [request EXCEPT ![r] = s]
          /\ UNCHANGED <<profile, root, used, member, rows, indexed, saves, writes, scans>>
      BY <1>6 DEF Claim
    <2>2. r \in Roots /\ s \notin {"idle", "open"}
      BY <1>5, <2>1
    <2>3. [scan[s] EXCEPT !.claimed = TRUE] \in [root : Roots, config : Configs, claimed : BOOLEAN]
      <3>1. ASSUME NEW x \in [root : Roots, config : Configs, claimed : BOOLEAN], NEW b \in BOOLEAN
            PROVE  [x EXCEPT !.claimed = b] \in [root : Roots, config : Configs, claimed : BOOLEAN]
        OBVIOUS
      <3> QED
        BY <1>5, <2>1, <3>1
    <2> HIDE DEF r
    <2>4. TypeOK'
      BY <2>1, <2>2, <2>3 DEF TypeOK
    <2>5. \A x \in Roots : request'[x] = IF x = r THEN s ELSE request[x]
      BY <2>1, <2>2 DEF TypeOK
    <2>6. ChangesAreScanned'
      BY <2>1, <2>2, <2>5 DEF ChangesAreScanned, Active
    <2>7. \A x \in Roots : root'[x] = None => rows'[x] = {} /\ request'[x] = "idle"
      BY <2>1, <2>5
    <2> QED
      BY <2>1, <2>4, <2>6, <2>7 DEF FoldersAreApart, Configured, Exists
  <1>7. ASSUME NEW s \in Services, ScanWrites(s) PROVE FoldersInv'
    <2> DEFINE r == scan[s].root
    <2>1. r \in Roots /\ scan[s].config.path \in Paths /\ request[r] # "idle" /\ root[r] # None
      BY <1>5, <1>7 DEF ScanWrites, Fenced
    <2>2. /\ rows' = [rows EXCEPT ![r] = rows[r] \union {scan[s].config.path}]
          /\ UNCHANGED <<profile, root, used, member, request, indexed, scan, saves, writes, scans>>
      BY <1>7 DEF ScanWrites
    <2> HIDE DEF r
    <2>3. TypeOK'
      BY <2>1, <2>2 DEF TypeOK
    <2>4. \A x \in Roots : x # r => rows'[x] = rows[x]
      BY <2>2 DEF TypeOK
    <2>5. ChangesAreScanned' /\ \A x \in Roots : root'[x] = None => rows'[x] = {} /\ request'[x] = "idle"
      BY <2>1, <2>2, <2>4 DEF ChangesAreScanned, Active
    <2> QED
      BY <2>2, <2>3, <2>5 DEF FoldersAreApart, Configured, Exists
  <1>8. ASSUME NEW s \in Services, ScanCompletes(s) PROVE FoldersInv'
    <2> DEFINE r == scan[s].root
               c == scan[s].config
    <2>1. r \in Roots /\ c.path \in Paths /\ c \in Configs /\ request[r] # "idle" /\ root[r] # None
      BY <1>5, <1>8 DEF ScanCompletes, Fenced
    <2>2. /\ rows' = [rows EXCEPT ![r] = {c.path}]
          /\ \/ /\ Active(r) => c = root[r]
                /\ indexed' = [indexed EXCEPT ![r] = c]
                /\ request' = [request EXCEPT ![r] = "idle"]
             \/ request' = [request EXCEPT ![r] = "open"] /\ indexed' = indexed
          /\ scan' = [scan EXCEPT ![s] = None]
          /\ UNCHANGED <<profile, root, used, member, saves, writes, scans>>
      BY <1>8 DEF ScanCompletes, SameConfiguration
    <2> HIDE DEF r, c
    <2>3. TypeOK'
      BY <2>1, <2>2 DEF TypeOK
    <2>4. \A x \in Roots : x # r => rows'[x] = rows[x] /\ indexed'[x] = indexed[x]
                                  /\ request'[x] = request[x]
      BY <2>2 DEF TypeOK
    <2>5. ASSUME Active(r), request'[r] = "idle" PROVE rows'[r] = {root[r].path} /\ indexed'[r] = root[r]
      BY <2>1, <2>2, <2>5 DEF TypeOK
    <2>6. ChangesAreScanned' /\ \A x \in Roots : root'[x] = None => rows'[x] = {} /\ request'[x] = "idle"
      BY <2>1, <2>2, <2>4, <2>5 DEF ChangesAreScanned, Active
    <2> QED
      BY <2>2, <2>3, <2>6 DEF FoldersAreApart, Configured, Exists
  <1> QED
    BY <1>2, <1>3, <1>4, <1>6, <1>7, <1>8

(* A whole configuration. *)

\* What an input of the save made of its folder.
Holds(tx, p, save, in, r) ==
  /\ tx.root[r] = ConfigOf(in) /\ tx.member[p][r] = MarkOf(in)
  /\ r \notin tx.due =>
       /\ root[r] # None =>
            root[r] = tx.root[r] /\ tx.indexed[r] = indexed[r] /\ tx.rows[r] = rows[r]
       /\ save.enabled /\ in.enabled =>
            profile[p] # "off" /\ root[r] # None /\ member[p][r] = "on"
Untouched(tx, p, r) ==
  /\ tx.root[r] = root[r] /\ tx.rows[r] = rows[r] /\ tx.indexed[r] = indexed[r]
  /\ tx.member[p][r] = member[p][r] /\ r \notin tx.due
DistinctPaths(tx) ==
  \A r, x \in Roots : r # x /\ tx.root[r] # None /\ tx.root[x] # None =>
    tx.root[r].path # tx.root[x].path

\* A transaction in which the inputs ins have been taken.
Half(tx, p, save, ins) ==
  /\ tx \in Tx /\ DistinctPaths(tx)
  /\ \A q \in Profiles \ {p} : tx.member[q] = member[q]
  /\ \A r \in Roots \ tx.kept : Untouched(tx, p, r)
  /\ \A r \in tx.kept : \E in \in ins : Holds(tx, p, save, in, r)
  /\ \A in \in ins : /\ \E r \in tx.kept : Holds(tx, p, save, in, r)
                     /\ in.id # None => in.id \in tx.kept
  /\ Configured \subseteq tx.used /\ tx.kept \subseteq tx.used

\* A transaction begins with no input taken.
LEMMA BegunIsHalf ==
  ASSUME FoldersInv, NEW p \in Profiles, NEW save
  PROVE  Half(Begun, p, save, {})
  <1>1. Begun \in Tx
    BY BegunIs
  <1>2. /\ Begun.root = root /\ Begun.member = member /\ Begun.rows = rows /\ Begun.used = used
        /\ Begun.indexed = indexed /\ Begun.kept = {} /\ Begun.due = {}
    BY DEF Begun
  <1> QED
    BY <1>1, <1>2 DEF Half, Untouched, DistinctPaths, FoldersInv, FoldersAreApart, Configured

\* Taking an input for a folder that no earlier input was about keeps what the
\* earlier ones made of theirs.
LEMMA TakeKeepsHalf ==
  ASSUME FoldersInv, NEW p \in Profiles, NEW save, NEW tx, NEW t \in Tx, NEW ins, Half(tx, p, save, ins),
         NEW in \in Ask, NEW r \in Roots \ tx.kept,
         Root(tx, in, r), Allowed(tx, p, in, r), Takes(t, tx, p, save, in, r)
  PROVE  Half(t, p, save, ins \union {in})
  <1>1. tx \in Tx /\ Untouched(tx, p, r)
    BY DEF Half
  <1>2. /\ \A x \in Roots : t.root[x] = IF x = r THEN ConfigOf(in) ELSE tx.root[x]
        /\ \A x \in Roots : x # r => t.rows[x] = tx.rows[x] /\ t.indexed[x] = tx.indexed[x]
                                     /\ (x \in t.due <=> x \in tx.due)
        /\ t.rows[r] = IF Goes(tx, in, r) THEN {} ELSE rows[r]
        /\ t.indexed[r] = IF Goes(tx, in, r) THEN None ELSE indexed[r]
    BY <1>1 DEF Takes, Tx, Untouched
  <1>3. /\ \A q \in Profiles \ {p} : t.member[q] = member[q]
        /\ \A x \in Roots : t.member[p][x] = IF x = r THEN MarkOf(in) ELSE tx.member[p][x]
    BY <1>1 DEF Takes, Tx, Half
  <1>4. t.kept = tx.kept \union {r} /\ t.used = tx.used \union {r}
        /\ (r \in t.due <=> Due(tx, p, save, in, r))
    BY <1>1 DEF Takes, Untouched
  <1>5. ConfigOf(in).path = in.path /\ ConfigOf(in) # None
    BY ConfigsTyped
  <1>6. ASSUME NEW x \in Roots, x # r, tx.root[x] # None
        PROVE  tx.root[x].path # in.path
    <2>1. CASE tx.root[r] = None
      <3>1. in.id = None
        BY <1>1, <2>1 DEF Allowed, Root, Untouched, FoldersInv, FoldersAreApart, Owners
      <3> QED
        BY <1>6, <2>1, <3>1 DEF Root
    <2>2. CASE Changes(tx, in, r)
      BY <1>6, <2>2 DEF Allowed
    <2>3. CASE tx.root[r] # None /\ tx.root[r] = ConfigOf(in)
      BY <1>5, <1>6, <2>3 DEF Half, DistinctPaths
    <2> QED
      BY <2>1, <2>2, <2>3 DEF Changes
  <1>7. DistinctPaths(t)
    BY <1>2, <1>5, <1>6 DEF DistinctPaths, Half
  <1>8. Holds(t, p, save, in, r)
    <2>1. ASSUME r \notin t.due
          PROVE  /\ root[r] # None =>
                      root[r] = t.root[r] /\ t.indexed[r] = indexed[r] /\ t.rows[r] = rows[r]
                 /\ save.enabled /\ in.enabled =>
                      profile[p] # "off" /\ root[r] # None /\ member[p][r] = "on"
      BY <1>1, <1>2, <1>4, <1>5, <2>1 DEF Due, Changes, Goes, Untouched
    <2> QED
      BY <1>2, <1>3, <2>1 DEF Holds
  <1>9. ASSUME NEW x \in Roots \ t.kept PROVE Untouched(t, p, x)
    BY <1>2, <1>3, <1>4, <1>9 DEF Untouched, Half
  <1>10. ASSUME NEW x \in tx.kept, NEW i, Holds(tx, p, save, i, x)
         PROVE  Holds(t, p, save, i, x)
    BY <1>1, <1>2, <1>3, <1>10 DEF Holds, Tx
  <1>11. \A x \in t.kept : \E i \in ins \union {in} : Holds(t, p, save, i, x)
    BY <1>4, <1>8, <1>10 DEF Half
  <1>12. ASSUME NEW i \in ins \union {in}
         PROVE  /\ \E x \in t.kept : Holds(t, p, save, i, x)
                /\ i.id # None => i.id \in t.kept
    BY <1>4, <1>8, <1>10 DEF Half, Root
  <1>13. Configured \subseteq t.used /\ t.kept \subseteq t.used
    BY <1>4 DEF Half
  <1> QED
    BY <1>3, <1>7, <1>9, <1>11, <1>12, <1>13 DEF Half

\* A draft of at most two folders that are separate is taken in full.
LEMMA TakenIsHalf ==
  ASSUME FoldersInv, NEW p \in Profiles, NEW m, SaveOK(m), Taken(p, m.save).ok
  PROVE  Half(Taken(p, m.save), p, m.save, ToSet(m.save.roots))
  <1> DEFINE save == m.save
             list == m.save.roots
             one == TakeRoot(Begun, p, save, list[1])
  <1>1. list \in Seq(Ask) /\ Len(list) \in {0, 1, 2} /\ Separate(list)
    <2>1. list \in Seq(Ask) /\ Len(list) <= 2 /\ Separate(list)
      BY DEF SaveOK
    <2>2. Len(list) \in Nat /\ Len(list) <= 2
      BY <2>1
    <2> HIDE DEF list
    <2>3. \A n \in Nat : n <= 2 => n \in {0, 1, 2}
      OBVIOUS
    <2> QED
      BY <2>1, <2>2, <2>3
  <1>2. Begun \in Tx /\ Half(Begun, p, save, {}) /\ Begun.kept = {}
    BY BegunIs, BegunIsHalf DEF Begun
  <1>3. CASE Len(list) = 0
    BY <1>1, <1>2, <1>3 DEF Taken, ToSet
  <1>4. ASSUME Len(list) # 0, one.ok
        PROVE  \E r \in Roots : /\ Half(one, p, save, {list[1]}) /\ one \in Tx
                                /\ one.kept = {r} /\ r \in one.used
                                /\ list[1].id # None => r = list[1].id
                                /\ one.root[r].path = list[1].path /\ one.root[r] # None
    <2>1. list[1] \in Ask
      BY <1>1, <1>4
    <2>2. PICK r \in Roots : /\ Root(Begun, list[1], r) /\ Allowed(Begun, p, list[1], r)
                             /\ one \in Tx /\ Takes(one, Begun, p, save, list[1], r)
      BY <1>2, <1>4, <2>1, TakeIs
    <2> HIDE DEF one, list, save
    <2>3. Half(one, p, save, {} \union {list[1]})
      BY <1>2, <2>1, <2>2, TakeKeepsHalf
    <2>4. one.kept = {r} /\ r \in one.used /\ (list[1].id # None => r = list[1].id)
      BY <1>2, <2>2 DEF Takes, Root
    <2>5. one.root[r] = ConfigOf(list[1])
      BY <1>2, <2>2 DEF Takes, Tx
    <2>6. one.root[r].path = list[1].path /\ one.root[r] # None
      BY <2>1, <2>5, ConfigsTyped
    <2> QED
      BY <2>2, <2>3, <2>4, <2>6
  <1>5. CASE Len(list) = 1
    <2>1. Taken(p, save) = one
      BY <1>5 DEF Taken
    <2>2. ToSet(list) = {list[1]}
      BY <1>1, <1>5 DEF ToSet
    <2> QED
      BY <1>4, <1>5, <2>1, <2>2
  <1>6. CASE Len(list) = 2
    <2> DEFINE two == TakeRoot(one, p, save, list[2])
    <2>1. Taken(p, save) = two
      BY <1>6 DEF Taken
    <2>2. list[1] \in Ask /\ list[2] \in Ask /\ ToSet(list) = {list[1]} \union {list[2]}
      BY <1>1, <1>6 DEF ToSet
    <2>3. list[1].path # list[2].path
          /\ (list[2].id # None => list[1].id \notin {None, list[2].id})
      BY <1>1, <1>6 DEF Separate
    <2>4. one.ok
      <3>1. one \in Tx
        BY <1>2, <2>2, TakeTyped
      <3> QED
        BY <2>1, <2>2, <3>1, TakeIs
    <2>5. PICK r \in Roots : /\ Half(one, p, save, {list[1]}) /\ one \in Tx
                             /\ one.kept = {r} /\ r \in one.used
                             /\ list[1].id # None => r = list[1].id
                             /\ one.root[r].path = list[1].path /\ one.root[r] # None
      <3>1. Len(list) # 0
        BY <1>6
      <3> QED
        BY <1>4, <2>4, <3>1
    <2> HIDE DEF one
    <2>6. PICK x \in Roots : /\ Root(one, list[2], x) /\ Allowed(one, p, list[2], x)
                             /\ two \in Tx /\ Takes(two, one, p, save, list[2], x)
      BY <2>1, <2>2, <2>5, TakeIs
    <2>7. x # r
      BY <2>3, <2>5, <2>6 DEF Root
    <2> HIDE DEF two, list, save
    <2>8. Half(two, p, save, {list[1]} \union {list[2]})
      BY <2>2, <2>5, <2>6, <2>7, TakeKeepsHalf
    <2> QED
      BY <2>1, <2>2, <2>8 DEF list, save
  <1> QED
    BY <1>1, <1>3, <1>5, <1>6

\* What is left of the transaction once the folders that were not named are
\* taken out of the library.
LEMMA DroppedIs ==
  ASSUME NEW tx \in Tx, NEW p \in Profiles
  PROVE  /\ Dropped(tx, p) \in Tx
         /\ \A f \in {"used", "due", "kept", "ok"} : Dropped(tx, p)[f] = tx[f]
         /\ \A r \in Roots :
              /\ Dropped(tx, p).member[p][r] = IF r \in tx.kept THEN tx.member[p][r] ELSE "none"
              /\ IF tx.root[r] # None /\ Owners(Dropped(tx, p).member, r) = {}
                 THEN /\ Dropped(tx, p).root[r] = None /\ Dropped(tx, p).rows[r] = {}
                      /\ Dropped(tx, p).indexed[r] = None
                 ELSE /\ Dropped(tx, p).root[r] = tx.root[r] /\ Dropped(tx, p).rows[r] = tx.rows[r]
                      /\ Dropped(tx, p).indexed[r] = tx.indexed[r]
         /\ \A q \in Profiles \ {p} : Dropped(tx, p).member[q] = tx.member[q]
  <1> DEFINE left == [r \in Roots |-> IF r \in tx.kept THEN tx.member[p][r] ELSE "none"]
             cut == [tx EXCEPT !.member = [tx.member EXCEPT ![p] = left]]
  <1>1. left \in [Roots -> Marks]
    BY DEF Tx, Marks
  <1>2. Dropped(tx, p) = Swept(cut)
    BY DEF Dropped
  <1>3. \A r \in Roots : left[r] = IF r \in tx.kept THEN tx.member[p][r] ELSE "none"
    OBVIOUS
  <1> HIDE DEF left
  <1>4. cut \in Tx
    BY <1>1 DEF Tx
  <1>5. /\ cut.root = tx.root /\ cut.used = tx.used /\ cut.rows = tx.rows /\ cut.indexed = tx.indexed
        /\ cut.due = tx.due /\ cut.kept = tx.kept /\ cut.ok = tx.ok
        /\ cut.member = [tx.member EXCEPT ![p] = left]
    BY DEF Tx
  <1> HIDE DEF cut
  <1>6. /\ Swept(cut) \in Tx
        /\ Swept(cut).used = cut.used /\ Swept(cut).due = cut.due /\ Swept(cut).kept = cut.kept
        /\ Swept(cut).ok = cut.ok /\ Swept(cut).member = cut.member
        /\ \A r \in Roots :
              IF cut.root[r] # None /\ Owners(cut.member, r) = {}
              THEN Swept(cut).root[r] = None /\ Swept(cut).rows[r] = {} /\ Swept(cut).indexed[r] = None
              ELSE Swept(cut).root[r] = cut.root[r] /\ Swept(cut).rows[r] = cut.rows[r]
                   /\ Swept(cut).indexed[r] = cut.indexed[r]
    BY <1>4, SweptIs
  <1>7. /\ cut.member[p] = left
        /\ \A q \in Profiles \ {p} : cut.member[q] = tx.member[q]
    BY <1>5 DEF Tx
  <1> QED
    BY <1>2, <1>3, <1>5, <1>6, <1>7

\* The libraries after a save.
Turned(p, save) == [profile EXCEPT ![p] = IF save.enabled THEN "on" ELSE "off"]
\* The guard of a save that concerns paths.
Clear(p, save, list) ==
  /\ \A in \in ToSet(list) : ~Overlaps(in.path, {in.id} \union
                              (IF save.profile = None THEN {} ELSE Removable(p)))
  /\ \A in, i \in ToSet(list) : in # i => in.path # i.path /\ ~Nested(in.path, i.path)

\* What a save leaves is sound: the folders it names are apart from each other by
\* Separate, and from those that stay by the check for overlaps.
LEMMA SaveIsSound ==
  ASSUME FoldersInv, NEW p \in Profiles, NEW save, NEW list, NEW tx,
         Half(tx, p, save, ToSet(list)), Clear(p, save, list), save.enabled \in BOOLEAN,
         ToSet(list) \subseteq Ask
  PROVE  Sound(Dropped(tx, p), Turned(p, save))
  <1> DEFINE t == Dropped(tx, p)
  <1>1. tx \in Tx
    BY DEF Half
  <1>2. /\ t \in Tx /\ t.used = tx.used /\ t.due = tx.due /\ t.kept = tx.kept
        /\ \A r \in Roots :
              /\ t.member[p][r] = IF r \in tx.kept THEN tx.member[p][r] ELSE "none"
              /\ IF tx.root[r] # None /\ Owners(t.member, r) = {}
                 THEN t.root[r] = None /\ t.rows[r] = {} /\ t.indexed[r] = None
                 ELSE t.root[r] = tx.root[r] /\ t.rows[r] = tx.rows[r] /\ t.indexed[r] = tx.indexed[r]
        /\ \A q \in Profiles \ {p} : t.member[q] = member[q]
    <2>1. /\ t \in Tx /\ \A f \in {"used", "due", "kept", "ok"} : t[f] = tx[f]
          /\ \A r \in Roots :
              /\ t.member[p][r] = IF r \in tx.kept THEN tx.member[p][r] ELSE "none"
              /\ IF tx.root[r] # None /\ Owners(t.member, r) = {}
                 THEN t.root[r] = None /\ t.rows[r] = {} /\ t.indexed[r] = None
                 ELSE t.root[r] = tx.root[r] /\ t.rows[r] = tx.rows[r] /\ t.indexed[r] = tx.indexed[r]
          /\ \A q \in Profiles \ {p} : t.member[q] = tx.member[q]
      BY <1>1, DroppedIs
    <2>2. \A q \in Profiles \ {p} : tx.member[q] = member[q]
      BY DEF Half
    <2> HIDE DEF t
    <2> QED
      BY <2>1, <2>2
  <1> HIDE DEF t
  <1>3. ASSUME NEW r \in tx.kept
        PROVE  /\ r \in Roots /\ t.root[r] = tx.root[r] /\ t.rows[r] = tx.rows[r]
               /\ t.indexed[r] = tx.indexed[r] /\ t.member[p][r] = tx.member[p][r]
               /\ Owners(t.member, r) # {} /\ t.root[r] # None
               /\ \E in \in ToSet(list) : Holds(tx, p, save, in, r)
    <2>1. PICK in \in ToSet(list) : Holds(tx, p, save, in, r)
      BY DEF Half
    <2>2. r \in Roots /\ tx.root[r] # None /\ tx.member[p][r] # "none"
      BY <1>1, <2>1, ConfigsTyped DEF Holds, MarkOf, Tx
    <2>3. p \in Owners(t.member, r)
      BY <1>2, <2>2 DEF Owners
    <2> QED
      BY <1>2, <2>1, <2>2, <2>3
  <1>4. ASSUME NEW r \in Roots \ tx.kept, t.root[r] # None
        PROVE  /\ t.root[r] = root[r] /\ t.rows[r] = rows[r] /\ t.indexed[r] = indexed[r]
               /\ r \notin Removable(p) /\ Owners(t.member, r) # {} /\ root[r] # None
               /\ t.member[p][r] = "none"
    <2>1. tx.root[r] = root[r] /\ tx.rows[r] = rows[r] /\ tx.indexed[r] = indexed[r]
      BY DEF Half, Untouched
    <2>2. Owners(t.member, r) # {} /\ t.member[p][r] = "none"
      BY <1>2, <1>4
    <2>3. PICK q \in Profiles : t.member[q][r] # "none"
      BY <2>2 DEF Owners
    <2>4. q # p /\ member[q][r] # "none"
      BY <1>2, <2>2, <2>3
    <2>5. r \notin Removable(p)
      BY <2>4 DEF Removable, Owners
    <2> QED
      BY <1>2, <1>4, <2>1, <2>2, <2>5
  <1>5. ASSUME NEW r \in tx.kept, NEW x \in Roots \ tx.kept, t.root[x] # None
        PROVE  /\ t.root[r].path # t.root[x].path /\ ~Nested(t.root[x].path, t.root[r].path)
    <2>1. PICK in \in ToSet(list) : Holds(tx, p, save, in, r)
      BY <1>3
    <2>2. in \in Ask /\ t.root[r].path = in.path
      BY <1>3, <2>1, ConfigsTyped DEF Holds
    <2>3. x # in.id
      BY <2>1, RootBounds DEF Half
    <2>4. ~Nested(root[x].path, in.path)
      BY <1>4, <1>5, <2>3 DEF Clear, Overlaps, Configured
    <2>5. tx.root[r] # None /\ tx.root[x] # None /\ t.root[x] = tx.root[x] /\ t.root[r] = tx.root[r]
      BY <1>2, <1>3, <1>5
    <2>6. r # x /\ r \in Roots
      BY <1>3
    <2>7. tx.root[r].path # tx.root[x].path
      BY <2>5, <2>6 DEF Half, DistinctPaths
    <2> QED
      BY <1>4, <1>5, <2>2, <2>4, <2>5, <2>7
  <1>6. ASSUME NEW r \in tx.kept, NEW x \in tx.kept, r # x
        PROVE  t.root[r].path # t.root[x].path /\ ~Nested(t.root[r].path, t.root[x].path)
    <2>1. PICK in \in ToSet(list) : Holds(tx, p, save, in, r)
      BY <1>3
    <2>2. PICK i \in ToSet(list) : Holds(tx, p, save, i, x)
      BY <1>3
    <2>3. t.root[r].path = in.path /\ t.root[x].path = i.path
      BY <1>3, <2>1, <2>2, ConfigsTyped DEF Holds
    <2>4. /\ r \in Roots /\ t.root[r] = tx.root[r] /\ t.root[r] # None
          /\ x \in Roots /\ t.root[x] = tx.root[x] /\ t.root[x] # None
      BY <1>3
    <2>5. t.root[r].path # t.root[x].path
      BY <1>6, <2>4 DEF Half, DistinctPaths
    <2> QED
      BY <2>3, <2>5 DEF Clear
  <1>7. ASSUME NEW r \in Roots, NEW x \in Roots, r # x, t.root[r] # None, t.root[x] # None
        PROVE  t.root[r].path # t.root[x].path /\ ~Nested(t.root[r].path, t.root[x].path)
    <2>1. CASE r \notin tx.kept /\ x \notin tx.kept
      BY <1>4, <1>7, <2>1 DEF FoldersInv, FoldersAreApart, Configured
    <2>2. CASE r \in tx.kept /\ x \notin tx.kept
      BY <1>5, <1>7, <2>2 DEF Nested
    <2>3. CASE r \notin tx.kept /\ x \in tx.kept
      BY <1>5, <1>7, <2>3 DEF Nested
    <2>4. CASE r \in tx.kept /\ x \in tx.kept
      BY <1>6, <1>7, <2>4
    <2> QED
      BY <2>1, <2>2, <2>3, <2>4
  <1>8. ASSUME NEW r \in Roots PROVE t.root[r] # None <=> Owners(t.member, r) # {}
    <2>1. CASE r \in tx.kept
      BY <1>3, <2>1
    <2>2. ASSUME r \notin tx.kept, Owners(t.member, r) # {} PROVE t.root[r] # None
      <3>1. PICK q \in Profiles : t.member[q][r] # "none"
        BY <2>2 DEF Owners
      <3>2. q \in Owners(member, r)
        BY <1>2, <2>2, <3>1 DEF Owners
      <3>3. root[r] # None
        BY <3>2 DEF FoldersInv, FoldersAreApart
      <3>4. tx.root[r] = root[r]
        BY <2>2 DEF Half, Untouched
      <3> QED
        BY <1>2, <2>2, <3>3, <3>4
    <2> QED
      BY <1>4, <2>1, <2>2
  <1>9. ASSUME NEW r \in Roots
        PROVE  IF t.root[r] = None THEN t.rows[r] = {} ELSE r \in t.used
    <2>1. CASE r \in tx.kept
      BY <1>2, <1>3, <2>1 DEF Half
    <2>2. CASE r \notin tx.kept /\ t.root[r] # None
      BY <1>2, <1>4, <2>2 DEF Half, Configured
    <2>3. CASE r \notin tx.kept /\ t.root[r] = None
      BY <1>2, <2>3 DEF FoldersInv, Half, Untouched
    <2> QED
      BY <2>1, <2>2, <2>3
  <1>10. ASSUME NEW q \in Profiles, NEW r \in Roots, Turned(p, save)[q] \notin {"on", "off"}
         PROVE  t.member[q][r] = "none"
    BY <1>2, <1>10 DEF Turned, FoldersInv, TypeOK, Exists
  <1>11. ASSUME NEW r \in Roots \ t.due, t.root[r] # None
         PROVE  (\E q \in Profiles : Turned(p, save)[q] = "on" /\ t.member[q][r] = "on") =>
                  /\ t.root[r] = root[r] /\ t.indexed[r] = indexed[r] /\ t.rows[r] = rows[r]
                  /\ Active(r)
    <2>1. CASE r \in tx.kept
      <3>1. PICK in \in ToSet(list) : Holds(tx, p, save, in, r)
        BY <1>3, <2>1
      <3>2. root[r] # None =>
              t.root[r] = root[r] /\ t.indexed[r] = indexed[r] /\ t.rows[r] = rows[r]
        BY <1>2, <1>3, <1>11, <2>1, <3>1 DEF Holds
      <3>3. ASSUME NEW q \in Profiles, Turned(p, save)[q] = "on", t.member[q][r] = "on"
            PROVE  Active(r) /\ root[r] # None
        <4>1. CASE q = p
          <5>1. save.enabled /\ in.enabled
            BY <1>3, <2>1, <3>1, <3>3, <4>1 DEF Turned, Holds, MarkOf, FoldersInv, TypeOK
          <5>2. profile[p] # "off" /\ root[r] # None /\ member[p][r] = "on"
            BY <1>2, <1>11, <3>1, <5>1 DEF Holds
          <5> QED
            BY <5>2 DEF FoldersInv, TypeOK, Exists, Active
        <4>2. CASE q # p
          <5>1. profile[q] = "on" /\ member[q][r] = "on"
            BY <1>2, <3>3, <4>2 DEF Turned, FoldersInv, TypeOK
          <5>2. q \in Owners(member, r)
            BY <5>1 DEF Owners
          <5> QED
            BY <5>1, <5>2 DEF Active, FoldersInv, FoldersAreApart
        <4> QED
          BY <4>1, <4>2
      <3> QED
        BY <3>2, <3>3
    <2>2. CASE r \notin tx.kept
      <3>1. ASSUME NEW q \in Profiles, Turned(p, save)[q] = "on", t.member[q][r] = "on"
            PROVE  Active(r)
        <4>1. q # p
          BY <1>4, <1>11, <2>2, <3>1
        <4> QED
          BY <1>2, <3>1, <4>1 DEF Turned, FoldersInv, TypeOK, Active
      <3> QED
        BY <1>4, <1>11, <2>2, <3>1
    <2> QED
      BY <2>1, <2>2
  <1> QED
    BY <1>2, <1>7, <1>8, <1>9, <1>10, <1>11 DEF Sound, t

\* The transaction of a save is typed, taken in full or refused.
LEMMA TakenTyped ==
  ASSUME FoldersInv, NEW p \in Profiles, NEW m, SaveOK(m)
  PROVE  Taken(p, m.save) \in Tx
  <1> DEFINE save == m.save
             list == m.save.roots
             one == TakeRoot(Begun, p, save, list[1])
             two == TakeRoot(one, p, save, list[2])
  <1>1. list \in Seq(Ask) /\ Len(list) <= 2
    BY DEF SaveOK
  <1>2. Begun \in Tx
    BY BegunIs
  <1>3. Len(list) # 0 => list[1] \in Ask
    BY <1>1
  <1>4. Len(list) # 0 => one \in Tx
    BY <1>2, <1>3, TakeTyped
  <1>5. Len(list) \notin {0, 1} => list[2] \in Ask
    <2>1. \A n \in Nat : n \notin {0, 1} => 2 \in 1..n
      OBVIOUS
    <2>2. Len(list) \in Nat /\ \A i \in 1..Len(list) : list[i] \in Ask
      BY <1>1
    <2> QED
      BY <2>1, <2>2
  <1>6. Len(list) \notin {0, 1} => two \in Tx
    BY <1>4, <1>5, TakeTyped
  <1>7. Taken(p, save) = IF Len(list) = 0 THEN Begun ELSE IF Len(list) = 1 THEN one ELSE two
    BY DEF Taken
  <1> HIDE DEF one, two
  <1> QED
    BY <1>2, <1>4, <1>6, <1>7

\* What a save that is applied does to the catalog.
LEMMA ApplyIs ==
  ASSUME FoldersInv, NEW p \in Profiles, NEW m, SaveOK(m), Apply(m, p)
  PROVE  LET tx == Taken(p, m.save)
         IN /\ tx \in Tx /\ Half(tx, p, m.save, ToSet(m.save.roots))
            /\ Sound(Dropped(tx, p), profile') /\ Commit(Dropped(tx, p))
            /\ profile' = Turned(p, m.save) /\ ToSet(m.save.roots) \subseteq Ask
  <1> DEFINE save == m.save
             list == m.save.roots
             tx == Taken(p, save)
  <1>1. /\ Commit(Dropped(tx, p)) /\ profile' = Turned(p, save)
        /\ \A i \in 1..Len(list) : ~Overlaps(list[i].path, {list[i].id} \union
                                 (IF save.profile = None THEN {} ELSE Removable(p)))
    BY DEF Apply, Turned
  <1>2. list \in Seq(Ask) /\ Separate(list) /\ save.enabled \in BOOLEAN
    BY DEF SaveOK
  <1>3. tx \in Tx
    BY TakenTyped
  <1>4. Dropped(tx, p).ok /\ Dropped(tx, p).ok = tx.ok
    BY <1>1, <1>3, DroppedIs DEF Commit
  <1>5. Half(tx, p, save, ToSet(list))
    BY <1>4, TakenIsHalf
  <1> HIDE DEF tx, list, save
  <1>6. /\ ToSet(list) \subseteq Ask
        /\ \A in \in ToSet(list) : \E i \in 1..Len(list) : in = list[i]
    BY <1>2 DEF ToSet
  <1>7. ASSUME NEW i \in 1..Len(list), NEW j \in 1..Len(list), list[i] # list[j]
        PROVE  list[i].path # list[j].path /\ ~Nested(list[i].path, list[j].path)
    <2>1. i < j \/ j < i
      BY <1>2, <1>7
    <2>2. \A a, b \in 1..Len(list) : a < b =>
            list[a].path # list[b].path /\ ~Nested(list[a].path, list[b].path)
      BY <1>2 DEF Separate
    <2>3. CASE i < j
      BY <2>2, <2>3
    <2>4. CASE j < i
      BY <2>2, <2>4 DEF Nested
    <2> QED
      BY <2>1, <2>3, <2>4
  <1>8. Clear(p, save, list)
    BY <1>1, <1>6, <1>7 DEF Clear
  <1>9. Sound(Dropped(tx, p), profile')
    BY <1>1, <1>2, <1>5, <1>6, <1>8, SaveIsSound
  <1> QED
    BY <1>1, <1>3, <1>5, <1>6, <1>9 DEF tx, list, save

\* A save that is applied keeps the invariant: its key was not held, so either it
\* never was applied or the ledger forgot it.
LEMMA ApplyKeeps ==
  ASSUME RootsInv, NEW p \in Profiles, NEW m, SaveOK(m), Apply(m, p),
         \A n \in sent : n.key = m.key => n = m
  PROVE  RootsInv'
  <1>1. /\ m.key \in Keys /\ m.key \notin Held /\ sent' = sent \union {m} /\ writes > 0
        /\ applied' = [applied EXCEPT ![m.key] = @ + 1] /\ scan' = scan /\ scans' = scans
    BY DEF Apply, SaveOK
  <1>2. PICK kept \in Pruned(ledger[p]) :
          /\ ledger' = [ledger EXCEPT ![p] = kept \union {m.key}]
          /\ forgotten' = forgotten \union (ledger[p] \ kept)
    BY DEF Apply
  <1>3. kept \subseteq ledger[p] /\ ledger[p] \subseteq Keys
    BY DEF Pruned, RootsInv, FoldersInv, TypeOK
  <1>4. FoldersInv'
    <2>1. Sound(Dropped(Taken(p, m.save), p), profile') /\ Commit(Dropped(Taken(p, m.save), p))
          /\ profile' = Turned(p, m.save)
      BY ApplyIs DEF RootsInv
    <2>2. profile' \in [Profiles -> {"new", "on", "off", "gone"}]
      BY <2>1 DEF Turned, RootsInv, FoldersInv, TypeOK
    <2>3. ledger' \in [Profiles -> SUBSET Keys] /\ forgotten' \subseteq Keys
          /\ applied' \in [Keys -> Nat]
      BY <1>1, <1>2, <1>3 DEF RootsInv, FoldersInv, TypeOK
    <2> QED
      BY <1>1, <2>1, <2>2, <2>3, CommitKeeps DEF RootsInv
  <1>5. \A k \in Held \union forgotten \union {m.key} : k \in Held' \union forgotten'
    <2>1. /\ ledger'[p] = kept \union {m.key}
          /\ \A q \in Profiles \ {p} : ledger'[q] = ledger[q]
      BY <1>2 DEF RootsInv, FoldersInv, TypeOK
    <2> QED
      BY <1>2, <2>1 DEF Held
  <1>6. \A k \in Keys : applied'[k] = IF k = m.key THEN applied[k] + 1 ELSE applied[k]
    BY <1>1 DEF RootsInv, FoldersInv, TypeOK
  <1>7. SavesInv'
    <2>1. \A k \in Keys : applied'[k] # 0 => k \in Held' \union forgotten'
      BY <1>5, <1>6 DEF RootsInv, SavesInv
    <2>2. SavesApplyOnce'
      <3>1. ASSUME NEW k \in Keys, applied'[k] > 1 PROVE k \in forgotten
        <4>1. CASE k = m.key
          <5>1. applied[k] \in Nat /\ applied[k] # 0
            BY <1>6, <3>1, <4>1 DEF RootsInv, FoldersInv, TypeOK
          <5> QED
            BY <1>1, <4>1, <5>1 DEF RootsInv, SavesInv
        <4>2. CASE k # m.key
          BY <1>6, <3>1, <4>2 DEF RootsInv, SavesInv, SavesApplyOnce
        <4> QED
          BY <4>1, <4>2
      <3> QED
        BY <1>2, <3>1 DEF SavesApplyOnce
    <2>3. (\A n \in sent' : SaveOK(n)) /\ \A n, i \in sent' : n.key = i.key => n = i
      BY <1>1 DEF RootsInv, SavesInv
    <2> QED
      BY <2>1, <2>2, <2>3 DEF SavesInv
  <1> QED
    BY <1>4, <1>7 DEF RootsInv

\* A draft names no folder, one, or two.
LEMMA DraftIs ==
  ASSUME NEW ids, NEW list \in Drafts(ids)
  PROVE  \/ list = <<>>
         \/ \E x \in Inputs(ids \union {None}) : list = <<x>>
         \/ \E x \in Inputs(ids), y \in Inputs(ids \union {None}) : list = <<x, y>>
  <1> DEFINE zero == {<<>>}
             one == {<<x>> : x \in Inputs(ids \union {None})}
             two == Inputs(ids) \X Inputs(ids \union {None})
  <1>1. Drafts(ids) = zero \union one \union two
    BY DEF Drafts
  <1> HIDE DEF zero, one, two
  <1>2. list \in zero \/ list \in one \/ list \in two
    BY <1>1
  <1>3. CASE list \in zero
    BY <1>3 DEF zero
  <1>4. CASE list \in one
    BY <1>4 DEF one
  <1>5. CASE list \in two
    <2>1. list \in Inputs(ids) \X Inputs(ids \union {None})
      BY <1>5 DEF two
    <2>2. /\ list = <<list[1], list[2]>> /\ list[1] \in Inputs(ids)
          /\ list[2] \in Inputs(ids \union {None})
      BY <2>1
    <2> QED
      BY <2>2
  <1> QED
    BY <1>2, <1>3, <1>4, <1>5

\* A new save is a well-formed one under a key of its own.
LEMMA SaveKeeps ==
  ASSUME RootsInv, NEW k \in Keys \ {m.key : m \in sent}, NEW p \in Profiles, Save(k, p)
  PROVE  \E m : SaveOK(m) /\ Apply(m, p) /\ \A n \in sent : n.key = m.key => n = m
  <1>1. PICK target \in {None, p} :
          \E e \in BOOLEAN, list \in Drafts(IF target = None THEN {} ELSE used) :
            /\ Separate(list)
            /\ Apply([key |-> k, save |-> [profile |-> target, enabled |-> e, roots |-> list]], p)
    BY DEF Save
  <1>2. PICK e \in BOOLEAN, list \in Drafts(IF target = None THEN {} ELSE used) :
          /\ Separate(list)
          /\ Apply([key |-> k, save |-> [profile |-> target, enabled |-> e, roots |-> list]], p)
    BY <1>1
  <1>3. Inputs({}) \subseteq Ask /\ Inputs(used) \subseteq Ask /\ Inputs({} \union {None}) \subseteq Ask
        /\ Inputs(used \union {None}) \subseteq Ask
    BY RootBounds DEF Inputs, Ask, RootsInv, FoldersInv, TypeOK
  <1>4. list \in Seq(Ask) /\ Len(list) <= 2
    <2>1. PICK ids \in {{}, used} : list \in Drafts(ids)
      BY <1>2
    <2>2. Inputs(ids) \subseteq Ask /\ Inputs(ids \union {None}) \subseteq Ask
      BY <1>3, <2>1
    <2>3. CASE list = <<>>
      BY <2>3
    <2>4. ASSUME NEW x \in Ask, list = <<x>> PROVE list \in Seq(Ask) /\ Len(list) <= 2
      BY <2>4
    <2>5. ASSUME NEW x \in Ask, NEW y \in Ask, list = <<x, y>>
          PROVE  list \in Seq(Ask) /\ Len(list) <= 2
      BY <2>5
    <2>6. \/ list = <<>>
          \/ \E x \in Inputs(ids \union {None}) : list = <<x>>
          \/ \E x \in Inputs(ids), y \in Inputs(ids \union {None}) : list = <<x, y>>
      BY <2>1, DraftIs
    <2> QED
      BY <2>2, <2>3, <2>4, <2>5, <2>6
  <1> DEFINE m == [key |-> k, save |-> [profile |-> target, enabled |-> e, roots |-> list]]
  <1>5. SaveOK(m)
    BY <1>2, <1>4 DEF SaveOK
  <1>6. \A n \in sent : n.key # m.key
    OBVIOUS
  <1> QED
    BY <1>2, <1>5, <1>6

\* The library has the folders that were asked for and no other.
LEMMA ApplyIsAsAsked ==
  ASSUME FoldersInv, NEW p \in Profiles, NEW m, SaveOK(m), Apply(m, p)
  PROVE  Folders(p)' = Asked(m.save)
  <1> DEFINE tx == Taken(p, m.save)
             t == Dropped(tx, p)
             list == m.save.roots
  <1>1. /\ tx \in Tx /\ Half(tx, p, m.save, ToSet(list)) /\ Commit(t) /\ ToSet(list) \subseteq Ask
    BY ApplyIs
  <1>2. root' = t.root /\ member' = t.member
    BY <1>1 DEF Commit
  <1>3. /\ \A r \in Roots : t.member[p][r] = IF r \in tx.kept THEN tx.member[p][r] ELSE "none"
        /\ \A r \in Roots : Owners(t.member, r) # {} => t.root[r] = tx.root[r]
    <2>1. tx \in Tx
      BY <1>1
    <2> HIDE DEF tx
    <2>2. \A r \in Roots : t.member[p][r] = IF r \in tx.kept THEN tx.member[p][r] ELSE "none"
      BY <2>1, DroppedIs
    <2>3. ASSUME NEW r \in Roots, Owners(t.member, r) # {} PROVE t.root[r] = tx.root[r]
      BY <2>1, <2>3, DroppedIs
    <2> QED
      BY <2>2, <2>3
  <1> HIDE DEF tx, t
  <1>4. ASSUME NEW r \in tx.kept, NEW in \in ToSet(list), Holds(tx, p, m.save, in, r)
        PROVE  /\ r \in Roots /\ member'[p][r] # "none" /\ root'[r].path = in.path
               /\ root'[r].options = in.options /\ (member'[p][r] = "on") = in.enabled
    <2>1. in \in Ask /\ in.enabled \in BOOLEAN /\ r \in Roots
      BY <1>1 DEF Ask, Tx
    <2>2. t.member[p][r] = MarkOf(in)
      BY <1>3, <1>4, <2>1 DEF Holds
    <2>3. p \in Owners(t.member, r)
      BY <2>2 DEF Owners, MarkOf
    <2>4. t.root[r] = ConfigOf(in)
      BY <1>3, <1>4, <2>1, <2>3, ConfigsTyped DEF Holds
    <2>5. root'[r].path = in.path /\ root'[r].options = in.options
      BY <1>2, <2>1, <2>4, ConfigsTyped
    <2>6. (member'[p][r] = "on") = in.enabled /\ member'[p][r] # "none"
      BY <1>2, <2>1, <2>2 DEF MarkOf
    <2> QED
      BY <2>1, <2>5, <2>6
  <1>5. Known(p)' = tx.kept
    <2>1. Known(p)' \subseteq tx.kept
      BY <1>2, <1>3 DEF Known
    <2>2. tx.kept \subseteq Known(p)'
      BY <1>1, <1>4 DEF Known, Half
    <2> QED
      BY <2>1, <2>2
  <1>6. ASSUME NEW r \in tx.kept
        PROVE  \E in \in ToSet(list) :
                 [path |-> root'[r].path, options |-> root'[r].options, enabled |-> member'[p][r] = "on"]
                 = [path |-> in.path, options |-> in.options, enabled |-> in.enabled]
    <2>1. PICK in \in ToSet(list) : Holds(tx, p, m.save, in, r)
      BY <1>1 DEF Half
    <2> QED
      BY <2>1, <1>4
  <1>7. ASSUME NEW in \in ToSet(list)
        PROVE  \E r \in tx.kept :
                 [path |-> root'[r].path, options |-> root'[r].options, enabled |-> member'[p][r] = "on"]
                 = [path |-> in.path, options |-> in.options, enabled |-> in.enabled]
    <2>1. PICK r \in tx.kept : Holds(tx, p, m.save, in, r)
      BY <1>1 DEF Half
    <2> QED
      BY <2>1, <1>4
  <1>8. Folders(p)' = {[path |-> root'[r].path, options |-> root'[r].options,
                        enabled |-> member'[p][r] = "on"] : r \in tx.kept}
    BY <1>5 DEF Folders
  <1>9. Asked(m.save) = {[path |-> in.path, options |-> in.options, enabled |-> in.enabled] :
                           in \in ToSet(list)}
    BY DEF Asked
  <1> DEFINE was(r) == [path |-> root'[r].path, options |-> root'[r].options,
                        enabled |-> member'[p][r] = "on"]
             is(in) == [path |-> in.path, options |-> in.options, enabled |-> in.enabled]
  <1>10. /\ Folders(p)' = {was(r) : r \in tx.kept} /\ Asked(m.save) = {is(in) : in \in ToSet(list)}
         /\ \A r \in tx.kept : \E in \in ToSet(list) : was(r) = is(in)
         /\ \A in \in ToSet(list) : \E r \in tx.kept : was(r) = is(in)
    BY <1>6, <1>7, <1>8, <1>9
  <1> HIDE DEF was, is, list
  <1> QED
    BY <1>10

\* The invariant holds at the start.
LEMMA RootsStart ==
  ASSUME Init
  PROVE  RootsInv
  <1> DEFINE config == [path |-> "a", options |-> (CHOOSE v \in Variants : v.enabled).options]
             r == Min(Roots)
  <1>1. PICK owners \in SUBSET Profiles, scanned \in BOOLEAN :
          /\ profile = [p \in Profiles |-> IF p \in owners THEN "on" ELSE "new"]
          /\ root = [x \in Roots |-> IF owners # {} /\ x = r THEN config ELSE None]
          /\ used = IF owners # {} THEN {r} ELSE {}
          /\ member = [p \in Profiles |->
                        [x \in Roots |-> IF p \in owners /\ x = r THEN "on" ELSE "none"]]
          /\ request = [x \in Roots |-> IF owners # {} /\ x = r /\ ~scanned THEN "open" ELSE "idle"]
          /\ indexed = [x \in Roots |-> IF owners # {} /\ x = r /\ scanned THEN config ELSE None]
          /\ rows = [x \in Roots |-> IF owners # {} /\ x = r /\ scanned THEN {"a"} ELSE {}]
    BY DEF Init
  <1>2. /\ scan = [s \in Services |-> None] /\ sent = {} /\ ledger = [p \in Profiles |-> {}]
        /\ applied = [k \in Keys |-> 0] /\ forgotten = {} /\ writes = MaxWrites /\ scans = MaxScans
    BY DEF Init
  <1>3. r \in Roots
    BY RootsAreOrdered, LeastRoot
  <1>4. config \in Configs /\ config.path = "a"
    <2> DEFINE w == CHOOSE v \in Variants : v.enabled
    <2>1. w \in Variants
      BY RootBounds
    <2>2. config = [path |-> "a", options |-> w.options] /\ "a" \in Paths
      BY DEF Paths
    <2> HIDE DEF w, config
    <2> QED
      BY <2>1, <2>2 DEF Configs
  <1>5. config # None
    BY <1>4, ConfigsTyped
  <1> HIDE DEF config, r
  <1>6. TypeOK
    <2>1. /\ profile \in [Profiles -> {"new", "on", "off", "gone"}]
          /\ root \in [Roots -> Configs \union {None}] /\ used \subseteq Roots
          /\ member \in [Profiles -> [Roots -> {"on", "off", "none"}]]
          /\ request \in [Roots -> {"idle", "open"} \union Services]
          /\ indexed \in [Roots -> Configs \union {None}]
      BY <1>1, <1>3, <1>4
    <2>2. rows \in [Roots -> SUBSET Paths]
      BY <1>1, <1>3 DEF Paths
    <2>3. writes \in 0..MaxWrites /\ scans \in 0..MaxScans
      BY <1>2, RootBounds
    <2> QED
      BY <1>2, <2>1, <2>2, <2>3 DEF TypeOK
  <1>7. FoldersAreApart
    <2>1. \A x, y \in Configured : x = y
      BY <1>1 DEF Configured
    <2>2. ASSUME NEW x \in Roots PROVE root[x] # None <=> Owners(member, x) # {}
      <3>1. Owners(member, x) = IF x = r THEN owners ELSE {}
        BY <1>1 DEF Owners
      <3> QED
        BY <1>1, <1>5, <3>1
    <2> QED
      BY <2>1, <2>2 DEF FoldersAreApart
  <1>8. ChangesAreScanned
    <2>1. ASSUME NEW x \in Roots, Active(x), request[x] = "idle"
          PROVE  rows[x] \subseteq {root[x].path} /\ indexed[x] = root[x]
      <3>1. x = r /\ owners # {}
        BY <1>1, <2>1 DEF Active
      <3> QED
        BY <1>1, <1>4, <2>1, <3>1
    <2> QED
      BY <2>1 DEF ChangesAreScanned
  <1>9. /\ Configured \subseteq used
        /\ \A x \in Roots : root[x] = None => rows[x] = {} /\ request[x] = "idle"
    BY <1>1, <1>5 DEF Configured
  <1>10. \A p \in Profiles, x \in Roots : ~Exists(p) => member[p][x] = "none"
    BY <1>1 DEF Exists
  <1>11. SavesInv
    BY <1>2 DEF SavesInv, SavesApplyOnce
  <1> QED
    BY <1>6, <1>7, <1>8, <1>9, <1>10, <1>11 DEF RootsInv, FoldersInv

\* What leaves the ledger alone leaves what is known of the saves.
LEMMA SavesStay ==
  ASSUME SavesInv, UNCHANGED saves
  PROVE  SavesInv'
  <1>1. Held' = Held
    BY DEF Held, saves
  <1> QED
    BY <1>1 DEF SavesInv, SavesApplyOnce, saves

\* The invariant is about the variables of LibraryRoots only.
LEMMA RootsStutter ==
  ASSUME RootsInv, UNCHANGED rootsVars
  PROVE  RootsInv'
  <1>1. UNCHANGED <<profile, root, used, member, request, rows, indexed, scan, writes, scans>>
        /\ UNCHANGED saves
    BY DEF rootsVars, saves
  <1>2. TypeOK'
    BY <1>1 DEF RootsInv, FoldersInv, TypeOK, saves
  <1>3. FoldersInv'
    BY <1>1, <1>2 DEF RootsInv, FoldersInv, FoldersAreApart, ChangesAreScanned, Configured, Active,
                      Exists
  <1> QED
    BY <1>1, <1>3, SavesStay DEF RootsInv

\* The deletion of a library moves its keys to the forgotten ones.
LEMMA DeleteKeepsSaves ==
  ASSUME RootsInv, NEW p \in Profiles, DeleteProfile(p)
  PROVE  SavesInv'
  <1>1. /\ ledger' = [ledger EXCEPT ![p] = {}] /\ forgotten' = forgotten \union ledger[p]
        /\ sent' = sent /\ applied' = applied
    BY DEF DeleteProfile
  <1>2. \A k \in Held \union forgotten : k \in Held' \union forgotten'
    <2>1. \A q \in Profiles \ {p} : ledger'[q] = ledger[q]
      BY <1>1 DEF RootsInv, FoldersInv, TypeOK
    <2> QED
      BY <1>1, <2>1 DEF Held
  <1>3. \A k \in Keys : applied[k] # 0 => k \in Held' \union forgotten'
    BY <1>2 DEF RootsInv, SavesInv
  <1>4. SavesApplyOnce'
    BY <1>1 DEF RootsInv, SavesInv, SavesApplyOnce
  <1> QED
    BY <1>1, <1>3, <1>4 DEF RootsInv, SavesInv

\* Every step keeps the invariant, and only applying a save counts one as applied.
LEMMA RootsStep ==
  ASSUME RootsInv, Next
  PROVE  /\ RootsInv'
         /\ \/ UNCHANGED applied
            \/ \E m : /\ SaveOK(m) /\ \E p \in Profiles : Apply(m, p)
                      /\ \A n \in sent : n.key = m.key => n = m
  <1>1. CASE \E k \in Keys \ {m.key : m \in sent}, p \in Profiles : Save(k, p)
    <2>1. PICK k \in Keys \ {m.key : m \in sent}, p \in Profiles : Save(k, p)
      BY <1>1
    <2>2. PICK m : SaveOK(m) /\ Apply(m, p) /\ \A n \in sent : n.key = m.key => n = m
      BY <2>1, SaveKeeps
    <2> QED
      BY <2>2, ApplyKeeps
  <1>2. CASE \E m \in sent, p \in Profiles : Retry(m, p)
    <2>1. PICK m \in sent, p \in Profiles : Apply(m, p)
      BY <1>2 DEF Retry
    <2>2. SaveOK(m) /\ \A n \in sent : n.key = m.key => n = m
      BY <2>1 DEF RootsInv, SavesInv
    <2> QED
      BY <2>1, <2>2, ApplyKeeps
  <1>3. ASSUME FoldersInv', UNCHANGED saves PROVE RootsInv' /\ UNCHANGED applied
    BY <1>3, SavesStay DEF RootsInv, saves
  <1>4. CASE \E p \in Profiles, c \in Configs, e \in BOOLEAN : CreateRoot(p, c, e)
    <2>1. PICK p \in Profiles, c \in Configs, e \in BOOLEAN : CreateRoot(p, c, e)
      BY <1>4
    <2>2. FoldersInv'
      BY <2>1, CreateRootKeeps DEF RootsInv
    <2> QED
      BY <1>3, <2>1, <2>2 DEF CreateRoot, saves
  <1>5. CASE \E p \in Profiles, r \in Roots, c \in Configs, e \in BOOLEAN : UpdateRoot(p, r, c, e)
    <2>1. PICK p \in Profiles, r \in Roots, c \in Configs, e \in BOOLEAN : UpdateRoot(p, r, c, e)
      BY <1>5
    <2>2. FoldersInv'
      BY <2>1, UpdateRootKeeps DEF RootsInv
    <2> QED
      BY <1>3, <2>1, <2>2 DEF UpdateRoot, saves
  <1>6. CASE \E p \in Profiles, r \in Roots : DeleteRoot(p, r)
    BY <1>3, <1>6, DeleteRootKeeps DEF RootsInv, DeleteRoot, saves
  <1>7. CASE \E p \in Profiles, e \in BOOLEAN : UpdateProfile(p, e)
    BY <1>3, <1>7, UpdateProfileKeeps DEF RootsInv, UpdateProfile, saves
  <1>8. CASE \E p \in Profiles : DeleteProfile(p)
    BY <1>8, DeleteProfileKeeps, DeleteKeepsSaves DEF RootsInv, DeleteProfile
  <1>9. CASE \/ \E r \in Roots : Rescan(r)
             \/ \E s \in Services, r \in Roots : ListRoot(s, r)
             \/ \E s \in Services : \/ Claim(s) \/ ScanWrites(s)
                                    \/ ScanCompletes(s) \/ ScanStops(s)
    <2>1. FoldersInv'
      BY <1>9, ScansKeep DEF RootsInv
    <2>2. UNCHANGED saves
      BY <1>9 DEF Rescan, ListRoot, Claim, ScanWrites, ScanCompletes, ScanStops
    <2> QED
      BY <1>3, <2>1, <2>2
  <1> QED
    BY <1>1, <1>2, <1>4, <1>5, <1>6, <1>7, <1>8, <1>9 DEF Next

\* A step after which more saves were applied has applied one as it asked.
LEMMA SavesAsAsked ==
  ASSUME RootsInv, Next, NEW m \in sent', NEW p \in Profiles,
         applied'[m.key] > applied[m.key], m.key \in ledger'[p]
  PROVE  Folders(p)' = Asked(m.save)
  <1>1. RootsInv'
    BY RootsStep
  <1>2. m.key \in Keys /\ applied[m.key] \in Nat
    BY <1>1 DEF RootsInv, SavesInv, SaveOK, FoldersInv, TypeOK
  <1>3. PICK n : /\ SaveOK(n) /\ \E q \in Profiles : Apply(n, q)
                 /\ \A i \in sent : i.key = n.key => i = n
    <2>1. ~UNCHANGED applied
      BY <1>2
    <2> QED
      BY <2>1, RootsStep
  <1>4. PICK q \in Profiles : Apply(n, q)
    BY <1>3
  <1>5. /\ n \in sent' /\ n.key \notin Held /\ applied' = [applied EXCEPT ![n.key] = @ + 1]
    BY <1>4 DEF Apply
  <1>6. m.key = n.key
    BY <1>2, <1>5 DEF RootsInv, FoldersInv, TypeOK
  <1>7. m = n
    BY <1>1, <1>5, <1>6 DEF RootsInv, SavesInv
  <1>8. p = q
    <2>1. p # q => ledger'[p] = ledger[p]
      BY <1>4 DEF Apply, RootsInv, FoldersInv, TypeOK
    <2> QED
      BY <1>5, <1>6, <2>1 DEF Held
  <1> QED
    BY <1>3, <1>4, <1>7, <1>8, ApplyIsAsAsked DEF RootsInv

-----------------------------------------------------------------------------
(***************************************************************************)
(* The theorems.                                                           *)
(***************************************************************************)

\* A step of the composition is a step of one part and stutters in the others.
LEMMA StepOfAPart ==
  ASSUME [PartsNext]_allVars
  PROVE  /\ Next \/ UNCHANGED rootsVars
         /\ Provider!Next \/ UNCHANGED providerVars
         /\ Covers!Next \/ UNCHANGED coversVars
         /\ Issues!Next \/ UNCHANGED issuesVars
  BY DEF PartsNext, allVars, rootsVars, providerVars, coversVars, issuesVars

LEMMA RootsAlways == PartsSpec => []RootsInv
  <1>1. PartsInit => RootsInv
    BY RootsStart DEF PartsInit
  <1>2. RootsInv /\ [PartsNext]_allVars => RootsInv'
    BY RootsStep, RootsStutter, StepOfAPart
  <1> QED
    BY <1>1, <1>2, PTL DEF PartsSpec

\* However configurations, shared folders, moves, deletions, late retries and the
\* scans of several services interleave, no folder lies in another, one with no
\* scan to come has only the rows of its path and was scanned as it is configured,
\* and no save is applied again while the ledger holds its key (catalog-
\* database.ts:2017, catalog-indexer.ts:673).
THEOREM FoldersStaySound == PartsSpec => []FoldersAreSound
  <1>1. RootsInv => FoldersAreSound
    BY DEF RootsInv, FoldersInv, SavesInv, FoldersAreSound
  <1> QED
    BY <1>1, RootsAlways, PTL

\* A configuration that is applied leaves its library with exactly the folders and
\* options that it asked for (catalog-database.ts applyProfileConfiguration), of
\* drafts of at most two folders, those the browser knows before new ones.
THEOREM ConfigurationsStayAsAsked == PartsSpec => ConfigurationsAreAsAsked
  <1>1. RootsInv /\ [PartsNext]_allVars =>
          [\A m \in sent', p \in Profiles :
             applied'[m.key] > applied[m.key] /\ m.key \in ledger'[p] =>
               Folders(p)' = Asked(m.save)]_vars
    BY SavesAsAsked, StepOfAPart DEF rootsVars, vars
  <1> QED
    BY <1>1, RootsAlways, PTL DEF PartsSpec, ConfigurationsAreAsAsked, SavedAsAsked

LEMMA ProviderAlways == PartsSpec => []ProvInv
  <1>1. PartsInit => ProvInv
    BY ProvStart DEF PartsInit
  <1>2. ProvInv /\ [PartsNext]_allVars => ProvInv'
    BY ProvStep, ProvStutter, StepOfAPart
  <1> QED
    BY <1>1, <1>2, PTL DEF PartsSpec

\* A key that is said to work was accepted by the provider, and a key that a user
\* removed does not come back from the environment when the service starts
\* (catalog-database.ts:835).
THEOREM CredentialsStayTrue == PartsSpec => []CredentialsAreTrue
  <1>1. ProvInv => CredentialsAreTrue
    BY CredentialsAreRight DEF CredentialsAreTrue
  <1> QED
    BY <1>1, ProviderAlways, PTL

LEMMA CoversAlways == PartsSpec => []CoverInv
  <1>1. PartsInit => CoverInv
    BY CoverStart DEF PartsInit
  <1>2. CoverInv /\ [PartsNext]_allVars => CoverInv'
    BY CoverStep, CoverStutter, StepOfAPart
  <1> QED
    BY <1>1, <1>2, PTL DEF PartsSpec

\* However stores, replacements, refusals, sweeps and restarts interleave, a cover
\* that a book names has its row, and its file unless a store of it overlapped
\* with an unlink of it; a store at rest holds only what books name, unless an
\* unlink failed (metadata-cover-store.ts, http-server.ts:1899).
THEOREM CoversStayKept == PartsSpec => []CoversAreKept
  <1>1. CoverInv => CoversAreKept
    BY CoversAreRight DEF CoversAreKept
  <1> QED
    BY <1>1, CoversAlways, PTL

LEMMA IssuesAlways == PartsSpec => []IssueInv
  <1>1. PartsInit => IssueInv
    BY IssueStart DEF PartsInit
  <1>2. IssueInv /\ [PartsNext]_allVars => IssueInv'
    BY IssueStep, IssueStutter, StepOfAPart
  <1> QED
    BY <1>1, <1>2, PTL DEF PartsSpec

\* A decision about an issue is accepted on what was shown, a quiet inbox shows of
\* the issues on it what was decided in any browser, unless the row was pruned, and
\* there always is room for a decision on every issue of the catalog (catalog-
\* database.ts:3431, catalog-browser.ts).
THEOREM IssuesStayCurrent == PartsSpec => []IssuesAreCurrent
  <1>1. IssueInv => IssuesAreCurrent
    BY IssuesAreRight DEF IssuesAreCurrent
  <1> QED
    BY <1>1, IssuesAlways, PTL
===============================================================================
