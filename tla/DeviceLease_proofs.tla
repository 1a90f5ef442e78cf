------------------------- MODULE DeviceLease_proofs -------------------------
(***************************************************************************)
(* The lease for every set of documents and every number of attempts.      *)
(*                                                                         *)
(* LeaseCoversTransport is not inductive: it says nothing of a document    *)
(* without handed calls.  The strengthening LInv says who holds the lock   *)
(* (exactly the documents for which Holding is true), which attempt a      *)
(* handed call can belong to (the current one of a holding document, or    *)
(* the quiescing one), and where the control flow stands while it waits    *)
(* for a call or for performClose.                                         *)
(***************************************************************************)
EXTENDS DeviceLease, TLAPS

\* Who holds the lock, and that an old connection quiesces alone.
LockInv ==
  \A t \in Tabs :
    /\ Holding(t) <=> lock = t
    /\ pc[t] \in HoldPoints => quiescing[t] = 0

\* Attempt numbers are fresh, a document past "idle" has one, and it has no
\* transport before the grant.
FreshInv ==
  \A t \in Tabs :
    /\ pc[t] \in {"requested", "granted"} => attempt[t] \notin handed[t]
    /\ pc[t] # "idle" => attempt[t] >= 1
    /\ attempt[t] <= attempts
    /\ \A a \in handed[t] : a <= attempts

\* Waiting happens at the points where the code awaits.
WaitInv ==
  \A t \in Tabs :
    /\ awaiting[t] # "none" => pc[t] \in AwaitPoints
    /\ closer[t] \in CloseSteps => pc[t] = "closeTransport"

\* A handed call belongs to the connection in use or to the quiescing one.
CallInv ==
  \A t \in Tabs : \A c \in HandedCalls(t) :
    \/ c[1] = attempt[t] /\ pc[t] \in HoldPoints
    \/ c[1] = quiescing[t]

LInv == TypeOK /\ LockInv /\ FreshInv /\ WaitInv /\ CallInv

-----------------------------------------------------------------------------
(***************************************************************************)
(* The invariant holds initially and implies the properties.               *)
(***************************************************************************)

\* The initial state satisfies the inductive invariant.
LEMMA InitInv == Init => LInv
  <1> SUFFICES ASSUME Init PROVE LInv
    OBVIOUS
  <1> USE DEF Init
  <1>1. TypeOK
    BY LeaseConstants DEF TypeOK, Points
  <1>2. LockInv
    BY LeaseConstants DEF LockInv, Holding, HoldPoints, AwaitPoints,
       ConnectSteps, SetupSteps
  <1>3. FreshInv /\ WaitInv /\ CallInv
    BY DEF FreshInv, WaitInv, CallInv, HandedCalls, CloseSteps
  <1> QED BY <1>1, <1>2, <1>3 DEF LInv

\* The invariant implies the safety properties the runs check.
LEMMA InvImplies ==
  LInv => OneConnection /\ LeaseCoversTransport /\ NoLeakedLease
  <1> SUFFICES ASSUME LInv
               PROVE OneConnection /\ LeaseCoversTransport /\ NoLeakedLease
    OBVIOUS
  <1>1. OneConnection
    BY DEF LInv, LockInv, OneConnection
  <1>2. NoLeakedLease
    BY DEF LInv, LockInv, NoLeakedLease
  <1>3. ASSUME NEW t \in Tabs, HandedCalls(t) # {} PROVE lock = t
    <2>1. PICK c \in HandedCalls(t) : TRUE
      BY <1>3
    <2>2. c \in native[t]
      BY <2>1 DEF HandedCalls
    <2>3. c[1] \in 1..MaxAttempts
      BY <2>2 DEF LInv, TypeOK
    <2>4. Holding(t)
      BY <2>1, <2>3, LeaseConstants DEF LInv, CallInv, Holding
    <2> QED BY <2>4 DEF LInv, LockInv
  <1> QED BY <1>1, <1>2, <1>3 DEF LeaseCoversTransport

(***************************************************************************)
(* Types of what performClose's first step changes.                        *)
(***************************************************************************)
NativeType == SUBSET ((1..MaxAttempts) \X Calls)

\* Leaving for cleanup with well-typed calls keeps the types.
LEMMA BeginCloseType ==
  ASSUME TypeOK, NEW t \in Tabs, attempt[t] >= 1, NEW calls \in NativeType,
         BeginClose(t, calls)
  PROVE  /\ pc' \in [Tabs -> Points]
         /\ awaiting' \in [Tabs -> Calls \cup {"none"}]
         /\ closed' \in [Tabs -> BOOLEAN]
         /\ closer' \in [Tabs -> CloseSteps \cup {"none", "done"}]
         /\ native' \in [Tabs -> NativeType]
  <1> USE LeaseConstants DEF TypeOK
  <1>1. \A s \in Calls : {Call(t, s)} \in NativeType
    BY DEF Call, NativeType
  <1>2. CloseSteps \subseteq Calls
    BY DEF Calls
  <1>3. pc' \in [Tabs -> Points] /\ awaiting' \in [Tabs -> Calls \cup {"none"}]
        /\ closed' \in [Tabs -> BOOLEAN]
    BY DEF BeginClose, Points, HoldPoints
  <1>4. native \in [Tabs -> NativeType]
    BY DEF NativeType
  <1>5. CASE closed[t]
    BY <1>3, <1>4, <1>5 DEF BeginClose
  <1>6. CASE ~closed[t]
    <2>1. StartCloseStep(t, FirstCloseStep(t), calls)
      BY <1>6 DEF BeginClose
    <2>2. FirstCloseStep(t) \in CloseSteps \cup {"done"}
      BY DEF FirstCloseStep, CloseSteps
    <2>3. calls \cup (IF FirstCloseStep(t) = "done" THEN {}
                     ELSE {Call(t, FirstCloseStep(t))}) \in NativeType
      BY <1>1, <1>2, <2>2 DEF NativeType
    <2> QED BY <1>3, <1>4, <2>1, <2>2, <2>3 DEF StartCloseStep
  <1> QED BY <1>5, <1>6

\* Attempt numbers stay fresh.
LEMMA FreshStep ==
  LInv /\ [Next]_vars => FreshInv'
  <1> SUFFICES ASSUME LInv, [Next]_vars PROVE FreshInv'
    OBVIOUS
  <1> USE LeaseConstants DEF LInv, FreshInv, WaitInv, TypeOK,
               HoldPoints, AwaitPoints, ConnectSteps, SetupSteps, CloseSteps, ctlVars, usbVars
  <1>1. ASSUME NEW t \in Tabs, RequestLease(t) PROVE FreshInv'
    BY <1>1 DEF RequestLease
  <1>2. ASSUME NEW t \in Tabs, LockCallback(t) PROVE FreshInv'
    BY <1>2 DEF LockCallback
  <1>3. ASSUME NEW t \in Tabs, ReceiveLease(t) PROVE FreshInv'
    BY <1>3 DEF ReceiveLease
  <1>4. ASSUME NEW t \in Tabs, CloseStepEnds(t) PROVE FreshInv'
    BY <1>4 DEF CloseStepEnds, StartCloseStep
  <1>5. ASSUME NEW t \in Tabs, TransportClosed(t) PROVE FreshInv'
    BY <1>5 DEF TransportClosed
  <1>6. ASSUME NEW t \in Tabs, ReleaseLease(t) PROVE FreshInv'
    BY <1>6 DEF ReleaseLease
  <1>7. ASSUME NEW t \in Tabs, Quiesced(t) PROVE FreshInv'
    BY <1>7 DEF Quiesced
  <1>8. ASSUME NEW t \in Tabs, StartCall(t) PROVE FreshInv'
    BY <1>8 DEF StartCall
  <1>9. ASSUME NEW t \in Tabs, SkipCall(t) PROVE FreshInv'
    BY <1>9 DEF SkipCall, After
  <1>10. ASSUME NEW t \in Tabs, CallSucceeds(t) PROVE FreshInv'
    BY <1>10 DEF CallSucceeds, BeginClose, StartCloseStep, FirstCloseStep, After
  <1>11. ASSUME NEW t \in Tabs, CallFails(t) PROVE FreshInv'
    BY <1>11 DEF CallFails, BeginClose, StartCloseStep, FirstCloseStep
  <1>12. ASSUME NEW t \in Tabs, SetupRejected(t) PROVE FreshInv'
    BY <1>12 DEF SetupRejected, BeginClose, StartCloseStep, FirstCloseStep
  <1>13. ASSUME NEW t \in Tabs, Disconnect(t) PROVE FreshInv'
    BY <1>13 DEF Disconnect, BeginClose, StartCloseStep, FirstCloseStep
  <1>14. ASSUME NEW t \in Tabs, CloseSessionRejected(t) PROVE FreshInv'
    BY <1>14 DEF CloseSessionRejected, BeginClose, StartCloseStep, FirstCloseStep
  <1>15. ASSUME NEW t \in Tabs, CloseAfterUnplug(t) PROVE FreshInv'
    BY <1>15 DEF CloseAfterUnplug, BeginClose, StartCloseStep, FirstCloseStep
  <1>16. ASSUME NEW t \in Tabs, Abort(t) PROVE FreshInv'
    BY <1>16 DEF Abort
  <1>17. ASSUME NEW t \in Tabs, LateSettle(t) PROVE FreshInv'
    BY <1>17 DEF LateSettle
  <1>18. ASSUME NEW t \in Tabs, Unplug(t) PROVE FreshInv'
    BY <1>18 DEF Unplug
  <1>19. ASSUME NEW t \in Tabs, Teardown(t) PROVE FreshInv'
    BY <1>19 DEF Teardown
  <1>20. CASE UNCHANGED vars
    BY <1>20 DEF vars, ctlVars, usbVars
  <1> QED
    BY <1>1, <1>2, <1>3, <1>4, <1>5, <1>6, <1>7, <1>8, <1>9, <1>10, <1>11, <1>12, <1>13, <1>14, <1>15, <1>16, <1>17, <1>18, <1>19, <1>20
       DEF Next, LeaseStep, CloseStep, CallStep, EndStep, OutsideStep

\* The lock stays with the documents that hold it.
LEMMA LockStep ==
  LInv /\ [Next]_vars => LockInv'
  <1> SUFFICES ASSUME LInv, [Next]_vars PROVE LockInv'
    OBVIOUS
  <1> USE LeaseConstants DEF LInv, LockInv, TypeOK, Holding, WaitInv,
               HoldPoints, AwaitPoints, ConnectSteps, SetupSteps, CloseSteps, ctlVars, usbVars
  <1>1. ASSUME NEW t \in Tabs, RequestLease(t) PROVE LockInv'
    BY <1>1 DEF RequestLease
  <1>2. ASSUME NEW t \in Tabs, LockCallback(t) PROVE LockInv'
    BY <1>2 DEF LockCallback
  <1>3. ASSUME NEW t \in Tabs, ReceiveLease(t) PROVE LockInv'
    BY <1>3 DEF ReceiveLease
  <1>4. ASSUME NEW t \in Tabs, CloseStepEnds(t) PROVE LockInv'
    BY <1>4 DEF CloseStepEnds, StartCloseStep
  <1>5. ASSUME NEW t \in Tabs, TransportClosed(t) PROVE LockInv'
    BY <1>5 DEF TransportClosed
  <1>6. ASSUME NEW t \in Tabs, ReleaseLease(t) PROVE LockInv'
    BY <1>6 DEF ReleaseLease, Connected
  <1>7. ASSUME NEW t \in Tabs, Quiesced(t) PROVE LockInv'
    BY <1>7 DEF Quiesced
  <1>8. ASSUME NEW t \in Tabs, StartCall(t) PROVE LockInv'
    BY <1>8 DEF StartCall
  <1>9. ASSUME NEW t \in Tabs, SkipCall(t) PROVE LockInv'
    BY <1>9 DEF SkipCall, After
  <1>10. ASSUME NEW t \in Tabs, CallSucceeds(t) PROVE LockInv'
    BY <1>10 DEF CallSucceeds, BeginClose, StartCloseStep, FirstCloseStep, After
  <1>11. ASSUME NEW t \in Tabs, CallFails(t) PROVE LockInv'
    BY <1>11 DEF CallFails, BeginClose, StartCloseStep, FirstCloseStep
  <1>12. ASSUME NEW t \in Tabs, SetupRejected(t) PROVE LockInv'
    BY <1>12 DEF SetupRejected, BeginClose, StartCloseStep, FirstCloseStep
  <1>13. ASSUME NEW t \in Tabs, Disconnect(t) PROVE LockInv'
    BY <1>13 DEF Disconnect, BeginClose, StartCloseStep, FirstCloseStep
  <1>14. ASSUME NEW t \in Tabs, CloseSessionRejected(t) PROVE LockInv'
    BY <1>14 DEF CloseSessionRejected, BeginClose, StartCloseStep, FirstCloseStep
  <1>15. ASSUME NEW t \in Tabs, CloseAfterUnplug(t) PROVE LockInv'
    BY <1>15 DEF CloseAfterUnplug, BeginClose, StartCloseStep, FirstCloseStep
  <1>16. ASSUME NEW t \in Tabs, Abort(t) PROVE LockInv'
    BY <1>16 DEF Abort
  <1>17. ASSUME NEW t \in Tabs, LateSettle(t) PROVE LockInv'
    BY <1>17 DEF LateSettle
  <1>18. ASSUME NEW t \in Tabs, Unplug(t) PROVE LockInv'
    BY <1>18 DEF Unplug
  <1>19. ASSUME NEW t \in Tabs, Teardown(t) PROVE LockInv'
    BY <1>19 DEF Teardown
  <1>20. CASE UNCHANGED vars
    BY <1>20 DEF vars, ctlVars, usbVars
  <1> QED
    BY <1>1, <1>2, <1>3, <1>4, <1>5, <1>6, <1>7, <1>8, <1>9, <1>10, <1>11, <1>12, <1>13, <1>14, <1>15, <1>16, <1>17, <1>18, <1>19, <1>20
       DEF Next, LeaseStep, CloseStep, CallStep, EndStep, OutsideStep

\* The control flow waits where the code awaits.
LEMMA WaitStep ==
  LInv /\ [Next]_vars => WaitInv'
  <1> SUFFICES ASSUME LInv, [Next]_vars PROVE WaitInv'
    OBVIOUS
  <1> USE LeaseConstants DEF LInv, WaitInv, TypeOK,
               HoldPoints, AwaitPoints, ConnectSteps, SetupSteps, CloseSteps, ctlVars, usbVars
  <1>1. ASSUME NEW t \in Tabs, RequestLease(t) PROVE WaitInv'
    BY <1>1 DEF RequestLease
  <1>2. ASSUME NEW t \in Tabs, LockCallback(t) PROVE WaitInv'
    BY <1>2 DEF LockCallback
  <1>3. ASSUME NEW t \in Tabs, ReceiveLease(t) PROVE WaitInv'
    BY <1>3 DEF ReceiveLease
  <1>4. ASSUME NEW t \in Tabs, CloseStepEnds(t) PROVE WaitInv'
    BY <1>4 DEF CloseStepEnds, StartCloseStep
  <1>5. ASSUME NEW t \in Tabs, TransportClosed(t) PROVE WaitInv'
    BY <1>5 DEF TransportClosed
  <1>6. ASSUME NEW t \in Tabs, ReleaseLease(t) PROVE WaitInv'
    BY <1>6 DEF ReleaseLease
  <1>7. ASSUME NEW t \in Tabs, Quiesced(t) PROVE WaitInv'
    BY <1>7 DEF Quiesced
  <1>8. ASSUME NEW t \in Tabs, StartCall(t) PROVE WaitInv'
    BY <1>8 DEF StartCall, CallAt
  <1>9. ASSUME NEW t \in Tabs, SkipCall(t) PROVE WaitInv'
    BY <1>9 DEF SkipCall, After
  <1>10. ASSUME NEW t \in Tabs, CallSucceeds(t) PROVE WaitInv'
    BY <1>10 DEF CallSucceeds, BeginClose, StartCloseStep, FirstCloseStep, After
  <1>11. ASSUME NEW t \in Tabs, CallFails(t) PROVE WaitInv'
    BY <1>11 DEF CallFails, BeginClose, StartCloseStep, FirstCloseStep
  <1>12. ASSUME NEW t \in Tabs, SetupRejected(t) PROVE WaitInv'
    BY <1>12 DEF SetupRejected, BeginClose, StartCloseStep, FirstCloseStep
  <1>13. ASSUME NEW t \in Tabs, Disconnect(t) PROVE WaitInv'
    BY <1>13 DEF Disconnect, BeginClose, StartCloseStep, FirstCloseStep
  <1>14. ASSUME NEW t \in Tabs, CloseSessionRejected(t) PROVE WaitInv'
    BY <1>14 DEF CloseSessionRejected, BeginClose, StartCloseStep, FirstCloseStep
  <1>15. ASSUME NEW t \in Tabs, CloseAfterUnplug(t) PROVE WaitInv'
    BY <1>15 DEF CloseAfterUnplug, BeginClose, StartCloseStep, FirstCloseStep
  <1>16. ASSUME NEW t \in Tabs, Abort(t) PROVE WaitInv'
    BY <1>16 DEF Abort
  <1>17. ASSUME NEW t \in Tabs, LateSettle(t) PROVE WaitInv'
    BY <1>17 DEF LateSettle
  <1>18. ASSUME NEW t \in Tabs, Unplug(t) PROVE WaitInv'
    BY <1>18 DEF Unplug
  <1>19. ASSUME NEW t \in Tabs, Teardown(t) PROVE WaitInv'
    BY <1>19 DEF Teardown
  <1>20. CASE UNCHANGED vars
    BY <1>20 DEF vars, ctlVars, usbVars
  <1> QED
    BY <1>1, <1>2, <1>3, <1>4, <1>5, <1>6, <1>7, <1>8, <1>9, <1>10, <1>11, <1>12, <1>13, <1>14, <1>15, <1>16, <1>17, <1>18, <1>19, <1>20
       DEF Next, LeaseStep, CloseStep, CallStep, EndStep, OutsideStep

\* Type correctness is preserved.
LEMMA TypeStep ==
  LInv /\ [Next]_vars => TypeOK'
  <1> SUFFICES ASSUME LInv, [Next]_vars PROVE TypeOK'
    OBVIOUS
  <1> USE LeaseConstants DEF LInv, WaitInv, FreshInv, TypeOK, Points, Calls,
               HoldPoints, AwaitPoints, ConnectSteps, SetupSteps, CloseSteps, ctlVars, usbVars
  <1>1. ASSUME NEW t \in Tabs, RequestLease(t) PROVE TypeOK'
    BY <1>1 DEF RequestLease
  <1>2. ASSUME NEW t \in Tabs, LockCallback(t) PROVE TypeOK'
    BY <1>2 DEF LockCallback
  <1>3. ASSUME NEW t \in Tabs, ReceiveLease(t) PROVE TypeOK'
    BY <1>3 DEF ReceiveLease
  <1>4. ASSUME NEW t \in Tabs, CloseStepEnds(t) PROVE TypeOK'
    BY <1>4 DEF CloseStepEnds, StartCloseStep, Call
  <1>5. ASSUME NEW t \in Tabs, TransportClosed(t) PROVE TypeOK'
    BY <1>5 DEF TransportClosed
  <1>6. ASSUME NEW t \in Tabs, ReleaseLease(t) PROVE TypeOK'
    BY <1>6 DEF ReleaseLease
  <1>7. ASSUME NEW t \in Tabs, Quiesced(t) PROVE TypeOK'
    BY <1>7 DEF Quiesced
  <1>8. ASSUME NEW t \in Tabs, StartCall(t) PROVE TypeOK'
    BY <1>8 DEF StartCall, CallAt, Call
  <1>9. ASSUME NEW t \in Tabs, SkipCall(t) PROVE TypeOK'
    BY <1>9 DEF SkipCall, After
  <1>10. ASSUME NEW t \in Tabs, CallSucceeds(t) PROVE TypeOK'
    <2>1. attempt[t] >= 1
      BY <1>10 DEF CallSucceeds
    <2>2. native \in [Tabs -> NativeType] /\ native[t] \in NativeType
      BY DEF NativeType
    <2> DEFINE rest == native[t] \ {Call(t, awaiting[t])}
    <2>3. rest \in NativeType
      BY <2>2 DEF NativeType
    <2>4. handed' \in [Tabs -> SUBSET (1..MaxAttempts)]
      BY <1>10, <2>1 DEF CallSucceeds
    <2>5. CASE awaiting[t] = "closeSession"
      <3>1. BeginClose(t, rest)
        BY <1>10, <2>5 DEF CallSucceeds
      <3> HIDE DEF Points, HoldPoints, AwaitPoints, Calls, CloseSteps, NativeType, rest
      <3> QED BY <1>10, <2>1, <2>3, <2>4, <2>5, <3>1, BeginCloseType DEF CallSucceeds, NativeType
    <2>6. CASE awaiting[t] # "closeSession"
      <3>1. pc' \in [Tabs -> Points]
        BY <1>10, <2>6 DEF CallSucceeds, After
      <3>2. native' = [native EXCEPT ![t] = rest]
        BY <1>10, <2>6 DEF CallSucceeds
      <3> HIDE DEF rest
      <3>3. native' \in [Tabs -> NativeType]
        BY <2>2, <2>3, <3>2
      <3> HIDE DEF Points, HoldPoints, AwaitPoints, Calls, CloseSteps
      <3> QED BY <1>10, <2>4, <2>6, <3>1, <3>3 DEF CallSucceeds, NativeType
    <2> QED BY <2>5, <2>6
  <1>11. ASSUME NEW t \in Tabs, CallFails(t) PROVE TypeOK'
    <2>1. attempt[t] >= 1
      BY <1>11 DEF CallFails
    <2>2. native \in [Tabs -> NativeType] /\ native[t] \in NativeType
      BY DEF NativeType
    <2>3. PICK settles \in BOOLEAN :
            LET left == native[t] \ (IF settles THEN {Call(t, awaiting[t])} ELSE {}) IN
            IF awaiting[t] = "transfer"
              THEN /\ awaiting' = [awaiting EXCEPT ![t] = "none"]
                   /\ native' = [native EXCEPT ![t] = left]
                   /\ UNCHANGED <<pc, closed, closer>>
              ELSE BeginClose(t, left)
      BY <1>11 DEF CallFails
    <2> DEFINE rest == native[t] \ (IF settles THEN {Call(t, awaiting[t])} ELSE {})
    <2>4. rest \in NativeType
      BY <2>2 DEF NativeType
    <2>5. CASE awaiting[t] = "transfer"
      <3>1. native' = [native EXCEPT ![t] = rest]
        BY <2>3, <2>5
      <3> HIDE DEF rest
      <3>2. native' \in [Tabs -> NativeType]
        BY <2>2, <2>4, <3>1
      <3> QED BY <1>11, <2>3, <2>5, <3>2 DEF CallFails, NativeType
    <2>6. CASE awaiting[t] # "transfer"
      <3>1. BeginClose(t, rest)
        BY <2>3, <2>6
      <3> HIDE DEF Points, HoldPoints, AwaitPoints, Calls, CloseSteps, NativeType, rest
      <3> QED BY <1>11, <2>1, <2>4, <3>1, BeginCloseType DEF CallFails, NativeType
    <2> QED BY <2>5, <2>6
  <1>12. ASSUME NEW t \in Tabs, SetupRejected(t) PROVE TypeOK'
    <2>1. attempt[t] >= 1
      BY <1>12 DEF SetupRejected
    <2>2. native \in [Tabs -> NativeType] /\ native[t] \in NativeType
      BY DEF NativeType
    <2>3. CASE sessionOpen[t]
      BY <1>12, <2>3 DEF SetupRejected
    <2>4. CASE ~sessionOpen[t]
      <3>1. BeginClose(t, native[t])
        BY <1>12, <2>4 DEF SetupRejected
      <3> HIDE DEF Points, HoldPoints, AwaitPoints, Calls, CloseSteps, NativeType
      <3> QED BY <1>12, <2>1, <2>2, <3>1, BeginCloseType DEF SetupRejected, NativeType
    <2> QED BY <2>3, <2>4
  <1>13. ASSUME NEW t \in Tabs, Disconnect(t) PROVE TypeOK'
    <2>1. attempt[t] >= 1
      BY <1>13 DEF Disconnect
    <2>2. native \in [Tabs -> NativeType] /\ native[t] \in NativeType
      BY DEF NativeType
    <2>3. CASE sessionOpen[t]
      BY <1>13, <2>3 DEF Disconnect
    <2>4. CASE ~sessionOpen[t]
      <3>1. BeginClose(t, native[t])
        BY <1>13, <2>4 DEF Disconnect
      <3> HIDE DEF Points, HoldPoints, AwaitPoints, Calls, CloseSteps, NativeType
      <3> QED BY <1>13, <2>1, <2>2, <3>1, BeginCloseType DEF Disconnect, NativeType
    <2> QED BY <2>3, <2>4
  <1>14. ASSUME NEW t \in Tabs, CloseSessionRejected(t) PROVE TypeOK'
    <2>1. attempt[t] >= 1
      BY <1>14 DEF CloseSessionRejected
    <2>2. native \in [Tabs -> NativeType] /\ native[t] \in NativeType
      BY DEF NativeType
    <2>3. BeginClose(t, native[t])
      BY <1>14 DEF CloseSessionRejected
    <2> HIDE DEF Points, HoldPoints, AwaitPoints, Calls, CloseSteps, NativeType
    <2> QED BY <1>14, <2>1, <2>2, <2>3, BeginCloseType DEF CloseSessionRejected, NativeType
  <1>15. ASSUME NEW t \in Tabs, CloseAfterUnplug(t) PROVE TypeOK'
    <2>1. attempt[t] >= 1
      BY <1>15 DEF CloseAfterUnplug
    <2>2. native \in [Tabs -> NativeType] /\ native[t] \in NativeType
      BY DEF NativeType
    <2>3. BeginClose(t, native[t])
      BY <1>15 DEF CloseAfterUnplug
    <2> HIDE DEF Points, HoldPoints, AwaitPoints, Calls, CloseSteps, NativeType
    <2> QED BY <1>15, <2>1, <2>2, <2>3, BeginCloseType DEF CloseAfterUnplug, NativeType
  <1>16. ASSUME NEW t \in Tabs, Abort(t) PROVE TypeOK'
    BY <1>16 DEF Abort
  <1>17. ASSUME NEW t \in Tabs, LateSettle(t) PROVE TypeOK'
    <2>1. PICK c \in native[t], works \in BOOLEAN :
            /\ opened' = [opened EXCEPT ![t] =
                 IF works /\ c[2] = "open" THEN TRUE
                 ELSE IF works /\ c[2] \in {"close", "lateClose"} THEN FALSE
                 ELSE @]
            /\ native' = [native EXCEPT ![t] = (@ \ {c}) \cup
                 (IF works /\ c[2] = "open" THEN {<<c[1], "lateClose">>} ELSE {})]
      BY <1>17 DEF LateSettle
    <2>2. c \in (1..MaxAttempts) \X Calls
      OBVIOUS
    <2>3. <<c[1], "lateClose">> \in (1..MaxAttempts) \X Calls
      BY <2>2
    <2>4. native' \in [Tabs -> SUBSET ((1..MaxAttempts) \X Calls)]
      <3> HIDE DEF Calls
      <3> QED BY <2>1, <2>3
    <2>5. opened' \in [Tabs -> BOOLEAN]
      BY <2>1
    <2> QED BY <1>17, <2>4, <2>5 DEF LateSettle
  <1>18. ASSUME NEW t \in Tabs, Unplug(t) PROVE TypeOK'
    BY <1>18 DEF Unplug
  <1>19. ASSUME NEW t \in Tabs, Teardown(t) PROVE TypeOK'
    BY <1>19 DEF Teardown
  <1>20. CASE UNCHANGED vars
    BY <1>20 DEF vars, ctlVars, usbVars
  <1> QED
    BY <1>1, <1>2, <1>3, <1>4, <1>5, <1>6, <1>7, <1>8, <1>9, <1>10, <1>11, <1>12, <1>13, <1>14, <1>15, <1>16, <1>17, <1>18, <1>19, <1>20
       DEF Next, LeaseStep, CloseStep, CallStep, EndStep, OutsideStep

\* Handed calls stay with the connection that holds the lease.
LEMMA CallStepInv ==
  LInv /\ [Next]_vars => CallInv'
  <1> SUFFICES ASSUME LInv, [Next]_vars PROVE CallInv'
    OBVIOUS
  <1> USE LeaseConstants DEF LInv, CallInv, TypeOK, LockInv, FreshInv, Holding, WaitInv, HandedCalls,
               HoldPoints, AwaitPoints, ConnectSteps, SetupSteps, CloseSteps, ctlVars, usbVars
  <1>1. ASSUME NEW t \in Tabs, RequestLease(t) PROVE CallInv'
    BY <1>1 DEF RequestLease
  <1>2. ASSUME NEW t \in Tabs, LockCallback(t) PROVE CallInv'
    BY <1>2 DEF LockCallback
  <1>3. ASSUME NEW t \in Tabs, ReceiveLease(t) PROVE CallInv'
    BY <1>3 DEF ReceiveLease
  <1>4. ASSUME NEW t \in Tabs, CloseStepEnds(t) PROVE CallInv'
    BY <1>4 DEF CloseStepEnds, StartCloseStep, Call
  <1>5. ASSUME NEW t \in Tabs, TransportClosed(t) PROVE CallInv'
    BY <1>5 DEF TransportClosed
  <1>6. ASSUME NEW t \in Tabs, ReleaseLease(t) PROVE CallInv'
    BY <1>6 DEF ReleaseLease, Connected, Pending
  <1>7. ASSUME NEW t \in Tabs, Quiesced(t) PROVE CallInv'
    BY <1>7 DEF Quiesced, Pending
  <1>8. ASSUME NEW t \in Tabs, StartCall(t) PROVE CallInv'
    BY <1>8 DEF StartCall, CallAt, Call
  <1>9. ASSUME NEW t \in Tabs, SkipCall(t) PROVE CallInv'
    BY <1>9 DEF SkipCall, After
  <1>10. ASSUME NEW t \in Tabs, CallSucceeds(t) PROVE CallInv'
    BY <1>10 DEF CallSucceeds, BeginClose, StartCloseStep, FirstCloseStep, After, Call, Connected
  <1>11. ASSUME NEW t \in Tabs, CallFails(t) PROVE CallInv'
    BY <1>11 DEF CallFails, BeginClose, StartCloseStep, FirstCloseStep, Call, Connected
  <1>12. ASSUME NEW t \in Tabs, SetupRejected(t) PROVE CallInv'
    BY <1>12 DEF SetupRejected, BeginClose, StartCloseStep, FirstCloseStep, Call, Connected
  <1>13. ASSUME NEW t \in Tabs, Disconnect(t) PROVE CallInv'
    BY <1>13 DEF Disconnect, BeginClose, StartCloseStep, FirstCloseStep, Call, Connected
  <1>14. ASSUME NEW t \in Tabs, CloseSessionRejected(t) PROVE CallInv'
    BY <1>14 DEF CloseSessionRejected, BeginClose, StartCloseStep, FirstCloseStep, Call, Connected
  <1>15. ASSUME NEW t \in Tabs, CloseAfterUnplug(t) PROVE CallInv'
    BY <1>15 DEF CloseAfterUnplug, BeginClose, StartCloseStep, FirstCloseStep, Call, Connected
  <1>16. ASSUME NEW t \in Tabs, Abort(t) PROVE CallInv'
    BY <1>16 DEF Abort
  <1>17. ASSUME NEW t \in Tabs, LateSettle(t) PROVE CallInv'
    BY <1>17 DEF LateSettle, Call
  <1>18. ASSUME NEW t \in Tabs, Unplug(t) PROVE CallInv'
    BY <1>18 DEF Unplug
  <1>19. ASSUME NEW t \in Tabs, Teardown(t) PROVE CallInv'
    BY <1>19 DEF Teardown
  <1>20. CASE UNCHANGED vars
    BY <1>20 DEF vars, ctlVars, usbVars
  <1> QED
    BY <1>1, <1>2, <1>3, <1>4, <1>5, <1>6, <1>7, <1>8, <1>9, <1>10, <1>11, <1>12, <1>13, <1>14, <1>15, <1>16, <1>17, <1>18, <1>19, <1>20
       DEF Next, LeaseStep, CloseStep, CallStep, EndStep, OutsideStep


-----------------------------------------------------------------------------
(***************************************************************************)
(* The theorems.                                                           *)
(***************************************************************************)

\* The strengthening is an invariant.
THEOREM LeaseInvariant == Spec => []LInv
  <1>1. LInv /\ [Next]_vars => LInv'
    BY FreshStep, LockStep, WaitStep, TypeStep, CallStepInv DEF LInv
  <1> QED BY InitInv, <1>1, PTL DEF Spec

\* Every reachable state has the declared types.
THEOREM TypeCorrect == Spec => []TypeOK
  BY LeaseInvariant, PTL DEF LInv

\* Two documents never hold a connection at the same time.
THEOREM ExclusiveConnection == Spec => []OneConnection
  BY LeaseInvariant, InvImplies, PTL

\* A handed-out transport never has unsettled calls without the lease.
THEOREM CallsUnderLease == Spec => []LeaseCoversTransport
  BY LeaseInvariant, InvImplies, PTL

\* The lock is never held by a document that will not release it.
THEOREM LeaseNotLeaked == Spec => []NoLeakedLease
  BY LeaseInvariant, InvImplies, PTL

\* At most one tab is connected, native calls are made under its lease, and a
\* lease nobody wants is given back (device-lease.ts, device-runtime.ts
\* releaseLeaseAfterUsbQuiesces).
THEOREM LeaseStaysKept == Spec => []LeaseIsKept
  BY ExclusiveConnection, CallsUnderLease, LeaseNotLeaked, PTL DEF LeaseIsKept

-----------------------------------------------------------------------------
(***************************************************************************)
(* The refinement: a step of the connection is a step or a stutter of      *)
(* DeviceOwnership.                                                        *)
(***************************************************************************)

\* What a step of document t may do to the lock and to the calls.
Shape(t) ==
  /\ \A u \in Tabs \ {t} : native'[u] = native[u] /\ handed'[u] = handed[u]
  /\ \/ lock' = lock
     \/ lock = NoTab /\ lock' = t /\ UNCHANGED <<native, handed>>
     \/ lock = t /\ lock' = NoTab /\ UNCHANGED <<native, handed>>

\* Every step but the end of a document has that shape.
LEMMA StepShape ==
  ASSUME LInv, NEW t \in Tabs,
         LeaseStep(t) \/ CloseStep(t) \/ CallStep(t) \/ EndStep(t)
           \/ Abort(t) \/ LateSettle(t) \/ Unplug(t)
  PROVE  Shape(t)
  <1> USE LeaseConstants DEF LInv, TypeOK, LockInv, Holding, HoldPoints, Shape, ctlVars, usbVars
  <1>1. CASE RequestLease(t)
    BY <1>1 DEF RequestLease
  <1>2. CASE LockCallback(t)
    BY <1>2 DEF LockCallback
  <1>3. CASE ReceiveLease(t)
    BY <1>3 DEF ReceiveLease
  <1>4. CASE CloseStepEnds(t)
    BY <1>4 DEF CloseStepEnds, StartCloseStep
  <1>5. CASE TransportClosed(t)
    BY <1>5 DEF TransportClosed
  <1>6. CASE ReleaseLease(t)
    BY <1>6 DEF ReleaseLease
  <1>7. CASE Quiesced(t)
    BY <1>7 DEF Quiesced
  <1>8. CASE StartCall(t)
    BY <1>8 DEF StartCall
  <1>9. CASE SkipCall(t)
    BY <1>9 DEF SkipCall
  <1>10. CASE CallSucceeds(t)
    BY <1>10 DEF CallSucceeds, BeginClose, StartCloseStep
  <1>11. CASE CallFails(t)
    BY <1>11 DEF CallFails, BeginClose, StartCloseStep
  <1>12. CASE SetupRejected(t)
    BY <1>12 DEF SetupRejected, BeginClose, StartCloseStep
  <1>13. CASE Disconnect(t)
    BY <1>13 DEF Disconnect, BeginClose, StartCloseStep
  <1>14. CASE CloseSessionRejected(t)
    BY <1>14 DEF CloseSessionRejected, BeginClose, StartCloseStep
  <1>15. CASE CloseAfterUnplug(t)
    BY <1>15 DEF CloseAfterUnplug, BeginClose, StartCloseStep
  <1>16. CASE Abort(t)
    BY <1>16 DEF Abort
  <1>17. CASE LateSettle(t)
    BY <1>17 DEF LateSettle
  <1>18. CASE Unplug(t)
    BY <1>18 DEF Unplug
  <1> QED
    BY <1>1, <1>2, <1>3, <1>4, <1>5, <1>6, <1>7, <1>8, <1>9, <1>10, <1>11, <1>12, <1>13, <1>14, <1>15, <1>16, <1>17, <1>18
       DEF LeaseStep, CloseStep, CallStep, EndStep

\* The documents with unsettled calls of a handed-out transport.
Busy == {u \in Tabs : HandedCalls(u) # {}}

\* A step of that shape between states of the invariant is Take, Work, GiveUp
\* or a stutter.
LEMMA ShapeRefines ==
  ASSUME LInv, LInv', NEW t \in Tabs, Shape(t)
  PROVE  [Ownership!OwnNext]_<<lock, Busy>>
  <1>1. \A u \in Tabs \ {t} : HandedCalls(u)' = HandedCalls(u)
    BY DEF Shape, HandedCalls
  <1>2. Busy' \in {Busy \cup {t}, Busy \ {t}}
    BY <1>1 DEF Busy
  <1>3. (LeaseCoversTransport /\ LeaseCoversTransport')
    BY InvImplies, PTL
  <1>4. CASE lock' = lock /\ lock = t
    BY <1>2, <1>4 DEF Ownership!OwnNext, Ownership!Work, Busy
  <1>5. CASE lock' = lock /\ lock # t
    <2>1. t \notin Busy /\ t \notin Busy'
      BY <1>3, <1>5 DEF Busy, LeaseCoversTransport
    <2> QED BY <1>2, <1>5, <2>1
  <1>6. CASE lock = NoTab /\ lock' = t /\ UNCHANGED <<native, handed>>
    <2>1. Busy' = Busy
      BY <1>6 DEF Busy, HandedCalls
    <2> QED BY <1>6, <2>1 DEF Ownership!OwnNext, Ownership!Take, Busy
  <1>7. CASE lock = t /\ lock' = NoTab /\ UNCHANGED <<native, handed>>
    <2>1. Busy' = Busy
      BY <1>7 DEF Busy, HandedCalls
    <2>2. t \notin Busy'
      BY <1>3, <1>7, LeaseConstants DEF Busy, LeaseCoversTransport
    <2> QED BY <1>7, <2>1, <2>2 DEF Ownership!OwnNext, Ownership!GiveUp, Busy
  <1> QED BY <1>4, <1>5, <1>6, <1>7 DEF Shape

\* The end of a document is Vanish.
LEMMA TeardownRefines ==
  ASSUME LInv, NEW t \in Tabs, Teardown(t)
  PROVE  Ownership!OwnNext
  <1>1. \A u \in Tabs \ {t} : HandedCalls(u)' = HandedCalls(u)
    BY DEF Teardown, HandedCalls, LInv, TypeOK
  <1>2. HandedCalls(t)' = {}
    BY DEF Teardown, HandedCalls, LInv, TypeOK
  <1>3. Busy' = Busy \ {t}
    BY <1>1, <1>2 DEF Busy
  <1> QED BY <1>3 DEF Ownership!OwnNext, Ownership!Vanish, Teardown, Busy

\* The lease protocol implements exclusive ownership of the device, for the
\* calls of every transport that connect() hands out.
THEOREM LeaseImplementsOwnership == Spec => ImplementsOwnership
  <1>1. Init => Ownership!OwnInit
    BY DEF Init, Ownership!OwnInit, HandedCalls
  <1>2. LInv /\ LInv' /\ [Next]_vars => [Ownership!OwnNext]_<<lock, Busy>>
    <2> SUFFICES ASSUME LInv, LInv', [Next]_vars
                 PROVE [Ownership!OwnNext]_<<lock, Busy>>
      OBVIOUS
    <2>1. CASE UNCHANGED vars
      BY <2>1 DEF vars, ctlVars, usbVars, Busy, HandedCalls
    <2>2. ASSUME NEW t \in Tabs,
                 LeaseStep(t) \/ CloseStep(t) \/ CallStep(t) \/ EndStep(t) \/ OutsideStep(t)
          PROVE [Ownership!OwnNext]_<<lock, Busy>>
      <3>1. CASE Teardown(t)
        BY <3>1, TeardownRefines
      <3>2. CASE ~Teardown(t)
        BY <2>2, <3>2, StepShape, ShapeRefines DEF OutsideStep
      <3> QED BY <3>1, <3>2
    <2> QED BY <2>1, <2>2 DEF Next
  <1>3. LInv /\ LInv' /\ [Next]_vars => [Ownership!OwnNext]_(Ownership!ownershipVars)
    BY <1>2 DEF Busy, Ownership!ownershipVars
  <1> QED BY <1>1, <1>3, LeaseInvariant, PTL
             DEF Spec, ImplementsOwnership, Ownership!OwnSpec

===============================================================================
