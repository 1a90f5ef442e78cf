-------------------------- MODULE SafeUpdate_proofs ---------------------------
(***************************************************************************)
(* Theorems of SafeUpdate, for any number of copies.  UInv is the part of  *)
(* the argument that needs nothing of the delivery journal: which copies   *)
(* an operation works on and what the device holds at each of its stages.  *)
(* What concerns the device and the journals alone follows from it.  That  *)
(* a replacement is recorded needs RInv as well, and a delivery journal    *)
(* that can hold every delivery.                                           *)
(***************************************************************************)
EXTENDS SafeUpdate, FiniteSetTheorems, TLAPS

BeforeObject == {"checking", "intent", "creating"}
OldIsThere   == {"intent", "creating", "filling", "reading back", "discarding",
                 "verifying", "recording", "posting", "revalidating", "deleting"}
NewIsThere   == {"reading back", "verifying", "recording", "posting", "revalidating",
                 "deleting", "proving", "noting", "reconciling"}

\* Objects are numbered in order; nothing exists that was not made.
MadeInv ==
  /\ OnDevice \subseteq 1..made
  /\ seen \subseteq 1..made
  /\ \A t \in tasks \cup shown : t.old # t.new

\* What an update has at each stage.
UpdateInv ==
  /\ stage \in UpdateStages =>
       /\ op.old # op.new
       /\ op.old <= made
       /\ op.new = IF stage \in BeforeObject THEN made + 1 ELSE made
  /\ stage \in OldIsThere => device[op.old] = "complete"
  /\ stage \in NewIsThere => device[op.new] = "complete"
  /\ stage \in {"creating", "filling", "reading back", "discarding"} => intent = op.new

\* What its reason says.
ReasonInv ==
  /\ stage \in UpdateStages \ {"noting", "reconciling"} => op.reason = "none"
  /\ stage = "noting" => op.reason \in Reasons
  /\ stage \in {"noting", "reconciling"} =>
       /\ op.reason = "delivery-recording" => device[op.old] = "complete"
       /\ op.reason = "none" => device[op.old] = "absent"

\* What a cleanup has at each stage.
CleanupInv ==
  /\ stage \in CleanupStages => op \in Tasks /\ op.old # op.new
  /\ stage \in CleanupStages \ {"inspecting"} => device[Retained(op)] = "complete"
  /\ stage = "acknowledging" => device[Removal(op)] = "absent"

UInv == TypeOK /\ MadeInv /\ UpdateInv /\ ReasonInv /\ CleanupInv

-----------------------------------------------------------------------------
(***************************************************************************)
(* Facts about single operators.                                           *)
(***************************************************************************)
USE UpdateConstants

\* An operation works on two copies.
LEMMA OpCopies ==
  ASSUME TypeOK, stage # "idle"
  PROVE  op.old \in Copies /\ op.new \in Copies
  BY DEF TypeOK

\* A device call leaves objects in their three states.
LEMMA EffectTyped ==
  ASSUME TypeOK, Carried
  PROVE  device' \in [Copies -> {"absent", "partial", "complete"}]
  BY DEF TypeOK, Effect, Carried

\* The only object a device call brings about is the new one.
LEMMA EffectLocal ==
  ASSUME TypeOK, Carried, NEW c \in Copies, device'[c] # "absent", device[c] = "absent"
  PROVE  stage \in {"creating", "filling"} /\ c = op.new
  BY DEF TypeOK, Effect, Carried

\* What an exception leaves in memory.
LEMMA ThrowTyped ==
  ASSUME TypeOK, Throw
  PROVE  /\ stage' = "idle"
         /\ op' \in [old : Copies \cup {None}, new : Copies \cup {None},
                    reason : Reasons \cup {"none"}]
         /\ journaled' \in BOOLEAN /\ ready' \in BOOLEAN
         /\ result' \in [status : Statuses, reminder : Reminders]
         /\ shown' = shown /\ seen' = seen
  BY DEF TypeOK, Throw, NoOp, Statuses, Reminders

-----------------------------------------------------------------------------
(***************************************************************************)
(* UInv is inductive.                                                      *)
(***************************************************************************)
\* The device starts with one whole copy.
LEMMA UpdateInit == Init => UInv
<1>. SUFFICES ASSUME Init PROVE UInv
  OBVIOUS
<1>1. TypeOK
  <2>1. /\ op \in [old : Copies \cup {None}, new : Copies \cup {None},
                  reason : Reasons \cup {"none"}]
        /\ result \in [status : Statuses, reminder : Reminders]
    BY DEF Init, NoOp, NoResult, Statuses, Reminders
  <2>2. 1 \in Copies
    BY DEF Copies
  <2>3. device \in [Copies -> {"absent", "partial", "complete"}]
    BY DEF Init
  <2>4. /\ stage \in Stages /\ stage = "idle" /\ journaled \in BOOLEAN /\ ready \in BOOLEAN
        /\ intent \in Copies \cup {None} /\ made \in Copies
    BY <2>2 DEF Init, Stages
  <2>5. /\ tasks \in SUBSET Tasks /\ shown \in SUBSET Tasks
        /\ \A S \in {deliveries, server, inflight, seen, replaced} : S \in SUBSET Copies
    BY <2>2 DEF Init
  <2>. QED
    BY <2>1, <2>3, <2>4, <2>5 DEF TypeOK
<1>2. MadeInv
  BY DEF Init, MadeInv, OnDevice, Copies
<1>3. UpdateInv /\ ReasonInv /\ CleanupInv
  BY DEF Init, UpdateInv, ReasonInv, CleanupInv, UpdateStages, CleanupStages, OldIsThere,
         NewIsThere
<1>. QED
  BY <1>1, <1>2, <1>3 DEF UInv

\* The steps that change the device by what they report, or not at all.
PlainSteps ==
  \/ \E c \in Copies : StartUpdate(c) \/ OwnerRemoves(c)
  \/ \E t \in Tasks : StartCleanup(t)
  \/ CheckPasses \/ CheckFails \/ WriteIntent \/ IntentFails \/ CreateObject
  \/ UploadVerified \/ ReadBackFails \/ VerifyNew \/ VerifyFails \/ RecordRefused
  \/ RevalidateOld \/ DeleteOld \/ ProveAbsent \/ NoteTask \/ InspectBoth
  \/ InspectResolved \/ CleanUp \/ ConfirmCleanup \/ Refresh

LEMMA PlainStep ==
  ASSUME UInv, PlainSteps
  PROVE  UInv'
<1>. USE DEF UInv, TypeOK, MadeInv, OnDevice, UpdateInv, ReasonInv, CleanupInv, Stages,
             UpdateStages, CleanupStages, BeforeObject, OldIsThere, NewIsThere, Reasons,
             Tasks, Statuses, Reminders, Copies, None, NoOp, NoResult
<1>1. ASSUME NEW c \in Copies, StartUpdate(c) PROVE UInv'
  BY <1>1 DEF StartUpdate, durable, Synchronized
<1>2. ASSUME NEW c \in Copies, OwnerRemoves(c) PROVE UInv'
  BY <1>2 DEF OwnerRemoves, memory
<1>3. ASSUME NEW t \in Tasks, StartCleanup(t) PROVE UInv'
  BY <1>3 DEF StartCleanup, durable, Synchronized
<1>4. CASE CheckPasses
  BY <1>4 DEF CheckPasses, durable, GoTo
<1>5. CASE CheckFails
  BY <1>5 DEF CheckFails, durable, Throw
<1>6. CASE WriteIntent
  BY <1>6 DEF WriteIntent, GoTo
<1>7. CASE IntentFails
  BY <1>7 DEF IntentFails, durable, Throw
<1>8. CASE CreateObject
  BY <1>8 DEF CreateObject, Effect, GoTo
<1>9. CASE UploadVerified
  BY <1>9 DEF UploadVerified, GoTo
<1>10. CASE ReadBackFails
  BY <1>10 DEF ReadBackFails, durable, GoTo
<1>11. CASE VerifyNew
  BY <1>11 DEF VerifyNew, durable, GoTo
<1>12. CASE VerifyFails
  BY <1>12 DEF VerifyFails, durable, Throw
<1>13. CASE RecordRefused
  BY <1>13 DEF RecordRefused, durable, GoTo
<1>14. CASE RevalidateOld
  BY <1>14 DEF RevalidateOld, durable, GoTo
<1>15. CASE DeleteOld
  BY <1>15 DEF DeleteOld, Effect, History, GoTo
<1>16. CASE ProveAbsent
  BY <1>16 DEF ProveAbsent, durable, GoTo
<1>17. CASE NoteTask
  BY <1>17 DEF NoteTask, GoTo
<1>18. CASE InspectBoth
  BY <1>18 DEF InspectBoth, durable, GoTo, Retained, Removal
<1>19. CASE InspectResolved
  BY <1>19 DEF InspectResolved, durable, GoTo, Retained, Removal
<1>20. CASE CleanUp
  BY <1>20 DEF CleanUp, Effect, GoTo, Retained, Removal
<1>21. CASE ConfirmCleanup
  BY <1>21 DEF ConfirmCleanup, durable, GoTo, Retained, Removal
<1>22. CASE Refresh
  BY <1>22 DEF Refresh, durable
<1>. QED
  BY <1>1, <1>2, <1>3, <1>4, <1>5, <1>6, <1>7, <1>8, <1>9, <1>10, <1>11, <1>12,
     <1>13, <1>14, <1>15, <1>16, <1>17, <1>18, <1>19, <1>20, <1>21, <1>22
     DEF PlainSteps

\* A journaled delivery is posted again.
LEMMA FlushDeliveryKeeps ==
  ASSUME UInv, NEW c \in Copies, FlushDelivery(c)
  PROVE  UInv'
<1>1. FlushDelivery(c)
  OBVIOUS
<1>2. TypeOK'
  <2>1. /\ deliveries' \in SUBSET Copies
        /\ server' \in SUBSET Copies
        /\ inflight' \in SUBSET Copies
    BY <1>1 DEF FlushDelivery, UInv, TypeOK
  <2>. QED
    BY <1>1, <2>1 DEF FlushDelivery, memory, UInv, TypeOK
<1>3. MadeInv'
  BY <1>1 DEF UInv, TypeOK, MadeInv, OnDevice, FlushDelivery, memory
<1>4. UpdateInv'
  BY <1>1 DEF UInv, TypeOK, UpdateInv, UpdateStages, BeforeObject, OldIsThere,
              NewIsThere, FlushDelivery, memory
<1>5. ReasonInv'
  BY <1>1 DEF UInv, TypeOK, ReasonInv, UpdateStages, FlushDelivery, memory
<1>6. CleanupInv'
  BY <1>1 DEF UInv, TypeOK, CleanupInv, UpdateStages, CleanupStages, Retained,
              Removal, FlushDelivery, memory
<1>. QED
  BY <1>2, <1>3, <1>4, <1>5, <1>6 DEF UInv

\* A late POST arrives.
LEMMA LatePostKeeps ==
  ASSUME UInv, NEW c \in Copies, LatePost(c)
  PROVE  UInv'
<1>1. LatePost(c)
  OBVIOUS
<1>2. TypeOK'
  BY <1>1 DEF LatePost, memory, UInv, TypeOK
<1>3. MadeInv'
  BY <1>1 DEF UInv, TypeOK, MadeInv, OnDevice, LatePost, memory
<1>4. UpdateInv'
  BY <1>1 DEF UInv, TypeOK, UpdateInv, UpdateStages, BeforeObject, OldIsThere,
              NewIsThere, LatePost, memory
<1>5. ReasonInv'
  BY <1>1 DEF UInv, TypeOK, ReasonInv, UpdateStages, LatePost, memory
<1>6. CleanupInv'
  BY <1>1 DEF UInv, TypeOK, CleanupInv, UpdateStages, CleanupStages, Retained,
              Removal, LatePost, memory
<1>. QED
  BY <1>2, <1>3, <1>4, <1>5, <1>6 DEF UInv

\* SendObjectInfo fails.
LEMMA CreateFailsKeeps ==
  ASSUME UInv, CreateFails
  PROVE  UInv'
<1>1. CreateFails
  OBVIOUS
<1>2. TypeOK'
  <2>1. made' \in Copies
    BY <1>1, OpCopies DEF CreateFails, UInv
  <2>2. TypeOK /\ Carried /\ Throw
    BY <1>1 DEF CreateFails, UInv
  <2>. QED
    BY <1>1, <2>1, <2>2, EffectTyped, ThrowTyped DEF CreateFails, TypeOK, Stages
<1>3. MadeInv'
  BY <1>1 DEF UInv, TypeOK, MadeInv, OnDevice, UpdateInv, CleanupInv, Copies, None,
              NoOp, UpdateStages, CleanupStages, BeforeObject, CreateFails, Effect,
              Carried, Throw
<1>4. UpdateInv'
  BY <1>1 DEF UInv, TypeOK, UpdateInv, UpdateStages, BeforeObject, OldIsThere,
              NewIsThere, CreateFails, Effect, Carried, Throw
<1>5. ReasonInv'
  BY <1>1 DEF UInv, TypeOK, ReasonInv, UpdateStages, CreateFails, Effect, Carried,
              Throw
<1>6. CleanupInv'
  BY <1>1 DEF UInv, TypeOK, CleanupInv, UpdateStages, CleanupStages, Retained,
              Removal, CreateFails, Effect, Carried, Throw
<1>. QED
  BY <1>2, <1>3, <1>4, <1>5, <1>6 DEF UInv

\* SendObject succeeds.
LEMMA FillObjectKeeps ==
  ASSUME UInv, FillObject
  PROVE  UInv'
<1>1. FillObject
  OBVIOUS
<1>2. TypeOK'
  <2>1. TypeOK /\ Carried
    BY <1>1 DEF FillObject, Carried, UInv
  <2>2. device' \in [Copies -> {"absent", "partial", "complete"}]
    BY <2>1, EffectTyped
  <2>. QED
    BY <1>1, <2>1, <2>2 DEF FillObject, GoTo, TypeOK, Stages, UpdateStages
<1>3. MadeInv'
  <2>1. op.new = made
    BY <1>1 DEF FillObject, UInv, UpdateInv, UpdateStages, BeforeObject
  <2>2. made \in 1..made
    BY DEF UInv, TypeOK, Copies
  <2>3. OnDevice \subseteq 1..made /\ TypeOK /\ Carried
    BY <1>1 DEF FillObject, Carried, UInv, MadeInv
  <2>4. ASSUME NEW c \in OnDevice' PROVE c \in 1..made
    <3>1. c \in Copies /\ device'[c] # "absent"
      BY <2>4 DEF OnDevice
    <3>2. CASE device[c] = "absent"
      BY <2>1, <2>2, <2>3, <3>1, <3>2, EffectLocal
    <3>3. CASE device[c] # "absent"
      BY <2>3, <3>1, <3>3 DEF OnDevice
    <3>. QED
      BY <3>2, <3>3
  <2>. QED
    BY <1>1, <2>4 DEF FillObject, UInv, MadeInv
<1>4. UpdateInv'
  <2>1. op.old \in Copies /\ op.new \in Copies /\ op.old # op.new
    BY <1>1, OpCopies DEF FillObject, UInv, UpdateInv, UpdateStages
  <2>2. device'[op.new] = "complete" /\ device'[op.old] = device[op.old]
    BY <1>1, <2>1 DEF FillObject, Effect, UInv, TypeOK
  <2>. QED
    BY <1>1, <2>2 DEF FillObject, GoTo, UInv, UpdateInv, UpdateStages, BeforeObject,
                      OldIsThere, NewIsThere
<1>5. ReasonInv'
  BY <1>1 DEF UInv, TypeOK, ReasonInv, UpdateStages, FillObject, Effect, GoTo
<1>6. CleanupInv'
  BY <1>1 DEF UInv, TypeOK, CleanupInv, UpdateStages, CleanupStages, Retained,
              Removal, FillObject, Effect, GoTo
<1>. QED
  BY <1>2, <1>3, <1>4, <1>5, <1>6 DEF UInv

\* SendObject fails.
LEMMA FillFailsKeeps ==
  ASSUME UInv, FillFails
  PROVE  UInv'
<1>1. FillFails
  OBVIOUS
<1>2. TypeOK'
  BY <1>1 DEF UInv, TypeOK, Stages, UpdateStages, CleanupStages, FillFails, Effect,
              Carried, GoTo
<1>3. MadeInv'
  BY <1>1 DEF UInv, TypeOK, MadeInv, OnDevice, UpdateInv, CleanupInv, Copies, None,
              NoOp, UpdateStages, CleanupStages, BeforeObject, FillFails, Effect,
              Carried, GoTo
<1>4. UpdateInv'
  BY <1>1 DEF UInv, TypeOK, UpdateInv, UpdateStages, BeforeObject, OldIsThere,
              NewIsThere, FillFails, Effect, Carried, GoTo
<1>5. ReasonInv'
  BY <1>1 DEF UInv, TypeOK, ReasonInv, UpdateStages, FillFails, Effect, Carried,
              GoTo
<1>6. CleanupInv'
  BY <1>1 DEF UInv, TypeOK, CleanupInv, UpdateStages, CleanupStages, Retained,
              Removal, FillFails, Effect, Carried, GoTo
<1>. QED
  BY <1>2, <1>3, <1>4, <1>5, <1>6 DEF UInv

\* The new object is removed again.
LEMMA DiscardKeeps ==
  ASSUME UInv, Discard
  PROVE  UInv'
<1>1. Discard
  OBVIOUS
<1>2. TypeOK'
  <2>1. TypeOK /\ Carried /\ Throw
    BY <1>1 DEF Discard, Carried, UInv
  <2>2. intent' \in Copies \cup {None}
    BY <1>1 DEF Discard, UInv, TypeOK
  <2>3. device' \in [Copies -> {"absent", "partial", "complete"}]
    BY <2>1, EffectTyped
  <2>. QED
    BY <1>1, <2>1, <2>2, <2>3, ThrowTyped DEF Discard, TypeOK, Stages
<1>3. MadeInv'
  BY <1>1 DEF UInv, TypeOK, MadeInv, OnDevice, Discard, Effect, Throw
<1>4. UpdateInv'
  BY <1>1 DEF UInv, TypeOK, UpdateInv, UpdateStages, BeforeObject, OldIsThere,
              NewIsThere, Discard, Effect, Throw
<1>5. ReasonInv'
  BY <1>1 DEF UInv, TypeOK, ReasonInv, UpdateStages, Discard, Effect, Throw
<1>6. CleanupInv'
  BY <1>1 DEF UInv, TypeOK, CleanupInv, UpdateStages, CleanupStages, Retained,
              Removal, Discard, Effect, Throw
<1>. QED
  BY <1>2, <1>3, <1>4, <1>5, <1>6 DEF UInv

\* The new object could not be removed.
LEMMA DiscardFailsKeeps ==
  ASSUME UInv, DiscardFails
  PROVE  UInv'
<1>1. DiscardFails
  OBVIOUS
<1>2. TypeOK'
  BY <1>1, EffectTyped, ThrowTyped DEF DiscardFails, UInv, TypeOK, Stages
<1>3. MadeInv'
  BY <1>1 DEF UInv, TypeOK, MadeInv, OnDevice, DiscardFails, Effect, Carried, Throw
<1>4. UpdateInv'
  BY <1>1 DEF UInv, TypeOK, UpdateInv, UpdateStages, BeforeObject, OldIsThere,
              NewIsThere, DiscardFails, Effect, Carried, Throw
<1>5. ReasonInv'
  BY <1>1 DEF UInv, TypeOK, ReasonInv, UpdateStages, DiscardFails, Effect, Carried,
              Throw
<1>6. CleanupInv'
  BY <1>1 DEF UInv, TypeOK, CleanupInv, UpdateStages, CleanupStages, Retained,
              Removal, DiscardFails, Effect, Carried, Throw
<1>. QED
  BY <1>2, <1>3, <1>4, <1>5, <1>6 DEF UInv

\* The delivery is journaled, or not.
LEMMA QueueDeliveryKeeps ==
  ASSUME UInv, QueueDelivery
  PROVE  UInv'
<1>1. QueueDelivery
  OBVIOUS
<1>2. TypeOK'
  BY <1>1 DEF UInv, TypeOK, Stages, UpdateStages, CleanupStages, QueueDelivery,
              GoTo, Newest
<1>3. MadeInv'
  BY <1>1 DEF UInv, TypeOK, MadeInv, OnDevice, QueueDelivery, GoTo, Newest
<1>4. UpdateInv'
  BY <1>1 DEF UInv, TypeOK, UpdateInv, UpdateStages, BeforeObject, OldIsThere,
              NewIsThere, QueueDelivery, GoTo, Newest
<1>5. ReasonInv'
  BY <1>1 DEF UInv, TypeOK, ReasonInv, UpdateStages, QueueDelivery, GoTo, Newest
<1>6. CleanupInv'
  BY <1>1 DEF UInv, TypeOK, CleanupInv, UpdateStages, CleanupStages, Retained,
              Removal, QueueDelivery, GoTo, Newest
<1>. QED
  BY <1>2, <1>3, <1>4, <1>5, <1>6 DEF UInv

\* The catalog records the delivery.
LEMMA PostDeliveryKeeps ==
  ASSUME UInv, PostDelivery
  PROVE  UInv'
<1>1. PostDelivery
  OBVIOUS
<1>2. TypeOK'
  BY <1>1 DEF UInv, TypeOK, Stages, UpdateStages, CleanupStages, PostDelivery, GoTo
<1>3. MadeInv'
  BY <1>1 DEF UInv, TypeOK, MadeInv, OnDevice, PostDelivery, GoTo
<1>4. UpdateInv'
  BY <1>1 DEF UInv, TypeOK, UpdateInv, UpdateStages, BeforeObject, OldIsThere,
              NewIsThere, PostDelivery, GoTo
<1>5. ReasonInv'
  BY <1>1 DEF UInv, TypeOK, ReasonInv, UpdateStages, PostDelivery, GoTo
<1>6. CleanupInv'
  BY <1>1 DEF UInv, TypeOK, CleanupInv, UpdateStages, CleanupStages, Retained,
              Removal, PostDelivery, GoTo
<1>. QED
  BY <1>2, <1>3, <1>4, <1>5, <1>6 DEF UInv

\* The POST fails.
LEMMA PostFailsKeeps ==
  ASSUME UInv, PostFails
  PROVE  UInv'
<1>1. PostFails
  OBVIOUS
<1>2. TypeOK'
  <2>1. inflight' \in SUBSET Copies
    BY <1>1 DEF PostFails, UInv, TypeOK
  <2>2. /\ op' \in [old : Copies \cup {None}, new : Copies \cup {None},
                  reason : Reasons \cup {"none"}]
        /\ op'.old = op.old /\ op'.new = op.new
    BY <1>1 DEF PostFails, UInv, TypeOK, Reasons
  <2>. QED
    BY <1>1, <2>1, <2>2 DEF PostFails, GoTo, UInv, TypeOK, Stages, UpdateStages
<1>3. MadeInv'
  BY <1>1 DEF UInv, TypeOK, MadeInv, OnDevice, PostFails, GoTo
<1>4. UpdateInv'
  <2>1. op'.old = op.old /\ op'.new = op.new
    BY <1>1 DEF PostFails, UInv, TypeOK, Reasons
  <2>. QED
    BY <1>1, <2>1 DEF PostFails, GoTo, UInv, UpdateInv, UpdateStages, BeforeObject,
                      OldIsThere, NewIsThere
<1>5. ReasonInv'
  <2>1. CASE journaled
    BY <1>1, <2>1 DEF PostFails, GoTo, UInv, ReasonInv, UpdateStages
  <2>2. CASE ~journaled
    <3>1. op'.reason = "delivery-recording" /\ op'.old = op.old
      BY <1>1, <2>2 DEF PostFails, UInv, TypeOK
    <3>. QED
      BY <1>1, <2>2, <3>1 DEF PostFails, GoTo, UInv, UpdateInv, OldIsThere, ReasonInv,
                              Reasons, UpdateStages
  <2>. QED
    BY <2>1, <2>2
<1>6. CleanupInv'
  BY <1>1 DEF UInv, TypeOK, CleanupInv, UpdateStages, CleanupStages, Retained,
              Removal, PostFails, GoTo
<1>. QED
  BY <1>2, <1>3, <1>4, <1>5, <1>6 DEF UInv

\* The old copy could not be removed, or not be proven absent.
LEMMA RemovalFailsKeeps ==
  ASSUME UInv, RemovalFails
  PROVE  UInv'
<1>1. RemovalFails
  OBVIOUS
<1>2. TypeOK'
  <2>1. /\ op' \in [old : Copies \cup {None}, new : Copies \cup {None},
                  reason : Reasons \cup {"none"}]
        /\ op'.old = op.old /\ op'.new = op.new
    BY <1>1 DEF RemovalFails, UInv, TypeOK, Reasons
  <2>2. replaced' \in SUBSET Copies
    BY <1>1 DEF RemovalFails, UInv, TypeOK, History
  <2>. QED
    BY <1>1, <2>1, <2>2, EffectTyped
       DEF RemovalFails, GoTo, UInv, TypeOK, Stages, UpdateStages
<1>3. MadeInv'
  BY <1>1 DEF UInv, TypeOK, MadeInv, OnDevice, RemovalFails, Effect, Carried,
              History, GoTo
<1>4. UpdateInv'
  <2>1. op'.old = op.old /\ op'.new = op.new
    BY <1>1 DEF RemovalFails, UInv, TypeOK, Reasons
  <2>2. op.old \in Copies /\ op.new \in Copies /\ op.old # op.new
    BY <1>1, OpCopies DEF RemovalFails, UInv, UpdateInv, UpdateStages
  <2>3. device'[op.new] = device[op.new]
    BY <1>1, <2>2 DEF RemovalFails, Carried, Effect, UInv, TypeOK
  <2>. QED
    BY <1>1, <2>1, <2>3 DEF RemovalFails, GoTo, UInv, UpdateInv, UpdateStages,
                            BeforeObject, OldIsThere, NewIsThere
<1>5. ReasonInv'
  BY <1>1 DEF UInv, TypeOK, ReasonInv, UpdateInv, Reasons, Copies, None, NoOp,
              CleanupInv, CleanupStages, UpdateStages, BeforeObject, OldIsThere,
              NewIsThere, RemovalFails, Effect, Carried, History, GoTo
<1>6. CleanupInv'
  BY <1>1 DEF UInv, TypeOK, CleanupInv, UpdateStages, CleanupStages, Retained,
              Removal, RemovalFails, Effect, Carried, History, GoTo
<1>. QED
  BY <1>2, <1>3, <1>4, <1>5, <1>6 DEF UInv

\* The update reports.
LEMMA ReconcileKeeps ==
  ASSUME UInv, Reconcile
  PROVE  UInv'
<1>1. Reconcile
  OBVIOUS
<1>2. TypeOK'
  <2>1. /\ op' \in [old : Copies \cup {None}, new : Copies \cup {None},
                  reason : Reasons \cup {"none"}]
        /\ result' \in [status : Statuses, reminder : Reminders]
        /\ stage' = "idle" /\ journaled' = FALSE
    BY <1>1 DEF Reconcile, Report, NoOp, Statuses, Reminders
  <2>2. shown' \in SUBSET Tasks /\ seen' \in SUBSET Copies /\ ready' \in BOOLEAN
    BY <1>1 DEF Reconcile, UInv, TypeOK, Synchronized, OnDevice
  <2>3. UNCHANGED <<durable, replaced>>
    BY <1>1 DEF Reconcile
  <2>. QED
    BY <2>1, <2>2, <2>3 DEF durable, UInv, TypeOK, Stages
<1>3. MadeInv'
  BY <1>1 DEF UInv, TypeOK, MadeInv, OnDevice, Reconcile, durable, Report,
              Synchronized
<1>4. UpdateInv'
  BY <1>1 DEF UInv, TypeOK, UpdateInv, UpdateStages, BeforeObject, OldIsThere,
              NewIsThere, Reconcile, durable, Report, Synchronized
<1>5. ReasonInv'
  BY <1>1 DEF UInv, TypeOK, ReasonInv, UpdateStages, Reconcile, durable, Report,
              Synchronized
<1>6. CleanupInv'
  BY <1>1 DEF UInv, TypeOK, CleanupInv, UpdateStages, CleanupStages, Retained,
              Removal, Reconcile, durable, Report, Synchronized
<1>. QED
  BY <1>2, <1>3, <1>4, <1>5, <1>6 DEF UInv

\* A cleanup fails.
LEMMA CleanupFailsKeeps ==
  ASSUME UInv, CleanupFails
  PROVE  UInv'
<1>1. CleanupFails
  OBVIOUS
<1>2. TypeOK'
  <2>1. /\ op' \in [old : Copies \cup {None}, new : Copies \cup {None},
                  reason : Reasons \cup {"none"}]
        /\ result' \in [status : Statuses, reminder : Reminders]
        /\ stage' = "idle"
    BY <1>1 DEF CleanupFails, NoOp, Statuses, Reminders
  <2>2. shown' \in SUBSET Tasks /\ ready' \in BOOLEAN
    BY <1>1 DEF CleanupFails, UInv, TypeOK, Synchronized
  <2>. QED
    BY <1>1, <2>1, <2>2, EffectTyped DEF CleanupFails, UInv, TypeOK, Stages
<1>3. MadeInv'
  BY <1>1 DEF UInv, TypeOK, MadeInv, OnDevice, CleanupFails, Effect, Carried,
              Synchronized, Removal
<1>4. UpdateInv'
  BY <1>1 DEF UInv, TypeOK, UpdateInv, UpdateStages, BeforeObject, OldIsThere,
              NewIsThere, CleanupFails, Effect, Carried, Synchronized, Removal
<1>5. ReasonInv'
  BY <1>1 DEF UInv, TypeOK, ReasonInv, UpdateStages, CleanupFails, Effect, Carried,
              Synchronized, Removal
<1>6. CleanupInv'
  BY <1>1 DEF UInv, TypeOK, CleanupInv, UpdateStages, CleanupStages, Retained,
              Removal, CleanupFails, Effect, Carried, Synchronized
<1>. QED
  BY <1>2, <1>3, <1>4, <1>5, <1>6 DEF UInv

\* A task is acknowledged, or not.
LEMMA AcknowledgeKeeps ==
  ASSUME UInv, Acknowledge
  PROVE  UInv'
<1>1. Acknowledge
  OBVIOUS
<1>2. TypeOK'
  <2>1. /\ op' \in [old : Copies \cup {None}, new : Copies \cup {None},
                  reason : Reasons \cup {"none"}]
        /\ result' \in [status : Statuses, reminder : Reminders]
        /\ stage' = "idle" /\ journaled' = FALSE
    <3>1. ASSUME NEW s \in Statuses, Report(s, "not-needed")
          PROVE  /\ op' = NoOp /\ stage' = "idle" /\ journaled' = FALSE
                 /\ result' \in [status : Statuses, reminder : Reminders]
      BY <3>1 DEF Report, Reminders
    <3>2. \E s \in Statuses : Report(s, "not-needed")
      BY <1>1 DEF Acknowledge, Statuses
    <3>3. NoOp \in [old : Copies \cup {None}, new : Copies \cup {None},
                   reason : Reasons \cup {"none"}]
      BY DEF NoOp
    <3>. QED
      BY <3>1, <3>2, <3>3
  <2>2. /\ tasks' \in SUBSET Tasks /\ shown' \in SUBSET Tasks
        /\ seen' \in SUBSET Copies /\ ready' \in BOOLEAN
    BY <1>1 DEF Acknowledge, UInv, TypeOK, Synchronized, OnDevice
  <2>3. UNCHANGED <<device, intent, deliveries, server, inflight, made, replaced>>
    BY <1>1 DEF Acknowledge
  <2>. QED
    BY <2>1, <2>2, <2>3 DEF UInv, TypeOK, Stages
<1>3. MadeInv'
  BY <1>1 DEF UInv, TypeOK, MadeInv, OnDevice, Acknowledge, Report, Synchronized
<1>4. UpdateInv'
  BY <1>1 DEF UInv, TypeOK, UpdateInv, UpdateStages, BeforeObject, OldIsThere,
              NewIsThere, Acknowledge, Report, Synchronized
<1>5. ReasonInv'
  BY <1>1 DEF UInv, TypeOK, ReasonInv, UpdateStages, Acknowledge, Report,
              Synchronized
<1>6. CleanupInv'
  BY <1>1 DEF UInv, TypeOK, CleanupInv, UpdateStages, CleanupStages, Retained,
              Removal, Acknowledge, Report, Synchronized
<1>. QED
  BY <1>2, <1>3, <1>4, <1>5, <1>6 DEF UInv

\* The owner acknowledges an interrupted object.
LEMMA AcknowledgeIntentKeeps ==
  ASSUME UInv, AcknowledgeIntent
  PROVE  UInv'
<1>1. AcknowledgeIntent
  OBVIOUS
<1>2. TypeOK'
  BY <1>1 DEF UInv, TypeOK, Stages, UpdateStages, CleanupStages, AcknowledgeIntent
<1>3. MadeInv'
  BY <1>1 DEF UInv, TypeOK, MadeInv, OnDevice, AcknowledgeIntent
<1>4. UpdateInv'
  BY <1>1 DEF UInv, TypeOK, UpdateInv, UpdateStages, BeforeObject, OldIsThere,
              NewIsThere, AcknowledgeIntent
<1>5. ReasonInv'
  BY <1>1 DEF UInv, TypeOK, ReasonInv, UpdateStages, AcknowledgeIntent
<1>6. CleanupInv'
  BY <1>1 DEF UInv, TypeOK, CleanupInv, UpdateStages, CleanupStages, Retained,
              Removal, AcknowledgeIntent
<1>. QED
  BY <1>2, <1>3, <1>4, <1>5, <1>6 DEF UInv

\* The tab dies.
LEMMA ReloadKeeps ==
  ASSUME UInv, Reload
  PROVE  UInv'
<1>1. Reload
  OBVIOUS
<1>2. TypeOK'
  <2>1. /\ op' \in [old : Copies \cup {None}, new : Copies \cup {None},
                  reason : Reasons \cup {"none"}]
        /\ result' \in [status : Statuses, reminder : Reminders]
        /\ stage' = "idle" /\ journaled' = FALSE
    BY <1>1 DEF Reload, NoOp, NoResult, Statuses, Reminders
  <2>2. shown' \in SUBSET Tasks /\ seen' \in SUBSET Copies /\ ready' \in BOOLEAN
    BY <1>1 DEF Reload, UInv, TypeOK
  <2>3. made' \in Copies
    BY <1>1, OpCopies DEF Reload, UInv, TypeOK
  <2>4. replaced' \in SUBSET Copies /\ inflight' \in SUBSET Copies
    BY <1>1 DEF Reload, History, UInv, TypeOK
  <2>5. device' \in [Copies -> {"absent", "partial", "complete"}]
    BY <1>1, EffectTyped DEF Reload, UInv
  <2>6. UNCHANGED <<intent, deliveries, tasks, server>>
    BY <1>1 DEF Reload
  <2>. QED
    BY <2>1, <2>2, <2>3, <2>4, <2>5, <2>6 DEF UInv, TypeOK, Stages
<1>3. MadeInv'
  <2>1. made' \in Nat /\ made <= made'
    <3>1. made \in Nat
      BY DEF UInv, TypeOK, Copies
    <3>2. stage = "creating" => op.new = made + 1
      BY DEF UInv, UpdateInv, UpdateStages, BeforeObject
    <3>. QED
      BY <1>1, <3>1, <3>2 DEF Reload
  <2>2. ASSUME NEW c \in OnDevice' PROVE c \in 1..made'
    <3>1. CASE c \in OnDevice
      <4>1. c \in 1..made
        BY <3>1 DEF UInv, MadeInv
      <4>2. made \in Nat
        BY DEF UInv, TypeOK, Copies
      <4>. QED
        BY <2>1, <4>1, <4>2
    <3>2. CASE c \notin OnDevice
      <4>1. stage \in {"creating", "filling"} /\ c = op.new
        BY <1>1, <2>2, <3>2, EffectLocal DEF OnDevice, UInv, Reload
      <4>2. op.new = made'
        BY <1>1, <4>1 DEF Reload, UInv, UpdateInv, UpdateStages, BeforeObject
      <4>. QED
        BY <2>1, <2>2, <4>1, <4>2 DEF OnDevice, Copies
    <3>. QED
      BY <3>1, <3>2
  <2>. QED
    BY <1>1, <2>1, <2>2 DEF Reload, UInv, MadeInv
<1>4. UpdateInv'
  BY <1>1 DEF UInv, TypeOK, UpdateInv, UpdateStages, BeforeObject, OldIsThere,
              NewIsThere, Reload, Effect, Carried, History, Removal
<1>5. ReasonInv'
  BY <1>1 DEF UInv, TypeOK, ReasonInv, UpdateStages, Reload, Effect, Carried,
              History, Removal
<1>6. CleanupInv'
  BY <1>1 DEF UInv, TypeOK, CleanupInv, UpdateStages, CleanupStages, Retained,
              Removal, Reload, Effect, Carried, History
<1>. QED
  BY <1>2, <1>3, <1>4, <1>5, <1>6 DEF UInv

\* A stutter.
LEMMA StutterKeeps ==
  ASSUME UInv, UNCHANGED vars
  PROVE  UInv'
<1>1. UNCHANGED vars
  OBVIOUS
<1>2. TypeOK'
  BY <1>1 DEF UInv, TypeOK, Stages, UpdateStages, CleanupStages, vars
<1>3. MadeInv'
  BY <1>1 DEF UInv, TypeOK, MadeInv, OnDevice, vars
<1>4. UpdateInv'
  BY <1>1 DEF UInv, TypeOK, UpdateInv, UpdateStages, BeforeObject, OldIsThere,
              NewIsThere, vars
<1>5. ReasonInv'
  BY <1>1 DEF UInv, TypeOK, ReasonInv, UpdateStages, vars
<1>6. CleanupInv'
  BY <1>1 DEF UInv, TypeOK, CleanupInv, UpdateStages, CleanupStages, Retained,
              Removal, vars
<1>. QED
  BY <1>2, <1>3, <1>4, <1>5, <1>6 DEF UInv

\* Every step keeps UInv.
LEMMA UpdateStep == UInv /\ [Next]_vars => UInv'
  BY PlainStep, FlushDeliveryKeeps, LatePostKeeps, CreateFailsKeeps, FillObjectKeeps, FillFailsKeeps,
     DiscardKeeps, DiscardFailsKeeps, QueueDeliveryKeeps, PostDeliveryKeeps, PostFailsKeeps,
     RemovalFailsKeeps, ReconcileKeeps, CleanupFailsKeeps, AcknowledgeKeeps, AcknowledgeIntentKeeps,
     ReloadKeeps, StutterKeeps
     DEF Next, Upload, Replace, Cleanup, PlainSteps

\* The strengthening is an invariant.
THEOREM UpdateInvariant == Spec => []UInv
  BY UpdateInit, UpdateStep, PTL DEF Spec

\* Every reachable state has the declared types.
THEOREM UpdateTypeCorrect == Spec => []TypeOK
  BY UpdateInvariant, PTL DEF UInv

-----------------------------------------------------------------------------
(***************************************************************************)
(* What a step can do to each part of the state.                           *)
(***************************************************************************)
\* While an operation runs, only its device call changes the device.
LEMMA DeviceStep ==
  ASSUME [Next]_vars, stage # "idle"
  PROVE  Carried
<1>1. CASE Upload
  BY <1>1 DEF Upload, CheckPasses, CheckFails, WriteIntent, IntentFails, CreateObject,
              CreateFails, FillObject, FillFails, UploadVerified, ReadBackFails,
              Discard, DiscardFails, VerifyNew, VerifyFails, durable, Carried
<1>2. CASE Replace
  BY <1>2 DEF Replace, RecordRefused, QueueDelivery, PostDelivery, PostFails,
              RevalidateOld, DeleteOld, ProveAbsent, RemovalFails, NoteTask,
              Reconcile, durable, Carried
<1>3. CASE Cleanup
  BY <1>3 DEF Cleanup, InspectBoth, InspectResolved, CleanUp, ConfirmCleanup,
              CleanupFails, Acknowledge, durable, Carried
<1>4. CASE UNCHANGED vars
  BY <1>4 DEF vars, Carried
<1>5. ASSUME NEW c \in Copies,
             StartUpdate(c) \/ FlushDelivery(c) \/ LatePost(c) \/ OwnerRemoves(c)
      PROVE  Carried
  BY <1>5 DEF StartUpdate, FlushDelivery, LatePost, OwnerRemoves, Carried
<1>6. ASSUME NEW t \in Tasks, StartCleanup(t) PROVE Carried
  BY <1>6 DEF StartCleanup
<1>7. CASE Refresh \/ AcknowledgeIntent \/ Reload
  BY <1>7 DEF Refresh, AcknowledgeIntent, Reload
<1>. QED
  BY <1>1, <1>2, <1>3, <1>4, <1>5, <1>6, <1>7 DEF Next

\* Between operations no object appears.
LEMMA IdleDeviceStep ==
  ASSUME TypeOK, [Next]_vars, stage = "idle",
         NEW c \in Copies, device[c] = "absent"
  PROVE  device'[c] = "absent"
<1>1. CASE Upload
  BY <1>1 DEF Upload, CheckPasses, CheckFails, WriteIntent, IntentFails, CreateObject,
              CreateFails, FillObject, FillFails, UploadVerified, ReadBackFails,
              Discard, DiscardFails, VerifyNew, VerifyFails
<1>2. CASE Replace
  BY <1>2 DEF Replace, RecordRefused, QueueDelivery, PostDelivery, PostFails,
              RevalidateOld, DeleteOld, ProveAbsent, RemovalFails, NoteTask,
              Reconcile
<1>3. CASE Cleanup
  BY <1>3 DEF Cleanup, InspectBoth, InspectResolved, CleanUp, ConfirmCleanup,
              CleanupFails, Acknowledge
<1>4. CASE UNCHANGED vars
  BY <1>4 DEF vars
<1>5. ASSUME NEW d \in Copies,
             StartUpdate(d) \/ FlushDelivery(d) \/ LatePost(d) \/ OwnerRemoves(d)
      PROVE  device'[c] = "absent"
  BY <1>5 DEF StartUpdate, FlushDelivery, LatePost, OwnerRemoves, durable, TypeOK
<1>6. ASSUME NEW t \in Tasks, StartCleanup(t) PROVE device'[c] = "absent"
  BY <1>6 DEF StartCleanup, durable
<1>7. CASE Refresh \/ AcknowledgeIntent \/ Reload
  BY <1>7 DEF Refresh, AcknowledgeIntent, Reload, Carried, Effect, durable
<1>. QED
  BY <1>1, <1>2, <1>3, <1>4, <1>5, <1>6, <1>7 DEF Next

\* Only an acknowledgement takes tasks out of the journal, only NoteTask
\* puts one in.
LEMMA TaskStep ==
  ASSUME [Next]_vars
  PROVE  tasks' = tasks \/ Acknowledge \/ NoteTask
<1>1. CASE Upload
  BY <1>1 DEF Upload, CheckPasses, CheckFails, WriteIntent, IntentFails, CreateObject,
              CreateFails, FillObject, FillFails, UploadVerified, ReadBackFails,
              Discard, DiscardFails, VerifyNew, VerifyFails, durable
<1>2. CASE Replace
  BY <1>2 DEF Replace, RecordRefused, QueueDelivery, PostDelivery, PostFails,
              RevalidateOld, DeleteOld, ProveAbsent, RemovalFails, Reconcile, durable
<1>3. CASE Cleanup
  BY <1>3 DEF Cleanup, InspectBoth, InspectResolved, CleanUp, ConfirmCleanup,
              CleanupFails, durable
<1>4. CASE UNCHANGED vars
  BY <1>4 DEF vars
<1>5. ASSUME NEW c \in Copies,
             StartUpdate(c) \/ FlushDelivery(c) \/ LatePost(c) \/ OwnerRemoves(c)
      PROVE  tasks' = tasks
  BY <1>5 DEF StartUpdate, FlushDelivery, LatePost, OwnerRemoves, durable
<1>6. ASSUME NEW t \in Tasks, StartCleanup(t) PROVE tasks' = tasks
  BY <1>6 DEF StartCleanup, durable
<1>7. CASE Refresh \/ AcknowledgeIntent \/ Reload
  BY <1>7 DEF Refresh, AcknowledgeIntent, Reload, durable
<1>. QED
  BY <1>1, <1>2, <1>3, <1>4, <1>5, <1>6, <1>7 DEF Next

\* While an operation runs, only a verified upload and a completed removal
\* drop the recovery record.
LEMMA IntentStep ==
  ASSUME [Next]_vars, stage # "idle"
  PROVE  intent' = intent \/ WriteIntent \/ UploadVerified \/ Discard
<1>1. CASE Upload
  BY <1>1 DEF Upload, CheckPasses, CheckFails, IntentFails, CreateObject,
              CreateFails, FillObject, FillFails, ReadBackFails,
              DiscardFails, VerifyNew, VerifyFails, durable
<1>2. CASE Replace
  BY <1>2 DEF Replace, RecordRefused, QueueDelivery, PostDelivery, PostFails,
              RevalidateOld, DeleteOld, ProveAbsent, RemovalFails, NoteTask,
              Reconcile, durable
<1>3. CASE Cleanup
  BY <1>3 DEF Cleanup, InspectBoth, InspectResolved, CleanUp, ConfirmCleanup,
              CleanupFails, Acknowledge, durable
<1>4. CASE UNCHANGED vars
  BY <1>4 DEF vars
<1>5. ASSUME NEW c \in Copies,
             StartUpdate(c) \/ FlushDelivery(c) \/ LatePost(c) \/ OwnerRemoves(c)
      PROVE  intent' = intent
  BY <1>5 DEF StartUpdate, FlushDelivery, LatePost, OwnerRemoves
<1>6. ASSUME NEW t \in Tasks, StartCleanup(t) PROVE intent' = intent
  BY <1>6 DEF StartCleanup
<1>7. CASE Refresh \/ AcknowledgeIntent \/ Reload
  BY <1>7 DEF Refresh, AcknowledgeIntent, Reload
<1>. QED
  BY <1>1, <1>2, <1>3, <1>4, <1>5, <1>6, <1>7 DEF Next

-----------------------------------------------------------------------------
(***************************************************************************)
(* No operation takes the last complete copy.                              *)
(***************************************************************************)
LEMMA CopyKept ==
  ASSUME UInv, [Next]_vars, stage # "idle", ~(Complete \subseteq Complete')
  PROVE  Complete' # {}
<1>1. TypeOK /\ Carried /\ op.old \in Copies /\ op.new \in Copies
  BY DeviceStep, OpCopies DEF UInv
<1>2. device' # device
  BY DEF Complete
<1>3. SUFFICES \E c \in Copies : device'[c] = "complete"
  BY DEF Complete
<1>4. CASE stage \in {"creating", "discarding"}
  <2>1. op.old # op.new /\ device[op.old] = "complete"
    BY <1>4 DEF UInv, UpdateInv, UpdateStages, OldIsThere
  <2>2. device' \in {[device EXCEPT ![op.new] = "partial"],
                     [device EXCEPT ![op.new] = "absent"]}
    BY <1>1, <1>2, <1>4 DEF Carried, Effect
  <2>. QED
    BY <1>1, <2>1, <2>2 DEF TypeOK
<1>5. CASE stage = "filling"
  BY <1>1, <1>2, <1>5 DEF Carried, Effect, TypeOK
<1>6. CASE stage = "deleting"
  <2>1. op.old # op.new /\ device[op.new] = "complete"
    BY <1>6 DEF UInv, UpdateInv, UpdateStages, NewIsThere
  <2>. QED
    BY <1>1, <1>2, <1>6, <2>1 DEF Carried, Effect, TypeOK
<1>7. CASE stage = "cleaning"
  <2>1. device[Retained(op)] = "complete" /\ op.old # op.new
    BY <1>7 DEF UInv, CleanupInv, CleanupStages
  <2>. QED
    BY <1>1, <1>2, <1>7, <2>1 DEF Carried, Effect, Retained, Removal, TypeOK
<1>. QED
  BY <1>1, <1>2, <1>4, <1>5, <1>6, <1>7 DEF Carried, Effect

\* Whatever fails and however often: while an operation runs, a readable
\* old or verified new copy remains on the Kindle.
THEOREM ACopyIsKept == Spec => KeepsACopy
<1>1. UInv /\ [Next]_vars
        => [stage # "idle" /\ ~(Complete \subseteq Complete') => Complete' # {}]_vars
  BY CopyKept
<1>. QED
  BY <1>1, UpdateInvariant, PTL DEF Spec, KeepsACopy

-----------------------------------------------------------------------------
(***************************************************************************)
(* Tasks and recovery records.                                             *)
(***************************************************************************)
\* A cleanup task leaves the journal only when it has been carried out.
THEOREM TasksWorkedOff == Spec => TasksAreWorkedOff
<1>1. ASSUME UInv, [Next]_vars, NEW t \in tasks \ tasks'
      PROVE  device[Removal(t)] = "absent" /\ device[Retained(t)] = "complete"
  <2>1. Acknowledge
    BY <1>1, TaskStep DEF NoteTask
  <2>2. stage = "acknowledging" /\ t = op
    BY <1>1, <2>1 DEF Acknowledge
  <2>. QED
    BY <1>1, <2>2 DEF UInv, CleanupInv, CleanupStages
<1>2. UInv /\ [Next]_vars
        => [\A t \in tasks \ tasks' :
              device[Removal(t)] = "absent" /\ device[Retained(t)] = "complete"]_vars
  BY <1>1
<1>. QED
  BY <1>2, UpdateInvariant, PTL DEF Spec, TasksAreWorkedOff

\* An unfinished object is always under a recovery record.
THEOREM ObjectsCovered == Spec => ObjectsAreCovered
<1>1. ASSUME UInv, [Next]_vars, NEW c \in Copies, device[c] = "absent", device'[c] # "absent"
      PROVE  intent = c
  <2>1. stage # "idle"
    BY <1>1, IdleDeviceStep DEF UInv
  <2>2. TypeOK /\ Carried
    BY <1>1, <2>1, DeviceStep DEF UInv
  <2>3. stage \in {"creating", "filling"} /\ c = op.new
    BY <1>1, <2>2, EffectLocal
  <2>. QED
    BY <1>1, <2>3 DEF UInv, UpdateInv
<1>2. ASSUME UInv, [Next]_vars, stage # "idle", intent # None, intent' = None
      PROVE  device'[intent] # "partial"
  <2>1. UploadVerified \/ Discard
    <3>1. op.new # None
      BY <1>2 DEF UInv, TypeOK
    <3>. QED
      BY <1>2, <3>1, IntentStep DEF WriteIntent
  <2>2. op.new \in Copies
    BY <1>2, OpCopies DEF UInv
  <2>3. CASE UploadVerified
    BY <1>2, <2>3 DEF UploadVerified, UInv, UpdateInv, NewIsThere
  <2>4. CASE Discard
    BY <1>2, <2>2, <2>4 DEF Discard, Effect, UInv, UpdateInv, TypeOK
  <2>. QED
    BY <2>1, <2>3, <2>4
<1>3. UInv /\ [Next]_vars
        => [/\ \A c \in Copies : device[c] = "absent" /\ device'[c] # "absent" => intent = c
            /\ (stage # "idle" /\ intent # None /\ intent' = None)
                 => device'[intent] # "partial"]_vars
  BY <1>1, <1>2
<1>. QED
  BY <1>3, UpdateInvariant, PTL DEF Spec, ObjectsAreCovered

\* A cleanup task leaves the journal only when it is done, and every object is
\* created under its recovery record (replacement-cleanup-journal.ts, state.ts).
THEOREM RecordsStayKept == Spec => RecordsAreKept
  BY TasksWorkedOff, ObjectsCovered DEF RecordsAreKept

-----------------------------------------------------------------------------
(***************************************************************************)
(* A replacement stays recorded, if the journal can hold every delivery.   *)
(***************************************************************************)
\* MAX_ENTRIES is not reached: at most MaxCopies deliveries exist.
Roomy == MaxJournal >= MaxCopies

\* From the moment the delivery is recorded it stays so.
RecordInv ==
  /\ stage = "posting" /\ journaled => op.new \in Recorded
  /\ stage \in {"revalidating", "deleting", "proving"} => op.new \in Recorded
  /\ stage \in {"noting", "reconciling"} /\ op.reason # "delivery-recording"
       => op.new \in Recorded

RInv == RecordInv /\ ReplacementRecorded /\ TasksAreSound

\* A journal with room drops nothing.
LEMMA NothingDropped ==
  ASSUME Roomy, NEW S \in SUBSET Copies
  PROVE  Newest(S) = S
<1>1. ASSUME NEW c \in S PROVE Cardinality({d \in S : d > c}) < MaxJournal
  <2>1. IsFiniteSet(2..MaxCopies) /\ Cardinality(2..MaxCopies) < MaxCopies
    <3>1. 2 \in Int /\ MaxCopies \in Int /\ MaxCopies >= 1
      BY UpdateConstants
    <3>2. /\ IsFiniteSet(2..MaxCopies)
          /\ Cardinality(2..MaxCopies) = IF 2 > MaxCopies THEN 0 ELSE MaxCopies - 2 + 1
      BY <3>1, FS_Interval
    <3>. QED
      BY <3>1, <3>2
  <2>2. {d \in S : d > c} \subseteq 2..MaxCopies
    <3>1. S \subseteq 1..MaxCopies /\ MaxCopies \in Nat
      BY UpdateConstants DEF Copies
    <3>2. ASSUME NEW d \in S, d > c PROVE d \in 2..MaxCopies
      BY <3>1, <3>2
    <3>. QED
      BY <3>2
  <2>3. /\ Cardinality({d \in S : d > c}) <= Cardinality(2..MaxCopies)
        /\ IsFiniteSet({d \in S : d > c})
    BY <2>1, <2>2, FS_Subset
  <2>4. Cardinality({d \in S : d > c}) \in Nat /\ Cardinality(2..MaxCopies) \in Nat
    BY <2>1, <2>3, FS_CardinalityType
  <2>. QED
    BY <2>1, <2>3, <2>4, UpdateConstants DEF Roomy
<1>. QED
  BY <1>1 DEF Newest

\* What is recorded stays recorded.
LEMMA RecordedGrows ==
  ASSUME Roomy, TypeOK, [Next]_vars
  PROVE  Recorded \subseteq Recorded'
<1>1. CASE Upload
  BY <1>1 DEF Upload, CheckPasses, CheckFails, WriteIntent, IntentFails, CreateObject,
              CreateFails, FillObject, FillFails, UploadVerified, ReadBackFails,
              Discard, DiscardFails, VerifyNew, VerifyFails, durable, Recorded
<1>2. CASE QueueDelivery
  <2>1. deliveries \cup {op.new} \in SUBSET Copies
    BY <1>2, OpCopies DEF QueueDelivery, TypeOK
  <2>2. Newest(deliveries \cup {op.new}) = deliveries \cup {op.new}
    BY <2>1, NothingDropped
  <2>. QED
    BY <1>2, <2>2 DEF QueueDelivery, Recorded
<1>3. CASE PostDelivery
  BY <1>3 DEF PostDelivery, Recorded
<1>4. CASE Replace /\ ~QueueDelivery /\ ~PostDelivery
  BY <1>4 DEF Replace, RecordRefused, PostFails, RevalidateOld, DeleteOld, ProveAbsent,
              RemovalFails, NoteTask, Reconcile, durable, Recorded
<1>5. CASE Cleanup
  BY <1>5 DEF Cleanup, InspectBoth, InspectResolved, CleanUp, ConfirmCleanup,
              CleanupFails, Acknowledge, durable, Recorded
<1>6. CASE UNCHANGED vars
  BY <1>6 DEF vars, Recorded
<1>7. ASSUME NEW c \in Copies,
             StartUpdate(c) \/ FlushDelivery(c) \/ LatePost(c) \/ OwnerRemoves(c)
      PROVE  Recorded \subseteq Recorded'
  BY <1>7 DEF StartUpdate, FlushDelivery, LatePost, OwnerRemoves, durable, Recorded
<1>8. ASSUME NEW t \in Tasks, StartCleanup(t) PROVE Recorded \subseteq Recorded'
  BY <1>8 DEF StartCleanup, durable, Recorded
<1>9. CASE Refresh \/ AcknowledgeIntent \/ Reload
  BY <1>9 DEF Refresh, AcknowledgeIntent, Reload, durable, Recorded
<1>. QED
  BY <1>1, <1>2, <1>3, <1>4, <1>5, <1>6, <1>7, <1>8, <1>9 DEF Next, Replace

\* The stages from "recording" on, and the steps that lead through them.
RecordStages == {"posting", "revalidating", "deleting", "proving", "noting", "reconciling"}

\* Every other step ends outside these stages or changes nothing of the
\* operation.
LEMMA OtherSteps ==
  ASSUME [Next]_vars, ~Replace
  PROVE  \/ stage' \notin RecordStages
         \/ UNCHANGED <<stage, op, journaled>>
<1>1. CASE Upload
  BY <1>1 DEF Upload, CheckPasses, CheckFails, WriteIntent, IntentFails, CreateObject,
              CreateFails, FillObject, FillFails, UploadVerified, ReadBackFails,
              Discard, DiscardFails, VerifyNew, VerifyFails, GoTo, Throw, RecordStages
<1>2. CASE Cleanup
  BY <1>2 DEF Cleanup, InspectBoth, InspectResolved, CleanUp, ConfirmCleanup,
              CleanupFails, Acknowledge, GoTo, Report, RecordStages
<1>3. CASE UNCHANGED vars
  BY <1>3 DEF vars
<1>4. ASSUME NEW c \in Copies,
             StartUpdate(c) \/ FlushDelivery(c) \/ LatePost(c) \/ OwnerRemoves(c)
      PROVE  \/ stage' \notin RecordStages
             \/ UNCHANGED <<stage, op, journaled>>
  BY <1>4 DEF StartUpdate, FlushDelivery, LatePost, OwnerRemoves, memory, RecordStages
<1>5. ASSUME NEW t \in Tasks, StartCleanup(t) PROVE stage' \notin RecordStages
  BY <1>5 DEF StartCleanup, RecordStages
<1>6. CASE Refresh \/ AcknowledgeIntent \/ Reload
  BY <1>6 DEF Refresh, AcknowledgeIntent, Reload, RecordStages
<1>. QED
  BY <1>1, <1>2, <1>3, <1>4, <1>5, <1>6 DEF Next

\* RecordInv: the only ways on lead through the journal or the catalog.
LEMMA RecordStep ==
  ASSUME Roomy, UInv, RecordInv, [Next]_vars
  PROVE  RecordInv'
<1>1. TypeOK /\ Recorded \subseteq Recorded'
  BY RecordedGrows DEF UInv
<1>2. CASE ~Replace
  BY <1>1, <1>2, OtherSteps DEF RecordInv, RecordStages
<1>3. CASE QueueDelivery
  <2>1. deliveries \cup {op.new} \in SUBSET Copies
    BY <1>1, <1>3, OpCopies DEF QueueDelivery, TypeOK
  <2>2. Newest(deliveries \cup {op.new}) = deliveries \cup {op.new}
    BY <2>1, NothingDropped
  <2>. QED
    BY <1>3, <2>2 DEF QueueDelivery, GoTo, RecordInv, Recorded
<1>4. CASE PostDelivery
  BY <1>4 DEF PostDelivery, GoTo, RecordInv, Recorded
<1>5. CASE PostFails \/ RecordRefused
  BY <1>1, <1>5 DEF PostFails, RecordRefused, GoTo, RecordInv, TypeOK
<1>6. CASE RevalidateOld \/ DeleteOld \/ ProveAbsent \/ NoteTask
  BY <1>1, <1>6 DEF RevalidateOld, DeleteOld, ProveAbsent, NoteTask, GoTo, RecordInv
<1>7. CASE RemovalFails
  BY <1>1, <1>7 DEF RemovalFails, GoTo, RecordInv, TypeOK
<1>8. CASE Reconcile
  BY <1>8 DEF Reconcile, Report, RecordInv
<1>. QED
  BY <1>2, <1>3, <1>4, <1>5, <1>6, <1>7, <1>8 DEF Replace

\* An old copy is deleted with its successor recorded.
LEMMA ReplacedStep ==
  ASSUME Roomy, UInv, RInv, [Next]_vars
  PROVE  ReplacementRecorded'
<1>1. replaced' = replaced \/ (stage = "deleting" /\ replaced' = replaced \cup {op.new})
  <2>1. CASE Upload
    BY <2>1 DEF Upload, CheckPasses, CheckFails, WriteIntent, IntentFails, CreateObject,
                CreateFails, FillObject, FillFails, UploadVerified, ReadBackFails,
                Discard, DiscardFails, VerifyNew, VerifyFails
  <2>2. CASE Replace
    BY <2>2 DEF Replace, RecordRefused, QueueDelivery, PostDelivery, PostFails,
                RevalidateOld, DeleteOld, ProveAbsent, RemovalFails, NoteTask,
                Reconcile, History
  <2>3. CASE Cleanup
    BY <2>3 DEF Cleanup, InspectBoth, InspectResolved, CleanUp, ConfirmCleanup,
                CleanupFails, Acknowledge
  <2>4. CASE UNCHANGED vars
    BY <2>4 DEF vars
  <2>5. ASSUME NEW c \in Copies,
               StartUpdate(c) \/ FlushDelivery(c) \/ LatePost(c) \/ OwnerRemoves(c)
        PROVE  replaced' = replaced
    BY <2>5 DEF StartUpdate, FlushDelivery, LatePost, OwnerRemoves
  <2>6. ASSUME NEW t \in Tasks, StartCleanup(t) PROVE replaced' = replaced
    BY <2>6 DEF StartCleanup
  <2>7. CASE Refresh \/ AcknowledgeIntent \/ Reload
    BY <2>7 DEF Refresh, AcknowledgeIntent, Reload, History
  <2>. QED
    BY <2>1, <2>2, <2>3, <2>4, <2>5, <2>6, <2>7 DEF Next
<1>2. Recorded \subseteq Recorded'
  BY RecordedGrows DEF UInv
<1>. QED
  BY <1>1, <1>2 DEF RInv, RecordInv, ReplacementRecorded

\* A task is noted with its new copy recorded, or to remove the new copy.
LEMMA SoundTaskStep ==
  ASSUME Roomy, UInv, RInv, [Next]_vars
  PROVE  TasksAreSound'
<1>1. Recorded \subseteq Recorded'
  BY RecordedGrows DEF UInv
<1>2. tasks' \subseteq tasks \/ NoteTask
  BY TaskStep DEF Acknowledge
<1>3. CASE tasks' \subseteq tasks
  BY <1>1, <1>3 DEF RInv, TasksAreSound
<1>4. CASE NoteTask
  <2>1. /\ op.old # op.new
        /\ op.reason = "old-copy-cleanup" => op.new \in Recorded
    BY <1>4 DEF NoteTask, UInv, UpdateInv, UpdateStages, RInv, RecordInv
  <2>2. tasks' \subseteq tasks \cup {op}
    BY <1>4 DEF NoteTask
  <2>. QED
    BY <1>1, <2>1, <2>2 DEF RInv, TasksAreSound
<1>. QED
  BY <1>2, <1>3, <1>4

\* The deliveries of a roomy journal stay recorded.
THEOREM RecordInvariant ==
  ASSUME Roomy
  PROVE  Spec => [](UInv /\ RInv)
<1>1. Init => UInv /\ RInv
  BY UpdateInit DEF Init, RInv, RecordInv, ReplacementRecorded, TasksAreSound
<1>2. UInv /\ RInv /\ [Next]_vars => UInv' /\ RInv'
  BY UpdateStep, RecordStep, ReplacedStep, SoundTaskStep DEF RInv
<1>. QED
  BY <1>1, <1>2, PTL DEF Spec

\* The copy that took the old one's place has a durable delivery record.
THEOREM ReplacementStaysRecorded ==
  ASSUME Roomy
  PROVE  Spec => []ReplacementRecorded
<1>1. UInv /\ RInv => ReplacementRecorded
  BY DEF RInv
<1>. QED
  BY <1>1, RecordInvariant, PTL

\* A task to remove an old copy exists only for a recorded replacement.
THEOREM TasksStaySound ==
  ASSUME Roomy
  PROVE  Spec => []TasksAreSound
<1>1. UInv /\ RInv => TasksAreSound
  BY DEF RInv
<1>. QED
  BY <1>1, RecordInvariant, PTL

-----------------------------------------------------------------------------
(***************************************************************************)
(* What is reported is so.                                                 *)
(***************************************************************************)
\* An operation ends by a report of its own or without a claim.
LEMMA EndStep ==
  ASSUME [Next]_vars, stage # "idle", stage' = "idle"
  PROVE  Reconcile \/ Acknowledge \/ result'.status \in {"none", "failed"}
<1>1. CASE Upload
  <2>1. CASE Throw
    BY <2>1 DEF Throw
  <2>2. CASE ~Throw
    BY <1>1, <2>2 DEF Upload, CheckPasses, CheckFails, WriteIntent, IntentFails,
                      CreateObject, CreateFails, FillObject, FillFails, UploadVerified,
                      ReadBackFails, Discard, DiscardFails, VerifyNew, VerifyFails, GoTo
  <2>. QED
    BY <2>1, <2>2
<1>2. CASE Replace
  BY <1>2 DEF Replace, RecordRefused, QueueDelivery, PostDelivery, PostFails,
              RevalidateOld, DeleteOld, ProveAbsent, RemovalFails, NoteTask, GoTo
<1>3. CASE Cleanup
  <2>1. CASE CleanupFails
    BY <2>1 DEF CleanupFails
  <2>2. CASE InspectBoth \/ InspectResolved \/ CleanUp \/ ConfirmCleanup
    BY <2>2 DEF InspectBoth, InspectResolved, CleanUp, ConfirmCleanup, GoTo
  <2>. QED
    BY <1>3, <2>1, <2>2 DEF Cleanup
<1>4. ASSUME NEW c \in Copies,
             StartUpdate(c) \/ FlushDelivery(c) \/ LatePost(c) \/ OwnerRemoves(c)
      PROVE  FALSE
  BY <1>4 DEF StartUpdate, FlushDelivery, LatePost, OwnerRemoves, memory
<1>5. ASSUME NEW t \in Tasks, StartCleanup(t) PROVE FALSE
  BY <1>5 DEF StartCleanup
<1>6. CASE Refresh \/ AcknowledgeIntent \/ Reload
  BY <1>6 DEF Refresh, AcknowledgeIntent, Reload, NoResult
<1>7. CASE UNCHANGED vars
  BY <1>7 DEF vars
<1>. QED
  BY <1>1, <1>2, <1>3, <1>4, <1>5, <1>6, <1>7 DEF Next

\* The end of an update.
LEMMA UpdateReport ==
  ASSUME UInv, RInv, Reconcile
  PROVE  TrueReport
<1>1. stage = "reconciling" /\ op.old \in Copies /\ device' = device /\ Recorded' = Recorded
  BY OpCopies DEF Reconcile, UInv, durable, Recorded
<1>2. op.new \in Copies /\ device[op.new] = "complete"
  BY <1>1, OpCopies DEF UInv, UpdateInv, NewIsThere
<1>3. CASE op.reason = "none"
  <2>1. device[op.old] = "absent" /\ op.new \in Recorded
    BY <1>1, <1>3 DEF UInv, ReasonInv, RInv, RecordInv
  <2>2. result'.status \in {"updated", "updated-reconciliation-required"}
    BY <1>3 DEF Reconcile, Report, Reasons
  <2>. QED
    BY <1>1, <1>2, <2>1, <2>2 DEF TrueReport
<1>4. CASE op.reason = "delivery-recording"
  <2>1. device[op.old] = "complete"
    BY <1>1, <1>4 DEF UInv, ReasonInv
  <2>2. result'.status = "new-copy-kept-old-recording-required"
    BY <1>4 DEF Reconcile, Report
  <2>. QED
    BY <1>1, <1>2, <2>1, <2>2 DEF TrueReport, Complete
<1>5. CASE op.reason = "old-copy-cleanup"
  <2>1. op.new \in Recorded
    BY <1>1, <1>5 DEF RInv, RecordInv
  <2>2. result'.status = "new-copy-kept-old-cleanup-required"
    BY <1>5 DEF Reconcile, Report
  <2>. QED
    BY <1>1, <1>2, <2>1, <2>2 DEF TrueReport, Complete
<1>. QED
  BY <1>3, <1>4, <1>5 DEF Reconcile, Reasons

\* The end of a cleanup.
LEMMA CleanupReport ==
  ASSUME UInv, Acknowledge
  PROVE  TrueReport
<1>1. /\ device' = device
      /\ device[Removal(op)] = "absent" /\ device[Retained(op)] = "complete"
  BY DEF Acknowledge, UInv, CleanupInv, CleanupStages
<1>2. result'.status \in {"cleaned", "rolled-back", "failed"}
  <2>1. \E s \in {"cleaned", "rolled-back", "failed"} : Report(s, "not-needed")
    BY DEF Acknowledge
  <2>. QED
    BY <2>1 DEF Report
<1>. QED
  BY <1>1, <1>2 DEF TrueReport

\* What the owner is told of the two copies and of the delivery is so.
THEOREM ReportsStayTrue ==
  ASSUME Roomy
  PROVE  Spec => ReportsAreTrue
<1>1. UInv /\ RInv /\ [Next]_vars => [(stage # "idle" /\ stage' = "idle") => TrueReport]_vars
  <2>1. result'.status \in {"none", "failed"} => TrueReport
    BY DEF TrueReport
  <2>. QED
    BY <2>1, EndStep, UpdateReport, CleanupReport
<1>. QED
  BY <1>1, RecordInvariant, PTL DEF Spec, ReportsAreTrue

=============================================================================
