-------------------------- MODULE MCTransfers_proofs --------------------------
(***************************************************************************)
(* Theorems of the composition MCTransfers about the rotated cache on the  *)
(* Kindle, about sending from the catalog and about the catalog server,    *)
(* for any set of books, orders, requests and connections and any bound on *)
(* edits, faults, generations, jobs and slots.                             *)
(***************************************************************************)
EXTENDS MCTransfers, TLAPS, FiniteSetTheorems

-----------------------------------------------------------------------------
(***************************************************************************)
(* The cache on the Kindle.                                                *)
(***************************************************************************)

\* What can be under the name of a slot.
SlotObjects == {Slots!NoObject, Slots!Junk} \cup {Slots!Cache(g) : g \in Nat \ {0}}

\* The object beside the one that is being rewritten.
Kept == slotsRoot[Slots!Other(slotsOp.slot)]

\* The kept object is what the next browser will find.
KeptIsEnough == slotsRetained > 0 => Kept.valid /\ Kept.gen = slotsRetained

SlotsTypes ==
  /\ slotsRoot \in [Slots!Slots -> SlotObjects]
  /\ slotsRetained \in Nat
  /\ slotsHost = Nobody => slotsOp = Nobody
  /\ slotsOp # Nobody =>
       /\ DOMAIN slotsOp = {"step", "slots", "gen", "slot", "ambiguous"}
       /\ slotsOp.slot \in Slots!Slots /\ slotsOp.gen \in Nat
       /\ slotsOp.step \in {"loaded", "replacing", "listing", "intent", "creating", "filling",
                            "reading back", "discarding"}

\* What a load has found is what is there: nothing but the operation under way
\* changes a slot while a browser is connected.
LoadedIsThere ==
  slotsOp # Nobody /\ slotsOp.step = "loaded" =>
    /\ slotsOp.gen <= slotsRetained
    /\ slotsOp.slots \in [Slots!Slots -> {"absent", "blocked", "loaded"}]
    /\ \A s \in Slots!Slots :
         slotsOp.slots[s] = "loaded" => slotsRoot[s].valid /\ slotsRoot[s].gen <= slotsOp.gen
    /\ slotsOp.gen > 0 =>
         \E s \in Slots!Slots : slotsOp.slots[s] = "loaded" /\ slotsRoot[s].gen = slotsOp.gen
    /\ (\A s \in Slots!Slots : slotsOp.slots[s] = "loaded") =>
         (slotsOp.ambiguous <=> slotsRoot["a"].gen = slotsRoot["b"].gen)

\* A slot is only rewritten beside the one that was retained last, and gets a generation of its own.
RewrittenIsSafe ==
  slotsOp # Nobody /\ slotsOp.step # "loaded" =>
    /\ slotsOp.gen > 0 /\ (slotsOp.slot = "b" => slotsOp.gen > 1)
    /\ Kept.valid => Kept.gen # slotsOp.gen
    /\ slotsOp.step = "replacing" => Kept.valid
    /\ slotsOp.step # "listing" => KeptIsEnough
    /\ slotsOp.step \in {"intent", "creating"} => ~slotsRoot[slotsOp.slot].there
    /\ slotsOp.step = "filling" => slotsRoot[slotsOp.slot] = Slots!Junk
    /\ slotsOp.step = "reading back" => slotsRoot[slotsOp.slot] = Slots!Cache(slotsOp.gen)
    /\ slotsOp.step = "discarding" =>
         slotsRoot[slotsOp.slot] \in {Slots!Junk, Slots!Cache(slotsOp.gen)}

\* The first generation is always written to the first slot.
SecondIsLater == slotsRoot["b"].valid => slotsRoot["b"].gen > 1

\* What was retained last is there.
Survives == slotsRetained > 0 =>
              \E s \in Slots!Slots : slotsRoot[s].valid /\ slotsRoot[s].gen = slotsRetained

SlotsInv ==
  /\ SlotsTypes /\ LoadedIsThere /\ RewrittenIsSafe /\ SecondIsLater /\ Survives
  /\ Slots!GenerationsDiffer

\* Newest is the newest valid generation, or 0.
LEMMA NewestIs ==
  ASSUME NEW r \in [Slots!Slots -> SlotObjects]
  PROVE  /\ Slots!Newest(r) \in Nat
         /\ Slots!Newest(r) > 0 =>
              \E s \in Slots!Slots : r[s].valid /\ r[s].gen = Slots!Newest(r)
         /\ \A s \in Slots!Slots : r[s].valid => r[s].gen <= Slots!Newest(r)
  <1> DEFINE gens == {0} \union {r[s].gen : s \in {t \in Slots!Slots : r[t].valid}}
  <1>1. r["a"].gen \in Nat /\ r["b"].gen \in Nat
    BY DEF Slots!Slots, SlotObjects, Slots!NoObject, Slots!Junk, Slots!Cache
  <1>2. gens \subseteq {0, r["a"].gen, r["b"].gen}
    BY DEF Slots!Slots
  <1>3. \E g \in gens : \A h \in gens : h <= g
    <2>1. CASE r["a"].valid /\ (r["b"].valid => r["b"].gen <= r["a"].gen)
      <3>1. r["a"].gen \in gens
        BY <2>1 DEF Slots!Slots
      <3>2. \A h \in gens : h <= r["a"].gen
        BY <1>1, <2>1 DEF Slots!Slots
      <3> HIDE DEF gens
      <3> QED
        BY <3>1, <3>2
    <2>2. CASE r["b"].valid /\ ~(r["a"].valid /\ (r["b"].valid => r["b"].gen <= r["a"].gen))
      <3>1. r["b"].gen \in gens
        BY <2>2 DEF Slots!Slots
      <3>2. \A h \in gens : h <= r["b"].gen
        BY <1>1, <2>2 DEF Slots!Slots
      <3> HIDE DEF gens
      <3> QED
        BY <3>1, <3>2
    <2>3. CASE ~r["a"].valid /\ ~r["b"].valid
      <3>1. gens = {0}
        BY <2>3 DEF Slots!Slots
      <3> HIDE DEF gens
      <3> QED
        BY <3>1
    <2> QED
      BY <2>1, <2>2, <2>3
  <1>4. PICK n : n = Slots!Newest(r)
    OBVIOUS
  <1>5. n \in gens /\ \A h \in gens : h <= n
    BY <1>3, <1>4 DEF Slots!Newest
  <1>6. \A s \in Slots!Slots : r[s].valid => r[s].gen \in gens
    OBVIOUS
  <1>7. n \in Nat
    <2> HIDE DEF gens
    <2> QED
      BY <1>1, <1>2, <1>5
  <1>8. n > 0 => \E s \in Slots!Slots : r[s].valid /\ r[s].gen = n
    BY <1>5
  <1> HIDE DEF gens
  <1> QED
    BY <1>4, <1>5, <1>6, <1>7, <1>8

LEMMA SlotsStart ==
  ASSUME Slots!Init
  PROVE  SlotsInv
  <1>1. slotsRoot \in [Slots!Slots -> SlotObjects] /\ slotsRetained = 0 /\ slotsOp = Nobody
        /\ \A s \in Slots!Slots : ~slotsRoot[s].valid
    BY DEF Slots!Init, SlotObjects, Slots!NoObject
  <1> QED
    BY <1>1 DEF SlotsInv, SlotsTypes, LoadedIsThere, RewrittenIsSafe, SecondIsLater, Survives,
                Slots!GenerationsDiffer, Slots!Slots

\* The invariant says nothing of a connection without an operation.
LEMMA SlotsIdle ==
  ASSUME SlotsInv, UNCHANGED <<slotsRoot, slotsRetained>>,
         \/ slotsOp' = Nobody
         \/ slotsOp' = slotsOp /\ (slotsHost' = Nobody => slotsHost = Nobody)
  PROVE  SlotsInv'
  <1>1. Survives' /\ SecondIsLater' /\ Slots!GenerationsDiffer'
    BY DEF SlotsInv, SecondIsLater, Survives, Slots!GenerationsDiffer
  <1>2. CASE slotsOp' = Nobody
    BY <1>1, <1>2 DEF SlotsInv, SlotsTypes, LoadedIsThere, RewrittenIsSafe
  <1>3. CASE slotsOp' = slotsOp /\ (slotsHost' = Nobody => slotsHost = Nobody)
    <2>1. SlotsTypes'
      BY <1>3 DEF SlotsInv, SlotsTypes
    <2>2. LoadedIsThere'
      BY <1>3 DEF SlotsInv, LoadedIsThere
    <2>3. RewrittenIsSafe'
      BY <1>3 DEF SlotsInv, RewrittenIsSafe, KeptIsEnough, Kept
    <2> QED
      BY <1>1, <2>1, <2>2, <2>3 DEF SlotsInv
  <1> QED
    BY <1>2, <1>3

LEMMA TouchKeeps ==
  ASSUME SlotsInv, NEW s \in Slots!Slots, Slots!Touch(s)
  PROVE  SlotsInv'
  <1>1. slotsHost = Nobody /\ slotsOp = Nobody /\ slotsOp' = Nobody /\ slotsHost' = Nobody
    BY DEF Slots!Touch, SlotsInv, SlotsTypes
  <1>2. PICK object \in {Slots!NoObject, Slots!Junk} :
          /\ slotsRoot' = [slotsRoot EXCEPT ![s] = object]
          /\ slotsRetained' = IF slotsRoot[s].gen = slotsRetained THEN Slots!Newest(slotsRoot')
                              ELSE slotsRetained
    BY DEF Slots!Touch
  <1>3. slotsRoot \in [Slots!Slots -> SlotObjects]
    BY DEF SlotsInv, SlotsTypes
  <1>4. slotsRoot' \in [Slots!Slots -> SlotObjects]
    BY <1>2, <1>3 DEF SlotObjects
  <1>5. ~slotsRoot'[s].valid /\ \A t \in Slots!Slots : t # s => slotsRoot'[t] = slotsRoot[t]
    BY <1>2, <1>3 DEF Slots!NoObject, Slots!Junk
  <1>6. PICK r \in [Slots!Slots -> SlotObjects] : r = slotsRoot'
    BY <1>4
  <1>7. slotsRetained' \in Nat
    BY <1>2, <1>6, NewestIs DEF SlotsInv, SlotsTypes
  <1>8. Survives'
    <2>1. CASE slotsRoot[s].gen = slotsRetained
      <3>1. slotsRetained' = Slots!Newest(r)
        BY <1>2, <1>6, <2>1
      <3>2. slotsRetained' > 0 =>
              \E t \in Slots!Slots : r[t].valid /\ r[t].gen = slotsRetained'
        BY <3>1, NewestIs
      <3> QED
        BY <3>2, <1>6 DEF Survives
    <2>2. CASE slotsRoot[s].gen # slotsRetained
      BY <1>2, <1>5, <2>2 DEF SlotsInv, Survives
    <2> QED
      BY <2>1, <2>2
  <1>9. SecondIsLater' /\ Slots!GenerationsDiffer'
    BY <1>5 DEF SlotsInv, SecondIsLater, Slots!GenerationsDiffer, Slots!Slots
  <1> QED
    BY <1>1, <1>4, <1>7, <1>8, <1>9
    DEF SlotsInv, SlotsTypes, LoadedIsThere, RewrittenIsSafe

\* What a load makes of the slots it could read.
LEMMA ActiveIs ==
  ASSUME slotsRoot \in [Slots!Slots -> SlotObjects],
         NEW slots \in [Slots!Slots -> {"absent", "blocked", "loaded"}]
  PROVE  /\ Slots!ActiveGeneration(slots) \in Nat
         /\ \A s \in Slots!Slots : slots[s] = "loaded" =>
               slotsRoot[s].gen <= Slots!ActiveGeneration(slots)
         /\ Slots!ActiveGeneration(slots) > 0 =>
              \E s \in Slots!Slots : slots[s] = "loaded"
                    /\ slotsRoot[s].gen = Slots!ActiveGeneration(slots)
  <1>0. PICK r \in [Slots!Slots -> SlotObjects] : r = slotsRoot
    OBVIOUS
  <1> DEFINE gens == {r[s].gen : s \in {t \in Slots!Slots : slots[t] = "loaded"}}
  <1>1. r["a"].gen \in Nat /\ r["b"].gen \in Nat
    BY DEF Slots!Slots, SlotObjects, Slots!NoObject, Slots!Junk, Slots!Cache
  <1>2. gens \subseteq {r["a"].gen, r["b"].gen}
    BY DEF Slots!Slots
  <1>3. \E g \in gens \union {0} : \A h \in gens : h <= g
    <2>1. CASE slots["a"] = "loaded" /\ (slots["b"] = "loaded" => r["b"].gen <= r["a"].gen)
      <3>1. r["a"].gen \in gens
        BY <2>1 DEF Slots!Slots
      <3>2. \A h \in gens : h <= r["a"].gen
        BY <1>1, <2>1 DEF Slots!Slots
      <3> HIDE DEF gens
      <3> QED
        BY <3>1, <3>2
    <2>2. CASE /\ slots["b"] = "loaded"
               /\ ~(slots["a"] = "loaded" /\ (slots["b"] = "loaded" => r["b"].gen <= r["a"].gen))
      <3>1. r["b"].gen \in gens
        BY <2>2 DEF Slots!Slots
      <3>2. \A h \in gens : h <= r["b"].gen
        BY <1>1, <2>2 DEF Slots!Slots
      <3> HIDE DEF gens
      <3> QED
        BY <3>1, <3>2
    <2>3. CASE slots["a"] # "loaded" /\ slots["b"] # "loaded"
      <3>1. gens = {}
        BY <2>3 DEF Slots!Slots
      <3> HIDE DEF gens
      <3> QED
        BY <3>1
    <2> QED
      BY <2>1, <2>2, <2>3
  <1>4. PICK n : n = Slots!ActiveGeneration(slots)
    OBVIOUS
  <1>5. n \in gens \union {0} /\ \A h \in gens : h <= n
    BY <1>0, <1>3, <1>4 DEF Slots!ActiveGeneration
  <1>6. \A s \in Slots!Slots : slots[s] = "loaded" => r[s].gen \in gens
    OBVIOUS
  <1>7. n \in Nat
    <2> HIDE DEF gens
    <2> QED
      BY <1>1, <1>2, <1>5
  <1>8. n > 0 => \E s \in Slots!Slots : slots[s] = "loaded" /\ r[s].gen = n
    BY <1>5
  <1> HIDE DEF gens
  <1> QED
    BY <1>0, <1>4, <1>5, <1>6, <1>7, <1>8

LEMMA LoadKeeps ==
  ASSUME SlotsInv, Slots!Load
  PROVE  SlotsInv'
  <1>1. PICK unreadable, failing :
          Slots!Found([s \in Slots!Slots |-> Slots!Seen(s, unreadable, failing)])
    BY DEF Slots!Load
  <1>2. slotsRoot \in [Slots!Slots -> SlotObjects] /\ slotsRetained \in Nat
        /\ slotsHost # Nobody /\ slotsHost' = slotsHost /\ slotsRoot' = slotsRoot
    BY DEF SlotsInv, SlotsTypes, Slots!Load
  <1>3. PICK found : found = [s \in Slots!Slots |-> Slots!Seen(s, unreadable, failing)]
    OBVIOUS
  <1>4. /\ found \in [Slots!Slots -> {"absent", "blocked", "loaded"}]
        /\ \A s \in Slots!Slots : found[s] = "loaded" => slotsRoot[s].valid
    BY <1>3 DEF Slots!Seen
  <1>5. PICK active : active = Slots!ActiveGeneration(found)
    OBVIOUS
  <1>6. /\ active \in Nat
        /\ \A s \in Slots!Slots : found[s] = "loaded" => slotsRoot[s].gen <= active
        /\ active > 0 => \E s \in Slots!Slots : found[s] = "loaded" /\ slotsRoot[s].gen = active
    BY <1>2, <1>4, <1>5, ActiveIs
  <1>7. /\ slotsOp' = [step |-> "loaded", slots |-> found, gen |-> active, slot |-> "a",
                       ambiguous |-> /\ \A s \in Slots!Slots : found[s] = "loaded"
                                     /\ slotsRoot["a"].gen = slotsRoot["b"].gen]
        /\ slotsRetained' = IF active > slotsRetained THEN active ELSE slotsRetained
    BY <1>1, <1>3, <1>5 DEF Slots!Found
  <1>8. /\ DOMAIN slotsOp' = {"step", "slots", "gen", "slot", "ambiguous"}
        /\ slotsOp'.slot \in Slots!Slots /\ slotsOp'.gen = active /\ slotsOp'.step = "loaded"
        /\ slotsOp'.slots = found
        /\ slotsOp'.ambiguous <=> /\ \A s \in Slots!Slots : found[s] = "loaded"
                                  /\ slotsRoot["a"].gen = slotsRoot["b"].gen
    BY <1>7 DEF Slots!Slots
  <1>9. slotsRetained' \in Nat /\ active <= slotsRetained'
    BY <1>2, <1>6, <1>7
  <1>10. SlotsTypes' /\ RewrittenIsSafe' /\ SecondIsLater' /\ Slots!GenerationsDiffer'
    BY <1>2, <1>6, <1>8, <1>9
    DEF SlotsInv, SlotsTypes, RewrittenIsSafe, SecondIsLater, Slots!GenerationsDiffer
  <1>11. Survives'
    <2>1. CASE active > slotsRetained
      BY <1>2, <1>4, <1>6, <1>7, <2>1 DEF Survives
    <2>2. CASE ~(active > slotsRetained)
      BY <1>2, <1>7, <2>2 DEF SlotsInv, Survives
    <2> QED
      BY <2>1, <2>2
  <1>12. LoadedIsThere'
    BY <1>2, <1>4, <1>6, <1>8, <1>9 DEF LoadedIsThere
  <1> QED
    BY <1>10, <1>11, <1>12 DEF SlotsInv

\* The slot that is planned is not the one in use, so what was retained last is
\* beside it.
LEMMA PlanKeeps ==
  ASSUME SlotsInv, Slots!Plan
  PROVE  SlotsInv'
  <1> DEFINE slot == Slots!PlannedSlot
             kept == slotsRoot[Slots!Other(slot)]
  <1>1. /\ slotsOp # Nobody /\ slotsOp.step = "loaded" /\ slotsHost # Nobody
        /\ slotsRoot \in [Slots!Slots -> SlotObjects] /\ slotsRetained \in Nat /\ slotsOp.gen \in Nat
        /\ DOMAIN slotsOp = {"step", "slots", "gen", "slot", "ambiguous"}
        /\ UNCHANGED <<slotsRoot, slotsRetained, slotsHost>>
        /\ ~slotsOp.ambiguous
        /\ slotsOp' = [slotsOp EXCEPT
             !.slot = slot, !.gen = slotsOp.gen + 1,
             !.step = IF slotsOp.slots[slot] = "loaded" THEN "replacing" ELSE "listing"]
    BY DEF Slots!Plan, Slots!At, Slots!PlannedGeneration, SlotsInv, SlotsTypes
  <1>2. slotsRoot["a"].gen \in Nat \ {0} \/ ~slotsRoot["a"].valid
    BY <1>1 DEF Slots!Slots, SlotObjects, Slots!NoObject, Slots!Junk, Slots!Cache
  <1>3. slotsRoot["b"].gen \in Nat \ {0} \/ ~slotsRoot["b"].valid
    BY <1>1 DEF Slots!Slots, SlotObjects, Slots!NoObject, Slots!Junk, Slots!Cache
  <1>4. slot \in Slots!Slots
    BY DEF Slots!PlannedSlot, Slots!Slots
  <1>5. /\ DOMAIN slotsOp' = {"step", "slots", "gen", "slot", "ambiguous"}
        /\ slotsOp'.slot = slot /\ slotsOp'.gen = slotsOp.gen + 1
        /\ slotsOp'.step = IF slotsOp.slots[slot] = "loaded" THEN "replacing" ELSE "listing"
    BY <1>1
  <1>6. /\ \A s \in Slots!Slots :
             slotsOp.slots[s] = "loaded" => slotsRoot[s].valid /\ slotsRoot[s].gen <= slotsOp.gen
        /\ slotsOp.gen > 0 =>
             \E s \in Slots!Slots : slotsOp.slots[s] = "loaded" /\ slotsRoot[s].gen = slotsOp.gen
        /\ slotsOp.gen <= slotsRetained
        /\ (\A s \in Slots!Slots : slotsOp.slots[s] = "loaded") =>
             slotsRoot["a"].gen # slotsRoot["b"].gen
    BY <1>1 DEF SlotsInv, LoadedIsThere
  <1>7. /\ slot = "b" => slotsOp.slots["a"] = "loaded" /\ slotsRoot["a"].gen = slotsOp.gen
        /\ slot = "a" => ~(slotsOp.slots["a"] = "loaded" /\ slotsRoot["a"].gen = slotsOp.gen)
    BY DEF Slots!PlannedSlot, Slots!ActiveSlots, Slots!Slots
  <1>8. /\ slot = "b" => slotsOp.gen + 1 > 1
        /\ kept.valid => kept.gen # slotsOp.gen + 1
    <2>1. CASE slot = "b"
      BY <1>1, <1>2, <1>6, <1>7, <2>1 DEF Slots!Other, Slots!Slots
    <2>2. CASE slot = "a" /\ slotsOp.gen = 0
      BY <1>1, <1>3, <2>2 DEF Slots!Other, Slots!Slots, SlotsInv, SecondIsLater
    <2>3. CASE slot = "a" /\ slotsOp.gen # 0
      <3>1. slotsRoot["b"].gen = slotsOp.gen
        BY <1>1, <1>6, <1>7, <2>3 DEF Slots!Slots
      <3> QED
        BY <1>1, <2>3, <3>1 DEF Slots!Other
    <2> QED
      BY <1>4, <2>1, <2>2, <2>3 DEF Slots!Slots
  <1>9. slotsOp.slots[slot] = "loaded" => kept.valid /\ (slotsRetained > 0 => kept.gen = slotsRetained)
    <2>1. SUFFICES ASSUME slotsOp.slots[slot] = "loaded"
                   PROVE  kept.valid /\ (slotsRetained > 0 => kept.gen = slotsRetained)
      OBVIOUS
    <2>2. slotsRoot[slot].valid /\ slotsRoot[slot].gen <= slotsOp.gen /\ slotsOp.gen > 0
      BY <1>1, <1>2, <1>3, <1>4, <1>6, <2>1 DEF Slots!Slots
    <2>3. kept.valid /\ kept.gen = slotsOp.gen /\ slotsRoot[slot].gen # slotsOp.gen
      <3>1. CASE slot = "b"
        BY <1>6, <1>7, <2>1, <3>1 DEF Slots!Other, Slots!Slots
      <3>2. CASE slot = "a"
        BY <1>6, <1>7, <2>1, <2>2, <3>2 DEF Slots!Other, Slots!Slots
      <3> QED
        BY <1>4, <3>1, <3>2 DEF Slots!Slots
    <2>4. slotsRetained > 0 => slotsRoot[slot].gen = slotsRetained \/ kept.gen = slotsRetained
      BY <1>4 DEF SlotsInv, Survives, Slots!Slots, Slots!Other
    <2>5. slotsRoot[slot].gen \in Nat
      BY <1>1, <1>4 DEF Slots!Slots, SlotObjects, Slots!NoObject, Slots!Junk, Slots!Cache
    <2> QED
      BY <1>1, <1>6, <2>2, <2>3, <2>4, <2>5
  <1>10. SlotsTypes' /\ LoadedIsThere' /\ SecondIsLater' /\ Survives' /\ Slots!GenerationsDiffer'
    BY <1>1, <1>4, <1>5
    DEF SlotsInv, SlotsTypes, LoadedIsThere, SecondIsLater, Survives, Slots!GenerationsDiffer
  <1>11. RewrittenIsSafe'
    BY <1>1, <1>5, <1>8, <1>9 DEF RewrittenIsSafe, Kept, KeptIsEnough
  <1> QED
    BY <1>10, <1>11 DEF SlotsInv

\* One step of a write: it goes on, or ends, with another object in its slot.
LEMMA WriteKeeps ==
  ASSUME SlotsInv, slotsOp # Nobody, slotsOp.step # "loaded", slotsHost' = slotsHost,
         NEW object \in SlotObjects, NEW step,
         slotsRoot' = [slotsRoot EXCEPT ![slotsOp.slot] = object],
         step \in {"listing", "intent", "creating", "filling", "reading back", "discarding"},
         slotsOp' = Nobody \/ slotsOp' = [slotsOp EXCEPT !.step = step],
         object.valid => object.gen = slotsOp.gen,
         \/ /\ slotsRetained' = slotsRetained
            /\ step # "listing" => KeptIsEnough
            /\ KeptIsEnough \/ object = slotsRoot[slotsOp.slot]
         \/ /\ slotsRetained' = IF slotsOp.gen > slotsRetained THEN slotsOp.gen ELSE slotsRetained
            /\ object = slotsRoot[slotsOp.slot] /\ object.valid /\ slotsOp' = Nobody,
         step \in {"intent", "creating"} => ~object.there,
         step = "filling" => object = Slots!Junk,
         step = "reading back" => object = Slots!Cache(slotsOp.gen),
         step = "discarding" => object \in {Slots!Junk, Slots!Cache(slotsOp.gen)}
  PROVE  SlotsInv'
  <1> DEFINE slot == slotsOp.slot
  <1>1. /\ slotsRoot \in [Slots!Slots -> SlotObjects] /\ slotsRetained \in Nat /\ slotsOp.gen \in Nat
        /\ slot \in Slots!Slots /\ slotsHost # Nobody
        /\ DOMAIN slotsOp = {"step", "slots", "gen", "slot", "ambiguous"}
    BY DEF SlotsInv, SlotsTypes
  <1>2. /\ slotsOp.gen > 0 /\ (slot = "b" => slotsOp.gen > 1)
        /\ Kept.valid => Kept.gen # slotsOp.gen
    BY DEF SlotsInv, RewrittenIsSafe
  <1>3. Slots!Other(slot) \in Slots!Slots /\ Slots!Other(slot) # slot
    BY <1>1 DEF Slots!Slots, Slots!Other
  <1>4. slotsRoot'[slot] = object /\ slotsRoot'[Slots!Other(slot)] = Kept
        /\ slotsRoot' \in [Slots!Slots -> SlotObjects]
    BY <1>1, <1>3 DEF Kept
  <1>5. slotsOp' # Nobody =>
          /\ DOMAIN slotsOp' = {"step", "slots", "gen", "slot", "ambiguous"}
          /\ slotsOp'.slot = slot /\ slotsOp'.gen = slotsOp.gen /\ slotsOp'.step = step
    BY <1>1
  <1>6. slotsRetained' \in Nat
    BY <1>1
  <1>7. SlotsTypes' /\ LoadedIsThere'
    BY <1>1, <1>4, <1>5, <1>6 DEF SlotsTypes, LoadedIsThere
  <1>8. RewrittenIsSafe'
    BY <1>2, <1>4, <1>5 DEF RewrittenIsSafe, Kept, KeptIsEnough
  <1>9. SecondIsLater'
    <2>1. CASE slot = "b"
      BY <1>2, <1>4, <2>1 DEF SecondIsLater
    <2>2. CASE slot = "a"
      BY <1>4, <2>2 DEF SecondIsLater, SlotsInv, Slots!Other, Kept
    <2> QED
      BY <1>1, <2>1, <2>2 DEF Slots!Slots
  <1>10. Slots!GenerationsDiffer'
    <2>1. CASE slot = "b"
      BY <1>2, <1>4, <2>1 DEF Slots!GenerationsDiffer, Slots!Other
    <2>2. CASE slot = "a"
      BY <1>2, <1>4, <2>2 DEF Slots!GenerationsDiffer, Slots!Other
    <2> QED
      BY <1>1, <2>1, <2>2 DEF Slots!Slots
  <1>11. Survives'
    <2>1. CASE slotsRetained' = slotsRetained /\ KeptIsEnough
      BY <1>3, <1>4, <2>1 DEF Survives, KeptIsEnough
    <2>2. CASE slotsRetained' = slotsRetained /\ object = slotsRoot[slot]
      <3>1. slotsRoot' = slotsRoot
        BY <1>1, <2>2
      <3> QED
        BY <2>2, <3>1 DEF SlotsInv, Survives
    <2>3. CASE /\ slotsRetained' = IF slotsOp.gen > slotsRetained THEN slotsOp.gen ELSE slotsRetained
               /\ object = slotsRoot[slot] /\ object.valid
      <3>1. slotsRoot' = slotsRoot /\ slotsRoot[slot].valid /\ slotsRoot[slot].gen = slotsOp.gen
        BY <1>1, <2>3
      <3>2. CASE slotsOp.gen > slotsRetained
        BY <1>1, <2>3, <3>1, <3>2 DEF Survives
      <3>3. CASE ~(slotsOp.gen > slotsRetained)
        BY <2>3, <3>1, <3>3 DEF Survives, SlotsInv
      <3> QED
        BY <3>2, <3>3
    <2> QED
      BY <2>1, <2>2, <2>3
  <1> QED
    BY <1>7, <1>8, <1>9, <1>10, <1>11 DEF SlotsInv

LEMMA WriteEnds ==
  ASSUME SlotsInv, slotsOp # Nobody, slotsOp.step # "loaded", slotsHost' = slotsHost,
         NEW object \in SlotObjects, slotsOp' = Nobody,
         slotsRoot' = [slotsRoot EXCEPT ![slotsOp.slot] = object],
         object.valid => object.gen = slotsOp.gen,
         \/ slotsRetained' = slotsRetained /\ KeptIsEnough
         \/ /\ slotsRetained' = IF slotsOp.gen > slotsRetained THEN slotsOp.gen ELSE slotsRetained
            /\ object = slotsRoot[slotsOp.slot] /\ object.valid
  PROVE  SlotsInv'
  <1>1. PICK step : step = "listing"
    OBVIOUS
  <1>2. /\ step \in {"listing", "intent", "creating", "filling", "reading back", "discarding"}
        /\ step \notin {"intent", "creating"} /\ step # "filling" /\ step # "reading back"
        /\ step # "discarding"
    BY <1>1
  <1> QED
    BY <1>1, <1>2, WriteKeeps

LEMMA WritesKeep ==
  ASSUME SlotsInv,
         \/ Slots!DeleteOlder \/ Slots!Preflight \/ Slots!Intend \/ Slots!Create \/ Slots!Fill
         \/ Slots!ReadBack \/ Slots!Discard
  PROVE  SlotsInv'
  <1> DEFINE slot == slotsOp.slot
             mine == slotsRoot[slot]
             Puts(object) == slotsRoot' = [slotsRoot EXCEPT ![slot] = object]
             GoesTo(step) == slotsOp' = [slotsOp EXCEPT !.step = step]
  <1>1. slotsOp # Nobody /\ slotsOp.step # "loaded" /\ slotsHost' = slotsHost
    BY DEF Slots!DeleteOlder, Slots!Preflight, Slots!Intend, Slots!Create, Slots!Fill, Slots!ReadBack,
           Slots!Discard, Slots!At
  <1>2. /\ slotsRoot \in [Slots!Slots -> SlotObjects] /\ slot \in Slots!Slots /\ slotsOp.gen \in Nat
        /\ slotsOp.gen > 0 /\ mine \in SlotObjects
    BY <1>1 DEF SlotsInv, SlotsTypes, RewrittenIsSafe
  <1>3. /\ Slots!NoObject \in SlotObjects
        /\ Slots!Junk \in SlotObjects
        /\ Slots!Cache(slotsOp.gen) \in SlotObjects
        /\ ~Slots!NoObject.valid /\ ~Slots!NoObject.there /\ ~Slots!Junk.valid
        /\ Slots!Cache(slotsOp.gen).valid /\ Slots!Cache(slotsOp.gen).gen = slotsOp.gen
    <2>1. PICK g \in Nat \ {0} : g = slotsOp.gen
      BY <1>2
    <2>2. /\ Slots!NoObject \in SlotObjects
          /\ Slots!Junk \in SlotObjects
          /\ Slots!Cache(g) \in SlotObjects
      BY DEF SlotObjects
    <2>3. /\ ~Slots!NoObject.valid /\ ~Slots!NoObject.there /\ ~Slots!Junk.valid
          /\ Slots!Cache(g).valid /\ Slots!Cache(g).gen = g
      BY DEF Slots!NoObject, Slots!Junk, Slots!Cache
    <2> QED
      BY <2>1, <2>2, <2>3
  <1>4. slotsRoot' = slotsRoot => Puts(mine)
    BY <1>2
  <1>5. CASE Slots!DeleteOlder
    <2>1. KeptIsEnough
      BY <1>1, <1>5 DEF Slots!DeleteOlder, Slots!At, SlotsInv, RewrittenIsSafe
    <2>2. /\ slotsRetained' = slotsRetained
          /\ \/ Puts(Slots!NoObject) /\ (GoesTo("listing") \/ slotsOp' = Nobody)
             \/ slotsRoot' = slotsRoot /\ slotsOp' = Nobody
      BY <1>5 DEF Slots!DeleteOlder, Slots!GoTo, Slots!Done
    <2>3. CASE Puts(Slots!NoObject) /\ (GoesTo("listing") \/ slotsOp' = Nobody)
      <3>1. CASE GoesTo("listing")
        <4>1. PICK object \in SlotObjects : object = Slots!NoObject /\ ~object.valid /\ ~object.there
          BY <1>3
        <4>2. PICK step : step = "listing"
          OBVIOUS
        <4>3. /\ slotsRoot' = [slotsRoot EXCEPT ![slotsOp.slot] = object]
              /\ slotsOp' = [slotsOp EXCEPT !.step = step] /\ slotsRetained' = slotsRetained
          BY <2>2, <2>3, <3>1, <4>1, <4>2
        <4>4. /\ step \in {"listing", "intent", "creating", "filling", "reading back", "discarding"}
              /\ step \notin {"intent", "creating"} /\ step # "filling" /\ step # "reading back"
              /\ step # "discarding"
          BY <4>2
        <4> HIDE DEF slot, mine, Puts, GoesTo
        <4> QED
          BY <1>1, <2>1, <4>1, <4>3, <4>4, WriteKeeps
      <3>2. CASE slotsOp' = Nobody
        BY <1>1, <1>3, <2>1, <2>2, <2>3, <3>2, WriteEnds
      <3> QED
        BY <2>3, <3>1, <3>2
    <2>4. CASE slotsRoot' = slotsRoot /\ slotsOp' = Nobody
      BY <2>2, <2>4, SlotsIdle
    <2> QED
      BY <2>2, <2>3, <2>4
  <1>6. CASE Slots!Preflight
    <2>1. UNCHANGED <<slotsRoot, slotsRetained>> /\ slotsOp.step = "listing"
      BY <1>6 DEF Slots!Preflight, Slots!At
    <2>2. CASE slotsOp' = Nobody
      BY <2>1, <2>2, SlotsIdle
    <2>3. CASE GoesTo("intent") /\ ~mine.there
      <3>1. ~mine.valid
        BY <1>2, <2>3 DEF SlotObjects, Slots!NoObject, Slots!Junk, Slots!Cache
      <3>2. KeptIsEnough
        BY <1>2, <3>1 DEF SlotsInv, Survives, KeptIsEnough, Kept, Slots!Slots, Slots!Other
      <3> QED
        BY <1>1, <1>2, <1>4, <2>1, <2>3, <3>1, <3>2, WriteKeeps
    <2> QED
      BY <1>6, <2>2, <2>3 DEF Slots!Preflight, Slots!GoTo, Slots!Done
  <1>7. CASE Slots!Intend
    <2>1. UNCHANGED <<slotsRoot, slotsRetained>> /\ slotsOp.step = "intent"
      BY <1>7 DEF Slots!Intend, Slots!At
    <2>2. KeptIsEnough /\ ~mine.there
      BY <1>1, <2>1 DEF SlotsInv, RewrittenIsSafe
    <2>3. ~mine.valid
      BY <1>2, <2>2 DEF SlotObjects, Slots!NoObject, Slots!Junk, Slots!Cache
    <2>4. CASE slotsOp' = Nobody
      BY <2>1, <2>4, SlotsIdle
    <2>5. CASE GoesTo("creating")
      BY <1>1, <1>2, <1>4, <2>1, <2>2, <2>3, <2>5, WriteKeeps
    <2> QED
      BY <1>7, <2>4, <2>5 DEF Slots!Intend, Slots!GoTo, Slots!Done
  <1>8. CASE Slots!Create
    <2>1. KeptIsEnough /\ slotsRetained' = slotsRetained
      BY <1>1, <1>8 DEF Slots!Create, Slots!At, SlotsInv, RewrittenIsSafe
    <2>2. CASE Puts(Slots!Junk) /\ (GoesTo("filling") \/ slotsOp' = Nobody)
      <3>1. CASE GoesTo("filling")
        BY <1>1, <1>3, <2>1, <2>2, <3>1, WriteKeeps
      <3>2. CASE slotsOp' = Nobody
        BY <1>1, <1>3, <2>1, <2>2, <3>2, WriteEnds
      <3> QED
        BY <2>2, <3>1, <3>2
    <2>3. CASE slotsRoot' = slotsRoot /\ slotsOp' = Nobody
      BY <2>1, <2>3, SlotsIdle
    <2> QED
      BY <1>8, <2>2, <2>3 DEF Slots!Create, Slots!GoTo, Slots!Done
  <1>9. CASE Slots!Fill
    <2>1. KeptIsEnough /\ slotsRetained' = slotsRetained /\ mine = Slots!Junk
      BY <1>1, <1>9 DEF Slots!Fill, Slots!At, SlotsInv, RewrittenIsSafe
    <2>2. CASE Puts(Slots!Cache(slotsOp.gen)) /\ GoesTo("reading back")
      BY <1>1, <1>3, <2>1, <2>2, WriteKeeps
    <2>3. CASE Puts(Slots!Cache(slotsOp.gen)) /\ GoesTo("discarding")
      BY <1>1, <1>3, <2>1, <2>3, WriteKeeps
    <2>4. CASE slotsRoot' = slotsRoot /\ GoesTo("discarding")
      BY <1>1, <1>3, <1>4, <2>1, <2>4, WriteKeeps
    <2> QED
      BY <1>9, <2>2, <2>3, <2>4 DEF Slots!Fill, Slots!GoTo
  <1>10. CASE Slots!ReadBack
    <2>1. KeptIsEnough /\ mine = Slots!Cache(slotsOp.gen) /\ slotsRoot' = slotsRoot
      BY <1>1, <1>10 DEF Slots!ReadBack, Slots!At, SlotsInv, RewrittenIsSafe
    <2>2. CASE /\ slotsRetained' = IF slotsOp.gen > slotsRetained THEN slotsOp.gen ELSE slotsRetained
               /\ slotsOp' = Nobody
      <3>1. Puts(mine) /\ mine.valid /\ mine.gen = slotsOp.gen
        BY <1>3, <1>4, <2>1
      <3> QED
        BY <1>1, <1>2, <2>2, <3>1, WriteEnds
    <2>3. CASE slotsRetained' = slotsRetained /\ GoesTo("discarding")
      BY <1>1, <1>2, <1>3, <1>4, <2>1, <2>3, WriteKeeps
    <2> QED
      BY <1>10, <2>2, <2>3 DEF Slots!ReadBack, Slots!GoTo, Slots!Done
  <1>11. CASE Slots!Discard
    <2>1. KeptIsEnough /\ slotsRetained' = slotsRetained /\ slotsOp' = Nobody
      BY <1>1, <1>11 DEF Slots!Discard, Slots!At, Slots!Done, SlotsInv, RewrittenIsSafe
    <2>2. CASE Puts(Slots!NoObject)
      BY <1>1, <1>3, <2>1, <2>2, WriteEnds
    <2>3. CASE slotsRoot' = slotsRoot
      BY <2>1, <2>3, SlotsIdle
    <2> QED
      BY <1>11, <2>2, <2>3 DEF Slots!Discard
  <1> QED
    BY <1>5, <1>6, <1>7, <1>8, <1>9, <1>10, <1>11

LEMMA SlotsStep ==
  ASSUME SlotsInv, Slots!Next
  PROVE  SlotsInv'
  <1>1. CASE \E h \in Tabs : Slots!Connect(h) \/ Slots!Acknowledge(h)
    <2>1. UNCHANGED <<slotsRoot, slotsRetained, slotsOp>>
          /\ (slotsHost' = Nobody => slotsHost = Nobody)
      BY <1>1 DEF Slots!Connect, Slots!Acknowledge
    <2> QED
      BY <2>1, SlotsIdle
  <1>2. CASE Slots!ConnectionEnds \/ Slots!NothingToWrite
    BY <1>2, SlotsIdle DEF Slots!ConnectionEnds, Slots!NothingToWrite, Slots!Done
  <1>3. CASE \E s \in Slots!Slots : Slots!Touch(s)
    BY <1>3, TouchKeeps
  <1>4. CASE Slots!Load
    BY <1>4, LoadKeeps
  <1>5. CASE Slots!Plan
    BY <1>5, PlanKeeps
  <1>6. CASE \/ Slots!DeleteOlder \/ Slots!Preflight \/ Slots!Intend \/ Slots!Create \/ Slots!Fill
             \/ Slots!ReadBack \/ Slots!Discard
    BY <1>6, WritesKeep
  <1> QED
    BY <1>1, <1>2, <1>3, <1>4, <1>5, <1>6 DEF Slots!Next

LEMMA SlotsStutter ==
  ASSUME SlotsInv, UNCHANGED slotsVars
  PROVE  SlotsInv'
  BY SlotsIdle DEF slotsVars

\* The invariant holds what a connecting browser relies on.
LEMMA SlotsAreRight ==
  ASSUME SlotsInv
  PROVE  NewestSlotSurvives
  <1>1. Slots!GenerationsDiffer
    BY DEF SlotsInv
  <1>2. PICK r \in [Slots!Slots -> SlotObjects] : r = slotsRoot
    BY DEF SlotsInv, SlotsTypes
  <1>3. slotsRetained \in Nat
    BY DEF SlotsInv, SlotsTypes
  <1>4. ASSUME slotsRetained > 0
        PROVE  Slots!Newest(r) >= slotsRetained
    <2>1. PICK s \in Slots!Slots : r[s].valid /\ r[s].gen = slotsRetained
      BY <1>2, <1>4 DEF SlotsInv, Survives
    <2>2. r[s].gen <= Slots!Newest(r) /\ Slots!Newest(r) \in Nat
      BY <2>1, NewestIs
    <2> QED
      BY <1>3, <2>1, <2>2
  <1>5. Slots!NewestSlotSurvives
    BY <1>2, <1>4 DEF Slots!NewestSlotSurvives
  <1> QED
    BY <1>1, <1>5 DEF NewestSlotSurvives

-----------------------------------------------------------------------------
(***************************************************************************)
(* Sends from the catalog.                                                 *)
(***************************************************************************)

CatalogTyped == sendCatalog \in [SendBooks -> [look : {0, 1}, rev : Nat]]

FilesTyped == sendFiles \in Seq([book : SendBooks, look : {0, 1}, made : {0, 1}])

CurrentTyped ==
  sendCurrent => sendLinked /\ sendRaw # Nobody /\ sendCompared \in [SendBooks -> {0, 1}]

JobTyped ==
  sendJob # Nobody =>
    sendJob \in [left : Seq(SendBooks) \ {<<>>}, step : {"check", "sending", "finish", "finishing"}]

Sending(s) ==
  /\ DOMAIN s = {"book", "want", "step", "rev", "edited", "made", "faulted"}
  /\ s.book \in SendBooks /\ s.want \in {0, 1} /\ s.made \in {0, 1}
  /\ s.step \in {"book", "cover", "source", "recheck", "upload", "record"}

SendTyped == sendSend # Nobody => Sending(sendSend)

\* An inventory names copies that are there, and all n of them if it is complete.
Sees(inventory, n) ==
  /\ inventory # Nobody
  /\ inventory.seen \subseteq 1..n
  /\ inventory.complete => inventory.seen = 1..n

Comparison(r, n) ==
  /\ DOMAIN r = {"by", "inventory", "step", "index", "heard"}
  /\ Sees(r.inventory, n)
  /\ r.step \in {"asking", "answered", "unavailable"}
  /\ r.step = "answered" => r.index \in [SendBooks -> {0, 1}]

\* Every inventory the controller keeps sees what is there: the connection's,
\* the one that is being compared, and the latest of a batch.
RawSees == sendRaw # Nobody => Sees(sendRaw, Len(sendFiles))

RunningSees ==
  sendRunning # Nobody =>
    sendLinked /\ sendState = "loading" /\ Comparison(sendRunning, Len(sendFiles))

BatchSees ==
  sendBatch # Nobody =>
    /\ DOMAIN sendBatch = {"completed", "latest"} /\ sendBatch.completed \in Nat
    /\ sendJob # Nobody
    /\ sendLinked /\ sendBatch.completed > 0 => sendBatch.latest # Nobody
    /\ sendLinked /\ sendBatch.latest # Nobody => Sees(sendBatch.latest, Len(sendFiles))

\* A send that still has its connection has an inventory.
SendSees == sendSend # Nobody /\ sendLinked => sendRaw # Nobody

\* A send that has not been carried out rests on a complete inventory, beside
\* which no comparison runs, and the job waits for it.
SendIsGrounded ==
  sendSend # Nobody /\ sendSend.step # "record" =>
    /\ sendLinked /\ sendRunning = Nobody /\ sendRaw.complete
    /\ sendJob # Nobody => sendJob.step = "sending"

\* What has been read of the book is of the version that was compared, unless
\* the catalog has moved on, which the last check sees.
ReadIsCompared ==
  sendSend # Nobody =>
    /\ sendSend.step = "book" => sendSend.made = 0
    /\ sendSend.step # "book" => (sendSend.edited <=> sendSend.want # 0)
    /\ sendSend.want = 0 => sendSend.made = 0
    /\ sendSend.step \in {"cover", "source", "recheck"} /\ sendSend.want # 0 =>
         sendSend.rev \in Nat /\ sendSend.rev <= sendCatalog[sendSend.book].rev
    /\ sendSend.step = "cover" =>
         /\ sendSend.want # 0
         /\ sendCatalog[sendSend.book].rev = sendSend.rev =>
              sendCatalog[sendSend.book].look = sendSend.want
    /\ sendSend.step \in {"source", "recheck"} /\ sendSend.want # 0 =>
         (sendCatalog[sendSend.book].rev = sendSend.rev => sendSend.made = sendSend.want)

\* What is uploaded has been read of the compared version, which the Kindle
\* does not have.
UploadIsNew ==
  sendSend # Nobody /\ sendSend.step = "upload" =>
    /\ sendSend.made = sendSend.want
    /\ \A i \in 1..Len(sendFiles) :
         ~(sendFiles[i].book = sendSend.book /\ sendFiles[i].look = sendSend.want)

\* The index of a comparison is the catalog's, unless an edit is on its way or
\* has been heard of.
IndexIsTrue ==
  sendRunning # Nobody /\ sendRunning.step = "answered" /\ ~sendRunning.heard
    /\ sendLive /\ "edit" \notin sendWire =>
      \A b \in SendBooks : sendRunning.index[b] = sendCatalog[b].look

\* Without the stream no book is shown as present.
SilentShowsNothing == ~sendLive => \A b \in SendBooks : sendStatus[b] # "confirmed"

SendInv ==
  /\ CatalogTyped /\ FilesTyped /\ CurrentTyped /\ JobTyped /\ SendTyped
  /\ RawSees /\ RunningSees /\ BatchSees
  /\ SendSees /\ SendIsGrounded /\ ReadIsCompared /\ UploadIsNew /\ IndexIsTrue /\ SilentShowsNothing
  /\ SentCopiesAreRight /\ GreenIsTrue

LEMMA TailIsLeft ==
  ASSUME NEW S, NEW q \in Seq(S), Len(q) > 1
  PROVE  Tail(q) \in Seq(S) \ {<<>>}
  <1>1. Len(q) \in Nat /\ q # <<>>
    OBVIOUS
  <1>2. Len(Tail(q)) = Len(q) - 1
    BY <1>1
  <1>3. Len(Tail(q)) # 0
    BY <1>1, <1>2
  <1>4. Len(<<>>) = 0
    OBVIOUS
  <1>5. Tail(q) # <<>>
    BY <1>3, <1>4, Zenon
  <1>6. Tail(q) \in Seq(S)
    BY <1>1
  <1> QED
    BY <1>5, <1>6

LEMMA SnapshotsOf ==
  ASSUME NEW n \in Nat, NEW names \in SUBSET (1..n)
  PROVE  /\ [seen |-> 1..n, complete |-> TRUE] \in [seen : SUBSET Nat, complete : {TRUE, FALSE}]
         /\ [seen |-> names, complete |-> FALSE] \in [seen : SUBSET Nat, complete : {TRUE, FALSE}]
  OBVIOUS

LEMMA FilesCounted ==
  ASSUME SendInv
  PROVE  Len(sendFiles) \in Nat /\ DOMAIN sendFiles = 1..Len(sendFiles)
  BY DEF SendInv, FilesTyped

\* An inventory that is compared sees what is there.
LEMMA InventoriesAreSeen ==
  ASSUME SendInv, NEW inventory \in Send!Inventories
  PROVE  Sees(inventory, Len(sendFiles))
  <1>1. PICK n \in Nat : n = Len(sendFiles)
    BY FilesCounted
  <1>2. CASE inventory = [seen |-> 1..n, complete |-> TRUE]
    BY <1>1, <1>2, NobodyIsApart, SnapshotsOf DEF Sees
  <1>3. CASE inventory \in [seen : SUBSET (1..n), complete : {FALSE}]
    <2>1. PICK names \in SUBSET (1..n) : inventory = [seen |-> names, complete |-> FALSE]
      BY <1>3
    <2> QED
      BY <1>1, <2>1, NobodyIsApart, SnapshotsOf DEF Sees
  <1> QED
    BY <1>1, <1>2, <1>3 DEF Send!Inventories

LEMMA BeginKeeps ==
  ASSUME SendInv, NEW by, NEW inventory, Send!Begin(by, inventory), Sees(inventory, Len(sendFiles)),
         sendLinked', sendSend # Nobody => sendSend.step = "record", UNCHANGED <<sendFiles, sendSend>>
  PROVE  RunningSees' /\ CurrentTyped' /\ SendIsGrounded' /\ IndexIsTrue'
  <1>1. /\ sendState' = "loading" /\ sendCurrent' = FALSE
        /\ Comparison(sendRunning', Len(sendFiles)) /\ sendRunning'.step = "asking"
    BY DEF Send!Begin, Comparison
  <1>2. RunningSees' /\ CurrentTyped'
    BY <1>1 DEF RunningSees, CurrentTyped
  <1>3. SendIsGrounded' /\ IndexIsTrue'
    BY <1>1 DEF SendIsGrounded, IndexIsTrue
  <1> QED
    BY <1>2, <1>3

\* What was queued is compared, or no comparison runs.
LEMMA ReplayKeeps ==
  ASSUME SendInv, NEW wanted, NEW inventory, NEW outcome, NEW now,
         Send!BeginQueuedOr(wanted, inventory, outcome, now),
         inventory # Nobody => Sees(inventory, Len(sendFiles)),
         now => sendLinked /\ sendRaw' # Nobody /\ sendCompared' \in [SendBooks -> {0, 1}],
         sendSend' # Nobody => sendSend'.step = "record", UNCHANGED <<sendFiles, sendLinked>>
  PROVE  RunningSees' /\ CurrentTyped' /\ SendIsGrounded' /\ IndexIsTrue'
  <1>1. CASE sendRunning' = Nobody /\ sendCurrent' = now
    BY <1>1 DEF RunningSees, CurrentTyped, SendIsGrounded, IndexIsTrue
  <1>2. CASE sendLinked /\ inventory # Nobody /\ Send!Begin("event", inventory)
    <2>1. /\ sendState' = "loading" /\ sendCurrent' = FALSE
          /\ Comparison(sendRunning', Len(sendFiles)) /\ sendRunning'.step = "asking"
      BY <1>2 DEF Send!Begin, Comparison
    <2> QED
      BY <1>2, <2>1 DEF RunningSees, CurrentTyped, SendIsGrounded, IndexIsTrue
  <1> QED
    BY <1>1, <1>2 DEF Send!BeginQueuedOr

\* A job that is handed over is still one.
LEMMA JobGoesOn ==
  ASSUME SendInv, NEW ok, sendJob' = Send!NextBook(ok)
  PROVE  JobTyped' /\ (sendJob # Nobody => sendJob' # Nobody)
  <1>1. CASE sendJob = Nobody
    BY <1>1 DEF Send!NextBook, JobTyped
  <1>2. CASE sendJob # Nobody
    <2> DEFINE Jobs == [left : Seq(SendBooks) \ {<<>>}, step : {"check", "sending", "finish",
          "finishing"}]
    <2>1. sendJob \in Jobs
      BY <1>2 DEF SendInv, JobTyped
    <2>2. Len(sendJob.left) > 1 => Tail(sendJob.left) \in Seq(SendBooks) \ {<<>>}
      <3>1. PICK q : q = sendJob.left
        OBVIOUS
      <3>2. q \in Seq(SendBooks)
        BY <2>1, <3>1
      <3> QED
        BY <3>1, <3>2, TailIsLeft
    <2>3. sendJob' \in Jobs
      BY <1>2, <2>1, <2>2 DEF Send!NextBook
    <2>4. Nobody \notin Jobs
      BY NobodyIsApart
    <2> QED
      BY <2>3, <2>4 DEF JobTyped
  <1> QED
    BY <1>1, <1>2

\* However a send ends, the hardware is released and what was queued compared.
LEMMA EndSendKeeps ==
  ASSUME SendInv, NEW ok, Send!EndSend(ok), sendWire' \in {sendWire, sendWire \cup {"delivery"}},
         UNCHANGED <<sendCatalog, sendFiles, sendLinked, sendRaw, sendCompared, sendBatch, sendStatus,
                     sendLive, sendOwed>>
  PROVE  SendInv'
  <1>1. JobTyped' /\ (sendJob # Nobody => sendJob' # Nobody)
    BY JobGoesOn DEF Send!EndSend
  <1>2. sendSend' = Nobody
    BY DEF Send!EndSend
  <1>3. RunningSees' /\ CurrentTyped' /\ SendIsGrounded' /\ IndexIsTrue'
    <2>1. PICK raw, state, current, wanted :
            /\ raw = sendRaw
            /\ state = sendState
            /\ current = sendCurrent
            /\ wanted = (sendBatch = Nobody)
            /\ Send!BeginQueuedOr(wanted, raw, state, current)
      BY DEF Send!EndSend
    <2>2. raw # Nobody => Sees(raw, Len(sendFiles))
      BY <2>1 DEF SendInv, RawSees
    <2>3. current => sendLinked /\ sendRaw' # Nobody /\ sendCompared' \in [SendBooks -> {0, 1}]
      BY <2>1 DEF SendInv, CurrentTyped
    <2> QED
      BY <1>2, <2>1, <2>2, <2>3, ReplayKeeps
  <1>4. BatchSees'
    BY <1>1 DEF SendInv, BatchSees
  <1>5. SendTyped' /\ SendSees' /\ ReadIsCompared' /\ UploadIsNew'
    BY <1>2 DEF SendTyped, SendSees, ReadIsCompared, UploadIsNew
  <1>6. CatalogTyped' /\ FilesTyped' /\ RawSees' /\ SilentShowsNothing'
    BY DEF SendInv, CatalogTyped, FilesTyped, RawSees, SilentShowsNothing
  <1>7. SentCopiesAreRight' /\ GreenIsTrue'
    BY DEF SendInv, SentCopiesAreRight, Send!CopyIsItsVersion, Send!NoDuplicateCopies, GreenIsTrue,
       Send!GreenIsTrue, Send!Present
  <1> QED
    BY <1>1, <1>3, <1>4, <1>5, <1>6, <1>7 DEF SendInv

\* A send that goes on is a send of the same connection.
LEMMA SendMoves ==
  ASSUME SendInv, sendSend # Nobody, sendSend.step # "record", Sending(sendSend'),
         ReadIsCompared', UploadIsNew',
         UNCHANGED <<sendCatalog, sendFiles, sendLinked, sendRaw, sendCurrent, sendState, sendCompared,
                     sendRunning, sendBatch, sendJob, sendStatus, sendLive, sendWire, sendOwed>>
  PROVE  SendInv'
  <1>1. SendTyped' /\ SendSees' /\ SendIsGrounded'
    BY DEF SendInv, SendTyped, SendSees, SendIsGrounded
  <1>2. CatalogTyped' /\ FilesTyped' /\ CurrentTyped' /\ JobTyped'
    BY DEF SendInv, CatalogTyped, FilesTyped, CurrentTyped, JobTyped
  <1>3. RawSees' /\ RunningSees' /\ BatchSees' /\ IndexIsTrue' /\ SilentShowsNothing'
    BY DEF SendInv, RawSees, RunningSees, BatchSees, IndexIsTrue, SilentShowsNothing
  <1>4. SentCopiesAreRight' /\ GreenIsTrue'
    BY DEF SendInv, SentCopiesAreRight, Send!CopyIsItsVersion, Send!NoDuplicateCopies, GreenIsTrue,
       Send!GreenIsTrue, Send!Present
  <1> QED
    BY <1>1, <1>2, <1>3, <1>4 DEF SendInv

\* What an upload writes, interrupted or not, is a new copy.
LEMMA UploadIsWritten ==
  ASSUME SendInv, sendSend # Nobody, sendSend.step = "upload",
         sendFiles' = Append(sendFiles, [book |-> sendSend.book, look |-> sendSend.want,
                                         made |-> sendSend.made])
  PROVE  /\ FilesTyped' /\ SentCopiesAreRight' /\ Len(sendFiles') = Len(sendFiles) + 1
         /\ \A i \in 1..Len(sendFiles) : sendFiles'[i] = sendFiles[i]
  <1>1. PICK c : /\ c = [book |-> sendSend.book, look |-> sendSend.want, made |-> sendSend.made]
                 /\ sendFiles' = Append(sendFiles, c)
    OBVIOUS
  <1>2. c \in [book : SendBooks, look : {0, 1}, made : {0, 1}] /\ c.made = c.look
    BY <1>1 DEF SendInv, SendTyped, Sending, UploadIsNew
  <1>3. \A i \in 1..Len(sendFiles) : ~(sendFiles[i].book = c.book /\ sendFiles[i].look = c.look)
    BY <1>1 DEF SendInv, UploadIsNew
  <1>4. sendFiles \in Seq([book : SendBooks, look : {0, 1}, made : {0, 1}])
    BY DEF SendInv, FilesTyped
  <1>5. /\ sendFiles' \in Seq([book : SendBooks, look : {0, 1}, made : {0, 1}])
        /\ Len(sendFiles') = Len(sendFiles) + 1 /\ sendFiles'[Len(sendFiles) + 1] = c
        /\ \A i \in 1..Len(sendFiles) : sendFiles'[i] = sendFiles[i]
    BY <1>1, <1>2, <1>4
  <1>6. SentCopiesAreRight'
    <2>1. DOMAIN sendFiles = 1..Len(sendFiles) /\ DOMAIN sendFiles' = 1..(Len(sendFiles) + 1)
      BY <1>4, <1>5
    <2>2. Len(sendFiles) \in Nat
      BY <1>4
    <2>3. \A i \in DOMAIN sendFiles' : sendFiles'[i].made = sendFiles'[i].look
      BY <1>2, <1>5, <2>1, <2>2 DEF SendInv, SentCopiesAreRight, Send!CopyIsItsVersion
    <2>4. \A i, j \in DOMAIN sendFiles' :
            sendFiles'[i].book = sendFiles'[j].book /\ sendFiles'[i].look = sendFiles'[j].look => i = j
      BY <1>3, <1>5, <2>1, <2>2 DEF SendInv, SentCopiesAreRight, Send!NoDuplicateCopies
    <2> QED
      BY <2>3, <2>4 DEF SentCopiesAreRight, Send!CopyIsItsVersion, Send!NoDuplicateCopies
  <1> QED
    BY <1>5, <1>6 DEF FilesTyped

LEMMA ConnectKeeps ==
  ASSUME SendInv, Send!Connect
  PROVE  SendInv'
  <1>1. /\ CatalogTyped' /\ FilesTyped' /\ JobTyped' /\ SendTyped' /\ RawSees'
        /\ ReadIsCompared' /\ UploadIsNew' /\ SilentShowsNothing' /\ SentCopiesAreRight' /\ GreenIsTrue'
    BY DEF SendInv, Send!Connect, Send!device, Send!browser, Send!bounds, CatalogTyped, FilesTyped,
       JobTyped, SendTyped, RawSees, ReadIsCompared, UploadIsNew, SilentShowsNothing,
       SentCopiesAreRight, GreenIsTrue, Send!CopyIsItsVersion, Send!NoDuplicateCopies,
       Send!GreenIsTrue, Send!Present
  <1>2. RunningSees' /\ CurrentTyped' /\ SendIsGrounded' /\ IndexIsTrue'
    <2>1. PICK inventory \in Send!Inventories : Send!Begin("connect", inventory)
      BY DEF Send!Connect
    <2>2. sendSend = Nobody /\ sendLinked' /\ UNCHANGED <<sendFiles, sendSend>>
      BY DEF Send!Connect, Send!device
    <2> QED
      BY <2>1, <2>2, InventoriesAreSeen, BeginKeeps
  <1>3. BatchSees'
    BY DEF SendInv, Send!Connect, Send!Inventories, Send!Begin, Send!device, Send!browser,
       Send!bounds, BatchSees, Sees
  <1>4. SendSees'
    BY DEF SendInv, Send!Connect, Send!Inventories, Send!Begin, Send!device, Send!browser,
       Send!bounds, SendSees
  <1> QED
    BY <1>1, <1>2, <1>3, <1>4 DEF SendInv

LEMMA LinkLostKeeps ==
  ASSUME SendInv, Send!LinkLost
  PROVE  SendInv'
  <1>1. CatalogTyped'
    BY DEF SendInv, Send!LinkLost, Send!device, CatalogTyped
  <1>2. FilesTyped' /\ SentCopiesAreRight'
    <2>1. CASE UNCHANGED sendFiles
      BY <2>1 DEF SendInv, FilesTyped, SentCopiesAreRight, Send!CopyIsItsVersion, Send!NoDuplicateCopies
    <2>2. CASE /\ sendSend # Nobody /\ sendSend.step = "upload"
               /\ sendFiles' = Append(sendFiles, [book |-> sendSend.book, look |-> sendSend.want,
                                                  made |-> sendSend.made])
      BY <2>2, UploadIsWritten
    <2> QED
      BY <2>1, <2>2 DEF Send!LinkLost, Send!Interrupted, Send!device
  <1>3. CurrentTyped'
    BY DEF SendInv, Send!LinkLost, Send!Fault, Send!Unlink, Send!Interrupted, Send!Unknown,
       Send!device, CurrentTyped
  <1>4. JobTyped'
    BY DEF SendInv, Send!LinkLost, Send!Fault, Send!Unlink, Send!Interrupted, Send!Unknown,
       Send!device, JobTyped
  <1>5. SendTyped'
    BY DEF SendInv, Send!LinkLost, Send!Fault, Send!Unlink, Send!Interrupted, Send!Unknown,
       Send!device, SendTyped, Sending
  <1>6. RawSees'
    BY DEF SendInv, Send!LinkLost, Send!Fault, Send!Unlink, Send!Interrupted, Send!Unknown,
       Send!device, RawSees, Sees
  <1>7. RunningSees'
    BY DEF SendInv, Send!LinkLost, Send!Fault, Send!Unlink, Send!Interrupted, Send!Unknown,
       Send!device, RunningSees, Comparison, Sees
  <1>8. BatchSees'
    <2>1. sendBatch' # Nobody => sendBatch' = sendBatch /\ (sendJob # Nobody => sendJob' # Nobody)
      <3>1. sendJob # Nobody => [sendJob EXCEPT !.step = "finish"] # Nobody
        BY NobodyIsApart DEF SendInv, JobTyped
      <3> QED
        BY <3>1 DEF Send!LinkLost
    <2>2. sendLinked' = FALSE
      BY DEF Send!LinkLost, Send!Unlink
    <2> QED
      BY <2>1, <2>2 DEF SendInv, BatchSees
  <1>9. SendSees'
    BY DEF SendInv, Send!LinkLost, Send!Fault, Send!Unlink, Send!Interrupted, Send!Unknown,
       Send!device, SendSees
  <1>10. SendIsGrounded'
    BY DEF SendInv, Send!LinkLost, Send!Fault, Send!Unlink, Send!Interrupted, Send!Unknown,
       Send!device, SendIsGrounded
  <1>11. ReadIsCompared'
    BY DEF SendInv, Send!LinkLost, Send!Fault, Send!Unlink, Send!Interrupted, Send!Unknown,
       Send!device, ReadIsCompared
  <1>12. UploadIsNew'
    BY DEF SendInv, Send!LinkLost, Send!Fault, Send!Unlink, Send!Interrupted, Send!Unknown,
       Send!device, UploadIsNew
  <1>13. IndexIsTrue'
    BY DEF SendInv, Send!LinkLost, Send!Fault, Send!Unlink, Send!Interrupted, Send!Unknown,
       Send!device, IndexIsTrue
  <1>14. SilentShowsNothing'
    BY DEF SendInv, Send!LinkLost, Send!Fault, Send!Unlink, Send!Interrupted, Send!Unknown,
       Send!device, SilentShowsNothing
  <1>15. GreenIsTrue'
    BY DEF SendInv, Send!LinkLost, Send!Fault, Send!Unlink, Send!Interrupted, Send!Unknown,
       Send!device, GreenIsTrue, Send!GreenIsTrue, Send!Present
  <1> QED
    BY <1>1, <1>2, <1>3, <1>4, <1>5, <1>6, <1>7, <1>8, <1>9, <1>10, <1>11, <1>12, <1>13, <1>14,
          <1>15 DEF SendInv

LEMMA AcknowledgePendingKeeps ==
  ASSUME SendInv, Send!AcknowledgePending
  PROVE  SendInv'
  <1>1. /\ CatalogTyped' /\ FilesTyped' /\ JobTyped' /\ SendTyped' /\ RawSees'
        /\ BatchSees' /\ SendSees' /\ ReadIsCompared' /\ UploadIsNew' /\ SilentShowsNothing'
        /\ SentCopiesAreRight' /\ GreenIsTrue'
    BY DEF SendInv, Send!AcknowledgePending, Send!browser, Send!bounds, CatalogTyped, FilesTyped,
       JobTyped, SendTyped, RawSees, BatchSees, SendSees, ReadIsCompared, UploadIsNew,
       SilentShowsNothing, SentCopiesAreRight, GreenIsTrue, Send!CopyIsItsVersion,
       Send!NoDuplicateCopies, Send!GreenIsTrue, Send!Present
  <1>2. RunningSees' /\ CurrentTyped' /\ SendIsGrounded' /\ IndexIsTrue'
    <2>1. CASE sendLinked
      <3>1. PICK inventory \in Send!Inventories : Send!Begin("connect", inventory)
        BY <2>1 DEF Send!AcknowledgePending
      <3>2. sendSend = Nobody /\ sendLinked' /\ UNCHANGED <<sendFiles, sendSend>>
        BY <2>1 DEF Send!AcknowledgePending
      <3> QED
        BY <3>1, <3>2, InventoriesAreSeen, BeginKeeps
    <2>2. CASE ~sendLinked
      BY <2>2 DEF SendInv, Send!AcknowledgePending, Send!browser, RunningSees, CurrentTyped,
            SendIsGrounded,
         IndexIsTrue
    <2> QED
      BY <2>1, <2>2
  <1> QED
    BY <1>1, <1>2 DEF SendInv

LEMMA FetchIndexKeeps ==
  ASSUME SendInv, Send!FetchIndex
  PROVE  SendInv'
  <1>1. /\ CatalogTyped' /\ FilesTyped' /\ CurrentTyped' /\ JobTyped' /\ SendTyped'
        /\ RawSees' /\ BatchSees' /\ SendSees' /\ ReadIsCompared' /\ UploadIsNew'
        /\ SilentShowsNothing' /\ SentCopiesAreRight' /\ GreenIsTrue'
    BY DEF SendInv, Send!FetchIndex, Send!bounds, Send!device, Send!browser, CatalogTyped,
       FilesTyped, CurrentTyped, JobTyped, SendTyped, RawSees, BatchSees, SendSees, ReadIsCompared,
       UploadIsNew, SilentShowsNothing, SentCopiesAreRight, GreenIsTrue, Send!CopyIsItsVersion,
       Send!NoDuplicateCopies, Send!GreenIsTrue, Send!Present
  <1>2. RunningSees' /\ SendIsGrounded' /\ IndexIsTrue'
    <2>1. /\ sendRunning # Nobody
          /\ UNCHANGED <<sendCatalog, sendFiles, sendLinked, sendState, sendSend, sendRaw, sendLive,
                sendWire>>
      BY DEF Send!FetchIndex, Send!device, Send!browser
    <2>2. PICK r : r = sendRunning
      OBVIOUS
    <2>3. sendLinked /\ sendState = "loading" /\ Comparison(r, Len(sendFiles))
      BY <2>1, <2>2 DEF SendInv, RunningSees
    <2>4. sendSend # Nobody => sendSend.step = "record"
      BY <2>1 DEF SendInv, SendIsGrounded
    <2>5. CASE sendRunning' = [r EXCEPT !.step = "answered", !.heard = FALSE,
                                      !.index = [b \in SendBooks |-> sendCatalog[b].look]]
      <3>1. PICK index : index = [b \in SendBooks |-> sendCatalog[b].look]
        OBVIOUS
      <3>2. index \in [SendBooks -> {0, 1}] /\ \A b \in SendBooks : index[b] = sendCatalog[b].look
        BY <3>1 DEF SendInv, CatalogTyped
      <3>3. sendRunning' = [r EXCEPT !.step = "answered", !.heard = FALSE, !.index = index]
        BY <2>5, <3>1
      <3>4. Comparison(sendRunning', Len(sendFiles)) /\ sendRunning'.index = index
        BY <2>3, <3>2, <3>3 DEF Comparison
      <3> QED
        BY <2>1, <2>3, <2>4, <3>2, <3>4 DEF RunningSees, SendIsGrounded, IndexIsTrue
    <2>6. CASE sendRunning' = [r EXCEPT !.step = "unavailable"]
      <3>1. Comparison(sendRunning', Len(sendFiles)) /\ sendRunning'.step = "unavailable"
        BY <2>3, <2>6 DEF Comparison
      <3> QED
        BY <2>1, <2>3, <2>4, <3>1 DEF RunningSees, SendIsGrounded, IndexIsTrue
    <2> QED
      BY <2>2, <2>5, <2>6 DEF Send!FetchIndex
  <1> QED
    BY <1>1, <1>2 DEF SendInv

LEMMA InstallComparisonKeeps ==
  ASSUME SendInv, Send!InstallComparison
  PROVE  SendInv'
  <1>1. CatalogTyped' /\ FilesTyped' /\ SentCopiesAreRight'
    BY DEF SendInv, Send!InstallComparison, Send!device, Send!bounds, CatalogTyped, FilesTyped,
       SentCopiesAreRight, Send!CopyIsItsVersion, Send!NoDuplicateCopies
  <1>2. /\ sendRunning # Nobody /\ sendLinked /\ Comparison(sendRunning, Len(sendFiles))
        /\ sendRunning.step # "asking"
    BY DEF SendInv, Send!InstallComparison, RunningSees
  <1>3. /\ sendRaw' = sendRunning.inventory /\ sendCompared' = sendRunning.index
        /\ Sees(sendRaw', Len(sendFiles)) /\ sendSend' \in {sendSend, Nobody}
        /\ UNCHANGED <<sendFiles, sendLinked>>
    BY <1>2 DEF Send!InstallComparison, Send!EndOf, Send!device, Comparison
  <1>4. RunningSees' /\ CurrentTyped' /\ SendIsGrounded' /\ IndexIsTrue'
    <2>1. PICK inventory, ok : inventory = sendRunning.inventory /\ ok = (sendRunning.step = "answered")
      OBVIOUS
    <2>2. ok => sendLinked /\ sendRaw' # Nobody /\ sendCompared' \in [SendBooks -> {0, 1}]
      BY <1>2, <1>3, <2>1 DEF Comparison, Sees
    <2>3. sendSend' # Nobody => sendSend'.step = "record"
      BY <1>2, <1>3 DEF SendInv, SendIsGrounded
    <2>4. CASE sendRunning' = Nobody /\ sendCurrent' = ok
      BY <2>2, <2>3, <2>4, <1>3 DEF RunningSees, CurrentTyped, SendIsGrounded, IndexIsTrue
    <2>5. CASE \E outcome : Send!BeginQueuedOr(TRUE, inventory, outcome, ok)
      BY <1>3, <2>1, <2>2, <2>3, <2>5, ReplayKeeps
    <2> QED
      BY <2>1, <2>4, <2>5 DEF Send!InstallComparison
  <1>5. JobTyped'
    BY DEF SendInv, Send!InstallComparison, Send!Shows, Send!Unknown, Send!BeginQueuedOr,
       Send!EndOf, Send!Begin, Send!device, Send!bounds, JobTyped
  <1>6. SendTyped'
    BY DEF SendInv, Send!InstallComparison, Send!Shows, Send!Unknown, Send!BeginQueuedOr,
       Send!EndOf, Send!Begin, Send!device, Send!bounds, SendTyped, Sending
  <1>7. RawSees' /\ SendSees'
    BY <1>3 DEF RawSees, SendSees, Sees
  <1>8. BatchSees'
    BY DEF SendInv, Send!InstallComparison, Send!Shows, Send!Unknown, Send!BeginQueuedOr,
       Send!EndOf, Send!Begin, Send!device, Send!bounds, BatchSees, Sees
  <1>9. ReadIsCompared'
    BY DEF SendInv, Send!InstallComparison, Send!Shows, Send!Unknown, Send!BeginQueuedOr,
       Send!EndOf, Send!Begin, Send!device, Send!bounds, ReadIsCompared
  <1>10. UploadIsNew'
    BY DEF SendInv, Send!InstallComparison, Send!Shows, Send!Unknown, Send!BeginQueuedOr,
       Send!EndOf, Send!Begin, Send!device, Send!bounds, UploadIsNew
  <1>11. SilentShowsNothing'
    BY DEF SendInv, Send!InstallComparison, Send!Shows, Send!Unknown, Send!BeginQueuedOr,
       Send!EndOf, Send!Begin, Send!device, Send!bounds, SilentShowsNothing
  <1>12. GreenIsTrue'
    <2> SUFFICES ASSUME NEW b \in SendBooks, sendStatus'[b] = "confirmed", ~sendOwed',
          "edit" \notin sendWire'
                 PROVE  Send!Present(b)'
      BY DEF GreenIsTrue, Send!GreenIsTrue
    <2>1. sendStatus' # Send!Unknown
      BY DEF Send!Unknown
    <2>2. sendRunning.step = "answered" /\ sendStatus' \in Send!Shows(sendRunning.index,
          sendRunning.inventory)
      BY <2>1 DEF Send!InstallComparison
    <2>3. sendLive /\ sendStatus'[b] \in Send!Verdicts(b, sendRunning.index, sendRunning.inventory)
      BY <2>1, <2>2 DEF Send!Shows
    <2>4. Send!Holds(sendRunning.inventory, b, sendRunning.index[b])
      BY <2>3 DEF Send!Verdicts
    <2>5. sendRunning.index[b] = sendCatalog[b].look
      BY <1>2, <2>2, <2>3 DEF SendInv, IndexIsTrue, Send!InstallComparison
    <2>6. \E i \in 1..Len(sendFiles) : sendFiles[i].book = b /\ sendFiles[i].look = sendCatalog[b].look
      BY <1>2, <2>4, <2>5 DEF Send!Holds, Comparison, Sees
    <2>7. UNCHANGED <<sendFiles, sendCatalog>>
      BY DEF Send!InstallComparison, Send!device
    <2> QED
      BY <2>6, <2>7, FilesCounted DEF Send!Present
  <1> QED
    BY <1>1, <1>2, <1>3, <1>4, <1>5, <1>6, <1>7, <1>8, <1>9, <1>10, <1>11, <1>12 DEF SendInv

LEMMA ComparisonFailsKeeps ==
  ASSUME SendInv, Send!ComparisonFails
  PROVE  SendInv'
  <1>1. /\ CatalogTyped' /\ FilesTyped' /\ RawSees' /\ SilentShowsNothing' /\ SentCopiesAreRight'
        /\ GreenIsTrue'
    BY DEF SendInv, Send!ComparisonFails, Send!device, CatalogTyped, FilesTyped, RawSees,
       SilentShowsNothing, SentCopiesAreRight, GreenIsTrue, Send!CopyIsItsVersion,
       Send!NoDuplicateCopies, Send!GreenIsTrue, Send!Present
  <1>2. JobTyped'
    BY DEF SendInv, Send!ComparisonFails, Send!Fault, Send!BeginQueuedOr, Send!EndOf, Send!Begin,
       Send!device, JobTyped
  <1>3. SendTyped'
    BY DEF SendInv, Send!ComparisonFails, Send!Fault, Send!BeginQueuedOr, Send!EndOf, Send!Begin,
       Send!device, SendTyped, Sending
  <1>4. RunningSees' /\ CurrentTyped' /\ SendIsGrounded' /\ IndexIsTrue'
    <2>1. /\ sendRunning # Nobody /\ sendSend' \in {sendSend, Nobody}
          /\ UNCHANGED <<sendFiles, sendLinked, sendRaw>>
      BY DEF Send!ComparisonFails, Send!EndOf, Send!device
    <2>2. sendSend' # Nobody => sendSend'.step = "record"
      BY <2>1 DEF SendInv, SendIsGrounded
    <2>3. CASE sendRunning' = Nobody /\ sendCurrent' = FALSE
      BY <2>2, <2>3 DEF RunningSees, CurrentTyped, SendIsGrounded, IndexIsTrue
    <2>4. CASE \E wanted : Send!BeginQueuedOr(wanted, sendRaw, "failed", FALSE)
      <3>1. PICK raw, wanted : raw = sendRaw /\ Send!BeginQueuedOr(wanted, raw, "failed", FALSE)
        BY <2>4
      <3>2. raw # Nobody => Sees(raw, Len(sendFiles))
        BY <3>1 DEF SendInv, RawSees
      <3> QED
        BY <2>1, <2>2, <3>1, <3>2, ReplayKeeps
    <2> QED
      BY <2>3, <2>4 DEF Send!ComparisonFails
  <1>5. BatchSees'
    BY DEF SendInv, Send!ComparisonFails, Send!Fault, Send!BeginQueuedOr, Send!EndOf, Send!Begin,
       Send!device, BatchSees, Sees
  <1>6. SendSees'
    BY DEF SendInv, Send!ComparisonFails, Send!Fault, Send!BeginQueuedOr, Send!EndOf, Send!Begin,
       Send!device, SendSees
  <1>7. ReadIsCompared'
    BY DEF SendInv, Send!ComparisonFails, Send!Fault, Send!BeginQueuedOr, Send!EndOf, Send!Begin,
       Send!device, ReadIsCompared
  <1>8. UploadIsNew'
    BY DEF SendInv, Send!ComparisonFails, Send!Fault, Send!BeginQueuedOr, Send!EndOf, Send!Begin,
       Send!device, UploadIsNew
  <1> QED
    BY <1>1, <1>2, <1>3, <1>4, <1>5, <1>6, <1>7, <1>8 DEF SendInv

LEMMA SendOneKeeps ==
  ASSUME SendInv, NEW b \in SendBooks, Send!SendOne(b)
  PROVE  SendInv'
  <1>1. /\ CatalogTyped' /\ FilesTyped' /\ CurrentTyped' /\ JobTyped' /\ RawSees'
        /\ RunningSees' /\ BatchSees' /\ IndexIsTrue' /\ SilentShowsNothing' /\ SentCopiesAreRight'
        /\ GreenIsTrue'
    BY DEF SendInv, Send!SendOne, Send!device, Send!comparison, Send!browser, CatalogTyped,
       FilesTyped, CurrentTyped, JobTyped, RawSees, RunningSees, BatchSees, IndexIsTrue,
       SilentShowsNothing, SentCopiesAreRight, GreenIsTrue, Send!CopyIsItsVersion,
       Send!NoDuplicateCopies, Send!GreenIsTrue, Send!Present
  <1>2. sendSend' = Send!StartOf(b) /\ sendCompared[b] \in {0, 1} /\ sendLinked /\ sendRaw # Nobody
        /\ sendRaw.complete /\ sendState = "ready"
    BY DEF SendInv, CurrentTyped, Send!SendOne, Send!MaySend
  <1>3. /\ Sending(sendSend') /\ sendSend'.step = "book" /\ sendSend'.made = 0
    BY <1>2 DEF Send!StartOf, Sending
  <1>4. SendTyped' /\ SendSees' /\ ReadIsCompared' /\ UploadIsNew'
    BY <1>2, <1>3 DEF SendTyped, SendSees, ReadIsCompared, UploadIsNew, Send!SendOne, Send!comparison
  <1>5. SendIsGrounded'
    BY <1>2 DEF SendInv, SendIsGrounded, RunningSees, Send!SendOne, Send!comparison, Send!browser
  <1> QED
    BY <1>1, <1>2, <1>3, <1>4, <1>5 DEF SendInv

LEMMA EditKeeps ==
  ASSUME SendInv, NEW b \in SendBooks, Send!Edit(b)
  PROVE  SendInv'
  <1>1. /\ FilesTyped' /\ CurrentTyped' /\ JobTyped' /\ SendTyped' /\ RawSees'
        /\ RunningSees' /\ BatchSees' /\ SendSees' /\ SendIsGrounded' /\ UploadIsNew'
        /\ SilentShowsNothing' /\ SentCopiesAreRight'
    BY DEF SendInv, Send!Edit, Send!device, Send!comparison, FilesTyped, CurrentTyped, JobTyped,
       SendTyped, RawSees, RunningSees, BatchSees, SendSees, SendIsGrounded, UploadIsNew,
       SilentShowsNothing, SentCopiesAreRight, Send!CopyIsItsVersion, Send!NoDuplicateCopies
  <1>2. CatalogTyped'
    BY DEF SendInv, Send!Edit, Send!device, Send!comparison, CatalogTyped
  <1>3. ReadIsCompared'
    <2>1. CASE sendSend # Nobody /\ sendSend.book = b
      <3>1. sendCatalog' = [sendCatalog EXCEPT ![b] = [look |-> 1 - @.look, rev |-> @.rev + 1]]
            /\ sendSend' = sendSend
        BY DEF Send!Edit
      <3>2. sendCatalog[b].rev \in Nat /\ sendCatalog'[b].rev = sendCatalog[b].rev + 1
        BY <3>1 DEF SendInv, CatalogTyped
      <3> QED
        BY <2>1, <3>1, <3>2 DEF SendInv, ReadIsCompared
    <2>2. CASE sendSend # Nobody /\ sendSend.book # b
      BY <2>2 DEF SendInv, Send!Edit, CatalogTyped, SendTyped, Sending, ReadIsCompared
    <2>3. CASE sendSend = Nobody
      BY <2>3 DEF Send!Edit, ReadIsCompared
    <2> QED
      BY <2>1, <2>2, <2>3
  <1>4. IndexIsTrue'
    BY DEF SendInv, Send!Edit, Send!device, Send!comparison, IndexIsTrue
  <1>5. GreenIsTrue'
    <2>1. CASE sendLive
      BY <2>1 DEF Send!Edit, GreenIsTrue, Send!GreenIsTrue
    <2>2. CASE ~sendLive
      BY <2>2 DEF SendInv, Send!Edit, SilentShowsNothing, GreenIsTrue, Send!GreenIsTrue
    <2> QED
      BY <2>1, <2>2
  <1> QED
    BY <1>1, <1>2, <1>3, <1>4, <1>5 DEF SendInv

LEMMA AbandonKeeps ==
  ASSUME SendInv, Send!Abandon
  PROVE  SendInv'
  BY EndSendKeeps DEF Send!Abandon, Send!Unprepared, Send!device

LEMMA ReadBookKeeps ==
  ASSUME SendInv, Send!ReadBook
  PROVE  SendInv'
  <1>1. CASE sendCatalog[sendSend.book].look = sendSend.want
    <2>1. /\ sendSend # Nobody /\ sendSend.step = "book"
          /\ UNCHANGED <<sendCatalog, sendFiles, sendLinked, sendRaw, sendCurrent, sendState,
                sendCompared,
                         sendRunning, sendBatch, sendJob, sendStatus, sendLive, sendWire, sendOwed>>
      BY <1>1 DEF Send!ReadBook, Send!Unprepared, Send!device
    <2>2. sendSend' = [sendSend EXCEPT !.edited = (sendSend.want # 0),
          !.rev = sendCatalog[sendSend.book].rev,
                                    !.step = IF sendSend.want # 0 THEN "cover" ELSE "source"]
      BY <1>1 DEF Send!ReadBook
    <2>3. Sending(sendSend) /\ sendCatalog \in [SendBooks -> [look : {0, 1}, rev : Nat]]
      BY <2>1 DEF SendInv, SendTyped, CatalogTyped
    <2>4. Sending(sendSend')
      BY <2>2, <2>3 DEF Sending
    <2>5. ReadIsCompared'
      <3>1. PICK edited : edited = (sendSend.want # 0)
        OBVIOUS
      <3>2. /\ sendSend' = [sendSend EXCEPT !.edited = edited, !.rev = sendCatalog[sendSend.book].rev,
                                         !.step = IF sendSend.want # 0 THEN "cover" ELSE "source"]
            /\ UNCHANGED sendCatalog
        BY <2>1, <2>2, <3>1
      <3>3. /\ sendSend'.edited = edited
            /\ sendSend'.want = sendSend.want
            /\ sendSend'.made = sendSend.made
            /\ sendSend'.book = sendSend.book /\ sendSend'.rev = sendCatalog[sendSend.book].rev
            /\ sendSend'.step = IF sendSend.want # 0 THEN "cover" ELSE "source"
        BY <2>3, <3>2 DEF Sending
      <3>4. sendSend.made = 0 /\ sendCatalog[sendSend.book].rev \in Nat
        BY <2>1, <2>3 DEF SendInv, ReadIsCompared, Sending
      <3>5. sendSend'.edited <=> sendSend'.want # 0
        BY <3>1, <3>3
      <3> QED
        BY <1>1, <3>2, <3>3, <3>4, <3>5 DEF ReadIsCompared
    <2>6. UploadIsNew'
      BY <1>1, <2>1, <2>2, <2>3 DEF SendInv, ReadIsCompared, UploadIsNew, Sending
    <2> QED
      BY <2>1, <2>4, <2>5, <2>6, SendMoves
  <1>2. CASE ~(sendCatalog[sendSend.book].look = sendSend.want)
    BY <1>2, EndSendKeeps DEF Send!ReadBook, Send!Unprepared, Send!device
  <1> QED
    BY <1>1, <1>2

LEMMA ReadCoverKeeps ==
  ASSUME SendInv, Send!ReadCover
  PROVE  SendInv'
  <1>1. /\ sendSend # Nobody /\ sendSend.step = "cover"
        /\ UNCHANGED <<sendCatalog, sendFiles, sendLinked, sendRaw, sendCurrent, sendState, sendCompared,
                       sendRunning, sendBatch, sendJob, sendStatus, sendLive, sendWire, sendOwed>>
    BY DEF Send!ReadCover, Send!Unprepared, Send!device
  <1>2. sendSend' = [sendSend EXCEPT !.made = sendCatalog[sendSend.book].look, !.step = "source"]
    BY DEF Send!ReadCover
  <1>3. Sending(sendSend) /\ sendCatalog \in [SendBooks -> [look : {0, 1}, rev : Nat]]
    BY <1>1 DEF SendInv, SendTyped, CatalogTyped
  <1>4. sendCatalog[sendSend.book].look \in {0, 1}
    BY <1>3 DEF Sending
  <1>5. Sending(sendSend')
    BY <1>2, <1>3, <1>4 DEF Sending
  <1>6. ReadIsCompared'
    BY <1>1, <1>2, <1>3 DEF SendInv, ReadIsCompared, Sending
  <1>7. UploadIsNew'
    BY <1>2, <1>3 DEF UploadIsNew, Sending
  <1> QED
    BY <1>1, <1>5, <1>6, <1>7, SendMoves

LEMMA ReadSourceKeeps ==
  ASSUME SendInv, Send!ReadSource
  PROVE  SendInv'
  <1>1. CASE sendCatalog[sendSend.book].look = sendSend.want
    <2>1. /\ sendSend # Nobody /\ sendSend.step = "source"
          /\ UNCHANGED <<sendCatalog, sendFiles, sendLinked, sendRaw, sendCurrent, sendState,
                sendCompared,
                         sendRunning, sendBatch, sendJob, sendStatus, sendLive, sendWire, sendOwed>>
      BY <1>1 DEF Send!ReadSource, Send!Unprepared, Send!device
    <2>2. sendSend' = [sendSend EXCEPT !.step = "recheck"]
      BY <1>1 DEF Send!ReadSource
    <2>3. Sending(sendSend) /\ sendCatalog \in [SendBooks -> [look : {0, 1}, rev : Nat]]
      BY <2>1 DEF SendInv, SendTyped, CatalogTyped
    <2>4. Sending(sendSend')
      BY <2>2, <2>3 DEF Sending
    <2>5. ReadIsCompared'
      BY <1>1, <2>1, <2>2, <2>3 DEF SendInv, ReadIsCompared, Sending
    <2>6. UploadIsNew'
      BY <1>1, <2>1, <2>2, <2>3 DEF SendInv, ReadIsCompared, UploadIsNew, Sending
    <2> QED
      BY <2>1, <2>4, <2>5, <2>6, SendMoves
  <1>2. CASE ~(sendCatalog[sendSend.book].look = sendSend.want)
    BY <1>2, EndSendKeeps DEF Send!ReadSource, Send!Unprepared, Send!device
  <1> QED
    BY <1>1, <1>2

LEMMA RecheckKeeps ==
  ASSUME SendInv, Send!Recheck
  PROVE  SendInv'
  <1>1. CASE Send!StillTheSame(sendSend) /\ ~Send!Holds(sendRaw, sendSend.book, sendSend.want)
    <2>1. /\ sendSend # Nobody /\ sendSend.step = "recheck"
          /\ UNCHANGED <<sendCatalog, sendFiles, sendLinked, sendRaw, sendCurrent, sendState,
                sendCompared,
                         sendRunning, sendBatch, sendJob, sendStatus, sendLive, sendWire, sendOwed>>
      BY <1>1 DEF Send!Recheck, Send!Unprepared, Send!device
    <2>2. sendSend' = [sendSend EXCEPT !.step = "upload"]
      BY <1>1 DEF Send!Recheck
    <2>3. Sending(sendSend) /\ sendCatalog \in [SendBooks -> [look : {0, 1}, rev : Nat]]
      BY <2>1 DEF SendInv, SendTyped, CatalogTyped
    <2>4. Sending(sendSend')
      BY <2>2, <2>3 DEF Sending
    <2>5. sendRaw.seen = 1..Len(sendFiles)
      BY <2>1 DEF SendInv, SendIsGrounded, SendSees, RawSees, Sees
    <2>6. ReadIsCompared'
      BY <1>1, <2>1, <2>2, <2>3 DEF SendInv, ReadIsCompared, Sending
    <2>7. UploadIsNew'
      BY <1>1, <2>1, <2>2, <2>3, <2>5 DEF SendInv, ReadIsCompared, UploadIsNew, Sending, Send!Holds,
            Send!StillTheSame
    <2> QED
      BY <2>1, <2>4, <2>6, <2>7, SendMoves
  <1>2. CASE ~(Send!StillTheSame(sendSend) /\ ~Send!Holds(sendRaw, sendSend.book, sendSend.want))
    BY <1>2, EndSendKeeps DEF Send!Recheck, Send!Unprepared, Send!device
  <1> QED
    BY <1>1, <1>2

LEMMA UploadedKeeps ==
  ASSUME SendInv, Send!Uploaded
  PROVE  SendInv'
  <1>1. /\ sendSend # Nobody /\ sendSend.step = "upload" /\ Sending(sendSend)
        /\ UNCHANGED <<sendCatalog, sendLinked, sendCurrent, sendState, sendCompared, sendRunning,
              sendJob,
                       sendLive, sendWire, sendOwed>>
    BY DEF SendInv, Send!Uploaded, SendTyped
  <1>2. /\ FilesTyped' /\ SentCopiesAreRight' /\ Len(sendFiles') = Len(sendFiles) + 1
        /\ \A i \in 1..Len(sendFiles) : sendFiles'[i] = sendFiles[i]
    BY <1>1, UploadIsWritten DEF Send!Uploaded
  <1>3. sendLinked /\ sendRunning = Nobody /\ sendRaw # Nobody
        /\ sendRaw.seen \subseteq 1..Len(sendFiles)
    BY <1>1 DEF SendInv, SendIsGrounded, SendSees, RawSees, Sees
  <1>4. PICK inventory \in Send!InventoriesAfter :
          /\ sendRaw' = inventory
          /\ sendBatch' = IF sendBatch = Nobody THEN Nobody
                          ELSE [completed |-> sendBatch.completed + 1, latest |-> inventory]
          /\ \E faulted \in {TRUE, FALSE} :
               \/ sendSend' = [sendSend EXCEPT !.step = "record"]
               \/ sendSend' = [sendSend EXCEPT !.step = "record", !.faulted = TRUE]
    BY DEF Send!Uploaded
  <1>5. Sees(inventory, Len(sendFiles) + 1)
    <2>1. inventory.seen \subseteq 1..(Len(sendFiles) + 1)
      BY <1>3, FilesCounted DEF Send!InventoriesAfter
    <2>2. inventory.complete => inventory.seen = 1..(Len(sendFiles) + 1)
      BY DEF Send!InventoriesAfter
    <2>3. inventory \in [seen : SUBSET Nat, complete : {TRUE, FALSE}]
      <3>1. PICK n \in Nat : n = Len(sendFiles) + 1
        BY FilesCounted
      <3>2. PICK names : names = sendRaw.seen \cup {n}
        OBVIOUS
      <3>3. names \in SUBSET (1..n)
        BY <1>3, <3>1, <3>2, FilesCounted
      <3>4. \/ inventory = [seen |-> 1..n, complete |-> TRUE]
            \/ inventory = [seen |-> names, complete |-> FALSE]
        BY <3>1, <3>2 DEF Send!InventoriesAfter
      <3> QED
        BY <3>3, <3>4, SnapshotsOf
    <2> QED
      BY <2>1, <2>2, <2>3, NobodyIsApart DEF Sees
  <1>6. Sending(sendSend') /\ sendSend'.step = "record" /\ UNCHANGED <<sendSend.edited, sendSend.want,
        sendSend.made>>
    BY <1>1, <1>4 DEF Sending
  <1>7. SendTyped' /\ SendSees' /\ SendIsGrounded' /\ UploadIsNew' /\ RawSees'
    BY <1>2, <1>4, <1>5, <1>6 DEF SendTyped, SendSees, SendIsGrounded, UploadIsNew, RawSees, Sees
  <1>8. ReadIsCompared'
    BY <1>1, <1>6 DEF SendInv, ReadIsCompared
  <1>9. RunningSees' /\ IndexIsTrue' /\ CurrentTyped' /\ JobTyped' /\ CatalogTyped'
    BY <1>1, <1>3, <1>4, <1>5 DEF SendInv, RunningSees, IndexIsTrue, CurrentTyped, JobTyped,
          CatalogTyped, Sees
  <1>10. BatchSees'
    <2>1. CASE sendBatch = Nobody
      BY <1>4, <2>1 DEF BatchSees
    <2>2. CASE sendBatch # Nobody
      <3>1. sendBatch' = [completed |-> sendBatch.completed + 1, latest |-> inventory]
        BY <1>4, <2>2
      <3>2. sendBatch.completed \in Nat /\ sendJob # Nobody
        BY <2>2 DEF SendInv, BatchSees
      <3>3. /\ DOMAIN sendBatch' = {"completed", "latest"} /\ sendBatch'.completed \in Nat
            /\ sendBatch'.latest = inventory
        BY <3>1, <3>2
      <3> QED
        BY <1>1, <1>2, <1>5, <3>2, <3>3 DEF BatchSees, Sees
    <2> QED
      BY <2>1, <2>2
  <1>11. GreenIsTrue' /\ SilentShowsNothing'
    <2>1. \A b \in SendBooks : sendStatus'[b] = "confirmed" => sendLive /\ sendStatus[b] = "confirmed"
      BY <1>1 DEF Send!Uploaded, Send!Unknown
    <2>2. \A b \in SendBooks : Send!Present(b) => Send!Present(b)'
      BY <1>1, <1>2, FilesCounted DEF Send!Present, FilesTyped
    <2> QED
      BY <1>1, <2>1, <2>2 DEF SendInv, GreenIsTrue, Send!GreenIsTrue, SilentShowsNothing
  <1> QED
    BY <1>2, <1>7, <1>8, <1>9, <1>10, <1>11 DEF SendInv

LEMMA UploadFailsKeeps ==
  ASSUME SendInv, Send!UploadFails
  PROVE  SendInv'
  BY EndSendKeeps DEF Send!UploadFails, Send!Unprepared, Send!device

LEMMA RecordDeliveryKeeps ==
  ASSUME SendInv, Send!RecordDelivery
  PROVE  SendInv'
  <1>1. /\ sendSend # Nobody /\ sendSend.step = "record" /\ sendRunning = Nobody
        /\ sendWire' \in {sendWire, sendWire \cup {"delivery"}}
        /\ UNCHANGED <<sendCatalog, sendFiles, sendBatch, sendLive, sendOwed>>
    BY DEF Send!RecordDelivery, Send!device
  <1>2. CASE Send!Unlink /\ sendSend' = Nobody /\ sendJob' = Send!NextBook(TRUE)
    <2>1. /\ ~sendLinked' /\ sendRaw' = Nobody /\ ~sendCurrent' /\ sendRunning' = Nobody
          /\ sendStatus' = Send!Unknown
      BY <1>2 DEF Send!Unlink
    <2>2. JobTyped' /\ (sendJob # Nobody => sendJob' # Nobody)
      BY <1>2, JobGoesOn
    <2>3. CatalogTyped' /\ FilesTyped' /\ CurrentTyped' /\ SendTyped' /\ RawSees' /\ RunningSees'
      BY <1>1, <1>2, <2>1 DEF SendInv, CatalogTyped, FilesTyped, CurrentTyped, SendTyped, RawSees,
            RunningSees
    <2>4. BatchSees' /\ SendSees' /\ SendIsGrounded' /\ ReadIsCompared' /\ UploadIsNew' /\ IndexIsTrue'
      BY <1>1, <1>2, <2>1, <2>2 DEF SendInv, BatchSees, SendSees, SendIsGrounded, ReadIsCompared,
            UploadIsNew,
         IndexIsTrue
    <2>5. SilentShowsNothing' /\ SentCopiesAreRight' /\ GreenIsTrue'
      BY <1>1, <2>1 DEF SendInv, SilentShowsNothing, SentCopiesAreRight, Send!CopyIsItsVersion,
         Send!NoDuplicateCopies, GreenIsTrue, Send!GreenIsTrue, Send!Unknown
    <2> QED
      BY <2>2, <2>3, <2>4, <2>5 DEF SendInv
  <1>3. CASE /\ sendLinked /\ Send!Begin("send", sendRaw)
             /\ UNCHANGED <<sendSend, sendJob, sendLinked, sendRaw, sendCompared, sendStatus>>
    <2>1. Sees(sendRaw, Len(sendFiles))
      BY <1>1, <1>3 DEF SendInv, SendSees, RawSees
    <2>2. RunningSees' /\ CurrentTyped' /\ SendIsGrounded' /\ IndexIsTrue'
      BY <1>1, <1>3, <2>1, BeginKeeps
    <2>3. CatalogTyped' /\ FilesTyped' /\ JobTyped' /\ SendTyped' /\ RawSees' /\ BatchSees' /\ SendSees'
      BY <1>1, <1>3 DEF SendInv, CatalogTyped, FilesTyped, JobTyped, SendTyped, RawSees, BatchSees,
            SendSees
    <2>4. ReadIsCompared' /\ UploadIsNew' /\ SilentShowsNothing' /\ SentCopiesAreRight' /\ GreenIsTrue'
      BY <1>1, <1>3 DEF SendInv, ReadIsCompared, UploadIsNew, SilentShowsNothing, SentCopiesAreRight,
         Send!CopyIsItsVersion, Send!NoDuplicateCopies, GreenIsTrue, Send!GreenIsTrue, Send!Present
    <2> QED
      BY <2>2, <2>3, <2>4 DEF SendInv
  <1>4. CASE Send!EndSend(TRUE) /\ UNCHANGED <<sendLinked, sendRaw, sendCompared, sendStatus>>
    BY <1>1, <1>4, EndSendKeeps
  <1> QED
    BY <1>2, <1>3, <1>4 DEF Send!RecordDelivery

LEMMA StartBatchKeeps ==
  ASSUME SendInv, NEW order \in SendOrders, Send!StartBatch(order)
  PROVE  SendInv'
  <1>1. /\ CatalogTyped' /\ FilesTyped' /\ CurrentTyped' /\ SendTyped' /\ RawSees'
        /\ RunningSees' /\ SendSees' /\ ReadIsCompared' /\ UploadIsNew' /\ IndexIsTrue'
        /\ SilentShowsNothing' /\ SentCopiesAreRight' /\ GreenIsTrue'
    BY DEF SendInv, Send!StartBatch, Send!device, Send!comparison, CatalogTyped, FilesTyped,
       CurrentTyped, SendTyped, RawSees, RunningSees, SendSees, ReadIsCompared, UploadIsNew,
       IndexIsTrue, SilentShowsNothing, SentCopiesAreRight, GreenIsTrue, Send!CopyIsItsVersion,
       Send!NoDuplicateCopies, Send!GreenIsTrue, Send!Present
  <1>2. JobTyped' /\ BatchSees'
    <2>1. sendJob' = [left |-> order, step |-> "check"] /\ order \in Seq(SendBooks) \ {<<>>}
      BY OrdersAreOfBooks DEF Send!StartBatch
    <2>2. sendJob' \in [left : Seq(SendBooks) \ {<<>>}, step : {"check", "sending", "finish",
          "finishing"}]
      BY <2>1
    <2>3. sendJob' # Nobody
      BY <2>2, NobodyIsApart
    <2> QED
      BY <2>2, <2>3 DEF SendInv, JobTyped, BatchSees, Send!StartBatch, Send!device
  <1>3. SendIsGrounded'
    BY DEF SendInv, Send!StartBatch, Send!NewJob, Send!device, Send!comparison, SendIsGrounded
  <1> QED
    BY <1>1, <1>2, <1>3 DEF SendInv

LEMMA SendNextKeeps ==
  ASSUME SendInv, Send!SendNext
  PROVE  SendInv'
  <1>1. /\ CatalogTyped' /\ FilesTyped' /\ CurrentTyped' /\ RawSees' /\ RunningSees'
        /\ IndexIsTrue' /\ SilentShowsNothing' /\ SentCopiesAreRight' /\ GreenIsTrue'
    BY DEF SendInv, Send!SendNext, Send!bounds, Send!device, Send!comparison, CatalogTyped,
       FilesTyped, CurrentTyped, RawSees, RunningSees, IndexIsTrue, SilentShowsNothing,
       SentCopiesAreRight, GreenIsTrue, Send!CopyIsItsVersion, Send!NoDuplicateCopies,
       Send!GreenIsTrue, Send!Present
  <1>2. PICK step \in {"check", "sending", "finish", "finishing"} :
          /\ sendJob # Nobody /\ sendJob.step = "check" /\ sendJob' = [sendJob EXCEPT !.step = step]
          /\ \/ UNCHANGED sendSend
             \/ step = "sending" /\ Send!MaySend(Head(sendJob.left))
                   /\ sendSend' = Send!StartOf(Head(sendJob.left))
    BY DEF Send!SendNext
  <1>3. JobTyped' /\ sendJob' # Nobody
    <2>1. sendJob \in [left : Seq(SendBooks) \ {<<>>}, step : {"check", "sending", "finish",
          "finishing"}]
      BY DEF SendInv, JobTyped, Send!SendNext
    <2>2. sendJob' \in [left : Seq(SendBooks) \ {<<>>}, step : {"check", "sending", "finish",
          "finishing"}]
      BY <1>2, <2>1
    <2> QED
      BY <2>2, NobodyIsApart DEF JobTyped
  <1>4. Head(sendJob.left) \in SendBooks
    <2>1. sendJob.left \in Seq(SendBooks) \ {<<>>}
      BY DEF SendInv, JobTyped, Send!SendNext
    <2> QED
      BY <2>1
  <1>5. SendTyped' /\ SendSees' /\ ReadIsCompared' /\ UploadIsNew' /\ SendIsGrounded'
    <2>1. UNCHANGED <<sendCatalog, sendFiles, sendLinked, sendRaw, sendRunning>>
      BY DEF Send!SendNext, Send!device, Send!comparison
    <2>2. CASE UNCHANGED sendSend
      BY <1>2, <2>1, <2>2 DEF SendInv, SendTyped, SendSees, ReadIsCompared, UploadIsNew, SendIsGrounded
    <2>3. CASE \E b \in SendBooks : Send!MaySend(b) /\ sendSend' = Send!StartOf(b) /\ step = "sending"
      <3>1. PICK b \in SendBooks : Send!MaySend(b) /\ sendSend' = Send!StartOf(b) /\ step = "sending"
        BY <2>3
      <3>2. /\ sendCompared[b] \in {0, 1} /\ sendLinked /\ sendRaw # Nobody /\ sendRaw.complete
            /\ sendState = "ready"
        BY <3>1 DEF SendInv, CurrentTyped, Send!MaySend
      <3>3. Sending(sendSend') /\ sendSend'.step = "book" /\ sendSend'.made = 0
        BY <3>1, <3>2 DEF Send!StartOf, Sending
      <3>4. sendRunning = Nobody
        BY <3>2 DEF SendInv, RunningSees
      <3> QED
        BY <1>2, <1>3, <2>1, <3>1, <3>2, <3>3, <3>4 DEF SendTyped, SendSees, ReadIsCompared,
              UploadIsNew, SendIsGrounded
    <2> QED
      BY <1>2, <1>4, <2>2, <2>3
  <1>6. BatchSees'
    <2>1. UNCHANGED <<sendFiles, sendLinked>>
      BY DEF Send!SendNext, Send!device
    <2>2. CASE UNCHANGED sendBatch
      BY <1>3, <2>1, <2>2 DEF SendInv, BatchSees
    <2>3. CASE sendBatch' = [completed |-> 0, latest |-> Nobody]
      BY <1>3, <2>3 DEF BatchSees
    <2> QED
      BY <2>2, <2>3 DEF Send!SendNext
  <1> QED
    BY <1>1, <1>2, <1>3, <1>4, <1>5, <1>6 DEF SendInv

LEMMA FinishBatchKeeps ==
  ASSUME SendInv, Send!FinishBatch
  PROVE  SendInv'
  <1>1. /\ sendJob # Nobody
        /\ UNCHANGED <<sendCatalog, sendFiles, sendLinked, sendRaw, sendCompared, sendSend, sendStatus,
                       sendLive, sendWire, sendOwed>>
    BY DEF Send!FinishBatch, Send!device
  <1>2. CatalogTyped' /\ FilesTyped' /\ SendTyped' /\ RawSees' /\ SendSees' /\ ReadIsCompared'
        /\ UploadIsNew'
    BY <1>1 DEF SendInv, CatalogTyped, FilesTyped, SendTyped, RawSees, SendSees, ReadIsCompared,
          UploadIsNew
  <1>3. SilentShowsNothing' /\ SentCopiesAreRight' /\ GreenIsTrue'
    BY <1>1 DEF SendInv, SilentShowsNothing, SentCopiesAreRight, Send!CopyIsItsVersion,
       Send!NoDuplicateCopies, GreenIsTrue, Send!GreenIsTrue, Send!Present
  <1>4. CASE /\ sendBatch # Nobody /\ sendBatch.completed > 0 /\ sendLinked
             /\ Send!Begin("batch", sendBatch.latest) /\ UNCHANGED sendBatch
             /\ sendJob' = [sendJob EXCEPT !.step = "finishing"]
    <2>1. PICK latest : latest = sendBatch.latest
      OBVIOUS
    <2>2. Sees(latest, Len(sendFiles)) /\ Send!Begin("batch", latest)
      BY <1>4, <2>1 DEF SendInv, BatchSees
    <2>3. sendJob \in [left : Seq(SendBooks) \ {<<>>}, step : {"check", "sending", "finish",
          "finishing"}]
      BY <1>1 DEF SendInv, JobTyped
    <2>4. sendJob' \in [left : Seq(SendBooks) \ {<<>>}, step : {"check", "sending", "finish",
          "finishing"}]
      BY <1>4, <2>3
    <2>5. JobTyped' /\ sendJob' # Nobody
      BY <2>4, NobodyIsApart DEF JobTyped
    <2>6. BatchSees'
      BY <1>1, <1>4, <2>5 DEF SendInv, BatchSees
    <2>7. sendSend # Nobody => sendSend.step = "record"
      BY <1>4 DEF SendInv, SendIsGrounded, Send!FinishBatch
    <2>8. RunningSees' /\ CurrentTyped' /\ SendIsGrounded' /\ IndexIsTrue'
      BY <1>1, <1>4, <2>2, <2>7, BeginKeeps
    <2> QED
      BY <1>2, <1>3, <2>5, <2>6, <2>8 DEF SendInv
  <1>5. CASE sendJob' = Nobody /\ sendBatch' = Nobody /\ UNCHANGED <<sendRunning, sendState,
        sendCurrent>>
    BY <1>1, <1>2, <1>3, <1>5 DEF SendInv, JobTyped, BatchSees, RunningSees, CurrentTyped,
          SendIsGrounded,
       IndexIsTrue
  <1> QED
    BY <1>4, <1>5 DEF Send!FinishBatch

LEMMA HearKeeps ==
  ASSUME SendInv, NEW event \in {"edit", "delivery"}, Send!Hear(event)
  PROVE  SendInv'
  <1>1. /\ CatalogTyped' /\ FilesTyped' /\ CurrentTyped' /\ JobTyped' /\ SendTyped'
        /\ RawSees' /\ BatchSees' /\ SendSees' /\ ReadIsCompared' /\ UploadIsNew'
        /\ SentCopiesAreRight'
    BY DEF SendInv, Send!Hear, Send!device, Send!bounds, CatalogTyped, FilesTyped, CurrentTyped,
       JobTyped, SendTyped, RawSees, BatchSees, SendSees, ReadIsCompared, UploadIsNew,
       SentCopiesAreRight, Send!CopyIsItsVersion, Send!NoDuplicateCopies
  <1>2. RunningSees'
    BY DEF SendInv, Send!Hear, Send!Unknown, Send!device, Send!bounds, RunningSees, Comparison, Sees
  <1>3. SendIsGrounded'
    BY DEF SendInv, Send!Hear, Send!Unknown, Send!device, Send!bounds, SendIsGrounded
  <1>4. IndexIsTrue'
    <2>1. CASE UNCHANGED sendRunning /\ event = "delivery"
      BY <2>1 DEF SendInv, Send!Hear, IndexIsTrue
    <2>2. CASE sendRunning # Nobody /\ sendRunning' = [sendRunning EXCEPT !.heard = @ \/ event = "edit"]
      <3>1. PICK r : r = sendRunning
        OBVIOUS
      <3>2. /\ sendRunning' = [r EXCEPT !.heard = r.heard \/ event = "edit"]
            /\ DOMAIN r = {"by", "inventory", "step", "index", "heard"}
        BY <2>2, <3>1 DEF SendInv, RunningSees, Comparison
      <3>3. sendRunning'.step = r.step /\ sendRunning'.index = r.index
            /\ (~sendRunning'.heard => ~r.heard /\ event # "edit")
        BY <3>2
      <3> QED
        BY <2>2, <3>1, <3>3 DEF SendInv, Send!Hear, IndexIsTrue
    <2>3. CASE sendRunning' = Nobody
      BY <2>3 DEF IndexIsTrue
    <2> QED
      BY <2>1, <2>2, <2>3 DEF Send!Hear
  <1>5. SilentShowsNothing'
    BY DEF SendInv, Send!Hear, Send!Unknown, Send!device, Send!bounds, SilentShowsNothing
  <1>6. GreenIsTrue'
    BY DEF SendInv, Send!Hear, Send!Unknown, Send!device, Send!bounds, GreenIsTrue,
       Send!GreenIsTrue, Send!Present
  <1> QED
    BY <1>1, <1>2, <1>3, <1>4, <1>5, <1>6 DEF SendInv

LEMMA RefreshEndsKeeps ==
  ASSUME SendInv, Send!RefreshEnds
  PROVE  SendInv'
  <1>1. /\ CatalogTyped' /\ FilesTyped' /\ JobTyped' /\ SendTyped' /\ RawSees'
        /\ BatchSees' /\ SendSees' /\ ReadIsCompared' /\ UploadIsNew' /\ SilentShowsNothing'
        /\ SentCopiesAreRight' /\ GreenIsTrue'
    BY DEF SendInv, Send!RefreshEnds, Send!bounds, Send!device, CatalogTyped, FilesTyped, JobTyped,
       SendTyped, RawSees, BatchSees, SendSees, ReadIsCompared, UploadIsNew, SilentShowsNothing,
       SentCopiesAreRight, GreenIsTrue, Send!CopyIsItsVersion, Send!NoDuplicateCopies,
       Send!GreenIsTrue, Send!Present
  <1>2. RunningSees' /\ CurrentTyped' /\ SendIsGrounded' /\ IndexIsTrue'
    <2>1. UNCHANGED <<sendCatalog, sendFiles, sendLinked, sendRaw, sendCompared, sendSend, sendJob,
          sendLive,
                      sendWire>>
      BY DEF Send!RefreshEnds, Send!device
    <2>2. CASE UNCHANGED <<sendRunning, sendState, sendCurrent>>
      BY <2>1, <2>2 DEF SendInv, RunningSees, CurrentTyped, SendIsGrounded, IndexIsTrue
    <2>3. CASE sendLinked /\ sendRaw # Nobody /\ sendSend = Nobody /\ Send!Begin("event", sendRaw)
      <3>1. PICK raw : raw = sendRaw
        OBVIOUS
      <3>2. Sees(raw, Len(sendFiles)) /\ Send!Begin("event", raw)
        BY <2>3, <3>1 DEF SendInv, RawSees
      <3> QED
        BY <2>1, <2>3, <3>2, BeginKeeps
    <2> QED
      BY <2>2, <2>3 DEF Send!RefreshEnds, Send!QueueComparison
  <1> QED
    BY <1>1, <1>2 DEF SendInv

LEMMA StreamEndsKeeps ==
  ASSUME SendInv, Send!StreamEnds
  PROVE  SendInv'
  <1>1. /\ CatalogTyped' /\ FilesTyped' /\ CurrentTyped' /\ JobTyped' /\ SendTyped'
        /\ RawSees' /\ RunningSees' /\ BatchSees' /\ SendSees' /\ SendIsGrounded'
        /\ ReadIsCompared' /\ UploadIsNew' /\ SentCopiesAreRight'
    BY DEF SendInv, Send!StreamEnds, Send!device, Send!comparison, CatalogTyped, FilesTyped,
       CurrentTyped, JobTyped, SendTyped, RawSees, RunningSees, BatchSees, SendSees, SendIsGrounded,
       ReadIsCompared, UploadIsNew, SentCopiesAreRight, Send!CopyIsItsVersion,
       Send!NoDuplicateCopies
  <1>2. IndexIsTrue'
    BY DEF SendInv, Send!StreamEnds, Send!Fault, Send!Unknown, Send!device, Send!comparison,
       IndexIsTrue
  <1>3. SilentShowsNothing'
    BY DEF SendInv, Send!StreamEnds, Send!Fault, Send!Unknown, Send!device, Send!comparison,
       SilentShowsNothing
  <1>4. GreenIsTrue'
    BY DEF SendInv, Send!StreamEnds, Send!Fault, Send!Unknown, Send!device, Send!comparison,
       GreenIsTrue, Send!GreenIsTrue, Send!Present
  <1> QED
    BY <1>1, <1>2, <1>3, <1>4 DEF SendInv

LEMMA StreamOpensKeeps ==
  ASSUME SendInv, Send!StreamOpens
  PROVE  SendInv'
  <1>1. /\ CatalogTyped' /\ FilesTyped' /\ CurrentTyped' /\ JobTyped' /\ SendTyped'
        /\ RawSees' /\ RunningSees' /\ BatchSees' /\ SendSees' /\ SendIsGrounded'
        /\ ReadIsCompared' /\ UploadIsNew' /\ SentCopiesAreRight'
    BY DEF SendInv, Send!StreamOpens, Send!device, Send!comparison, Send!bounds, CatalogTyped,
       FilesTyped, CurrentTyped, JobTyped, SendTyped, RawSees, RunningSees, BatchSees, SendSees,
       SendIsGrounded, ReadIsCompared, UploadIsNew, SentCopiesAreRight, Send!CopyIsItsVersion,
       Send!NoDuplicateCopies
  <1>2. IndexIsTrue'
    BY DEF SendInv, Send!StreamOpens, Send!device, Send!comparison, Send!bounds, IndexIsTrue
  <1>3. SilentShowsNothing'
    BY DEF SendInv, Send!StreamOpens, Send!device, Send!comparison, Send!bounds, SilentShowsNothing
  <1>4. GreenIsTrue'
    BY DEF SendInv, Send!StreamOpens, Send!device, Send!comparison, Send!bounds, GreenIsTrue,
       Send!GreenIsTrue, Send!Present
  <1> QED
    BY <1>1, <1>2, <1>3, <1>4 DEF SendInv

LEMMA SendStart ==
  ASSUME Send!Init
  PROVE  SendInv
  <1>1. /\ sendCatalog = [b \in SendBooks |-> [look |-> 0, rev |-> 0]] /\ sendFiles = <<>>
        /\ ~sendCurrent /\ sendRaw = Nobody /\ sendRunning = Nobody /\ sendBatch = Nobody
        /\ sendSend = Nobody /\ sendJob = Nobody /\ sendStatus = [b \in SendBooks |-> "unknown"]
    BY DEF Send!Init, Send!Unknown
  <1>2. CatalogTyped /\ FilesTyped
    BY <1>1 DEF CatalogTyped, FilesTyped
  <1>3. CurrentTyped /\ JobTyped /\ SendTyped /\ RawSees /\ RunningSees /\ BatchSees /\ SendSees
    BY <1>1 DEF CurrentTyped, JobTyped, SendTyped, RawSees, RunningSees, BatchSees, SendSees
  <1>4. SendIsGrounded /\ ReadIsCompared /\ UploadIsNew /\ IndexIsTrue
    BY <1>1 DEF SendIsGrounded, ReadIsCompared, UploadIsNew, IndexIsTrue
  <1>5. SilentShowsNothing /\ GreenIsTrue
    BY <1>1 DEF SilentShowsNothing, GreenIsTrue, Send!GreenIsTrue
  <1>6. SentCopiesAreRight
    <2>1. DOMAIN sendFiles = {}
      BY <1>1
    <2> QED
      BY <2>1 DEF SentCopiesAreRight, Send!CopyIsItsVersion, Send!NoDuplicateCopies
  <1> QED
    BY <1>2, <1>3, <1>4, <1>5, <1>6 DEF SendInv

LEMMA SendStep ==
  ASSUME SendInv, Send!Next
  PROVE  SendInv'
  <1>1. CASE Send!Connect \/ Send!LinkLost \/ Send!AcknowledgePending
    BY <1>1, ConnectKeeps, LinkLostKeeps, AcknowledgePendingKeeps
  <1>2. CASE Send!FetchIndex \/ Send!InstallComparison \/ Send!ComparisonFails
    BY <1>2, FetchIndexKeeps, InstallComparisonKeeps, ComparisonFailsKeeps
  <1>3. CASE \E b \in SendBooks : Send!SendOne(b) \/ Send!Edit(b)
    BY <1>3, SendOneKeeps, EditKeeps
  <1>4. CASE Send!Abandon \/ Send!ReadBook \/ Send!ReadCover \/ Send!ReadSource \/ Send!Recheck
    BY <1>4, AbandonKeeps, ReadBookKeeps, ReadCoverKeeps, ReadSourceKeeps, RecheckKeeps
  <1>5. CASE Send!Uploaded \/ Send!UploadFails \/ Send!RecordDelivery
    BY <1>5, UploadedKeeps, UploadFailsKeeps, RecordDeliveryKeeps
  <1>6. CASE \E order \in SendOrders : Send!StartBatch(order)
    BY <1>6, StartBatchKeeps
  <1>7. CASE Send!SendNext \/ Send!FinishBatch
    BY <1>7, SendNextKeeps, FinishBatchKeeps
  <1>8. CASE \E event \in {"edit", "delivery"} : Send!Hear(event)
    BY <1>8, HearKeeps
  <1>9. CASE Send!RefreshEnds \/ Send!StreamEnds \/ Send!StreamOpens
    BY <1>9, RefreshEndsKeeps, StreamEndsKeeps, StreamOpensKeeps
  <1> QED
    BY <1>1, <1>2, <1>3, <1>4, <1>5, <1>6, <1>7, <1>8, <1>9 DEF Send!Next

LEMMA SendStutter ==
  ASSUME SendInv, UNCHANGED sendVars
  PROVE  SendInv'
  BY DEF sendVars, SendInv, CatalogTyped, FilesTyped, CurrentTyped, JobTyped, SendTyped, RawSees,
     RunningSees, BatchSees, SendSees, SendIsGrounded, ReadIsCompared, UploadIsNew, IndexIsTrue,
     SilentShowsNothing, SentCopiesAreRight, Send!CopyIsItsVersion, Send!NoDuplicateCopies,
     GreenIsTrue, Send!GreenIsTrue, Send!Present

-----------------------------------------------------------------------------
(***************************************************************************)
(* The requests of the catalog server and the end of its process.          *)
(***************************************************************************)

JobRecord ==
  [kind : Server!Kinds \cup {Nobody}, handler : Server!Busy \cup {"none", "done"},
   response : {"open", "ended", "finished", "destroyed"},
   slot : BOOLEAN, buffer : BOOLEAN, stream : BOOLEAN, guard : SUBSET {"slot", "buffer"}]

\* What is held is of a running handler or has a guard; a handler that runs has
\* its slot, and no guard of a slot before it is done.  One that waits has no
\* buffer yet, and a request that has not arrived has nothing.
JobRight(j) ==
  /\ j.slot => j.handler \in Server!Busy \/ "slot" \in j.guard
  /\ j.buffer => "buffer" \in j.guard
  /\ "slot" \in j.guard => j.handler = "done"
  /\ j.handler \in Server!Busy => j.slot
  /\ j.handler \in {"none", "looking", "waiting"} => ~j.buffer
  /\ j.kind = Nobody => j.handler = "none"

\* What the requests may become in one step, if nothing arrives,
Moves(jobs) ==
  /\ jobs \in [Requests -> JobRecord]
  /\ \A r \in Requests : JobRight(jobs[r]) /\ (jobs[r].slot => serverJob[r].slot)

\* before buffers are handed on.
Fits(jobs) == Moves(jobs) /\ \A r \in Requests : jobs[r].buffer => serverJob[r].buffer

Buffers(jobs) == {r \in Requests : jobs[r].buffer}

\* Nobody is in the queue twice, or without waiting.
Apart(ws) ==
  /\ ws \in Seq(Requests)
  /\ \A i, j \in 1..Len(ws) : ws[i] = ws[j] => i = j

Queue(jobs, ws) == Apart(ws) /\ \A i \in 1..Len(ws) : jobs[ws[i]].handler = "waiting"

\* There are no more buffers than allowed, and nobody waits for a free one.
BuffersRight ==
  /\ Cardinality(Buffers(serverJob)) <= MaxBuffered
  /\ serverWaiters # <<>> => Cardinality(Buffers(serverJob)) = MaxBuffered

ServerInv ==
  /\ serverJob \in [Requests -> JobRecord]
  /\ \A r \in Requests : JobRight(serverJob[r])
  /\ Queue(serverJob, serverWaiters) /\ BuffersRight
  /\ serverConn \in [Conns -> {"new", "up", "down"}]
  /\ serverSignalled \in BOOLEAN /\ serverClosed \in BOOLEAN
  /\ serverDrain \in {"no", "wait", "forced", "clean", "failed"}
  /\ serverClosed <=> serverDrain # "no"
  /\ serverStartup = "build" => ~serverClosed /\ serverScan = "idle"
  /\ serverClosed => serverScan # "running"
  /\ serverDrain = "clean" => /\ \A r \in Requests : ~serverJob[r].slot
                              /\ \A c \in Conns : serverConn[c] # "up"
  /\ serverDb = "closed" => serverDrain \in {"clean", "failed"}

LEMMA ServerStart ==
  ASSUME Server!Init
  PROVE  ServerInv
  <1>1. Server!NoJob \in JobRecord /\ JobRight(Server!NoJob) /\ Server!NoJob.buffer = FALSE
    BY DEF Server!NoJob, JobRecord, JobRight, Server!Busy
  <1>2. Buffers(serverJob) = {} /\ Cardinality({}) = 0
    BY <1>1, FS_EmptySet DEF Server!Init, Buffers
  <1>3. Queue(serverJob, serverWaiters) /\ BuffersRight
    <2>1. serverWaiters = <<>>
      BY DEF Server!Init
    <2>2. Len(<<>>) = 0 /\ <<>> \in Seq(Requests)
      OBVIOUS
    <2>3. Cardinality(Buffers(serverJob)) <= MaxBuffered
      BY <1>2, ServerBounds
    <2> QED
      BY <2>1, <2>2, <2>3 DEF Queue, Apart, BuffersRight
  <1> QED
    BY <1>1, <1>3 DEF Server!Init, ServerInv

LEMMA ServerStutter ==
  ASSUME ServerInv, UNCHANGED serverVars
  PROVE  ServerInv'
  <1>1. UNCHANGED Buffers(serverJob)
    BY DEF serverVars, Buffers
  <1>2. UNCHANGED <<Queue(serverJob, serverWaiters), BuffersRight>>
    BY <1>1 DEF serverVars, Queue, BuffersRight
  <1> QED
    BY <1>2 DEF ServerInv, serverVars, JobRight

LEMMA AnsweredIs ==
  ASSUME NEW j \in JobRecord
  PROVE  /\ Server!Answered(j) \in JobRecord
         /\ Server!Answered(j).handler = j.handler /\ Server!Answered(j).slot = j.slot
         /\ Server!Answered(j).buffer = j.buffer /\ Server!Answered(j).guard = j.guard
         /\ Server!Answered(j).kind = j.kind
  BY DEF JobRecord, Server!Answered

LEMMA HandlerEndsIs ==
  ASSUME NEW j \in JobRecord, j.buffer => "buffer" \in j.guard, j.kind # Nobody
  PROVE  /\ Server!HandlerEnds(j) \in JobRecord /\ JobRight(Server!HandlerEnds(j))
         /\ Server!HandlerEnds(j).slot => j.slot
         /\ Server!HandlerEnds(j).buffer = j.buffer
  <1> DEFINE k == Server!HandlerEnds(j)
  <1>1. CASE j.response \in {"finished", "destroyed"}
    <2>1. k = [j EXCEPT !.handler = "done", !.slot = FALSE]
      BY <1>1 DEF Server!HandlerEnds
    <2>2. /\ k \in JobRecord /\ k.handler = "done" /\ k.slot = FALSE
          /\ k.buffer = j.buffer /\ k.guard = j.guard /\ k.kind = j.kind
      BY <2>1 DEF JobRecord
    <2> QED
      BY <2>2 DEF JobRight, Server!Busy
  <1>2. CASE j.response \notin {"finished", "destroyed"}
    <2> DEFINE g == IF j.slot THEN j.guard \cup {"slot"} ELSE j.guard
    <2>1. k = [j EXCEPT !.handler = "done", !.guard = g]
      BY <1>2 DEF Server!HandlerEnds, JobRecord
    <2>2. g \in SUBSET {"slot", "buffer"}
      BY DEF JobRecord
    <2> HIDE DEF g
    <2>3. /\ k \in JobRecord /\ k.handler = "done" /\ k.slot = j.slot /\ k.buffer = j.buffer
          /\ k.guard = g /\ k.kind = j.kind
      BY <2>1, <2>2 DEF JobRecord
    <2> USE DEF g
    <2> QED
      BY <2>3 DEF JobRight, Server!Busy
  <1> QED
    BY <1>1, <1>2

LEMMA GoneIs ==
  ASSUME NEW j \in JobRecord, JobRight(j), NEW how \in {"finished", "destroyed"}
  PROVE  /\ Server!Gone(j, how) \in JobRecord /\ JobRight(Server!Gone(j, how))
         /\ Server!Gone(j, how).slot => j.slot
         /\ Server!Gone(j, how).buffer = FALSE /\ Server!Gone(j, how).kind = j.kind
  <1> DEFINE k == Server!Gone(j, how)
  <1>1. /\ k \in JobRecord /\ k.buffer = FALSE /\ k.guard = {} /\ k.kind = j.kind
        /\ k.handler = IF j.handler = "waiting" THEN "done" ELSE j.handler
        /\ k.slot <=> (j.slot /\ j.handler \notin {"waiting", "done"})
    BY DEF Server!Gone, JobRecord
  <1> QED
    BY <1>1 DEF JobRight, Server!Busy, JobRecord

LEMMA ExpiredIs ==
  ASSUME NEW j \in JobRecord, JobRight(j)
  PROVE  /\ Server!Expired(j) \in JobRecord /\ JobRight(Server!Expired(j))
         /\ Server!Expired(j).slot => j.slot
         /\ Server!Expired(j).buffer => j.buffer
  <1> DEFINE k == Server!Expired(j)
  <1>1. /\ k \in JobRecord /\ k.guard = {} /\ k.handler = j.handler /\ k.kind = j.kind
        /\ k.slot <=> (j.slot /\ "slot" \notin j.guard)
        /\ k.buffer <=> (j.buffer /\ "buffer" \notin j.guard)
    BY DEF Server!Expired, JobRecord
  <1> QED
    BY <1>1 DEF JobRight, Server!Busy, JobRecord

LEMMA ReservedIs ==
  ASSUME NEW j \in JobRecord, JobRight(j), j.handler = "waiting"
  PROVE  /\ Server!Reserved(j) \in JobRecord /\ JobRight(Server!Reserved(j))
         /\ Server!Reserved(j).slot => j.slot
         /\ Server!Reserved(j).buffer = TRUE
  <1> DEFINE k == Server!Reserved(j)
  <1>1. /\ k \in JobRecord /\ k.guard = {"buffer"} /\ k.handler = "reading" /\ k.slot = j.slot
        /\ k.buffer = TRUE /\ k.kind = j.kind
    BY DEF Server!Reserved, JobRecord, Server!Busy
  <1> QED
    BY <1>1 DEF JobRight, Server!Busy, JobRecord

LEMMA CutIs ==
  ASSUME NEW jobs, Fits(jobs), NEW cs
  PROVE  Fits(Server!Cut(jobs, cs))
  <1>1. \A r \in Requests : Server!Cut(jobs, cs)[r] \in {jobs[r], Server!Gone(jobs[r], "destroyed")}
    BY DEF Server!Cut
  <1>2. ASSUME NEW r \in Requests
        PROVE  /\ Server!Cut(jobs, cs)[r] \in JobRecord /\ JobRight(Server!Cut(jobs, cs)[r])
               /\ Server!Cut(jobs, cs)[r].slot => serverJob[r].slot
               /\ Server!Cut(jobs, cs)[r].buffer => serverJob[r].buffer
    <2>1. /\ jobs[r] \in JobRecord /\ JobRight(jobs[r])
          /\ jobs[r].slot => serverJob[r].slot
          /\ jobs[r].buffer => serverJob[r].buffer
      BY DEF Fits, Moves
    <2>2. /\ Server!Gone(jobs[r], "destroyed") \in JobRecord
          /\ JobRight(Server!Gone(jobs[r], "destroyed"))
          /\ Server!Gone(jobs[r], "destroyed").slot => jobs[r].slot
          /\ Server!Gone(jobs[r], "destroyed").buffer = FALSE
      BY <2>1, GoneIs
    <2> QED
      BY <1>1, <2>1, <2>2
  <1> QED
    BY <1>2 DEF Fits, Moves, Server!Cut

\* The places of a set of numbers are taken, from the least on.
LEMMA RanksAreTaken ==
  ASSUME NEW n \in Nat, NEW S \in SUBSET (1..n), NEW k \in 1..Cardinality(S)
  PROVE  \E i \in S : Cardinality({j \in S : j <= i}) = k
  <1> DEFINE m == Cardinality(S)
             Upto(i) == {j \in S : j <= i}
             rank == [i \in S |-> Cardinality(Upto(i))]
  <1>1. IsFiniteSet(S) /\ m \in Nat
    <2>1. IsFiniteSet(1..n)
      BY FS_Interval
    <2> QED
      BY <2>1, FS_Subset, FS_CardinalityType
  <1>2. ASSUME NEW i \in S
        PROVE  IsFiniteSet(Upto(i)) /\ Cardinality(Upto(i)) \in 1..m
    <2>1. Upto(i) \in SUBSET S /\ i \in Upto(i)
      OBVIOUS
    <2>2. IsFiniteSet(Upto(i)) /\ Cardinality(Upto(i)) <= m
      BY <1>1, <2>1, FS_Subset
    <2>3. Cardinality(Upto(i)) \in Nat /\ Cardinality(Upto(i)) # 0
      BY <2>1, <2>2, FS_CardinalityType, FS_EmptySet
    <2> QED
      BY <1>1, <2>2, <2>3
  <1>3. ASSUME NEW i \in S, NEW j \in S, i < j
        PROVE  Cardinality(Upto(i)) # Cardinality(Upto(j))
    <2>1. i \in Nat /\ j \in Nat /\ \A x \in S : x \in Nat
      OBVIOUS
    <2>2. ASSUME NEW x \in Upto(i)
          PROVE  x \in Upto(j)
      <3>1. x \in S /\ x <= i
        OBVIOUS
      <3>2. x <= j
        BY <1>3, <2>1, <3>1
      <3> QED
        BY <3>1, <3>2
    <2>3. j \in Upto(j) /\ j \notin Upto(i)
      BY <1>3, <2>1
    <2>4. Upto(i) \in SUBSET Upto(j) /\ j \in Upto(j) /\ j \notin Upto(i)
      <3> HIDE DEF Upto
      <3> QED
        BY <2>2, <2>3
    <2>5. Upto(i) # Upto(j)
      BY <2>4
    <2> HIDE DEF Upto
    <2> QED
      BY <1>2, <2>4, <2>5, FS_Subset
  <1> HIDE DEF Upto, m
  <1>4. rank \in Injection(S, 1..m)
    <2>1. rank \in [S -> 1..m]
      BY <1>2
    <2>2. ASSUME NEW i \in S, NEW j \in S, rank[i] = rank[j]
          PROVE  i = j
      <3>1. ~(i < j) /\ ~(j < i)
        BY <1>3, <2>2
      <3>2. i \in Nat /\ j \in Nat
        OBVIOUS
      <3> QED
        BY <3>1, <3>2
    <2> HIDE DEF rank
    <2> QED
      BY <2>1, <2>2 DEF Injection, IsInjective
  <1>5. IsFiniteSet(1..m) /\ Cardinality(1..m) = m
    BY <1>1, FS_Interval
  <1>6. rank \in Surjection(S, 1..m)
    BY <1>4, <1>5, FS_Injection DEF m
  <1> QED
    BY <1>6 DEF Surjection, Upto, m

LEMMA WaitingIs ==
  ASSUME NEW jobs, NEW ws, Apart(ws)
  PROVE  Queue(jobs, Server!Waiting(jobs, ws))
  <1> DEFINE S == {i \in DOMAIN ws : jobs[ws[i]].handler = "waiting"}
             Rank(i) == Cardinality({j \in S : j <= i})
             at == [k \in 1..Cardinality(S) |-> CHOOSE i \in S : Rank(i) = k]
             left == Server!Waiting(jobs, ws)
  <1>1. Len(ws) \in Nat /\ S \in SUBSET (1..Len(ws))
    BY DEF Apart
  <1>2. Cardinality(S) \in Nat
    <2> HIDE DEF S
    <2>1. IsFiniteSet(1..Len(ws))
      BY <1>1, FS_Interval
    <2>2. IsFiniteSet(S)
      BY <1>1, <2>1, FS_Subset
    <2> QED
      BY <2>2, FS_CardinalityType
  <1>3. left = [k \in 1..Cardinality(S) |-> ws[CHOOSE i \in S : Rank(i) = k]]
    BY DEF Server!Waiting, Server!Cardinality, Cardinality
  <1>4. left = [k \in 1..Cardinality(S) |-> ws[at[k]]]
    BY <1>3
  <1>5. ASSUME NEW k \in 1..Cardinality(S)
        PROVE  at[k] \in S /\ Rank(at[k]) = k
    <2>1. \E i \in S : Rank(i) = k
      BY <1>1, RanksAreTaken
    <2> HIDE DEF S, Rank
    <2> QED
      BY <2>1
  <1> HIDE DEF Rank, at, left
  <1>6. \A k \in 1..Cardinality(S) :
          /\ at[k] \in 1..Len(ws) /\ jobs[ws[at[k]]].handler = "waiting"
          /\ ws[at[k]] \in Requests
    BY <1>1, <1>5 DEF Apart
  <1> HIDE DEF S
  <1>7. left \in Seq(Requests) /\ Len(left) = Cardinality(S)
    BY <1>2, <1>4, <1>6
  <1>8. ASSUME NEW i \in 1..Len(left), NEW j \in 1..Len(left), left[i] = left[j]
        PROVE  i = j
    <2>1. at[i] = at[j]
      BY <1>4, <1>6, <1>7, <1>8 DEF Apart
    <2> QED
      BY <1>5, <1>7, <2>1
  <1>9. \A i \in 1..Len(left) : jobs[left[i]].handler = "waiting"
    BY <1>4, <1>6, <1>7
  <1>10. Apart(left)
    BY <1>7, <1>8 DEF Apart
  <1> QED
    BY <1>9, <1>10 DEF Queue, left

\* The first of the queue get the buffers that are free, and no other.
LEMMA BecomesIs ==
  ASSUME ServerInv, NEW jobs, Fits(jobs), NEW ws, Apart(ws), Server!Becomes(jobs, ws)
  PROVE  Moves(serverJob') /\ Queue(serverJob, serverWaiters)' /\ BuffersRight'
  <1> DEFINE left == Server!Waiting(jobs, ws)
             had == Buffers(jobs)
             free == MaxBuffered - Cardinality(had)
             n == IF Len(left) <= free THEN Len(left) ELSE free
             given == {left[i] : i \in 1..n}
  <1>1. Queue(jobs, left) /\ Len(left) \in Nat
    BY WaitingIs DEF Queue, Apart
  <1>2. /\ IsFiniteSet(had) /\ Cardinality(had) \in Nat /\ free \in Nat
        /\ IsFiniteSet(Buffers(serverJob))
    <2>1. IsFiniteSet(Buffers(serverJob)) /\ Buffers(serverJob) \in SUBSET Requests
      BY ServerBounds, FS_Subset DEF Buffers
    <2>2. had \in SUBSET Buffers(serverJob)
      BY DEF Fits, Buffers
    <2>3. IsFiniteSet(had) /\ Cardinality(had) <= Cardinality(Buffers(serverJob))
      BY <2>1, <2>2, FS_Subset
    <2>4. Cardinality(had) \in Nat /\ Cardinality(Buffers(serverJob)) \in Nat
      BY <2>1, <2>3, FS_CardinalityType
    <2> QED
      BY <2>1, <2>3, <2>4, ServerBounds DEF ServerInv, BuffersRight
  <1>3. n \in Nat /\ n <= Len(left) /\ n <= free /\ (n # Len(left) => n = free)
    BY <1>1, <1>2
  <1>4. Cardinality(Server!Granted(jobs, left)) = n
    <2>1. Server!Granted(jobs, left) = {i \in DOMAIN left : i <= free}
      BY DEF Server!Granted, Server!Cardinality, Cardinality, Buffers
    <2>2. {i \in DOMAIN left : i <= free} = 1..n
      BY <1>1, <1>2 DEF Queue, Apart
    <2> HIDE DEF n
    <2>3. Cardinality(1..n) = n
      BY <1>3, FS_Interval
    <2> QED
      BY <2>1, <2>2, <2>3
  <1>5. /\ serverJob' = [r \in Requests |->
                           IF jobs[r].handler = "waiting" /\ \E i \in 1..n : left[i] = r
                             THEN Server!Reserved(jobs[r]) ELSE jobs[r]]
        /\ serverWaiters' = SubSeq(left, n + 1, Len(left))
    <2>1. Server!Cardinality(Server!Granted(jobs, left)) = n
      BY <1>4 DEF Server!Cardinality, Cardinality
    <2> HIDE DEF n
    <2> QED
      BY <2>1 DEF Server!Becomes
  <1> HIDE DEF left, free, n
  <1>6. ASSUME NEW r \in Requests
        PROVE  \/ r \in given /\ jobs[r].handler = "waiting" /\ serverJob'[r] = Server!Reserved(jobs[r])
               \/ r \notin given /\ serverJob'[r] = jobs[r]
    BY <1>1, <1>3, <1>5 DEF Queue, Apart
  <1>7. ASSUME NEW r \in Requests
        PROVE  /\ serverJob'[r] \in JobRecord /\ JobRight(serverJob'[r])
               /\ serverJob'[r].slot => serverJob[r].slot
               /\ serverJob'[r].buffer <=> jobs[r].buffer \/ r \in given
    <2>1. /\ jobs[r] \in JobRecord /\ JobRight(jobs[r])
          /\ jobs[r].slot => serverJob[r].slot
      BY DEF Fits, Moves
    <2> HIDE DEF given
    <2>2. CASE r \in given
      <3> DEFINE k == Server!Reserved(jobs[r])
      <3>1. serverJob'[r] = k /\ jobs[r].handler = "waiting"
        BY <1>6, <2>2
      <3>2. k \in JobRecord /\ JobRight(k) /\ (k.slot => jobs[r].slot) /\ k.buffer = TRUE
        BY <2>1, <3>1, ReservedIs
      <3> HIDE DEF k
      <3> QED
        BY <2>1, <2>2, <3>1, <3>2
    <2>3. CASE r \notin given
      BY <1>6, <2>1, <2>3
    <2> QED
      BY <2>2, <2>3
  <1>8. Moves(serverJob')
    <2>1. serverJob' \in [Requests -> {serverJob'[r] : r \in Requests}]
      BY <1>5
    <2> HIDE DEF given
    <2> QED
      BY <1>7, <2>1 DEF Moves
  <1>9. IsFiniteSet(given) /\ Cardinality(given) = n
    <2> DEFINE f == [i \in 1..n |-> left[i]]
    <2>0. \A i \in 1..n : i \in 1..Len(left)
      BY <1>1, <1>3
    <2>1. f \in Bijection(1..n, given)
      <3>1. f \in [1..n -> given] /\ \A x \in given : \E i \in 1..n : f[i] = x
        OBVIOUS
      <3>2. \A i, j \in 1..n : f[i] = f[j] => i = j
        BY <1>1, <2>0 DEF Queue, Apart
      <3> HIDE DEF f, given
      <3> QED
        BY <3>1, <3>2 DEF Bijection, Injection, Surjection, IsInjective
    <2>2. ExistsBijection(1..n, given)
      BY <2>1 DEF ExistsBijection
    <2> HIDE DEF given
    <2> QED
      BY <1>3, <2>2, FS_CountingElements, FS_NatBijection
  <1>10. Cardinality(Buffers(serverJob)') = Cardinality(had) + n
    <2>1. Buffers(serverJob)' = had \cup given
      BY <1>1, <1>3, <1>7 DEF Buffers, Queue, Apart
    <2>2. had \cap given = {}
      BY <1>1, <1>3 DEF Buffers, Queue, Apart, Fits, Moves, JobRight
    <2> HIDE DEF given, had
    <2>3. Cardinality(had \cup given) = Cardinality(had) + Cardinality(given) - Cardinality(had \cap given)
      BY <1>2, <1>9, FS_Union
    <2>4. Cardinality(had \cap given) = 0
      BY <2>2, FS_EmptySet
    <2>5. Cardinality(had \cup given) = Cardinality(had) + n
      BY <1>2, <1>3, <1>9, <2>3, <2>4
    <2> QED
      BY <2>1, <2>5
  <1>11. /\ serverWaiters' \in Seq(Requests) /\ Len(serverWaiters') = Len(left) - n
         /\ \A i \in 1..Len(serverWaiters') :
              i + n \in 1..Len(left) /\ serverWaiters'[i] = left[i + n] /\ left[i + n] \in Requests
    BY <1>1, <1>3, <1>5 DEF Queue, Apart
  <1>12. BuffersRight'
    <2>1. serverWaiters' # <<>> => n = free
      BY <1>1, <1>3, <1>11
    <2> HIDE DEF given, had
    <2> QED
      BY <1>2, <1>3, <1>10, <2>1, ServerBounds DEF BuffersRight, free
  <1>13. \A i, j \in 1..Len(serverWaiters') : serverWaiters'[i] = serverWaiters'[j] => i = j
    BY <1>1, <1>3, <1>11 DEF Queue, Apart
  <1>14. ASSUME NEW i \in 1..Len(serverWaiters')
         PROVE  serverJob'[serverWaiters'[i]].handler = "waiting"
    <2>1. left[i + n] \notin given
      BY <1>1, <1>3, <1>11 DEF Queue, Apart
    <2> HIDE DEF given
    <2> QED
      BY <1>1, <1>6, <1>11, <2>1 DEF Queue
  <1> QED
    BY <1>8, <1>11, <1>12, <1>13, <1>14 DEF Queue, Apart

\* What is known of request r becomes j.
LEMMA FitsOne ==
  ASSUME ServerInv, NEW r \in Requests, NEW j \in JobRecord, JobRight(j), j.slot => serverJob[r].slot,
         j.buffer => serverJob[r].buffer
  PROVE  Fits([serverJob EXCEPT ![r] = j])
  BY DEF ServerInv, Fits, Moves

LEMMA WaitersApart ==
  ASSUME ServerInv
  PROVE  Apart(serverWaiters)
  BY DEF ServerInv, Queue

\* A step that neither queues nor frees.
LEMMA QueueKept ==
  ASSUME ServerInv, UNCHANGED serverWaiters,
         \A r \in Requests : serverJob'[r].buffer <=> serverJob[r].buffer,
         \A r \in Requests : serverJob[r].handler = "waiting" => serverJob'[r].handler = "waiting"
  PROVE  Queue(serverJob, serverWaiters)' /\ BuffersRight'
  <1>1. Buffers(serverJob)' = Buffers(serverJob)
    BY DEF Buffers
  <1>2. BuffersRight'
    BY <1>1 DEF ServerInv, BuffersRight
  <1>3. Queue(serverJob, serverWaiters)'
    <2>1. Queue(serverJob, serverWaiters)
      BY DEF ServerInv
    <2>2. \A i \in 1..Len(serverWaiters) : serverWaiters[i] \in Requests
      BY <2>1 DEF Queue, Apart
    <2> QED
      BY <2>1, <2>2 DEF Queue, Apart
  <1> QED
    BY <1>2, <1>3

\* A step of the requests and their connections.
LEMMA ServerMoves ==
  ASSUME ServerInv, Moves(serverJob'), Queue(serverJob, serverWaiters)', BuffersRight',
         serverConn' \in [Conns -> {"new", "up", "down"}],
         \A c \in Conns : serverConn'[c] = "up" => serverConn[c] = "up",
         UNCHANGED Server!lifeVars
  PROVE  ServerInv'
  <1>1. \A r \in Requests : JobRight(serverJob'[r]) /\ (serverJob'[r].slot => serverJob[r].slot)
    BY DEF Moves
  <1> QED
    BY <1>1 DEF ServerInv, Moves, JobRight, Server!lifeVars

LEMMA EndsKeeps ==
  ASSUME ServerInv, NEW r \in Requests, NEW a \in JobRecord, a.buffer => "buffer" \in a.guard,
         a.slot => serverJob[r].slot, a.buffer => serverJob[r].buffer, a.kind # Nobody,
         Server!Ends(r, a)
  PROVE  ServerInv'
  <1> DEFINE jobs == [serverJob EXCEPT ![r] = Server!HandlerEnds(a)]
  <1>1. Fits(jobs)
    BY HandlerEndsIs, FitsOne
  <1>2. Server!Becomes(jobs, serverWaiters)
        /\ UNCHANGED <<serverConn, Server!lifeVars>>
    BY DEF Server!Ends, Server!lifeVars
  <1> HIDE DEF jobs
  <1>3. Moves(serverJob') /\ Queue(serverJob, serverWaiters)' /\ BuffersRight'
    BY <1>1, <1>2, BecomesIs, WaitersApart
  <1> QED
    BY <1>2, <1>3, ServerMoves DEF ServerInv

LEMMA DestroysKeeps ==
  ASSUME ServerInv, NEW r \in Requests, NEW jobs, Fits(jobs), Server!Destroys(jobs, r),
         UNCHANGED Server!lifeVars
  PROVE  ServerInv'
  <1> DEFINE gone == [jobs EXCEPT ![r].response = "destroyed"]
             c == IF Server!HasSocket(jobs, r) THEN {ConnOf[r]} ELSE {}
  <1>1. Fits(gone)
    BY DEF Fits, Moves, JobRecord, JobRight
  <1>2. /\ Server!Becomes(Server!Cut(gone, c), serverWaiters)
        /\ serverConn' = [d \in Conns |-> IF d \in c THEN "down" ELSE serverConn[d]]
    BY DEF Server!Destroys
  <1> HIDE DEF gone, c
  <1>3. Moves(serverJob') /\ Queue(serverJob, serverWaiters)' /\ BuffersRight'
    BY <1>1, <1>2, CutIs, BecomesIs, WaitersApart
  <1> QED
    BY <1>2, <1>3, ServerMoves DEF ServerInv

\* The steps of the handlers.
LEMMA HandlersKeep ==
  ASSUME ServerInv, NEW r \in Requests,
         \/ Server!Respond(r) \/ Server!AcquireBuffer(r) \/ Server!Read(r) \/ Server!CoverAborted(r)
         \/ Server!WaitTimeout(r) \/ Server!SourceRefused(r)
  PROVE  ServerInv'
  <1> DEFINE j == serverJob[r]
  <1>1. j \in JobRecord /\ JobRight(j) /\ j.kind # Nobody
    <2>1. j.handler # "none"
      BY DEF Server!Respond, Server!AcquireBuffer, Server!Read, Server!CoverAborted,
             Server!WaitTimeout, Server!SourceRefused
    <2> QED
      BY <2>1 DEF ServerInv, JobRight
  <1>2. /\ Server!Answered(j) \in JobRecord
        /\ Server!Answered(j).slot = j.slot /\ Server!Answered(j).buffer = j.buffer
        /\ Server!Answered(j).guard = j.guard /\ Server!Answered(j).kind # Nobody
    BY <1>1, AnsweredIs
  <1>3. CASE Server!Respond(r) \/ Server!WaitTimeout(r)
    <2>1. Server!Ends(r, Server!Answered(j))
      BY <1>3 DEF Server!Respond, Server!WaitTimeout
    <2> QED
      BY <1>1, <1>2, <2>1, EndsKeeps DEF JobRight
  <1>4. CASE Server!AcquireBuffer(r)
    <2>1. CASE j.response = "open"
      <3> DEFINE jobs == [serverJob EXCEPT ![r].handler = "waiting"]
                 w == [j EXCEPT !.handler = "waiting"]
      <3>1. w \in JobRecord /\ JobRight(w) /\ w.slot = j.slot /\ w.buffer = j.buffer
        BY <1>1, <1>4 DEF Server!AcquireBuffer, JobRecord, JobRight, Server!Busy
      <3>2. jobs = [serverJob EXCEPT ![r] = w]
        BY DEF ServerInv
      <3>3. Fits(jobs)
        BY <3>1, <3>2, FitsOne
      <3>4. Server!Becomes(jobs, Append(serverWaiters, r))
            /\ UNCHANGED <<serverConn, Server!lifeVars>>
        BY <1>4, <2>1 DEF Server!AcquireBuffer, Server!lifeVars
      <3>6. Apart(Append(serverWaiters, r))
        BY <1>4 DEF Server!AcquireBuffer, ServerInv, Queue, Apart
      <3> HIDE DEF jobs
      <3>5. Moves(serverJob') /\ Queue(serverJob, serverWaiters)' /\ BuffersRight'
        BY <3>3, <3>4, <3>6, BecomesIs
      <3> QED
        BY <3>4, <3>5, ServerMoves DEF ServerInv
    <2>2. CASE j.response # "open"
      BY <1>1, <1>4, <2>2, EndsKeeps DEF Server!AcquireBuffer, JobRight
    <2> QED
      BY <2>1, <2>2
  <1>5. CASE Server!Read(r) \/ Server!CoverAborted(r)
    <2> DEFINE f == Server!BufferFreed(j)
               d == [f EXCEPT !.response = "destroyed"]
    <2>1. f \in JobRecord /\ f.slot = j.slot /\ f.buffer = FALSE /\ f.kind = j.kind
      BY <1>1 DEF Server!BufferFreed, JobRecord
    <2>2. d \in JobRecord /\ d.slot = j.slot /\ d.buffer = FALSE /\ d.kind = j.kind
      BY <2>1 DEF JobRecord
    <2>3. /\ Server!Answered(f) \in JobRecord
          /\ Server!Answered(f).slot = j.slot /\ Server!Answered(f).buffer = FALSE
          /\ Server!Answered(f).kind = j.kind
      BY <2>1, AnsweredIs
    <2>4. \/ Server!Ends(r, Server!Answered(j)) \/ Server!Ends(r, Server!Answered(f))
          \/ Server!Ends(r, d)
      BY <1>5 DEF Server!Read, Server!CoverAborted
    <2> HIDE DEF f, d
    <2> QED
      BY <1>1, <1>2, <2>2, <2>3, <2>4, EndsKeeps DEF JobRight
  <1>6. CASE Server!SourceRefused(r)
    <2> DEFINE f == [j EXCEPT !.stream = FALSE]
    <2>1. /\ f \in JobRecord /\ f.slot = j.slot /\ f.buffer = j.buffer /\ f.guard = j.guard
          /\ f.kind = j.kind
      BY <1>1 DEF JobRecord
    <2>2. /\ Server!Answered(f) \in JobRecord
          /\ Server!Answered(f).slot = j.slot /\ Server!Answered(f).buffer = j.buffer
          /\ Server!Answered(f).guard = j.guard /\ Server!Answered(f).kind = j.kind
      BY <2>1, AnsweredIs
    <2>3. Server!Ends(r, Server!Answered(f))
      BY <1>6 DEF Server!SourceRefused
    <2> HIDE DEF f
    <2> QED
      BY <1>1, <2>2, <2>3, EndsKeeps DEF JobRight
  <1> QED
    BY <1>3, <1>4, <1>5, <1>6

\* The steps of the books that are streamed.
LEMMA StreamsKeep ==
  ASSUME ServerInv, NEW r \in Requests,
         Server!StreamStarts(r) \/ Server!StreamDone(r) \/ Server!SourceAborted(r)
  PROVE  ServerInv'
  <1> DEFINE j == serverJob[r]
  <1>1. j \in JobRecord /\ JobRight(j) /\ j.kind # Nobody
    <2>1. j.handler # "none"
      BY DEF Server!StreamStarts, Server!StreamDone, Server!SourceAborted
    <2> QED
      BY <2>1 DEF ServerInv, JobRight
  <1>2. CASE Server!StreamStarts(r)
    <2> DEFINE w == [j EXCEPT !.handler = "streaming"]
    <2>1. w \in JobRecord /\ JobRight(w) /\ w.slot = j.slot /\ w.buffer = j.buffer
      BY <1>1, <1>2 DEF Server!StreamStarts, JobRecord, JobRight, Server!Busy
    <2>2. serverJob' = [serverJob EXCEPT ![r] = w]
      BY <1>2 DEF Server!StreamStarts, ServerInv
    <2>3. Moves(serverJob')
      BY <2>1, <2>2, FitsOne DEF Fits
    <2>4. Queue(serverJob, serverWaiters)' /\ BuffersRight'
      BY <1>2, <2>1, <2>2, QueueKept DEF Server!StreamStarts, ServerInv
    <2> QED
      BY <1>2, <2>3, <2>4, ServerMoves DEF Server!StreamStarts, Server!lifeVars, ServerInv
  <1>3. CASE Server!StreamDone(r)
    <2> DEFINE g == Server!Gone(j, "finished")
               f == [g EXCEPT !.stream = FALSE]
               jobs == [serverJob EXCEPT ![r] = Server!HandlerEnds(f)]
    <2>1. g \in JobRecord /\ (g.slot => j.slot) /\ g.buffer = FALSE /\ g.kind = j.kind
      BY <1>1, GoneIs
    <2> HIDE DEF g
    <2>2. f \in JobRecord /\ (f.slot => j.slot) /\ f.buffer = FALSE /\ f.kind = j.kind
      BY <2>1 DEF JobRecord
    <2> HIDE DEF f
    <2>3. Fits(jobs)
      BY <1>1, <2>2, HandlerEndsIs, FitsOne
    <2> USE DEF f, g
    <2>4. Server!Becomes(jobs, serverWaiters)
          /\ UNCHANGED <<serverConn, Server!lifeVars>>
      BY <1>3 DEF Server!StreamDone, Server!lifeVars
    <2> HIDE DEF jobs
    <2>5. Moves(serverJob') /\ Queue(serverJob, serverWaiters)' /\ BuffersRight'
      BY <2>3, <2>4, BecomesIs, WaitersApart
    <2> QED
      BY <2>4, <2>5, ServerMoves DEF ServerInv
  <1>4. CASE Server!SourceAborted(r)
    <2> DEFINE f == [j EXCEPT !.stream = FALSE, !.response = "destroyed"]
               jobs == [serverJob EXCEPT ![r] = Server!HandlerEnds(f)]
    <2>1. /\ f \in JobRecord /\ f.slot = j.slot /\ f.buffer = j.buffer /\ f.guard = j.guard
          /\ f.kind = j.kind
      BY <1>1 DEF JobRecord
    <2> HIDE DEF f
    <2>2. Fits(jobs)
      BY <1>1, <2>1, HandlerEndsIs, FitsOne DEF JobRight
    <2> USE DEF f
    <2>3. Server!Destroys(jobs, r)
          /\ UNCHANGED Server!lifeVars
      BY <1>4 DEF Server!SourceAborted, Server!lifeVars
    <2> HIDE DEF jobs
    <2> QED
      BY <2>2, <2>3, DestroysKeeps
  <1> QED
    BY <1>2, <1>3, <1>4

LEMMA FitsNow ==
  ASSUME ServerInv
  PROVE  Fits(serverJob)
  BY DEF ServerInv, Fits, Moves

\* The network and the timers.
LEMMA NetworkKeeps ==
  ASSUME ServerInv,
         \/ \E r \in Requests : Server!Finish(r) \/ Server!Expire(r) \/ Server!DropClient(r)
         \/ \E c \in Conns : Server!SocketLost(c)
  PROVE  ServerInv'
  <1>1. CASE \E r \in Requests : Server!Finish(r)
    <2> PICK r \in Requests : Server!Finish(r)
      BY <1>1
    <2> DEFINE done == [serverJob EXCEPT ![r] = Server!Gone(serverJob[r], "finished")]
               cut == {c \in {ConnOf[r]} :
                        \E q \in Requests : /\ ConnOf[q] = c /\ Server!HasSocket(done, q)
                                            /\ done[q].response = "destroyed"}
    <2>1. Fits(done)
      BY GoneIs, FitsOne DEF ServerInv
    <2>2. /\ Server!Becomes(Server!Cut(done, cut), serverWaiters)
          /\ serverConn' = [c \in Conns |-> IF c \in cut THEN "down" ELSE serverConn[c]]
          /\ UNCHANGED Server!lifeVars
      BY DEF Server!Finish, Server!lifeVars
    <2> HIDE DEF done, cut
    <2>3. Moves(serverJob') /\ Queue(serverJob, serverWaiters)' /\ BuffersRight'
      BY <2>1, <2>2, CutIs, BecomesIs, WaitersApart
    <2> QED
      BY <2>2, <2>3, ServerMoves DEF ServerInv
  <1>2. CASE \E r \in Requests : Server!Expire(r)
    <2> PICK r \in Requests : Server!Expire(r)
      BY <1>2
    <2> DEFINE c == {ConnOf[r]} \cap {d \in Conns : serverConn[d] = "up"}
               e == Server!Expired(serverJob[r])
               jobs == [Server!Cut(serverJob, c) EXCEPT ![r] = e]
    <2>1. Fits(Server!Cut(serverJob, c))
      BY FitsNow, CutIs
    <2>2. /\ e \in JobRecord /\ JobRight(e)
          /\ e.slot => serverJob[r].slot
          /\ e.buffer => serverJob[r].buffer
      BY ExpiredIs DEF ServerInv
    <2> HIDE DEF e
    <2>3. Fits(jobs)
      BY <2>1, <2>2 DEF Fits, Moves
    <2> USE DEF e
    <2>4. /\ Server!Becomes(jobs, serverWaiters)
          /\ serverConn' = [d \in Conns |-> IF d \in c THEN "down" ELSE serverConn[d]]
          /\ UNCHANGED Server!lifeVars
      BY DEF Server!Expire, Server!lifeVars
    <2> HIDE DEF jobs, c
    <2>5. Moves(serverJob') /\ Queue(serverJob, serverWaiters)' /\ BuffersRight'
      BY <2>3, <2>4, BecomesIs, WaitersApart
    <2> QED
      BY <2>4, <2>5, ServerMoves DEF ServerInv
  <1>3. CASE \E r \in Requests : Server!DropClient(r)
    BY <1>3, FitsNow, DestroysKeeps DEF Server!DropClient, Server!lifeVars
  <1>4. CASE \E c \in Conns : Server!SocketLost(c)
    <2> PICK c \in Conns : Server!SocketLost(c)
      BY <1>4
    <2>1. /\ Server!Becomes(Server!Cut(serverJob, {c}), serverWaiters)
          /\ serverConn' = [serverConn EXCEPT ![c] = "down"]
          /\ UNCHANGED Server!lifeVars
      BY DEF Server!SocketLost, Server!lifeVars
    <2>2. Moves(serverJob') /\ Queue(serverJob, serverWaiters)' /\ BuffersRight'
      BY <2>1, FitsNow, CutIs, BecomesIs, WaitersApart
    <2> QED
      BY <2>1, <2>2, ServerMoves DEF ServerInv
  <1> QED
    BY <1>1, <1>2, <1>3, <1>4

\* A request that arrives gets a slot only while the server is not closed.
LEMMA ArriveKeeps ==
  ASSUME ServerInv, NEW r \in Requests, NEW k \in Server!Kinds, Server!Arrive(r, k)
  PROVE  ServerInv'
  <1> DEFINE j == [Server!NoJob EXCEPT !.kind = k, !.slot = TRUE]
  <1>1. /\ j \in JobRecord /\ j.guard = {} /\ j.buffer = FALSE /\ j.slot = TRUE
        /\ j.kind # Nobody
        /\ Server!Refused(k) \in JobRecord /\ JobRight(Server!Refused(k))
        /\ Server!Refused(k).slot = FALSE /\ Server!Refused(k).buffer = FALSE
    BY ServerBounds DEF Server!NoJob, Server!Refused, JobRecord, JobRight, Server!Busy, Server!Kinds
  <1> DEFINE h == Server!HandlerEnds(Server!Answered(j))
  <1>2. h \in JobRecord /\ JobRight(h) /\ h.buffer = FALSE
    <2> DEFINE a == Server!Answered(j)
    <2>1. a \in JobRecord /\ a.buffer = FALSE /\ a.kind # Nobody
      BY <1>1, AnsweredIs
    <2> HIDE DEF a, j
    <2>2. Server!HandlerEnds(a) \in JobRecord /\ JobRight(Server!HandlerEnds(a))
          /\ Server!HandlerEnds(a).buffer = FALSE
      BY <2>1, HandlerEndsIs
    <2> QED
      BY <2>2 DEF a
  <1>3. /\ Server!Admitted(k) \in JobRecord /\ JobRight(Server!Admitted(k))
        /\ Server!Admitted(k).buffer = FALSE
    <2>1. Server!Admitted(k) \in {[j EXCEPT !.handler = "running"], [j EXCEPT !.handler = "looking"],
                                  [j EXCEPT !.handler = "verifying", !.stream = TRUE],
                                  [j EXCEPT !.handler = "done", !.slot = FALSE], h}
      BY DEF Server!Admitted, Server!Kinds
    <2> HIDE DEF j, h
    <2>2. ASSUME NEW x \in {"running", "looking"}
          PROVE  /\ [j EXCEPT !.handler = x] \in JobRecord /\ JobRight([j EXCEPT !.handler = x])
                 /\ [j EXCEPT !.handler = x].buffer = FALSE
      BY <1>1 DEF JobRecord, JobRight, Server!Busy
    <2>3. /\ [j EXCEPT !.handler = "verifying", !.stream = TRUE] \in JobRecord
          /\ JobRight([j EXCEPT !.handler = "verifying", !.stream = TRUE])
          /\ [j EXCEPT !.handler = "verifying", !.stream = TRUE].buffer = FALSE
      BY <1>1 DEF JobRecord, JobRight, Server!Busy
    <2>4. /\ [j EXCEPT !.handler = "done", !.slot = FALSE] \in JobRecord
          /\ JobRight([j EXCEPT !.handler = "done", !.slot = FALSE])
          /\ [j EXCEPT !.handler = "done", !.slot = FALSE].buffer = FALSE
      BY <1>1 DEF JobRecord, JobRight, Server!Busy
    <2> QED
      BY <1>2, <2>1, <2>2, <2>3, <2>4
  <1>4. /\ \/ ~serverClosed /\ serverJob' = [serverJob EXCEPT ![r] = Server!Admitted(k)]
           \/ serverJob' = [serverJob EXCEPT ![r] = Server!Refused(k)]
        /\ serverConn' = [serverConn EXCEPT ![ConnOf[r]] = "up"]
        /\ serverConn[ConnOf[r]] = "up" \/ ~serverClosed
        /\ UNCHANGED Server!lifeVars /\ UNCHANGED serverWaiters
        /\ serverJob[r].kind = Nobody
    BY DEF Server!Arrive, Server!lifeVars
  <1> HIDE DEF j, h
  <1>5. /\ serverJob' \in [Requests -> JobRecord]
        /\ \A q \in Requests : JobRight(serverJob'[q])
        /\ serverClosed => \A q \in Requests : serverJob'[q].slot => serverJob[q].slot
    BY <1>1, <1>3, <1>4 DEF ServerInv
  <1>6. /\ serverConn' \in [Conns -> {"new", "up", "down"}]
        /\ serverClosed => \A c \in Conns : serverConn'[c] = "up" => serverConn[c] = "up"
    BY <1>4 DEF ServerInv
  <1>7. serverJob[r].handler = "none" /\ serverJob[r].buffer = FALSE
    BY <1>4 DEF ServerInv, JobRight, JobRecord
  <1>8. Queue(serverJob, serverWaiters)' /\ BuffersRight'
    BY <1>1, <1>3, <1>4, <1>7, QueueKept DEF ServerInv
  <1> QED
    BY <1>4, <1>5, <1>6, <1>8 DEF ServerInv, JobRight, Server!lifeVars

\* The process starts, is signalled, and closes.
LEMMA ProcessKeeps ==
  ASSUME ServerInv,
         \/ Server!Signal \/ Server!Built \/ Server!Listens \/ Server!Indexed \/ Server!StartFails
         \/ Server!ScanStep \/ Server!Drained \/ Server!DrainFails \/ Server!CloseDatabase
  PROVE  ServerInv'
  <1>1. ASSUME Server!Closes, ~serverClosed, serverStartup # "build" \/ serverStartup' # "build",
               serverStartup' = "build" => serverStartup = "build",
               serverSignalled' \in BOOLEAN
        PROVE  ServerInv'
    <2>1. \A r \in Requests : serverJob'[r] \in {serverJob[r], Server!Answered(serverJob[r])}
      BY <1>1 DEF Server!Closes
    <2>2. ASSUME NEW r \in Requests
          PROVE  serverJob'[r] \in JobRecord /\ JobRight(serverJob'[r])
      BY <2>1, AnsweredIs DEF ServerInv, JobRight
    <2>3. serverJob' \in [Requests -> JobRecord]
      BY <1>1, <2>2 DEF Server!Closes
    <2>4. Queue(serverJob, serverWaiters)' /\ BuffersRight'
      BY <1>1, <2>1, AnsweredIs, QueueKept DEF Server!Closes, ServerInv
    <2> QED
      BY <1>1, <2>2, <2>3, <2>4 DEF Server!Closes, ServerInv
  <1>2. ASSUME UNCHANGED <<serverJob, serverWaiters, serverConn>>
        PROVE  /\ serverJob' \in [Requests -> JobRecord]
               /\ Queue(serverJob, serverWaiters)' /\ BuffersRight'
               /\ serverConn' \in [Conns -> {"new", "up", "down"}]
               /\ \A r \in Requests : JobRight(serverJob'[r])
               /\ (\A r \in Requests : ~serverJob'[r].slot) <=> \A r \in Requests : ~serverJob[r].slot
               /\ (\A c \in Conns : serverConn'[c] # "up") <=> \A c \in Conns : serverConn[c] # "up"
    BY <1>2, QueueKept DEF ServerInv
  <1>3. CASE Server!Signal
    BY <1>1, <1>2, <1>3 DEF Server!Signal, Server!Unclosed, ServerInv
  <1>4. CASE Server!StartFails
    BY <1>1, <1>2, <1>4 DEF Server!StartFails, Server!Unclosed, ServerInv
  <1>5. CASE Server!Built
    BY <1>2, <1>5 DEF Server!Built, ServerInv
  <1>6. CASE Server!Listens
    BY <1>2, <1>6 DEF Server!Listens, Server!Unclosed, ServerInv
  <1>7. CASE Server!Indexed
    BY <1>2, <1>7 DEF Server!Indexed, Server!Unclosed, ServerInv
  <1>8. CASE Server!ScanStep
    BY <1>2, <1>8 DEF Server!ScanStep, ServerInv
  <1>9. CASE Server!Drained \/ Server!DrainFails
    BY <1>2, <1>9 DEF Server!Drained, Server!DrainFails, Server!Active, ServerInv
  <1>10. CASE Server!CloseDatabase
    BY <1>2, <1>10 DEF Server!CloseDatabase, ServerInv
  <1> QED
    BY <1>3, <1>4, <1>5, <1>6, <1>7, <1>8, <1>9, <1>10

LEMMA DrainTimeoutKeeps ==
  ASSUME ServerInv, Server!DrainTimeout
  PROVE  ServerInv'
  <1> DEFINE cut == Server!Cut(serverJob, Conns)
  <1>1. Fits(cut)
    BY FitsNow, CutIs
  <1>2. /\ serverJob' = [r \in Requests |-> IF cut[r].handler = "waiting"
                           THEN Server!HandlerEnds(Server!Answered(cut[r])) ELSE cut[r]]
        /\ serverConn' = [c \in Conns |-> IF serverConn[c] = "up" THEN "down" ELSE serverConn[c]]
        /\ serverDrain = "wait" /\ serverDrain' = "forced" /\ serverWaiters' = <<>>
        /\ UNCHANGED <<serverSignalled, serverStartup, serverClosed, serverScan, serverDb>>
    BY DEF Server!DrainTimeout
  <1> HIDE DEF cut
  <1>3. ASSUME NEW r \in Requests
        PROVE  /\ serverJob'[r] \in JobRecord /\ JobRight(serverJob'[r])
               /\ serverJob'[r].buffer => serverJob[r].buffer
    <2>1. cut[r] \in JobRecord /\ JobRight(cut[r]) /\ (cut[r].buffer => serverJob[r].buffer)
      BY <1>1 DEF Fits, Moves
    <2> DEFINE k == Server!HandlerEnds(Server!Answered(cut[r]))
    <2>2. CASE cut[r].handler = "waiting"
      <3>1. cut[r].kind # Nobody
        BY <2>1, <2>2 DEF JobRight
      <3>2. k \in JobRecord /\ JobRight(k) /\ k.buffer = cut[r].buffer
        BY <2>1, <3>1, AnsweredIs, HandlerEndsIs DEF JobRight
      <3> HIDE DEF k
      <3> QED
        BY <1>2, <2>1, <2>2, <3>2 DEF k
    <2>3. CASE cut[r].handler # "waiting"
      BY <1>2, <2>1, <2>3
    <2> QED
      BY <2>2, <2>3
  <1>4. serverJob' \in [Requests -> JobRecord] /\ serverConn' \in [Conns -> {"new", "up", "down"}]
    BY <1>2, <1>3 DEF ServerInv
  <1>5. Queue(serverJob, serverWaiters)' /\ BuffersRight'
    <2>1. IsFiniteSet(Buffers(serverJob)) /\ Cardinality(Buffers(serverJob)) \in Nat
      BY ServerBounds, FS_Subset, FS_CardinalityType DEF Buffers
    <2>2. Buffers(serverJob)' \in SUBSET Buffers(serverJob)
      BY <1>3 DEF Buffers
    <2>3. Cardinality(Buffers(serverJob)') <= Cardinality(Buffers(serverJob))
          /\ Cardinality(Buffers(serverJob)') \in Nat
      BY <2>1, <2>2, FS_Subset, FS_CardinalityType
    <2>4. BuffersRight'
      BY <1>2, <2>1, <2>3, ServerBounds DEF ServerInv, BuffersRight
    <2> QED
      BY <1>2, <2>4 DEF Queue, Apart
  <1> QED
    BY <1>2, <1>3, <1>4, <1>5 DEF ServerInv

LEMMA ServerStep ==
  ASSUME ServerInv, Server!Next
  PROVE  ServerInv'
  BY ArriveKeeps, HandlersKeep, StreamsKeep, NetworkKeeps, ProcessKeeps, DrainTimeoutKeeps
        DEF Server!Next

LEMMA ServerIsRight ==
  ASSUME ServerInv
  PROVE  Server!SlotsAreUsed /\ Server!WaitersHaveCause /\ Server!DatabaseOutlivesItsUsers
  <1>1. Server!SlotsAreUsed
    BY DEF ServerInv, JobRight, Server!SlotsAreUsed
  <1>2. Server!DatabaseOutlivesItsUsers
    BY DEF ServerInv, JobRight, Server!DatabaseOutlivesItsUsers
  <1>3. Server!WaitersHaveCause
    BY DEF ServerInv, BuffersRight, Buffers, Server!WaitersHaveCause, Server!Cardinality, Cardinality
  <1> QED
    BY <1>1, <1>2, <1>3

-----------------------------------------------------------------------------
(***************************************************************************)
(* The theorems.                                                           *)
(***************************************************************************)

\* A step of the composition is a step of one part and stutters in the others.
LEMMA StepOfAPart ==
  ASSUME [PartsNext]_allVars
  PROVE  /\ Slots!Next \/ UNCHANGED slotsVars
         /\ Send!Next \/ UNCHANGED sendVars
         /\ Server!Next \/ UNCHANGED serverVars
  BY DEF PartsNext, allVars

LEMMA SendAlways == PartsSpec => []SendInv
  <1>1. PartsInit => SendInv
    BY SendStart DEF PartsInit
  <1>2. SendInv /\ [PartsNext]_allVars => SendInv'
    BY SendStep, SendStutter, StepOfAPart
  <1> QED
    BY <1>1, <1>2, PTL DEF PartsSpec

\* The newest generation of the cache that was ever loaded or verified stays on
\* the Kindle until a newer one is there, and the slots never claim the same
\* generation (device-metadata-cache.ts; docs/technical-guide.md:156).
THEOREM NewestSlotStays == PartsSpec => []NewestSlotSurvives
  <1>1. PartsInit => SlotsInv
    BY SlotsStart DEF PartsInit
  <1>2. SlotsInv /\ [PartsNext]_allVars => SlotsInv'
    BY SlotsStep, SlotsStutter, StepOfAPart
  <1>3. SlotsInv => NewestSlotSurvives
    BY SlotsAreRight
  <1> QED
    BY <1>1, <1>2, <1>3, PTL DEF PartsSpec

\* A copy sent to the Kindle has the content its token names, and no
\* presentation of a book is sent twice (controller.ts, the catalog send).
THEOREM SentCopiesStayRight == PartsSpec => []SentCopiesAreRight
  <1>1. SendInv => SentCopiesAreRight
    BY DEF SendInv
  <1> QED
    BY <1>1, SendAlways, PTL

\* A book shown as present is on the Kindle as the catalog has it, unless an
\* edit was heard of, or is about to be (controller.ts
\* #reconcileCatalogInventory).
THEOREM GreenStaysTrue == PartsSpec => []GreenIsTrue
  <1>1. SendInv => GreenIsTrue
    BY DEF SendInv
  <1> QED
    BY <1>1, SendAlways, PTL

\* What is sent is what the user chose, and what is shown as sent is there
\* (controller.ts).
THEOREM SentBooksStayRight == PartsSpec => []SentBooksAreRight
  BY SentCopiesStayRight, GreenStaysTrue, PTL DEF SentBooksAreRight

\* What the server holds for a request is of a handler that runs or is given back
\* by a guard, whatever becomes of the connection; a request waits for a buffer
\* only while all are taken; and SQLite is closed only when no handler can use it
\* any more, unless the shutdown gave one up (http-server.ts:2453
\* serviceBufferedResponseWaiter, catalog-service.ts:86).
THEOREM ServerSlotsStayTrue == PartsSpec => []ServerSlotsAreTrue
  <1>1. PartsInit => ServerInv
    BY ServerStart DEF PartsInit
  <1>2. ServerInv /\ [PartsNext]_allVars => ServerInv'
    BY ServerStep, ServerStutter, StepOfAPart
  <1>3. ServerInv => ServerSlotsAreTrue
    BY ServerIsRight DEF ServerSlotsAreTrue
  <1> QED
    BY <1>1, <1>2, <1>3, PTL DEF PartsSpec
===============================================================================
