-------------------------- MODULE ValueStoreProofs --------------------------
(***************************************************************************)
(* Theorems about ValueStore, for any set of values, any hash function and *)
(* any initial sizes.                                                      *)
(***************************************************************************)
EXTENDS ValueStore, ValueStoreLemmas

-----------------------------------------------------------------------------
(***************************************************************************)
(* The inductive invariant.  RefSafe alone is not inductive: that applying *)
(* an update overwrites no slot in use follows from where the staged       *)
(* surrogates come from (StagedSound), which makes sense only if the       *)
(* free chain goes through blank slots, all of them (FreeListSound).       *)
(* The hash tables need all of it: the slots that are filled must not be   *)
(* in a chain.  That the values in the store and the staged ones are all   *)
(* different is what lookup_value_ex is for.                               *)
(***************************************************************************)
IInv == TypeOK /\ FreeListSound /\ StagedSound /\ RefSafe

HInv ==
  /\ StoreKeyed(store)
  /\ Keyed(updates.block) /\ Occupied(updates.block) = 0 .. updates.count - 1
  /\ phase = "staging" => StagedKeyed(store, updates)

\* The same, of a store, its clients and an update.
Whole(s, u, p, h, f) ==
  /\ StoreOK(s, h, f)
  /\ UpdatesTyped(u) /\ (p = "staging" => Promised(s, u, f))
  /\ p \in {"staging", "applied"}

\* The properties say of the variables what the lemmas say of any store.
LEMMA Parts == IInv <=> Whole(store, updates, phase, held, freeList)
<1>1. \A k : Chain(k) = FreeAt(store, freeList, k)
  BY DEF Chain, FreeAt
<1>2. FreeListSound <=> FreeListed(store, freeList)
  BY <1>1 DEF FreeListSound, FreeListed
<1>3. StagedSound <=> (phase = "staging" => Promised(store, updates, freeList))
  BY <1>1 DEF StagedSound, Promised
<1>4. RefSafe <=> RefsCovered(store, held)
  BY DEF RefSafe, RefsCovered
<1>5. TypeOK <=> /\ StoreTyped(store, held, freeList) /\ UpdatesTyped(updates)
                 /\ phase \in {"staging", "applied"}
  BY DEF TypeOK, StoreTyped, UpdatesTyped
<1> QED
  BY <1>2, <1>3, <1>4, <1>5 DEF IInv, Whole, StoreOK

\* The next state is right if what the step leaves is.
LEMMA PartsNext ==
  ASSUME Whole(store', updates', phase', held', freeList')
  PROVE  IInv'
<1>1. Whole(store, updates, phase, held, freeList)' => IInv'
  BY Parts, PTL
<1> QED
  BY <1>1

\* What is staged is staged as the lemmas have it.
LEMMA StagedParts ==
  ASSUME IInv, phase = "staging"
  PROVE  StoreOK(store, held, freeList) /\ StagedOK(store, updates, freeList)
BY Parts DEF Whole, StagedOK

-----------------------------------------------------------------------------
(***************************************************************************)
(* The steps.                                                              *)
(***************************************************************************)

\* At the start every slot is blank and chained.
LEMMA InitOK == Init => IInv
<1> SUFFICES ASSUME Init PROVE IInv
  OBVIOUS
<1>1. StoreOK(store, held, freeList)
  BY StoreInitOK DEF Init
<1>2. StagedOK(store, updates, freeList)
  BY UpdatesInitOK DEF Init
<1> QED
  BY <1>1, <1>2, Parts DEF Init, Whole, StagedOK

\* Staging promises the next free surrogate.
LEMMA InsertStep ==
  ASSUME IInv, NEW value \in Value, Insert(value)
  PROVE  IInv'
<1>1. /\ phase = "staging" /\ updates' = value_store_insert(store, updates, value)
      /\ UNCHANGED <<store, phase, held, freeList>>
  BY DEF Insert
<1>2. StoreOK(store, held, freeList) /\ StagedOK(store, updates, freeList)
  BY <1>1, StagedParts
<1>3. StagedOK(store, updates', freeList)
  BY <1>1, <1>2, InsertKeeps
<1> QED
  BY <1>1, <1>2, <1>3, PartsNext DEF Whole, StagedOK

\* Applying puts the values in the slots promised.
LEMMA ApplyStep ==
  ASSUME IInv, Apply
  PROVE  IInv'
<1>1. /\ phase = "staging" /\ phase' = "applied" /\ updates' = updates
      /\ store' = value_store_apply(store, updates)
      /\ held' = HeldBy(store, store', held)
  BY DEF Apply, HeldBy
<1>2. freeList' = FreeLeft(store, store', updates, freeList)
  <2>1. \A k : Chain(k) = FreeAt(store, freeList, k)
    BY DEF Chain, FreeAt
  <2> QED
    BY <2>1 DEF Apply, FreeLeft
<1>3. StoreOK(store, held, freeList) /\ StagedOK(store, updates, freeList)
  BY <1>1, StagedParts
<1>4. StoreOK(store', held', freeList')
  BY <1>1, <1>2, <1>3, ApplyKeeps
<1> QED
  BY <1>1, <1>3, <1>4, PartsNext DEF Whole, StagedOK

\* Counting a reference.
LEMMA AddRefStep ==
  ASSUME IInv, NEW surr \in Slots(store.block), AddRef(surr)
  PROVE  IInv'
<1>1. /\ phase = "applied" /\ surr \in Occupied(store.block)
      /\ store' = value_store_add_ref(store, surr)
      /\ held' = [held EXCEPT ![surr] = @ + 1]
      /\ UNCHANGED <<updates, phase, freeList>>
  BY DEF AddRef
<1>2. StoreOK(store, held, freeList) /\ UpdatesTyped(updates)
  BY Parts DEF Whole
<1>3. StoreOK(store', held', freeList)
  BY <1>1, <1>2, AddRefKeeps
<1> QED
  BY <1>1, <1>2, <1>3, PartsNext DEF Whole

\* Releasing a reference.
LEMMA ReleaseStep ==
  ASSUME IInv, NEW surr \in Slots(store.block), Release(surr)
  PROVE  IInv'
<1>1. /\ phase = "applied" /\ held[surr] > 0
      /\ store' = value_store_release(store, surr)
      /\ held' = [held EXCEPT ![surr] = @ - 1]
      /\ freeList' = FreeWith(store', freeList, surr)
      /\ UNCHANGED <<updates, phase>>
  BY DEF Release, FreeWith
<1>2. StoreOK(store, held, freeList) /\ UpdatesTyped(updates)
  BY Parts DEF Whole
<1>3. StoreOK(store', held', freeList')
  BY <1>1, <1>2, ReleaseKeeps
<1> QED
  BY <1>1, <1>2, <1>3, PartsNext DEF Whole

\* A new update has nothing staged.
LEMMA NewUpdateStep ==
  ASSUME IInv, NewUpdate
  PROVE  IInv'
<1>1. /\ updates' = value_store_updates_init /\ phase' = "staging"
      /\ UNCHANGED <<store, held, freeList>>
  BY DEF NewUpdate
<1>2. StoreOK(store, held, freeList)
  BY Parts DEF Whole
<1>3. StagedOK(store, updates', freeList)
  BY <1>1, UpdatesInitOK
<1> QED
  BY <1>1, <1>2, <1>3, PartsNext DEF Whole, StagedOK

\* A step that changes nothing keeps the invariant.
LEMMA StutterStep ==
  ASSUME IInv, UNCHANGED vars
  PROVE  IInv'
<1>1. Whole(store, updates, phase, held, freeList)
  BY Parts
<1> QED
  BY <1>1, PartsNext DEF vars

-----------------------------------------------------------------------------
(***************************************************************************)
(* The same steps and the hash tables.                                     *)
(***************************************************************************)

\* While values are staged, both tables are as the lemmas have them.
LEMMA StagedHash ==
  ASSUME HInv, phase = "staging"
  PROVE  StoreKeyed(store) /\ StagedKeyed(store, updates)
BY DEF HInv

\* What the update's table holds is part of what is said of staged values.
LEMMA HashStaging ==
  ASSUME StoreKeyed(store'), StagedKeyed(store', updates')
  PROVE  HInv'
BY DEF HInv, StagedKeyed

\* Empty tables hold nothing.
LEMMA HashInitOK == Init => HInv
<1> SUFFICES ASSUME Init PROVE HInv
  OBVIOUS
<1>1. StoreKeyed(store) /\ StagedKeyed(store, updates)
  BY HashInit, HashUpdatesInit DEF Init
<1> QED
  BY <1>1 DEF HInv, StagedKeyed

\* A value that is nowhere yet is added to the chain of the update.
LEMMA HashInsertStep ==
  ASSUME IInv, HInv, NEW value \in Value, Insert(value)
  PROVE  HInv'
<1>1. /\ phase = "staging" /\ updates' = value_store_insert(store, updates, value)
      /\ lookup_value_ex(store, updates, value) = -1 /\ store' = store
  BY DEF Insert
<1>2. /\ StoreOK(store, held, freeList) /\ StagedOK(store, updates, freeList)
      /\ StoreKeyed(store) /\ StagedKeyed(store, updates)
  BY <1>1, StagedParts, StagedHash
<1>3. StagedKeyed(store, updates')
  BY <1>1, <1>2, InsertKeyed
<1> QED
  BY <1>1, <1>2, <1>3, HashStaging

\* Applying adds the staged values to the buckets of the store.
LEMMA HashApplyStep ==
  ASSUME IInv, HInv, Apply
  PROVE  HInv'
<1>1. /\ phase = "staging" /\ phase' = "applied" /\ updates' = updates
      /\ store' = value_store_apply(store, updates)
  BY DEF Apply
<1>2. /\ StoreOK(store, held, freeList) /\ StagedOK(store, updates, freeList)
      /\ StoreKeyed(store) /\ StagedKeyed(store, updates)
  BY <1>1, StagedParts, StagedHash
<1>3. StoreKeyed(store')
  BY <1>1, <1>2, ApplyKeepsKeyed
<1> QED
  BY <1>1, <1>2, <1>3 DEF HInv, StagedKeyed

\* Releasing a slot takes its value out of the chain when the slot is freed.
LEMMA HashReleaseStep ==
  ASSUME IInv, HInv, NEW surr \in Slots(store.block), Release(surr)
  PROVE  HInv'
<1>1. /\ phase = "applied" /\ held[surr] > 0 /\ UNCHANGED <<updates, phase>>
      /\ store' = value_store_release(store, surr)
  BY DEF Release
<1>2. StoreOK(store, held, freeList) /\ StoreKeyed(store)
  BY Parts DEF Whole, HInv
<1>3. StoreKeyed(store')
  BY <1>1, <1>2, ReleaseKeyed
<1> QED
  BY <1>1, <1>3 DEF HInv

\* Counting a reference and starting an update leave the chains alone.
LEMMA HashOtherSteps ==
  ASSUME IInv, HInv
  PROVE  /\ \A surr \in Slots(store.block) : AddRef(surr) => HInv'
         /\ NewUpdate => HInv'
         /\ UNCHANGED vars => HInv'
<1>1. ASSUME NEW surr \in Slots(store.block), AddRef(surr) PROVE HInv'
  <2>1. /\ store' = value_store_add_ref(store, surr) /\ surr \in Occupied(store.block)
        /\ phase = "applied" /\ phase' = phase /\ updates' = updates
        /\ held' = [held EXCEPT ![surr] = @ + 1]
    BY <1>1 DEF AddRef
  <2>2. store'.block = store.block
    BY <2>1, Parts, AddRefKeeps DEF Whole
  <2> QED
    BY <2>1, <2>2 DEF HInv, StoreKeyed
<1>2. ASSUME NewUpdate PROVE HInv'
  <2>1. store' = store /\ updates' = value_store_updates_init
    BY <1>2 DEF NewUpdate
  <2>2. StagedKeyed(store', updates')
    BY <2>1, HashUpdatesInit
  <2>3. StoreKeyed(store')
    BY <2>1 DEF HInv
  <2> QED
    BY <2>2, <2>3, HashStaging
<1>3. ASSUME UNCHANGED vars PROVE HInv'
  BY <1>3 DEF vars, HInv
<1> QED
  BY <1>1, <1>2, <1>3

-----------------------------------------------------------------------------
(***************************************************************************)
(* The theorems.                                                           *)
(***************************************************************************)

\* The strengthened invariant holds of every state of every behaviour.
THEOREM Invariance == Spec => []IInv
<1>1. Init => IInv
  BY InitOK
<1>2. IInv /\ [Next]_vars => IInv'
  <2> SUFFICES ASSUME IInv, [Next]_vars PROVE IInv'
    OBVIOUS
  <2>1. CASE \E value \in Value : Insert(value)
    BY <2>1, InsertStep
  <2>2. CASE Apply
    BY <2>2, ApplyStep
  <2>3. CASE \E surr \in Slots(store.block) : AddRef(surr)
    BY <2>3, AddRefStep
  <2>4. CASE \E surr \in Slots(store.block) : Release(surr)
    BY <2>4, ReleaseStep
  <2>5. CASE NewUpdate
    BY <2>5, NewUpdateStep
  <2>6. CASE UNCHANGED vars
    BY <2>6, StutterStep
  <2> QED
    BY <2>1, <2>2, <2>3, <2>4, <2>5, <2>6 DEF Next
<1> QED
  BY <1>1, <1>2, PTL DEF Spec

\* Every array index, counter and slot of value-store.cpp stays within its
\* type, whatever the values, their hash codes and the initial sizes.
THEOREM TypeCorrect == Spec => []TypeOK
<1>1. IInv => TypeOK
  BY DEF IInv
<1> QED
  BY <1>1, Invariance, PTL

\* The chain of blank slots that value_store_insert consumes and
\* value_store_release extends never loses a slot nor holds one twice.
THEOREM FreeListNeverBreaks == Spec => []FreeListSound
<1>1. IInv => FreeListSound
  BY DEF IInv
<1> QED
  BY <1>1, Invariance, PTL

\* The surrogates promised to staged values are free and all different.
THEOREM StagedSurrogatesFree == Spec => []StagedSound
<1>1. IInv => StagedSound
  BY DEF IInv
<1> QED
  BY <1>1, Invariance, PTL

\* No row is left with a surrogate that stands for nothing.
THEOREM RefSafety == Spec => []RefSafe
<1>1. IInv => RefSafe
  BY DEF IInv
<1> QED
  BY <1>1, Invariance, PTL

\* value_store_apply puts every staged value where value_store_insert said it
\* would, also when the store had to grow for it.
THEOREM PredictionTheorem == Spec => PredictionKept
<1> DEFINE Kept == phase = "staging" /\ phase' = "applied" =>
       \A k \in 1 .. updates.count :
         /\ updates.surrs[k] \in Slots(store'.block)
         /\ store'.block.slots[updates.surrs[k]] = updates.block.slots[k - 1]
<1>1. IInv /\ [Next]_vars => [Kept]_vars
  <2> SUFFICES ASSUME IInv, Next, phase = "staging", phase' = "applied",
                      NEW k \in 1 .. updates.count
               PROVE  /\ updates.surrs[k] \in Slots(store'.block)
                      /\ store'.block.slots[updates.surrs[k]] = updates.block.slots[k - 1]
    OBVIOUS
  <2>1. Apply
    BY DEF Next, Insert, AddRef, Release, NewUpdate
  <2>2. store' = value_store_apply(store, updates)
    BY <2>1 DEF Apply
  <2>3. StoreOK(store, held, freeList) /\ StagedOK(store, updates, freeList)
    BY StagedParts
  <2>4. /\ updates.surrs[k] \in Occupied(store'.block)
        /\ store'.block.slots[updates.surrs[k]] = updates.block.slots[k - 1]
    BY <2>2, <2>3, ApplySlots
  <2> QED
    BY <2>4 DEF Occupied
<1> QED
  BY <1>1, Invariance, PTL DEF Spec, PredictionKept

\* A surrogate that rows go on referring to goes on standing for the same
\* value.
THEOREM StabilityTheorem == Spec => SurrogateStable
<1> DEFINE Stable == \A i \in Slots(store.block) :
       held[i] > 0 /\ held'[i] > 0 => store'.block.slots[i] = store.block.slots[i]
<1>1. IInv /\ [Next]_vars => [Stable]_vars
  <2> SUFFICES ASSUME IInv, Next, NEW i \in Slots(store.block), held[i] > 0, held'[i] > 0
               PROVE  store'.block.slots[i] = store.block.slots[i]
    OBVIOUS
  <2>1. StoreOK(store, held, freeList)
    BY Parts DEF Whole
  <2>2. i \in Occupied(store.block) /\ held \in [Slots(store.block) -> Nat]
    BY <2>1 DEF StoreOK, StoreTyped, RefsCovered, Occupied
  <2>3. CASE \E value \in Value : Insert(value)
    BY <2>3 DEF Insert
  <2>4. CASE NewUpdate
    BY <2>4 DEF NewUpdate
  <2>5. CASE \E surr \in Slots(store.block) : AddRef(surr)
    <3>1. PICK surr \in Slots(store.block) : AddRef(surr)
      BY <2>5
    <3>2. /\ surr \in Occupied(store.block) /\ store' = value_store_add_ref(store, surr)
          /\ held' = [held EXCEPT ![surr] = @ + 1]
      BY <3>1 DEF AddRef
    <3>3. store'.block = store.block
      BY <2>1, <3>2, AddRefKeeps
    <3> QED
      BY <3>3
  <2>6. CASE Apply
    <3>1. store' = value_store_apply(store, updates) /\ phase = "staging"
      BY <2>6 DEF Apply
    <3> QED
      BY <2>2, <3>1, StagedParts, ApplySlots
  <2>7. CASE \E surr \in Slots(store.block) : Release(surr)
    <3>1. PICK surr \in Slots(store.block) : Release(surr)
      BY <2>7
    <3>2. /\ store' = value_store_release(store, surr) /\ held[surr] > 0
          /\ held' = [held EXCEPT ![surr] = @ - 1]
      BY <3>1 DEF Release
    <3>3. i # surr \/ held[surr] > 1
      BY <2>2, <3>2
    <3> QED
      BY <2>1, <3>2, <3>3, ReleaseSlots
  <2> QED
    BY <2>3, <2>4, <2>5, <2>6, <2>7 DEF Next
<1> QED
  BY <1>1, Invariance, PTL DEF Spec, SurrogateStable

\* The values in a store, and those staged for it, are keys of hash tables
\* whose buckets hold exactly them.
THEOREM HashInvariance == Spec => [](IInv /\ HInv)
<1>1. Init => HInv
  BY HashInitOK
<1>2. IInv /\ HInv /\ [Next]_vars => HInv'
  <2> SUFFICES ASSUME IInv, HInv, [Next]_vars PROVE HInv'
    OBVIOUS
  <2>1. CASE \E value \in Value : Insert(value)
    BY <2>1, HashInsertStep
  <2>2. CASE Apply
    BY <2>2, HashApplyStep
  <2>3. CASE \E surr \in Slots(store.block) : AddRef(surr)
    BY <2>3, HashOtherSteps
  <2>4. CASE \E surr \in Slots(store.block) : Release(surr)
    BY <2>4, HashReleaseStep
  <2>5. CASE NewUpdate
    BY <2>5, HashOtherSteps
  <2>6. CASE UNCHANGED vars
    BY <2>6, HashOtherSteps
  <2> QED
    BY <2>1, <2>2, <2>3, <2>4, <2>5, <2>6 DEF Next
<1> QED
  BY <1>1, <1>2, Invariance, PTL DEF Spec

\* lookup_value finds every stored value in its own slot and lookup_value_ex
\* every staged value under its surrogate, whatever collides with them,
\* through insertion, deletion and growth.
THEOREM LookupTheorem == Spec => []LookupExact
<1>1. IInv /\ HInv => LookupExact
  <2> SUFFICES ASSUME IInv, HInv PROVE LookupExact
    OBVIOUS
  <2>1. \A i \in Occupied(store.block) : lookup_value(store, store.block.slots[i]) = i
    BY Parts, StoredFound DEF Whole, HInv
  <2>2. ASSUME phase = "staging", NEW k \in 1 .. updates.count
        PROVE  lookup_value_ex(store, updates, updates.block.slots[k - 1]) = updates.surrs[k]
    BY <2>2, StagedParts, StagedHash, StagedFound
  <2> QED
    BY <2>1, <2>2 DEF LookupExact
<1> QED
  BY <1>1, HashInvariance, PTL

\* A value that is in no slot is not found: no bucket keeps a slot that was
\* blanked or given to another value.
THEOREM LookupNothingElseTheorem == Spec => []LookupNothingElse
<1>1. IInv /\ HInv => LookupNothingElse
  <2> SUFFICES ASSUME IInv, HInv, NEW value \in Value,
                      \A i \in Slots(store.block) : store.block.slots[i] # value
               PROVE  lookup_value(store, value) = -1
    BY DEF LookupNothingElse
  <2>1. Occupied(store.block) \subseteq Slots(store.block)
    BY DEF Occupied
  <2> QED
    BY <2>1, Parts, LookupValue DEF Whole, HInv
<1> QED
  BY <1>1, HashInvariance, PTL
=============================================================================
