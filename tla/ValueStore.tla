----------------------------- MODULE ValueStore -----------------------------
(***************************************************************************)
(* A value store under the life its clients, the tables, give it.          *)
(*                                                                         *)
(* An update stages new values (value_store_insert), which only predicts   *)
(* their surrogates; applying it (value_store_apply) puts the values in    *)
(* the slots predicted.  Then the tables count the rows they add           *)
(* (value_store_add_ref) and the rows they drop (value_store_release), and *)
(* the slot whose last row is dropped becomes blank.  A staged update may  *)
(* also be abandoned: its memory is simply discarded.                      *)
(***************************************************************************)
EXTENDS ValueStoreOps

CONSTANTS
  MaxHeld,      \* bound: references a client holds to one surrogate
  MaxStaged     \* bound: values staged in one update

VARIABLES
  store,        \* the VALUE_STORE
  updates,      \* the VALUE_STORE_UPDATES of the current update
  phase,        \* "staging" until value_store_apply, then "applied"
  held,         \* the references the clients hold, for each surrogate
  freeList      \* auxiliary: the surrogates chained from first_free through
                \* the blank slots, in order; read by no action

vars == <<store, updates, phase, held, freeList>>

-----------------------------------------------------------------------------
Init ==
  /\ store = value_store_init
  /\ updates = value_store_updates_init
  /\ phase = "staging"
  /\ held = [i \in 0 .. INIT_SIZE - 1 |-> 0]
  /\ freeList = [i \in 1 .. INIT_SIZE |-> i - 1]

\* The k-th free surrogate, counting from 1.
Chain(k) ==
  IF k <= Len(freeList) THEN freeList[k]
  ELSE store.block.capacity + (k - Len(freeList) - 1)

\* A client stages a value after lookup_value_ex found it nowhere.
Insert(value) ==
  /\ phase = "staging"
  /\ updates.count < MaxStaged
  /\ lookup_value_ex(store, updates, value) = -1
  /\ updates' = value_store_insert(store, updates, value)
  /\ UNCHANGED <<store, phase, held, freeList>>

Apply ==
  /\ phase = "staging"
  /\ store' = value_store_apply(store, updates)
  /\ phase' = "applied"
  /\ held' = [i \in Slots(store'.block) |->
                IF i \in Slots(store.block) THEN held[i] ELSE 0]
  /\ freeList' = [k \in 1 .. (store'.block.capacity - store'.usage) |->
                    Chain(k + updates.count)]
  /\ UNCHANGED updates

AddRef(surr) ==
  /\ phase = "applied"
  /\ surr \in Occupied(store.block)
  /\ held[surr] < MaxHeld
  /\ store' = value_store_add_ref(store, surr)
  /\ held' = [held EXCEPT ![surr] = @ + 1]
  /\ UNCHANGED <<updates, phase, freeList>>

Release(surr) ==
  /\ phase = "applied"
  /\ held[surr] > 0
  /\ store' = value_store_release(store, surr)
  /\ held' = [held EXCEPT ![surr] = @ - 1]
  /\ freeList' = IF surr \in Occupied(store'.block) THEN freeList
                 ELSE <<surr>> \o freeList
  /\ UNCHANGED <<updates, phase>>

\* The next update starts, after this one was applied or abandoned.
NewUpdate ==
  /\ updates' = value_store_updates_init
  /\ phase' = "staging"
  /\ UNCHANGED <<store, held, freeList>>

Next ==
  \/ \E value \in Value : Insert(value)
  \/ Apply
  \/ \E surr \in Slots(store.block) : AddRef(surr) \/ Release(surr)
  \/ NewUpdate

Spec == Init /\ [][Next]_vars

-----------------------------------------------------------------------------
(***************************************************************************)
(* Invariants                                                              *)
(***************************************************************************)

\* Every component has its type: indexes fit the arrays they index, counts are
\* natural numbers, a slot holds a value or the index of a free slot.
TypeOK ==
  /\ store.block.capacity \in Nat /\ store \in Store(store.block.capacity)
  /\ updates.block.capacity \in Nat /\ updates \in Updates(updates.block.capacity)
  /\ Len(updates.surrs) = updates.count
  /\ phase \in {"staging", "applied"}
  /\ held \in [Slots(store.block) -> Nat]
  /\ freeList \in Seq(Slots(store.block))

\* The chain that starts at first_free (value-store.cpp:52-68, 121-128) goes
\* through every blank slot exactly once, leaves the store at the first slot
\* it does not have yet, and is as long as usage says it is: no slot is lost
\* and none is handed out twice.
FreeListSound ==
  /\ \A j, k \in 1 .. Len(freeList) : freeList[j] = freeList[k] => j = k
  /\ \A i \in Slots(store.block) :
       IsBlank(store.block, i) <=> \E k \in 1 .. Len(freeList) : freeList[k] = i
  /\ store.first_free = Chain(1)
  /\ \A k \in 1 .. Len(freeList) : store.block.slots[freeList[k]] = Chain(k + 1)
  /\ store.usage + Len(freeList) = store.block.capacity

\* Until the update is applied, its values have been promised the first free
\* surrogates in order (value-store.cpp:239-247): distinct blank slots, then
\* slots that value_store_apply will add.
StagedSound ==
  phase = "staging" =>
    /\ \A k \in 1 .. updates.count :
         /\ updates.surrs[k] = Chain(k)
         /\ updates.block.slots[k - 1] \in Value
    /\ updates.count > 0 => updates.first_free = Chain(updates.count + 1)
    /\ updates.block.capacity = 0 <=> updates.count = 0

\* A surrogate some row refers to is never blank, and its count is never lower
\* than the number of those rows: releasing a row cannot blank a slot another
\* row refers to, and value_store_release never meets a count of 0
\* (value-store.cpp:305-318).
RefSafe ==
  \A i \in Slots(store.block) :
    /\ held[i] > 0 => ~ IsBlank(store.block, i)
    /\ ~ IsBlank(store.block, i) => held[i] <= store.ref_counts[i]

\* The hash table finds every stored value in its own slot, so that no value
\* is stored twice, and every staged value under its surrogate
\* (value-store.cpp:106-119, 335-348).
LookupExact ==
  /\ \A i \in Occupied(store.block) : lookup_value(store, store.block.slots[i]) = i
  /\ phase = "staging" =>
       \A k \in 1 .. updates.count :
         lookup_value_ex(store, updates, updates.block.slots[k - 1]) = updates.surrs[k]

\* A value that is in no slot is not found, however the buckets have changed.
LookupNothingElse ==
  \A value \in Value :
    (\A i \in Slots(store.block) : store.block.slots[i] # value)
      => lookup_value(store, value) = -1

\* As long as rows refer to a surrogate it stands for the same value, through
\* growth, staged updates and the reuse of other slots.
SurrogateStable ==
  [][\A i \in Slots(store.block) :
       held[i] > 0 /\ held'[i] > 0 => store'.block.slots[i] = store.block.slots[i]]_vars

\* The prediction made when a value was staged comes true: after
\* value_store_apply the surrogate handed out stands for the value.
PredictionKept ==
  [][phase = "staging" /\ phase' = "applied" =>
       \A k \in 1 .. updates.count :
         /\ updates.surrs[k] \in Slots(store'.block)
         /\ store'.block.slots[updates.surrs[k]] = updates.block.slots[k - 1]]_vars

\* What value-store.cpp:308 takes the counts for: the number of references to
\* the slot, none for one that was just filled.
RefCountExact ==
  \A i \in Occupied(store.block) : store.ref_counts[i] = held[i]
=============================================================================
