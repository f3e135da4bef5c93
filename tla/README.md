# Amber runtime: specification, model checking and proofs

The Amber runtime is the C++ library a compiled Cell program is linked with. This directory holds TLA+ models of its
parts, the TLC configurations that check them on small instances, and theorems proved with TLAPS. `PROJECT.json` maps each
definition to the lines it models, and lists the runs, the mutations that each property catches, the hazards and the
findings.

## 1. The system

| part | source | state | operations |
|---|---|---|---|
| value store | `value-store.cpp` | slots (a value or the next free slot), hash chains, reference counts, `first_free`, `usage`; per update: staged values, their hash chains, the surrogates promised to them | insert, lookup, apply, add_ref, release |
| unary table | `unary-table.cpp` | bitmap, size, count; per update: one buffer with deletes from the front and inserts from the back | insert, delete, clear, contains, iterate, apply, finish, copy |
| binary table | `binary-table.cpp` | two ordered sets of pairs (left-right and right-left); staged deletes and inserts | the same, by either column, and key checks |
| ternary table | `ternary-table.cpp` | three ordered sets of rotated triples; staged deletes and inserts | the same, by one or two columns, and key checks |
| table helpers | `table-utils.h`, `interface/lib-cpp.*` | none | keys, conflicts, look-ups by value |
| block allocator | `mem-alloc.cpp`, `mem-core.cpp` | mode (normal, try, copying), two sets of pools, large blocks of the transaction | alloc, release, enter/leave the modes |
| object heap | `mem.cpp`, `mem-copying.cpp`, `instrs.cpp`, `mem-utils.cpp` | reference-counted sequences, sets, relations, tagged objects | add_ref, release, copy_obj, slices, extension |
| relation objects | `bin-rel-obj.cpp`, `tern-rel-obj.cpp`, `algs.cpp`, `sorting.cpp`, `basic-ops.cpp` | immutable sorted arrays with index arrays; the reverse index of a map, made late | builders, searches, iterators |
| order and hash codes | `algs.cpp`, `hashing.cpp` | none | comparing, hashing |
| parser, printer | `parsing.cpp`, `printing.cpp` | the entries read so far; none | text to value, value to text |
| symbols, strings, conversions, I/O | `inter-utils.cpp`, `interface/*`, `iolib.cpp`, `os-interface-linux.cpp` | symbol table, object cache | conversions |

How they interact. The program the Cell compiler generates is not in the repository. It evaluates an update in a
transaction (`enter_try_state`): it reads values, stages insertions into value stores (`value_store_insert`) and rows into
tables (`*_insert`, `*_delete`, `set_*_table`). It then checks keys (`*_updates_check_*`), and either fails or applies the
stores' updates first, then all tables' updates (`*_updates_apply`), and finishes them (`*_updates_finish`). That order is
taken from the functions' contracts: `apply` functions add references to slots that `value_store_apply` has filled, and
`finish` functions release references only after every table has had its chance to add one. While they are applied the
allocator is in the copying mode: values move from the transaction's memory to standard memory (`copy_obj`), and the
transaction's memory is then returned at once.

Tables hold surrogates, indexes of slots of a value store. The store counts the rows that refer to a slot and blanks the
slot with the last one; a slot holds a reference to an object of the heap. So a value in a row is kept by two counts: the
row's in the store, and the slot's in the object.

The code is single-threaded and nothing is persistent. What makes it hard is not concurrency but long sequences of legal
calls over shared, reused and half-updated state:

* surrogates are promised to values before the slots exist, from a free list threaded through the slots themselves;
* a slot may be freed by one table and needed by another in one update, and three indexes must agree on a row;
* blocks are shared by slices and extended in place, counted differently in each mode, and overwritten while being copied;
* a failure may throw out of any point of a transaction;
* capacities grow in the middle of operations, and sizes, offsets and tags live in narrow fields.

What makes each part correct: a surrogate in use always denotes the value it was given for (store); tables behave as
relations over values with keys, whatever slots are reused (tables); objects behave as immutable values, counts are exact
and no memory is lost or used after it is returned (heap); blocks handed out are disjoint, returned to the pool they
came from, and given back with a transaction (allocator); searches and builders agree with the sets and functions they
represent (relation objects); what compares equal hashes alike, whatever represents it (order and hash codes); a text is
accepted if it denotes a value, and a refused one leaves nothing behind (parser); what is printed can be read (printer);
sizes fit the fields they are written to (references, strings).

## 2. Modules

| module | models | role |
|---|---|---|
| `ValueStoreOps` | `value-store.cpp` | the store's functions as operators on records of arrays |
| `ValueStore` | a store and its clients | state machine: Insert, Apply, AddRef, Release, NewUpdate |
| `ValueStoreLemmas`, `ValueStoreProofs` | | what the store's functions keep, of any store; theorems about `ValueStore` |
| `TableUtils` | `table-utils.h`, `lib-cpp.*` | keys, conflict checks, interning, look-ups |
| `UnaryTable`, `BinaryTable`, `TernaryTable` | one file each | the tables' functions as operators |
| `Database` | tables over one store | state machine: staging, checks, apply, finish |
| `AbstractDatabase` | what tables promise | relations over values, with keys; no surrogates, indexes or counts |
| `TableLemmas`, `DatabaseProofs` | | what the tables' functions keep and return, of any table and store; theorems about `Database` |
| `ObjHeap` | `mem.cpp`, `instrs.cpp`, `mem-copying.cpp`, parts of `mem-utils.cpp` | objects, references, counting, sequences, copying as operators |
| `Transactions` | programs on the heap | state machine: evaluation in and out of transactions, commit and failure |
| `Values` | what the heap promises | variables that hold immutable values |
| `HeapLemmas`, `TransactionProofs` | | what the heap's functions keep, of any heap; theorems about `Transactions` |
| `Allocator` | `mem-alloc.cpp`, `mem-core.cpp` | pools, chunks, large blocks and the three states as operators |
| `DeleteQueue` | the sizes and the deletion of `mem.cpp` | a step of the deletion loop, with the stack of loops under way |
| `Powers` | sizes that are powers of two | shared by `Allocator`, `DeleteQueue` and `ObjHeap` |
| `MemoryManager` | programs on the allocator | state machine: objects, arrays, transactions, deletion step by step |
| `MemoryManagerProofs` | | what the allocator's functions and a turn of a deletion loop keep; theorems about `MemoryManager` |
| `Arithmetic` | | lemmas about division, powers, finite sums and cardinalities |
| `Objects` | `hashing.cpp`, `comp_objs`, the kinds of references of `mem-utils.cpp` | representations of values, their order, hash codes and meaning |
| `Searching` | `algs.cpp`, `sorting.cpp` | sorting, searching, duplicates |
| `RelationObjects` | `bin-rel-obj.cpp`, `tern-rel-obj.cpp`, `basic-ops.cpp` | builders, indexes, iterators, look-ups |
| `Parser`, `Printer` | `parsing.cpp`, `printing.cpp` | from tokens to an object and what was released; from an object to tokens |
| `Grammar` | | which values a text denotes: the reference the parser is compared with |
| `Construction` | streams of `instrs.cpp`, and the above | state machine: rows appended and built, tokens parsed, results read and released |
| `MCValueStore`, `MCDatabase`, `MCTernaryDatabase`, `MCTransactions`, `MCMemoryManager`, `MCConstruction` | | instances for TLC |

Operator modules come first because the same function of the code is called from several places; a state machine's action
is one call with all it does. A definition named `f_something` under the comment "Mutant" is a plausible bug of `f` that a
property must detect; nothing in the specifications uses it.

**State and code.** A `Block` of `ValueStoreOps` is the slots, hash table and nodes that stores and updates have in common;
blank slots hold the next free index, as in the code. `held` and `freeList` of `ValueStore` are not in the code: the first
is what clients do, the second is an auxiliary variable that names the free list and is read by no action. Hash codes are a
constant function of the value. A table's ordered sets are sets; staged updates are sequences in the code's order, and the
marker a delete that found nothing leaves in the staged rows is kept, for `finish` must skip it. The unary buffer keeps both
of its ends. When a bitmap grows, the code reads an indeterminate pointer (see 5), and the bits gained are a
nondeterministic choice. An object's header, elements and capacity are a record; where the code writes the address of a copy
over an object that was copied, the model empties the fields that are overwritten and keeps the address in `copy`. An object
is a `seq`, which alone can be shared in part, a `node` (set, relation, map or tagged object: they differ in how a copied
one is marked) or a `tern` (a ternary relation, which cannot be copied). Deletion in `ObjHeap` is by its result, a fixpoint.

`MemoryManager` looks at the same program from below. A block is an area that malloc returned and an offset; an object is its
kind, size, capacity and references, and has no value. The frames of `delete_obj` are a stack, since a full ring makes the
loop call itself, and one action is one turn of the innermost loop. Between the turns nothing else runs. The link in a free
block is its place in a pool. `min_size_code`, a chain of comparisons in the code, is the smallest code whose block is enough.
`live_objs` and `live_mem_usage` are there in debug builds only.

In `Objects` a value can have several representations, as in the code: a sequence or a slice, a map, a relation or a logical
map, tags packed in the reference or in an object of their own. `MeaningOf` is the value, and is used by properties only.
`std::sort` may leave equal entries in any order and so may `Searching`. An entry given to a builder carries the place it was
given at, so that two equal references can be told apart and a property can say which was kept and which released; in
`Parser` the place is the token an object starts at. Positions count from 1. Negative offsets are errors, as in the code.
A text is a list of tokens; `Grammar` describes the language by what its texts denote, without reading from left to right,
and includes the parser's leniency about what follows the first entry of a map (see 5), because it has to be described to be
checked.

**External code.** The generated program is modelled from what the runtime's functions and comments ask of it. `Database`
lets it stage rows in any order, pass or fail the checks, and apply and finish tables in any order; all columns share one
store, the general case, since stores never interact. `Transactions` lets it hold references in local variables, which own
what they hold, and in globals, which outlive a transaction and are written when it succeeds. Globals are released while
copying only when evaluation is over; in `MemoryManager` that is the guard that no temporary object refers to standard memory.
Arrays are given back in the state they were taken in, as every function of the runtime does. Two premises are constants. With `TRY_EXTENDS_STD = FALSE` a transaction does not
append objects in place to a sequence that was there before. With `NESTED_APPEND = FALSE` a sequence is not extended in
place with a value that contains it. The runs that pass assume both, because without them the code is wrong: the two
violation runs drop one each.

## 3. Runs

Every run that passes is exhaustive over its instance. Deadlock is checked in the store's and the tables' runs; a program
on the heap may stop, after the failure of `copy_obj` (mode "failed") or when its bounds leave it nothing to do, so
`Transactions` runs do not check it.

| run | instance | question and answer |
|---|---|---|
| `value_store` | 3 values, 2 with one hash code and all in one bucket while the table has at most two; capacity 1 to 4; up to 3 staged values, 2 references held | Do promised surrogates, free list, hash chains and counts stay right through growth, reuse and abandoned updates? Yes |
| `reference_counts` | same | Is a count the number of references? No: see 5 |
| `tables_shared` | unary + binary with keys on both columns; 2 values, 3 staged rows | Can two tables that share a store lose a value between them? No; keys, look-ups and updates are those of abstract relations |
| `tables_ternary` | ternary, keys 01, 12 and 20; 2 values, 3 staged rows; and every key check on all relations and updates of at most 2 rows | Do the three indexes agree, are rows counted column by column, do range deletes by any columns hit the right rows, are the key checks exact? Yes |
| `bitmap_growth`, `bitmap_lookup` | a unary table; a unary and a binary table; bitmaps of 2 and 1 rows | Is the count the number of bits after growth, and is every surrogate inside the bitmap? No: see 5 |
| `memory` | 3 areas, one pooled size with two blocks to a chunk, a ring of 2; 4 blocks in use, 1 of them temporary, 2 owned references, up to 3 references in an object | Are blocks disjoint and all given back, is every reference released once, at any depth of nested deletion, and does deletion end? Yes |
| `construction` | 26 objects, among them every representation of some values; streams of 3 rows; texts of 8 tokens of 11 kinds | Is what is built what was given, is it found, do order and hash codes agree with equality, does the parser accept what denotes a value and release the rest, is printing undone by parsing? Yes, but for `f()`: see 5 |
| `transactions_slices` | sequences only; 3 blocks, 1 global, 2 locals, sequences shown up to length 2 | Are sharing, in-place extension, counting, failure and copying invisible to a program, and without leaks? Yes |
| `transactions_copies` | nodes and ternary relations; 4 blocks, 2 globals, 2 locals | Are values that share objects copied out right, one after the other? Yes |
| `transactions_extended`, `transactions_nested` | as slices, one premise dropped | Does the code need the premise? Yes: see 5 |

The key checks of tables with fewer keys than the two of the runs are compared with their definition in an assumption of
`MCTernaryDatabase`, `KeyChecksExact`: they are functions of a table and an update, so histories add nothing.

**Bounds.** Initial capacities are constants (256, 4 or 64 in the code) set to 1 so that growth, twice, happens within a
few steps; nothing else depends on them. Two equal hash codes and a third value in the same bucket are enough for the head, middle
and end of a chain. Two values give each table rows that agree and differ in every column; three staged rows allow a row
deleted twice, or deleted, inserted again and replaced. In the heap `SMALLEST = 2` gives blocks for 1 or 3 elements: a sequence of length
1 is full, one of length 2 has room for one more, so both branches of `extend_sequence` are taken, with slices that end where
the block does and slices that do not; hidden elements make blocks longer than what is shown. `MAX_ELEMENTS = 4` allows an
object in an object next to a third one, or one object twice in another. Four blocks are two
temporary objects and their copies; two globals are needed for the second of two copies to find the first.

In `memory` a ring of two entries is full when an object with three references is deleted, and four objects let the one it
makes room for have references of its own, so that the rings are nested. A sequence of 32 bytes in a block of 64 grows
in place before it is freed; a map of 152 bytes takes two pages, a buffer is enlarged from a pooled to a large block. In
`construction` three rows are the fewest with a cycle of length three in the permutation, a duplicate next to another row, or
a range of a sorted column that starts or ends inside. Eight tokens reach every production, and each failure inside an entry
inside a list inside an object. `MCElements` has pairs of objects that are one value in two representations on every level:
alone, in a sequence, under one tag, under two.

Blocks, variables of a kind and values are interchangeable and are declared symmetric in the stores', tables' and
heap's runs, which check no liveness; `memory`, which does, declares no symmetry.

**Fairness.** Programs owe the runtime nothing: nobody must ever call it again, so their actions have no fairness. What has
begun goes on, however: the runtime is single-threaded, a call runs until it returns, and `MemoryManager` states this as
`WF_vars(DeleteStep)`. Under it `DeletionEnds` says that every deletion comes to an end, although each turn may queue more
objects, start a nested loop, or wait for nothing. Copying is inside one action; that it does not go round in circles is the
safety property `CopyEnds`.

**What the properties relate.** `FreeListSound`, `StagedSound`, `PredictionKept`, `SurrogateStable`
and `LookupExact` relate staged updates to a later state of the store. `RowsCounted` relates tables to the store through the
steps in which only some tables are applied. `IndexesAgree` and `RangesExact` relate indexes to each other. `CountsExact`
relates counts to every reference in every object and variable, whichever mode wrote them; `NoLeak` and `RefsSound` relate
reachability to what is allocated and to the two memories. `ReferencesAccounted` does the same between any two
turns of nested deletion loops, where some references are released, some not yet and some objects wait in a ring.
`BlocksDisjoint`, `NothingLeft` and `UsageExact` relate blocks in use, pools, lists of areas and sizes to each other, across
the states of a transaction. `BuiltExact` and `SearchesExact` compare rows, index arrays and searches with the
rows given; `ReferencesKept` and `NothingLeftBehind` follow every single reference to where it ends. `OrderExact`,
`MapIsRelation` and `RoundTrip` relate different representations of one value. `ImplementsRelations` and `ImplementsValues` are refinements.

## 4. Refinements

`ImplementsRelations`: `Database` implements `AbstractDatabase` under the mapping that reads each row through the store and
maps what is staged to the deletes and inserts still pending. A rejected update changes no relation; an accepted one changes
each at its own apply step; finishing and releasing are stutters.

`ImplementsValues`: `Transactions` implements `Values` under the mapping that unfolds each variable's reference through the
heap, a copied object standing for its copy. An in-place extension, which changes a block other variables share, must map to
a step that changes one variable. A failed transaction maps to locals that vanish, with globals untouched.

## 5. What the code does wrong

Each has a run that TLC ends with a counterexample, and an entry under "findings" with the lines.

* `reference_counts`: a slot freed at count 1 keeps that count, and the value that reuses it starts from 1: such a slot is
  never freed again. The error is on the safe side, which is why `RefSafe` says "not below".
* `bitmap_growth`: `unary_table_updates_apply` declares a second `bitmap` initialised from itself when the bitmap grows
  (unary-table.cpp:144), and does not clear the words it gains, so the table may hold rows nobody inserted.
* `bitmap_lookup`: a value stored by another table can have a surrogate beyond the bitmap, and the look-up asserts that it
  has not.
* `transactions_extended`: `extend_sequence` in a transaction appends in place to a block of standard memory, and the
  references it puts there are either to memory that will be returned or not counted.
* `transactions_nested`: a sequence with room extended with a value that contains it contains itself; copying it does not
  end, and outside of transactions it is never freed.

Besides, met while modelling, with no run of their own:

* `copy_obj` has no case for a ternary relation (mem-copying.cpp:154-187): a program that builds one in a transaction and stores
  it fails. The model has that step (mode "failed").
* `f()` is accepted: parse_inner_obj_or_tuple (parsing.cpp:529) reports success and sets nothing, and the tag is put on a variable
  that was never written. `AcceptsValues` says that this is the only text with such a result.
* A text that goes on after an object is refused (parsing.cpp:747) when the object is built, and nobody releases it; and an
  error at the end of the text reads the token after the last one. `NothingLeftBehind` says it is the only reference ever left.
* After the first entry of a map any token stands for the comma, and a last one is skipped (parsing.cpp:602-626).
* Floats are printed with "%g": one that has an integral value may be read back as an integer or refused, and the smallest
  64 bit integer cannot be read at all. The integers of the instance are small and there are no floats.
* The rows of an exported ternary relation are read as if its array were kept row by row (interface/value.cpp:593), while it
  is kept column by column (mem.cpp:49).
* The longest sequence that `new_seq` permits (mem.cpp:72) needs 2^32 bytes, which wrap to 0 in 32 bits.

## 6. Proofs

What is proved, from which assumptions and along which argument. `PROJECT.json` lists the theorems; a theorem about a property of
a run shows, for every value of the constants, what the run shows for its instance.

### The value store

`ValueStoreProofs` proves, from `ValueStoreLemmas`, for every set of values, hash function and initial sizes, and without the
bounds' having any particular value (assumptions, named in `ValueStoreOps`: initial sizes are positive naturals, hash codes are
naturals, and no value is a natural, so that a blank slot is not taken for a value):

* `TypeCorrect`, `FreeListNeverBreaks`, `StagedSurrogatesFree`, `RefSafety`: the four invariants of the same content;
* `PredictionTheorem`, `StabilityTheorem`: the two action properties;
* `LookupTheorem`, `LookupNothingElseTheorem`: a look-up finds the slot of every value stored or staged, and nothing of a value
  that is not.

The inductive invariant is `IInv == TypeOK /\ FreeListSound /\ StagedSound /\ RefSafe`. None of the parts is inductive
alone. The types need the free list, because `first_free` is read from a blank slot. The free list needs the staged
surrogates: `Apply` fills the slots promised, and only if those are a prefix of the list is the rest of it a list.
`StagedSound` needs `FreeListSound` to know what the next promise is, and `RefSafe` needs both: a slot filled by `Apply` must have
been blank, hence held by nobody. `ValueStoreLemmas` says it of a store, references and a chain that are no variables (`StoreOK`) and of an
update (`StagedOK`): a lemma for each function (`InsertKeeps`, `ApplyKeeps`, `AddRefKeeps`, `ReleaseKeeps`), so that the same
lemmas serve any client of a store. They rest on `HashInsertOK`, `HashDeleteOK` and `HashCopyOK` (what the hash table keeps of the
slots), `CalcCapacity` (growth is enough), `StageOK`, `GrowOK` and `AppliedStore` (what applying leaves in each slot),
`ChainFacts` and `FreeListShort` (how the free list and the slots past the end count up together). `ValueStoreProofs` applies them to
the variables (`Parts`), one step for each action. The two action
properties follow from `IInv`, `ApplySlots` and `ReleaseSlots`. `hashtable_copy` and `value_store_apply` insert all the
slots at once in the model, in the order the loops of the code do, so that no induction over a loop is needed.

The look-ups need a second invariant, `HInv`, of the store's block and the update's. A block is `Chained` when
there is a rank, a number for each occupied slot, such that the chain of each bucket goes through exactly the slots of that bucket, from the highest
rank down, each linked to the next lower one. The rank is what makes walking a chain end: it is
asserted, never computed, and each operation shows how to get the new rank from the old one (an insertion puts its node above
all others; a deletion keeps the ranks; rebuilding a grown table ranks the slots by the order of insertion). A block is `Keyed` when it is
chained and no value is in it twice; and while updates are staged no staged value is stored. `HInv` is preserved only where `IInv`
holds, because the slots that an update fills must not be in a chain already, which is what the free list says. The search is a recursive
function over the links; that one exists which satisfies its definition, and that it finds a value wherever it is in the chain, is proved along the rank.

### Tables and the store

`DatabaseProofs` proves, from `TableLemmas` and `ValueStoreLemmas`, for any finite set of tables of any kinds (`TableAssumption`,
`KindAssumption`), any values and hash function, and any bounds:

* `TypeCorrect`, `IndexesSame` (`IndexesAgree`), `EveryRowCounted` (`RowsCounted`), `RangesComplete` (`RangesExact`), `KeysKept`
  (`KeysUnique`) and `LookupsComplete` (`LookupsExact`): every invariant that the two runs check;
* `Implements`: `Spec` implements `ImplementsRelations`, the refinement of section 4.

They have one condition besides the specification, `[]SmallStore`: there is no unary table, or the store has not outgrown the bitmaps
(`store.block.capacity <= BITMAP_SIZE`, at first 4 slots and 1024 bits in the code). It is the code that asks for it: when a bitmap
grows, the words it gains are never written and the old ones are read through an indeterminate pointer (section 5, `bitmap_growth`, `bitmap_lookup`), after which
the tables hold rows that nobody inserted and none of this is true. Nothing is assumed of stores that serve binary and ternary tables only, and
those may grow without bound. The run `tables_shared` starts with bitmaps large enough for all its values, so that it checks just the states the condition leaves.

The inductive invariant `IInv` says of tables and store together that for some free list `StateOK` holds. `Phased` is about the
phases. `TablesOK` says what the indexes of a table agree on and, by the `ModeOf` a table, what is staged: a table that *waits* has inserts of
surrogates that are stored or promised and deletes of its own rows (of stored surrogates, where it is unary); one that has been applied and still *drops* what it
deleted has rows, and the markers `ERASED` of deletes that found nothing; one that is *done* has nothing. `Sound` is the store's own invariant,
`ValueStoreProofs`' `IInv` and `HInv`, for the references `Referred`: to a slot there are as many as all tables' rows, and the rows
that tables still drop, have in it, counted column by column. So the lemmas of `ValueStoreLemmas`, stated for a store and any references, serve here again, with tables in
the place of a single client. No part stands alone. That a row's surrogates are slots in use follows from the count; that a release does not
free a slot too early, from the counts of every other table; that a promised surrogate is in a slot once tables are applied, from the store's staging;
and a unary delete that finds nothing must not be counted, so the marker must be where the dropped rows are read. The loops of the code are
recursive functions here (`TableLemmas` shows that each exists and is what its definition says), with the invariant of a loop carried along its index.
Where the order of a `std::set` or of `std::sort` matters, it is that of `InOrder`, of which it is proved that it lists each row once and in order.

`KInv` adds the keys: no key is twice in a table, and an update that has been accepted but not yet applied has no conflict. The check is made once, and each
table is applied later, when other tables and the store have changed: that what was checked still holds, of surrogates that did not exist when it
was made, is what the step shows. That the checks, which search sorted columns, refuse exactly what `KeyConflict` defines is shown
(`CheckKeyFacts`, `KeysChecked`); rows conflict as surrogates if and only if they do as values, since a known surrogate stands for one value only.

The refinement maps a row of surrogates to the row of values it stands for, stored or promised. Each step maps to one of `AbstractDatabase`:
`InsertRow` to `Insert`, `DeleteRow` and `DeleteBy` to `Delete`, `SetTable` to `Set`, `Check` to `Accept`, `Reject` to `Reject`, `ApplyTable` to
`Commit`; `ApplyStore` and `FinishTable` to a stutter. For those two, values that were promised are stored, or slots are blanked, while
what each row stands for must not change. Look-ups are read off the same mapping: a copy of a table is what it maps to (`CopyFacts`), and
a search starts with a look-up in the store, which misses only a value that is in no row (`ContainsFacts`, `PartnerFacts`).

### Objects, transactions and copies

`TransactionProofs` proves about `Transactions`, from `HeapLemmas`, for any finite set of blocks, any atoms, any variables and any bounds:

* `TypeCorrect`, `CountsAreExact` (`CountsExact`), `RefsAreSound` (`RefsSound`), `ReleasesAreAlive` (`ReleasesAlive`),
  `NothingLeaks` (`NoLeak`): every invariant that the runs of this machine check;
* `NoCircles`: objects never refer to each other in a circle; and `CopyingEnds` (`CopyEnds`): `copy_obj` meets no object that it is
  in the middle of copying. The run `transactions_nested` violates `CopyEnds`, having dropped the premise that the theorem has;
* `Implements` (`ImplementsValues`): `Transactions` implements `Values`, so that no block that is shared, sliced, extended in place,
  freed or copied changes what any other variable stands for.

The premises are those of the program (section 2). `~ TRY_EXTENDS_STD` is a premise of all the theorems, `~ NESTED_APPEND` of the
last four: a sequence that contains itself is counted right and its references are sound, but it is a circle. Each premise is
necessary: a violation run drops it. The assumptions on constants are named in the modules that declare them: blocks and variables are
finitely many (`BlocksAssumption`, `ProgramAssumption`), the smallest block has room for a header and an element and sequences may
have two elements (`SizesAssumption`), inline values are no references (`InlineAssumption`), and the names of
local variables, by which operations are given their operands, are not inline values (`ProgramAssumption`). `Implements` has one premise more, `AtomsApart`: an
inline value, or the mark of a variable without one, is not taken for the value of an object.

The inductive invariant is `IInv == StateInv(mode, heap, var) /\ stray = FALSE`; TLC has checked it in the state space of both
passing runs. `StateInv` says of any mode, heap and variables:

* `Lasting`, what outlives transactions: the heap is typed and no block is filled beyond its capacity (`HeapOK`); what standard objects
  refer to is usable and standard (`Closed`, `GlobalsInStd`); each standard object is counted once for every reference to it that
  the mode counts (`Accounted`); outside of transactions there are no temporary objects, and unless values are being copied
  no object is marked as copied (`NoCopies`).
* `Passing`, what there is for a transaction, which is required only as long as somebody can still use it (`InUse`): temporary objects refer to what
  is usable, a mark leads to a standard object of the same kind (`CopiesOK`), and as long as nothing is marked temporary objects
  are accounted for as well. After the evaluation is over a global may be released that temporary objects still refer to, so
  `Passing` cannot be required always; the transaction's memory is then returned without looking at it.

No part is inductive alone. A release frees an object because its count says that nobody else refers to it, so `Usable` needs
`Accounted`; a count is the number of references only because those between the two memories are neither counted nor released, so
`Accounted` needs `Closed` and `GlobalsInStd`; an extension in place changes what other references' block contains and must not
change what they show, which is what `Usable` says of a reference's end. What dies with a reference is a fixpoint, and
so is what has to be copied: `FixpointFacts` and `ClosureFacts` show that the iteration has arrived after as many rounds as there are blocks, by
counting what each round adds. `ReleaseKeeps` then shows that the counts that are left are exact, `CopyOutKeeps` the same of a copy,
in which an object gets one count for the reference returned and one for each element of a copy that leads to it,
whether it was copied now or before.

Counts alone do not exclude garbage: two objects that refer to each other are counted right and reachable by nobody. So `NothingLeaks` and
`CopyingEnds` need a second invariant, `Ordered(heap)`: there is a rank, a number for each block, such that an object comes after
those it refers to, a copied one being where its copy is. The rank is asserted, never computed, and each operation shows how
to get a new one from the old: a new object is above all others, an object extended in place is above what was appended to
it, because it is not part of that (`NESTED_APPEND`), and copies are ranked in the order of their originals. An unreachable object of greatest rank would be counted
by nobody, so there is none (`AllReached`); an object that reached itself would rank above itself.

For `Implements` the question is always whether two references stand for the same value, in one heap or in two. `value` unfolds
an object as often as there are blocks, and once more; it is proved once that this is well defined (`UnfoldedFacts`), and never unfolded
again. What is used is `SameValues`: when a set of pairs of references is such that the two of each pair show objects of the same kind, with as many
elements, paired in turn, then the references of each pair have the same value. So a step is
looked at one object deep. That the unfolding is deep enough, so that the value of an object is made of the values of its elements,
follows from `Ordered(heap)` (`Ends`): with a circle it would be wrong. Each operation then keeps the values of what the program could
see before and still can (`KeptValues`, `LeftValues`), and gives the value that `Values` gives: a new object leaves others alone (`BuildStep`), an extension in
place adds elements past the end of every other reference to the block (`ExtendedValue`), a release frees what nobody is left to see
(`LossValues`), the end of a transaction what no global leads to (`LeaveStep`), and a copy shows, reference for reference, what the original shows
(`CopyAlike`, `CopiedValues`). `NextStep` puts the operations together.

### The allocator, the heap it serves, and deletion

`MemoryManagerProofs` proves about `MemoryManager`, for any areas, sizes of pages, chunks and rings, shapes of objects and buffers,
and bounds:

* `TypeCorrect`: its state is typed;
* `EveryReference` (`ReferencesAccounted`): between any two turns of the deletion loops, at any depth of nesting, an object's count is
  the references to it that are not released yet, and only live objects are referred to or wait;
* `SpacesDisjoint` (`BlocksDisjoint`): blocks in use and blocks in the pools are inside of their areas and apart;
* `UsageKnown` (`UsageExact`): the live memory that debug builds report is the sum of the sizes of what is in use;
* `NothingStays` (`NothingLeft`): out of transactions nothing is left of a transaction's memory, and no area is kept for nothing.

The inductive invariant is `IInv == RefsInv /\ MemInv`. TLC has checked both parts in the state space of `memory` before they were proved.

`RefsInv` is about references. `Typed` gives objects, owned references and the stack their types. `CallsSound`
says that the object of a loop and those that wait in its ring have a count of 1 and are of the memory in use, so that nobody else
refers to them. `Counted` is the accounting: owned references, those that objects hold and no loop has released, one for each place in a ring, one for a
loop's own object. `ElementsLive` says that a reference not yet released is to a live object.
`StdRefs`, `TryRefs` and `NormalStd` keep the two memories apart: no standard object refers to one of a transaction; while a transaction's values are
copied, its objects refer to each other only; outside of one there are none. Each part needs the others: a loop may free its object
only because the exact count says that nobody else refers to it, and the count stays exact only because objects of the other memory are not counted.

`MemInv` is about memory. `Tracked` says that the blocks of objects and buffers, each with the code of its
size, satisfy `AllocInv` of the allocator: what is in use and what is in the pools is in the room of its area and apart from the rest, a large block is the
whole of its area, the areas on the transaction's lists are those of the transaction's blocks, and no area has neither a block in use nor one in a pool. The code is that of the
object's size *now*, although a sequence may have grown since it was allocated: the code given back is computed from the capacity, and a
block returned to the pool of another size would be handed out later with the next one in it. `BuffersTyped` types the buffers.

The first part of the module proves what each function of the allocator keeps of `AllocInv` (`NewObjKeeps`, `FreeObjKeeps`,
`ReleaseAllKeeps`), the second what a turn of a deletion loop and each operation of the program keeps of `RefsInv`
(`DeleteStepKeeps` and the lemmas around it), and the last puts the two together. Where no deletion is under way `RefsInv` is simpler, and has a name of its own, `IdleInv`: operations of the program start from
it, and lead to it or to a first loop.

The assumptions are about sizes, and named in the modules that declare the constants. `AllocatorAssumption`: sizes are positive and the largest
pooled block is smaller than a page (2048 and 4096 in the code). `AlignmentAssumption`: the smallest block (64) and the page are multiples of 16.
`LargestAssumption`: no program asks for more than the largest block, which is the assertion `byte_size <= size_code_size(code)` of mem-core.cpp:74
and holds for every 32 bit size, the largest block being 2^32 bytes. `QueueAssumption`: a ring has a place. `ProgramAssumption` types the instance's shapes and bounds.
Sums over sets are `MapThenSumSet` in the properties and `Total` and `Cardinality` in the proofs. `Arithmetic` proves what adding, removing and changing an
entry does to them, by induction on the size of the set through a least counterexample.

### What stays with TLC

`DeletionEnds` is liveness under fairness, out of the prover's reach. `Objects`, `Searching`, `RelationObjects`, `Parser`, `Printer` and
`Construction` are recursive over data of any depth, with RECURSIVE operators or through them, which the prover does not take. That a refused
update can be refused, and an accepted one applied to its end, is not part of the tables' refinement, which is about safety.

## 7. Plan

Done: stores, tables, heap and transactions; deletion step by step, allocator; relation objects, order and hash codes, parser
and printer from the tokens on. Proved: value store and its hash table; allocator, deletion, reference counts of
`MemoryManager`; tables over a store, and that they implement relations; the invariants of the heap under any program and its
transactions, and that it implements values. Left, in this order:

1. That `DeleteQueue` implements the fixpoint of `ObjHeap!release`. `ReferencesAccounted` and `UsageExact` say what the
   deletion leaves; the two heaps would have to share a module of objects.
2. The tokenizer, floats and 32 bit sizes, if the checker can be given integers wide enough.

## 8. Not modelled

Symbols and strings (conversions, and a table to which each call adds at most one name), value export (a recursive conversion
of immutable values, to objects of its own), files and the operating system (pure I/O), debugging output and live-object
listings, numeric conversion, floating point, random numbers and time. `value_store_copy` and the copies at exit do nothing
or only free. In the heap: `rev_seq` and internal sorting build new blocks in the way `Build` does; `shrink_set` is never
called. Of references: the positions of their bits. Of the parser: characters; of the printer: layout. The templates that convert
relations to C++ containers only read through the iterators that `TableUtils` and the tables model.
