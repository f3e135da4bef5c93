------------------------------ MODULE Database ------------------------------
(***************************************************************************)
(* Tables over one value store, through the life of an update.             *)
(*                                                                         *)
(* The code that calls the tables is generated by the Cell compiler and is *)
(* not in the repository; what it must do is read off the functions it has *)
(* to call.  An update first stages rows, interning their values, as       *)
(* set_unary_table and its likes do.  If every table's key check passes,   *)
(* the staged values go to the store (value_store_apply), then the staged  *)
(* rows to the tables (the updates_apply functions, which count references *)
(* to surrogates that must exist by then), and last the deleted rows are   *)
(* released (the updates_finish functions): only when all tables are       *)
(* applied, so that a value that one table drops and another one picks up  *)
(* in the same update is not lost in between.                              *)
(*                                                                         *)
(* All columns share one store here: what happens with a store per column  *)
(* is what happens when the tables' values are disjoint.                   *)
(***************************************************************************)
EXTENDS UnaryTable, BinaryTable, TernaryTable

CONSTANTS
  Table,        \* the names of the tables
  Kind,         \* the kind of each table, with the key check it is subject to
  MaxStaged     \* bound: deletes and inserts staged in one update

Kinds == {"unary", "binary", "binary_0", "binary_1", "binary_0_1", "ternary_01",
          "ternary_01_2", "ternary_01_12", "ternary_01_12_20"}

ASSUME TableAssumption == IsFiniteSet(Table)
ASSUME KindAssumption == Kind \in [Table -> Kinds]
ASSUME MaxStagedAssumption == MaxStaged \in Nat

VARIABLES
  store,        \* the VALUE_STORE of all columns
  vsu,          \* its staged updates
  tables,       \* the tables
  staged,       \* the staged updates of each table
  phase,        \* "staging", "checked", "applying" or "finishing"
  todo          \* the tables still to be applied, or finished

vars == <<store, vsu, tables, staged, phase, todo>>

Unary == {t \in Table : Kind[t] = "unary"}
Binary == {t \in Table : Kind[t] \in {"binary", "binary_0", "binary_1", "binary_0_1"}}
Ternary == Table \ (Unary \cup Binary)

Arity == [t \in Table |-> IF t \in Unary THEN 1 ELSE IF t \in Binary THEN 2 ELSE 3]

\* The keys that the check of each kind of table is meant to enforce.
KeysOf(kind) ==
  CASE kind = "binary_0"         -> {col_0}
    [] kind = "binary_1"         -> {col_1}
    [] kind = "binary_0_1"       -> {col_0, col_1}
    [] kind = "ternary_01"       -> {cols_01}
    [] kind = "ternary_01_2"     -> {cols_01, col_2}
    [] kind = "ternary_01_12"    -> {cols_01, cols_12}
    [] kind = "ternary_01_12_20" -> {cols_01, cols_12, cols_20}
    [] OTHER                     -> {}

Keys == [t \in Table |-> KeysOf(Kind[t])]

Rows(t) == IF t \in Unary THEN UnaryRows(tables[t])
           ELSE IF t \in Binary THEN tables[t].left_to_right
           ELSE tables[t].unshifted

NoUpdates == [t \in Table |-> IF t \in Unary THEN unary_table_updates_init
                              ELSE IF t \in Binary THEN binary_table_updates_init
                              ELSE ternary_table_updates_init]

StagedDeletes(t) == IF t \in Unary
                    THEN [i \in 1 .. staged[t].deletes_count |-> <<staged[t].buffer[i]>>]
                    ELSE staged[t].deletes

StagedInserts(t) == IF t \in Unary
                    THEN LET inserts == UnaryInserts(staged[t])
                         IN  [i \in DOMAIN inserts |-> <<inserts[i]>>]
                    ELSE staged[t].inserts

StagedCount == MapThenSumSet(LAMBDA t : Len(StagedDeletes(t)) + Len(StagedInserts(t)), Table)

-----------------------------------------------------------------------------
Init ==
  /\ store = value_store_init
  /\ vsu = value_store_updates_init
  /\ tables = [t \in Table |-> IF t \in Unary THEN unary_table_init
                               ELSE IF t \in Binary THEN binary_table_init
                               ELSE ternary_table_init]
  /\ staged = NoUpdates
  /\ phase = "staging"
  /\ todo = {}

\* The insert function of each kind of table.
Inserted(t, updates, row) ==
  IF t \in Unary THEN unary_table_insert(updates, row[1])
  ELSE IF t \in Binary THEN binary_table_insert(updates, row)
  ELSE ternary_table_insert(updates, row)

Deleted(t, updates, row) ==
  IF t \in Unary THEN unary_table_delete(updates, row[1])
  ELSE IF t \in Binary THEN binary_table_delete(tables[t], updates, row)
  ELSE ternary_table_delete(tables[t], updates, row)

Cleared(t, updates) ==
  IF t \in Unary THEN unary_table_clear(tables[t], updates)
  ELSE IF t \in Binary THEN binary_table_clear(tables[t], updates)
  ELSE ternary_table_clear(tables[t], updates)

\* Interns the values of a row, then stages it.
InsertRow(t, values) ==
  /\ phase = "staging"
  /\ StagedCount < MaxStaged
  /\ LET in == InternRow(store, vsu, values)
     IN  /\ vsu' = in.updates
         /\ staged' = [staged EXCEPT ![t] = Inserted(t, @, in.row)]
  /\ UNCHANGED <<store, tables, phase, todo>>

\* A row that has a value which is not stored is in no table.
DeleteRow(t, values) ==
  /\ phase = "staging"
  /\ StagedCount < MaxStaged
  /\ Found(LookupRow(store, values))
  /\ staged' = [staged EXCEPT ![t] = Deleted(t, @, LookupRow(store, values))]
  /\ UNCHANGED <<store, vsu, tables, phase, todo>>

\* The columns that rows can be deleted by.
ColumnsOf == [t \in Table |-> IF t \in Unary THEN {}
                              ELSE IF t \in Binary THEN {col_0, col_1}
                              ELSE {col_0, col_1, col_2, cols_01, cols_12, cols_20}]

RangeDeleted(t, updates, K, k) ==
  IF t \in Ternary THEN ternary_table_delete_by(tables[t], updates, K, k)
  ELSE IF K = col_0 THEN binary_table_delete_by_col_0(tables[t], updates, k[1])
  ELSE binary_table_delete_by_col_1(tables[t], updates, k[1])

\* Deletes the rows that have the given values in the columns K.
DeleteBy(t, K, values) ==
  /\ phase = "staging"
  /\ Found(LookupRow(store, values))
  /\ staged' = [staged EXCEPT ![t] = RangeDeleted(t, @, K, LookupRow(store, values))]
  /\ StagedCount' <= MaxStaged
  /\ UNCHANGED <<store, vsu, tables, phase, todo>>

\* What deleting every row and interning and inserting others stages.
RowsSet(t, relation) ==
  LET set[k \in 0 .. Len(relation)] ==
        IF k = 0 THEN [vsu |-> vsu, updates |-> Cleared(t, staged[t])]
        ELSE LET in == InternRow(store, set[k - 1].vsu, relation[k])
             IN  [vsu |-> in.updates, updates |-> Inserted(t, set[k - 1].updates, in.row)]
  IN  set[Len(relation)]

\* set_unary_table, set_binary_table, set_ternary_table: deletes every row and
\* inserts those of a relation, in its order.
SetTable(t, relation) ==
  /\ phase = "staging"
  /\ StagedCount + Cardinality(Rows(t)) + Len(relation) <= MaxStaged
  /\ LET set == RowsSet(t, relation)
     IN  /\ vsu' = set.vsu
         /\ staged' = [staged EXCEPT ![t] = set.updates]
  /\ UNCHANGED <<store, tables, phase, todo>>

-----------------------------------------------------------------------------
Passes(t) ==
  CASE Kind[t] = "binary_0"         -> binary_table_updates_check_0(tables[t], staged[t])
    [] Kind[t] = "binary_1"         -> binary_table_updates_check_1(tables[t], staged[t])
    [] Kind[t] = "binary_0_1"       -> binary_table_updates_check_0_1(tables[t], staged[t])
    [] Kind[t] = "ternary_01"       -> ternary_table_updates_check_01(tables[t], staged[t])
    [] Kind[t] = "ternary_01_2"     -> ternary_table_updates_check_01_2(tables[t], staged[t])
    [] Kind[t] = "ternary_01_12"    -> ternary_table_updates_check_01_12(tables[t], staged[t])
    [] Kind[t] = "ternary_01_12_20" -> ternary_table_updates_check_01_12_20(tables[t], staged[t])
    [] OTHER                        -> TRUE

\* Every check passes; it has sorted the inserts and removed duplicates.
Check ==
  /\ phase = "staging"
  /\ \A t \in Table : Passes(t)
  /\ staged' = [t \in Table |->
                  IF Keys[t] = {} THEN staged[t]
                  ELSE [staged[t] EXCEPT !.inserts = sort_unique(@)]]
  /\ phase' = "checked"
  /\ UNCHANGED <<store, vsu, tables, todo>>

\* Some check fails and the update is dropped.
Reject ==
  /\ phase = "staging"
  /\ \E t \in Table : ~ Passes(t)
  /\ staged' = NoUpdates
  /\ vsu' = value_store_updates_init
  /\ UNCHANGED <<store, tables, phase, todo>>

ApplyStore ==
  /\ phase = "checked"
  /\ store' = value_store_apply(store, vsu)
  /\ vsu' = value_store_updates_init
  /\ phase' = "applying"
  /\ todo' = Table
  /\ UNCHANGED <<tables, staged>>

\* Mutant: the rows a table deletes are released as soon as it is applied.
Applied_and_finished(t) ==
  LET outcomes ==
        IF t \in Unary THEN unary_table_updates_apply(tables[t], staged[t], store)
        ELSE IF t \in Binary THEN {binary_table_updates_apply(tables[t], staged[t], store)}
        ELSE {ternary_table_updates_apply(tables[t], staged[t], store)}
  IN  {[table   |-> out.table,
        updates |-> NoUpdates[t],
        store   |-> IF t \in Unary THEN unary_table_updates_finish(out.updates, out.store)
                    ELSE IF t \in Binary THEN binary_table_updates_finish(out.updates, out.store)
                    ELSE ternary_table_updates_finish(out.updates, out.store)] : out \in outcomes}

\* What applying the updates of table t can lead to.
Applied(t) ==
  IF t \in Unary THEN unary_table_updates_apply(tables[t], staged[t], store)
  ELSE IF t \in Binary THEN {binary_table_updates_apply(tables[t], staged[t], store)}
  ELSE {ternary_table_updates_apply(tables[t], staged[t], store)}

ApplyTable(t) ==
  /\ phase = "applying"
  /\ t \in todo
  /\ \E applied \in Applied(t) :
       /\ tables' = [tables EXCEPT ![t] = applied.table]
       /\ staged' = [staged EXCEPT ![t] = applied.updates]
       /\ store' = applied.store
  /\ todo' = IF todo = {t} THEN Table ELSE todo \ {t}
  /\ phase' = IF todo = {t} THEN "finishing" ELSE "applying"
  /\ UNCHANGED vsu

\* Releases what t deleted; its updates are over.
FinishTable(t) ==
  /\ phase = "finishing"
  /\ t \in todo
  /\ store' = IF t \in Unary THEN unary_table_updates_finish(staged[t], store)
              ELSE IF t \in Binary THEN binary_table_updates_finish(staged[t], store)
              ELSE ternary_table_updates_finish(staged[t], store)
  /\ staged' = [staged EXCEPT ![t] = NoUpdates[t]]
  /\ todo' = todo \ {t}
  /\ phase' = IF todo = {t} THEN "staging" ELSE "finishing"
  /\ UNCHANGED <<vsu, tables>>

RowOfValues(t) == [1 .. Arity[t] -> Value]

\* bound: a table is set to a relation of at most two rows
SmallRelation(t) == {<< >>} \cup {<<row>> : row \in RowOfValues(t)}
                    \cup {<<row1, row2>> : row1, row2 \in RowOfValues(t)}

Next ==
  \/ \E t \in Table :
       \/ \E values \in RowOfValues(t) : InsertRow(t, values) \/ DeleteRow(t, values)
       \/ \E K \in ColumnsOf[t] : \E values \in [DOMAIN K -> Value] : DeleteBy(t, K, values)
       \/ \E relation \in SmallRelation(t) : IsInjective(relation) /\ SetTable(t, relation)
       \/ ApplyTable(t)
       \/ FinishTable(t)
  \/ Check
  \/ Reject
  \/ ApplyStore

Spec == Init /\ [][Next]_vars

-----------------------------------------------------------------------------
(***************************************************************************)
(* Reading the tables, which changes nothing.                              *)
(***************************************************************************)

\* Whether a row of values is in a table (table_contains).
table_contains(t, values) ==
  LET row == LookupRow(store, values)
  IN  /\ Found(row)
      /\ IF t \in Unary THEN unary_table_contains(tables[t], row[1])
         ELSE IF t \in Binary THEN binary_table_contains(tables[t], row)
         ELSE ternary_table_contains(tables[t], row)

\* The relation that reading the whole table yields.
Copy(t) == IF t \in Unary THEN copy_unary_table(tables[t], store)
           ELSE IF t \in Binary THEN copy_binary_table(tables[t], store)
           ELSE copy_ternary_table(tables[t], store)

-----------------------------------------------------------------------------
(***************************************************************************)
(* Properties.                                                             *)
(***************************************************************************)

Surrogates == 0 .. store.block.capacity + vsu.count - 1

TypeOK ==
  /\ phase \in {"staging", "checked", "applying", "finishing"}
  /\ todo \subseteq Table
  /\ store.usage = Cardinality(Occupied(store.block))
  /\ DOMAIN store.ref_counts = Slots(store.block)
  /\ \A t \in Table :
       /\ \A row \in Rows(t) : row \in [1 .. Arity[t] -> Slots(store.block)]
       /\ \A row \in Range(StagedInserts(t)) : row \in [1 .. Arity[t] -> Surrogates]

\* The count of a unary table is the number of its bits, which copying it
\* asserts (unary-table.cpp:286) and its iterator relies on (204).
CountIsBits == \A t \in Unary : tables[t].count = Cardinality(tables[t].bitmap)

\* All indexes of a table hold the same rows, after any sequence of updates
\* that delete a row twice, or delete it and insert it again
\* (binary-table.cpp:68-96, ternary-table.cpp:124-161).
IndexesAgree ==
  /\ CountIsBits
  /\ \A t \in Binary :
       tables[t].right_to_left = {shift(row) : row \in tables[t].left_to_right}
  /\ \A t \in Ternary :
       /\ tables[t].shifted_once = {shift(row) : row \in tables[t].unshifted}
       /\ tables[t].shifted_twice = {shift2(row) : row \in tables[t].unshifted}

\* Rows that a table has dropped and not released yet.
Unreleased(t) ==
  IF (phase = "finishing" /\ t \in todo) \/ (phase = "applying" /\ t \notin todo)
  THEN Range(StagedDeletes(t)) \ {ERASED, <<-1>>} ELSE {}

\* No row refers to a blank slot, at any step of an update; and the store counts
\* at least the references of all tables and those still to be released, so
\* releasing a row can neither blank a slot in use nor meet a count of zero
\* (value-store.cpp:308).
RowsCounted ==
  \A t \in Table : \A row \in Rows(t) \cup Unreleased(t) : \A i \in DOMAIN row :
    /\ row[i] \in Occupied(store.block)
    /\ store.ref_counts[row[i]] >=
         LET count(u) == Uses(Rows(u), row[i]) + Uses(Unreleased(u), row[i])
         IN  MapThenSumSet(count, Table)

\* The row of values that a row of surrogates stands for.
ValuesOf(row) == [i \in DOMAIN row |-> Denotes(store, vsu, row[i])]
Relation(t) == {ValuesOf(row) : row \in Rows(t)}

\* Between updates, looking a row up by its values finds exactly the rows that
\* reading the whole table yields, whatever slots have been reused; and where
\* the left column is a key, looking up by it yields the one value associated
\* with it (interface/lib-cpp.cpp:4-39, interface/lib-cpp.h:246-263).
LookupsExact ==
  phase = "staging" =>
    \A t \in Table :
      /\ \A values \in RowOfValues(t) : table_contains(t, values) <=> values \in Copy(t)
      /\ col_0 \in Keys[t] =>
           \A value \in Value :
             LET partners == {values[2] : values \in {w \in Copy(t) : w[1] = value}}
             IN  Range(lookup_by_left_col(tables[t], store, value)) = partners

\* Deleting by some columns, whatever index the rows are read from and however
\* their columns are put back in place, stages exactly the rows of the table
\* with these values (binary-table.cpp:31-56, ternary-table.cpp:37-106).  It is
\* stated of the tables when they have all just changed.
RangesExact ==
  phase = "finishing" => \A t \in Binary \cup Ternary :
    \A K \in ColumnsOf[t] : \A k \in [DOMAIN K -> Occupied(store.block)] :
      Range(RangeDeleted(t, NoUpdates[t], K, k).deletes) = {row \in Rows(t) : key(K, row) = k}

\* The relations and staged rows, as values: while tables are being applied,
\* those applied have nothing pending any more.
Waiting(t) == \/ phase \in {"staging", "checked"}
              \/ phase = "applying" /\ t \in todo

DB == INSTANCE AbstractDatabase WITH
  rel <- [t \in Table |-> Relation(t)],
  dels <- [t \in Table |-> IF Waiting(t)
                           THEN {ValuesOf(row) : row \in Range(StagedDeletes(t)) \cap Rows(t)}
                           ELSE {}],
  ins <- [t \in Table |-> IF Waiting(t)
                          THEN {ValuesOf(row) : row \in Range(StagedInserts(t))}
                          ELSE {}],
  pending <- IF phase = "checked" THEN Table ELSE IF phase = "applying" THEN todo ELSE {}

\* Every behaviour of stores and tables is one of relations over values: an
\* accepted update changes each relation exactly as it was staged, a rejected
\* one changes none, and the checks accept and reject the right ones.
ImplementsRelations == DB!Spec

\* No two rows of a table have the same key, not even while the tables of one
\* update are being applied: the check made before is enough.
KeysUnique == DB!KeysUnique

\* What unary-table.cpp:33 asserts of the surrogate of any stored value that
\* table_contains looks up.
BitmapCoversStore ==
  phase = "staging" =>
    \A t \in Unary : \A i \in Occupied(store.block) : i < tables[t].size
=============================================================================
