----------------------------- MODULE TableUtils -----------------------------
(***************************************************************************)
(* What the tables have in common (table-utils.h, and the loops that       *)
(* binary-table.cpp and ternary-table.cpp repeat).  A row is a tuple of    *)
(* surrogates.  An update stages rows to delete and rows to insert; the    *)
(* staged vectors are sequences, because a row may be in one twice.        *)
(***************************************************************************)
EXTENDS ValueStoreOps, FiniteSets, SequencesExt

\* What a staged delete is overwritten with when its row was not in the table,
\* so that it is not released later: 0xFFFFFFFFFFFFFFFF in the code.
ERASED == << >>

\* A set of columns, in the order in which they lead one of a table's indexes.
col_0 == <<1>>
col_1 == <<2>>
col_2 == <<3>>
cols_01 == <<1, 2>>
cols_12 == <<2, 3>>
cols_20 == <<3, 1>>

key(K, row) == [i \in DOMAIN K |-> row[K[i]]]

\* The leading fields of a row of an index sorted by the columns K first.
key_shifted(K, shifted) == SubSeq(shifted, 1, Len(K))

\* Moves the first column to the end: from one index of a table to the next.
shift(row) == Append(Tail(row), Head(row))

\* The order of std::set<uint64> and std::set<tuple3>.
Before(row1, row2) ==
  \E i \in DOMAIN row1 : /\ row1[i] < row2[i]
                         /\ \A j \in 1 .. i - 1 : row1[j] = row2[j]

\* The rows of a set in this order: each after those that are before it.
InOrder(rows) ==
  [k \in 1 .. Cardinality(rows) |->
     CHOOSE row \in rows : Cardinality({other \in rows : Before(other, row)}) = k - 1]

sort_unique(xs) == InOrder(Range(xs))

-----------------------------------------------------------------------------
(***************************************************************************)
(* Key constraints.                                                        *)
(***************************************************************************)

take_keys(K, tuples) == [i \in DOMAIN tuples |-> key(K, tuples[i])]

sorted_vector_has_duplicates(xs) == ~ IsInjective(xs)

update_has_conflicts(inserted_keys, deleted_keys, K, target) ==
  \E k \in Range(inserted_keys) \ Range(deleted_keys) :
    \E entry \in target : key_shifted(K, entry) = k

\* Mutant: two rows with the same key are not looked for in the inserts.
table_updates_check_key_with_duplicates(K, inserts, deletes, target) ==
  ~ update_has_conflicts(take_keys(K, inserts), take_keys(K, deletes), K, target)

\* target is the index of the table that has the columns K first.
table_updates_check_key(K, inserts, deletes, target) ==
  LET inserted_keys == take_keys(K, inserts)
  IN  /\ ~ sorted_vector_has_duplicates(inserted_keys)
      /\ ~ update_has_conflicts(inserted_keys, take_keys(K, deletes), K, target)

-----------------------------------------------------------------------------
(***************************************************************************)
(* Staging and applying.                                                   *)
(***************************************************************************)

\* The deletes that find their row; a second one of the same row does not.
MarkErased(deletes, rows) ==
  [i \in DOMAIN deletes |->
     IF deletes[i] \in rows /\ \A j \in 1 .. i - 1 : deletes[j] # deletes[i]
     THEN deletes[i] ELSE ERASED]

\* How many columns of the rows in a set refer to a surrogate.
Uses(rows, surr) ==
  Cardinality({p \in rows \X (1 .. 3) : p[2] \in DOMAIN p[1] /\ p[1][p[2]] = surr})

\* Counts the references of the rows that inserts add: value_store_add_ref for
\* each of their columns, in whatever order.
AddRefs(store, added) ==
  [store EXCEPT !.ref_counts = [i \in DOMAIN @ |-> @[i] + Uses(added, i)]]

\* Releases the surrogates of a row from left to right.
ReleaseRow(store, row) ==
  LET released[k \in 0 .. Len(row)] ==
        IF k = 0 THEN store ELSE value_store_release(released[k - 1], row[k])
  IN  released[Len(row)]

\* Releases what was deleted, row by row.
ReleaseRows(store, deletes) ==
  LET released[k \in 0 .. Len(deletes)] ==
        IF k = 0 THEN store ELSE ReleaseRow(released[k - 1], deletes[k])
  IN  released[Len(deletes)]

\* Mutant: a value is not looked up among the staged ones.
Intern_stored_only(store, updates, value) ==
  LET surr == lookup_value(store, value)
  IN  IF surr # -1 THEN [updates |-> updates, surr |-> surr]
      ELSE [updates |-> value_store_insert(store, updates, value),
            surr    |-> NextSurr(store, updates)]

\* The surrogate of a value, staged in the value store if it has none yet.
Intern(store, updates, value) ==
  LET surr == lookup_value_ex(store, updates, value)
  IN  IF surr # -1 THEN [updates |-> updates, surr |-> surr]
      ELSE [updates |-> value_store_insert(store, updates, value),
            surr    |-> NextSurr(store, updates)]

\* The row of surrogates for a row of values, interned from left to right.
InternRow(store, updates, values) ==
  LET interned[k \in 0 .. Len(values)] ==
        IF k = 0 THEN [updates |-> updates, row |-> << >>]
        ELSE LET in == Intern(store, interned[k - 1].updates, values[k])
             IN  [updates |-> in.updates, row |-> Append(interned[k - 1].row, in.surr)]
  IN  interned[Len(values)]

\* The row of surrogates of values that are all stored; a client gives up
\* when one is not.
LookupRow(store, values) == [i \in DOMAIN values |-> lookup_value(store, values[i])]
Found(row) == \A i \in DOMAIN row : row[i] # -1
=============================================================================
