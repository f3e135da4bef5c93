---------------------------- MODULE TernaryTable ----------------------------
(***************************************************************************)
(* ternary-table.cpp.  The rows are kept three times, with their columns   *)
(* in the orders 012, 120 and 201.                                         *)
(*                                                                         *)
(*   table    [unshifted, shifted_once, shifted_twice]: sets of triples    *)
(*   updates  [deletes, inserts]: sequences of triples                     *)
(***************************************************************************)
EXTENDS TableUtils

ternary_table_init == [unshifted |-> {}, shifted_once |-> {}, shifted_twice |-> {}]
ternary_table_updates_init == [deletes |-> << >>, inserts |-> << >>]

ternary_table_contains(table, row) == row \in table.unshifted

shift2(row) == shift(shift(row))

-----------------------------------------------------------------------------
(***************************************************************************)
(* Iterators, as the sequence of rows they go through.                     *)
(***************************************************************************)

\* How the index that a scan by the columns K reads is shifted.
ShiftOf(K) == IF K \in {<< >>, col_0, cols_01} THEN 0
              ELSE IF K \in {col_1, cols_12} THEN 1 ELSE 2

IndexShifted(table, n) ==
  CASE n = 0 -> table.unshifted [] n = 1 -> table.shifted_once [] n = 2 -> table.shifted_twice

\* Mutant: the columns read from the second index are put back the wrong way.
Unshifted_misplaced(entry, n) ==
  CASE n = 0 -> entry [] n = 1 -> shift(entry) [] n = 2 -> shift(entry)

\* A row of an index with its columns put back in place.
Unshifted(entry, n) ==
  CASE n = 0 -> entry [] n = 1 -> shift2(entry) [] n = 2 -> shift(entry)

\* The rows that have the values k in the columns K, read from the index that
\* has these columns first.
ternary_table_get_iter(table, K, k) ==
  LET entries == {entry \in IndexShifted(table, ShiftOf(K)) : key_shifted(K, entry) = k}
      sorted == InOrder(entries)
  IN  [i \in DOMAIN sorted |-> Unshifted(sorted[i], ShiftOf(K))]

\* The relation of values that a table holds.
copy_ternary_table(table, store) ==
  {[i \in 1 .. 3 |-> store.block.slots[row[i]]] : row \in table.unshifted}

-----------------------------------------------------------------------------
(***************************************************************************)
(* Staging.                                                                *)
(***************************************************************************)

ternary_table_delete(table, updates, row) ==
  IF ternary_table_contains(table, row)
  THEN [updates EXCEPT !.deletes = Append(@, row)] ELSE updates

ternary_table_delete_range_(iter, updates) == [updates EXCEPT !.deletes = @ \o iter]

ternary_table_delete_by(table, updates, K, k) ==
  ternary_table_delete_range_(ternary_table_get_iter(table, K, k), updates)

ternary_table_clear(table, updates) ==
  ternary_table_delete_by(table, updates, << >>, << >>)

ternary_table_insert(updates, row) == [updates EXCEPT !.inserts = Append(@, row)]

-----------------------------------------------------------------------------
(***************************************************************************)
(* Checking and applying.                                                  *)
(***************************************************************************)

ternary_table_updates_check_01(table, updates) ==
  table_updates_check_key(cols_01, sort_unique(updates.inserts), updates.deletes,
                          table.unshifted)

ternary_table_updates_check_01_2(table, updates) ==
  /\ ternary_table_updates_check_01(table, updates)
  /\ table_updates_check_key(col_2, sort_unique(updates.inserts), updates.deletes,
                             table.shifted_twice)

ternary_table_updates_check_01_12(table, updates) ==
  /\ ternary_table_updates_check_01(table, updates)
  /\ table_updates_check_key(cols_12, sort_unique(updates.inserts), updates.deletes,
                             table.shifted_once)

ternary_table_updates_check_01_12_20(table, updates) ==
  /\ ternary_table_updates_check_01_12(table, updates)
  /\ table_updates_check_key(cols_20, sort_unique(updates.inserts), updates.deletes,
                             table.shifted_twice)

\* Mutant: the rows leave the third index shifted only once.
TernaryErase_one_shift(table, rows) ==
  [unshifted     |-> table.unshifted \ rows,
   shifted_once  |-> table.shifted_once \ {shift(row) : row \in rows},
   shifted_twice |-> table.shifted_twice \ {shift(row) : row \in rows}]

\* The rows in a set leave, or enter, the three indexes.
TernaryErase(table, rows) ==
  [unshifted     |-> table.unshifted \ rows,
   shifted_once  |-> table.shifted_once \ {shift(row) : row \in rows},
   shifted_twice |-> table.shifted_twice \ {shift2(row) : row \in rows}]

TernaryAdd(table, rows) ==
  [unshifted     |-> table.unshifted \cup rows,
   shifted_once  |-> table.shifted_once \cup {shift(row) : row \in rows},
   shifted_twice |-> table.shifted_twice \cup {shift2(row) : row \in rows}]

\* Mutant: a row that is deleted and inserted again is not counted again.
ternary_table_updates_apply_without_recount(table, updates, store) ==
  LET marked == MarkErased(updates.deletes, table.unshifted)
      kept == TernaryErase(table, Range(marked) \ {ERASED})
  IN  [table   |-> TernaryAdd(kept, Range(updates.inserts) \ kept.unshifted),
       updates |-> [updates EXCEPT !.deletes = marked],
       store   |-> AddRefs(store, Range(updates.inserts) \ table.unshifted)]

ternary_table_updates_apply(table, updates, store) ==
  LET marked == MarkErased(updates.deletes, table.unshifted)
      kept == TernaryErase(table, Range(marked) \ {ERASED})
      added == Range(updates.inserts) \ kept.unshifted
  IN  [table   |-> TernaryAdd(kept, added),
       updates |-> [updates EXCEPT !.deletes = marked],
       store   |-> AddRefs(store, added)]

ternary_table_updates_finish(updates, store) == ReleaseRows(store, updates.deletes)
=============================================================================
