---------------------------- MODULE BinaryTable ----------------------------
(***************************************************************************)
(* binary-table.cpp.  The rows are kept twice, sorted by their left and by *)
(* their right column.                                                     *)
(*                                                                         *)
(*   table    [left_to_right, right_to_left]: sets of pairs                *)
(*   updates  [deletes, inserts]: sequences of pairs                       *)
(***************************************************************************)
EXTENDS TableUtils

binary_table_init == [left_to_right |-> {}, right_to_left |-> {}]
binary_table_updates_init == [deletes |-> << >>, inserts |-> << >>]

binary_table_contains(table, row) == row \in table.left_to_right

-----------------------------------------------------------------------------
(***************************************************************************)
(* Iterators, as the sequence of rows they go through.  One that is        *)
(* reversed reads the second index and swaps the columns back.             *)
(***************************************************************************)

binary_table_get_iter_by_col_0(table, value) ==
  InOrder({row \in table.left_to_right : row[1] = value})

binary_table_get_iter_by_col_1(table, value) ==
  LET pairs == InOrder({pair \in table.right_to_left : pair[1] = value})
  IN  [i \in DOMAIN pairs |-> shift(pairs[i])]

binary_table_get_iter(table) == InOrder(table.left_to_right)

\* The relation of values that a table holds.
copy_binary_table(table, store) ==
  {<<store.block.slots[row[1]], store.block.slots[row[2]]>> : row \in table.left_to_right}

\* The value in the right column of the row whose left column is key: the
\* first one, in a table where there should be at most one.
lookup_by_left_col(table, store, value) ==
  LET surr == lookup_value(store, value)
      found == binary_table_get_iter_by_col_0(table, surr)
  IN  IF surr = -1 \/ found = << >> THEN << >>
      ELSE <<store.block.slots[found[1][2]]>>

-----------------------------------------------------------------------------
(***************************************************************************)
(* Staging.                                                                *)
(***************************************************************************)

binary_table_delete(table, updates, row) ==
  IF binary_table_contains(table, row)
  THEN [updates EXCEPT !.deletes = Append(@, row)] ELSE updates

binary_table_delete_range_(iter, updates) == [updates EXCEPT !.deletes = @ \o iter]

binary_table_delete_by_col_0(table, updates, value) ==
  binary_table_delete_range_(binary_table_get_iter_by_col_0(table, value), updates)

binary_table_delete_by_col_1(table, updates, value) ==
  binary_table_delete_range_(binary_table_get_iter_by_col_1(table, value), updates)

binary_table_clear(table, updates) ==
  binary_table_delete_range_(binary_table_get_iter(table), updates)

binary_table_insert(updates, row) == [updates EXCEPT !.inserts = Append(@, row)]

-----------------------------------------------------------------------------
(***************************************************************************)
(* Checking and applying.  A check leaves the inserts sorted and without   *)
(* duplicates; then the key constraint holds or not.                       *)
(***************************************************************************)

binary_table_updates_check_0(table, updates) ==
  table_updates_check_key(col_0, sort_unique(updates.inserts), updates.deletes,
                          table.left_to_right)

binary_table_updates_check_1(table, updates) ==
  table_updates_check_key(col_1, sort_unique(updates.inserts), updates.deletes,
                          table.right_to_left)

binary_table_updates_check_0_1(table, updates) ==
  /\ binary_table_updates_check_0(table, updates)
  /\ table_updates_check_key(col_1, sort_unique(updates.inserts), updates.deletes,
                             table.right_to_left)

\* Mutant: a deleted row stays in the second index.
BinaryErase_first_index(table, rows) ==
  [table EXCEPT !.left_to_right = @ \ rows]

\* The rows in a set leave, or enter, both indexes.
BinaryErase(table, rows) ==
  [left_to_right |-> table.left_to_right \ rows,
   right_to_left |-> table.right_to_left \ {shift(row) : row \in rows}]

BinaryAdd(table, rows) ==
  [left_to_right |-> table.left_to_right \cup rows,
   right_to_left |-> table.right_to_left \cup {shift(row) : row \in rows}]

binary_table_updates_apply(table, updates, store) ==
  LET marked == MarkErased(updates.deletes, table.left_to_right)
      kept == BinaryErase(table, Range(marked) \ {ERASED})
      added == Range(updates.inserts) \ kept.left_to_right
  IN  [table   |-> BinaryAdd(kept, added),
       updates |-> [updates EXCEPT !.deletes = marked],
       store   |-> AddRefs(store, added)]

binary_table_updates_finish(updates, store) == ReleaseRows(store, updates.deletes)
=============================================================================
