--------------------------- MODULE DatabaseProofs ---------------------------
(***************************************************************************)
(* Theorems about Database, for any tables, any values, any hash function  *)
(* and any initial sizes.                                                  *)
(***************************************************************************)
EXTENDS Database, TableLemmas

-----------------------------------------------------------------------------
(***************************************************************************)
(* One table and its staged updates, whatever its kind.                    *)
(***************************************************************************)
RowsOf(t, table) == IF t \in Unary THEN UnaryRows(table)
                    ELSE IF t \in Binary THEN table.left_to_right
                    ELSE table.unshifted

\* The rows staged to be deleted and to be inserted, and the deleted ones that
\* are released in the end.
DeletedRows(t, u) == IF t \in Unary THEN Range(SingleRows(UnaryDeletes(u))) ELSE Range(u.deletes)
InsertedRows(t, u) == IF t \in Unary THEN Range(SingleRows(UnaryInserts(u))) ELSE Range(u.inserts)
MarkedRows(t, u) == IF t \in Unary THEN Unerased(UnaryDeletes(u)) ELSE u.deletes
Dropped(t, u) == Range(MarkedRows(t, u)) \ {ERASED}

\* A table of rows of surrogates in S.
TableOK(t, table, S) ==
  /\ IsFiniteSet(RowsOf(t, table)) /\ RowsOf(t, table) \in SUBSET [1 .. Arity[t] -> S]
  /\ t \in Unary => /\ table.size = BITMAP_SIZE
                    /\ IsFiniteSet(table.bitmap) /\ table.bitmap \in SUBSET S
                    /\ table.count = Cardinality(table.bitmap)
  /\ t \in Binary => BinaryAgrees(table)
  /\ t \in Ternary => TernaryAgrees(table)

\* Updates as they are staged: inserts of surrogates in K, and deletes of rows
\* of the table or, where the table is unary, of surrogates in O.
UpdatesShaped(t, u) == IF t \in Unary THEN BufferOK(u) ELSE PairOfLists(u)

InsertsIn(t, u, K) == IF t \in Unary THEN Range(UnaryInserts(u)) \in SUBSET K
                      ELSE u.inserts \in Seq([1 .. Arity[t] -> K])

DeletesIn(t, table, u, O) == IF t \in Unary THEN Range(UnaryDeletes(u)) \in SUBSET O
                             ELSE u.deletes \in Seq(RowsOf(t, table))

Waits(t, table, u, K, O) ==
  UpdatesShaped(t, u) /\ InsertsIn(t, u, K) /\ DeletesIn(t, table, u, O)

\* And as they are once they have been applied.
Drops(t, u, S) == UpdatesShaped(t, u) /\ InsertsIn(t, u, S) /\ Deletable(MarkedRows(t, u), S)

-----------------------------------------------------------------------------
\* Each table is of one kind.
LEMMA KindFacts ==
  /\ Unary \in SUBSET Table /\ Binary \in SUBSET Table
  /\ Unary \cap Binary = {}
  /\ \A t \in Table : /\ Arity[t] \in 1 .. 3
                      /\ t \in Unary => Arity[t] = 1
                      /\ t \in Binary => Arity[t] = 2 /\ t \notin Unary /\ t \notin Ternary
                      /\ t \in Ternary => Arity[t] = 3 /\ t \notin Unary /\ t \notin Binary
                      /\ t \in Unary \/ t \in Binary \/ t \in Ternary
<1>1. Unary \in SUBSET Table /\ Binary \in SUBSET Table
  BY DEF Unary, Binary
<1>2. Unary \cap Binary = {}
  BY DEF Unary, Binary
<1>3. \A t \in Table : Arity[t] = IF t \in Unary THEN 1 ELSE IF t \in Binary THEN 2 ELSE 3
  BY DEF Arity
<1> QED
  BY <1>1, <1>2, <1>3 DEF Ternary

\* The rows that are staged for a unary table, by their surrogates.
LEMMA SingleFacts ==
  ASSUME NEW u, BufferOK(u)
  PROVE  /\ Range(SingleRows(UnaryDeletes(u))) = {<<value>> : value \in Range(UnaryDeletes(u))}
         /\ Range(SingleRows(UnaryInserts(u))) = {<<value>> : value \in Range(UnaryInserts(u))}
         /\ Len(SingleRows(UnaryDeletes(u))) \in Nat
         /\ DOMAIN SingleRows(UnaryDeletes(u)) = 1 .. Len(SingleRows(UnaryDeletes(u)))
         /\ Len(Unerased(UnaryDeletes(u))) \in Nat
         /\ DOMAIN Unerased(UnaryDeletes(u)) = 1 .. Len(Unerased(UnaryDeletes(u)))
<1>1. PICK d, i : d = UnaryDeletes(u) /\ i = UnaryInserts(u)
  OBVIOUS
<1>2. d \in Seq(Int) /\ i \in Seq(Int)
  BY <1>1, BufferFacts
<1>3. PICK n \in Nat : n = Len(d) /\ DOMAIN d = 1 .. n
  BY <1>2, LenProperties
<1>4. \A xs : Range(SingleRows(xs)) = {<<value>> : value \in Range(xs)}
  BY DEF Range, SingleRows
<1>5. SingleRows(d) \in [1 .. n -> Range(SingleRows(d))] /\ Unerased(d) \in [1 .. n -> Range(Unerased(d))]
  BY <1>3 DEF SingleRows, Unerased, Range
<1>6. Len(SingleRows(d)) = n /\ Len(Unerased(d)) = n
  BY <1>3, <1>5, FunctionSeq
<1>7. DOMAIN SingleRows(d) = 1 .. n /\ DOMAIN Unerased(d) = 1 .. n
  BY <1>3 DEF SingleRows, Unerased
<1> QED
  BY <1>1, <1>3, <1>4, <1>6, <1>7

\* Rows of one column and surrogates.
LEMMA SingleRow ==
  ASSUME NEW row, NEW S
  PROVE  /\ row \in [1 .. 1 -> S] => row[1] \in S /\ row = <<row[1]>>
         /\ \A x \in S : <<x>> \in [1 .. 1 -> S]
<1>1. \A x \in S : <<x>> \in [1 .. 1 -> S]
  OBVIOUS
<1>2. ASSUME row \in [1 .. 1 -> S] PROVE row[1] \in S /\ row = <<row[1]>>
  <2>1. row[1] \in S /\ row = [i \in 1 .. 1 |-> row[1]]
    BY <1>2
  <2>2. <<row[1]>> = [i \in 1 .. 1 |-> row[1]]
    OBVIOUS
  <2> QED
    BY <2>1, <2>2
<1> QED
  BY <1>1, <1>2

-----------------------------------------------------------------------------
(***************************************************************************)
(* What staging leaves.                                                    *)
(***************************************************************************)

\* Inserting a row stages it and nothing else.
LEMMA InsertedFacts ==
  ASSUME NEW t \in Table, NEW table, NEW K \in SUBSET Nat, NEW O, NEW u, Waits(t, table, u, K, O),
         NEW row \in [1 .. Arity[t] -> K], NEW u2, u2 = Inserted(t, u, row)
  PROVE  /\ Waits(t, table, u2, K, O)
         /\ InsertedRows(t, u2) = InsertedRows(t, u) \cup {row}
         /\ DeletedRows(t, u2) = DeletedRows(t, u)
<1>1. CASE t \in Unary
  <2>1. PICK value \in K : value = row[1] /\ row = <<value>>
    BY <1>1, KindFacts, SingleRow
  <2>2. BufferOK(u) /\ Range(UnaryInserts(u)) \in SUBSET K /\ Range(UnaryDeletes(u)) \in SUBSET O
    BY <1>1 DEF Waits, UpdatesShaped, InsertsIn, DeletesIn
  <2>3. u2 = unary_table_insert(u, value) /\ value \in Int
    BY <1>1, <2>1 DEF Inserted
  <2>4. /\ BufferOK(u2) /\ UnaryDeletes(u2) = UnaryDeletes(u)
        /\ Range(UnaryInserts(u2)) = Range(UnaryInserts(u)) \cup {value}
    BY <2>2, <2>3, UnaryInsertFacts
  <2>5. Waits(t, table, u2, K, O)
    BY <1>1, <2>2, <2>4 DEF Waits, UpdatesShaped, InsertsIn, DeletesIn
  <2>6. InsertedRows(t, u2) = InsertedRows(t, u) \cup {row}
    <3>1. /\ InsertedRows(t, u) = {<<v>> : v \in Range(UnaryInserts(u))}
          /\ InsertedRows(t, u2) = {<<v>> : v \in Range(UnaryInserts(u2))}
      BY <1>1, <2>2, <2>4, SingleFacts DEF InsertedRows
    <3> QED
      BY <2>1, <2>4, <3>1
  <2>7. DeletedRows(t, u2) = DeletedRows(t, u)
    BY <1>1, <2>4 DEF DeletedRows
  <2> QED
    BY <2>5, <2>6, <2>7
<1>2. CASE t \notin Unary
  <2>1. PICK T : T = [1 .. Arity[t] -> K]
    OBVIOUS
  <2>2. PairOfLists(u) /\ u.inserts \in Seq(T) /\ DeletesIn(t, table, u, O)
    BY <1>2, <2>1 DEF Waits, UpdatesShaped, InsertsIn
  <2>3. u2 = [u EXCEPT !.inserts = Append(@, row)]
    BY <1>2 DEF Inserted, binary_table_insert, ternary_table_insert
  <2>4. u2 = [deletes |-> u.deletes, inserts |-> Append(u.inserts, row)]
    BY <2>2, <2>3 DEF PairOfLists
  <2>5. Append(u.inserts, row) \in Seq(T) /\ Range(Append(u.inserts, row)) = Range(u.inserts) \cup {row}
    <3>1. PICK xs : xs = u.inserts
      OBVIOUS
    <3>2. xs \in Seq(T) /\ row \in T
      BY <2>1, <2>2, <3>1
    <3> QED
      BY <3>1, <3>2, AppendProperties, RangeAppend
  <2>6. Waits(t, table, u2, K, O)
    <3>1. u2.deletes = u.deletes /\ u2.inserts \in Seq(T) /\ PairOfLists(u2)
      BY <2>4, <2>5 DEF PairOfLists
    <3> QED
      BY <1>2, <2>1, <2>2, <3>1 DEF Waits, UpdatesShaped, InsertsIn, DeletesIn
  <2> QED
    BY <1>2, <2>4, <2>5, <2>6 DEF InsertedRows, DeletedRows
<1> QED
  BY <1>1, <1>2

\* Staging the deletion of rows of a table that is not unary.
LEMMA ListedFacts ==
  ASSUME NEW t \in Table, t \notin Unary, NEW table, NEW K, NEW O, NEW u, Waits(t, table, u, K, O),
         NEW more \in Seq(RowsOf(t, table)), NEW u2, u2 = binary_table_delete_range_(more, u)
  PROVE  /\ Waits(t, table, u2, K, O)
         /\ InsertedRows(t, u2) = InsertedRows(t, u)
         /\ DeletedRows(t, u2) = DeletedRows(t, u) \cup Range(more)
<1>1. PICK T : T = RowsOf(t, table)
  OBVIOUS
<1>2. PairOfLists(u) /\ u.deletes \in Seq(T) /\ InsertsIn(t, u, K)
  BY <1>1 DEF Waits, UpdatesShaped, DeletesIn
<1>3. u2 = [deletes |-> u.deletes \o more, inserts |-> u.inserts]
  BY <1>2 DEF PairOfLists, binary_table_delete_range_
<1>4. u.deletes \o more \in Seq(T) /\ Range(u.deletes \o more) = Range(u.deletes) \cup Range(more)
  <2>1. PICK xs : xs = u.deletes
    OBVIOUS
  <2>2. xs \in Seq(T) /\ more \in Seq(T)
    BY <1>1, <1>2, <2>1
  <2> QED
    BY <2>1, <2>2, ConcatProperties, RangeConcat
<1>5. Waits(t, table, u2, K, O)
  <2>1. u2.inserts = u.inserts /\ u2.deletes \in Seq(T) /\ PairOfLists(u2)
    BY <1>3, <1>4 DEF PairOfLists
  <2> QED
    BY <1>1, <1>2, <2>1 DEF Waits, UpdatesShaped, InsertsIn, DeletesIn
<1> QED
  BY <1>3, <1>4, <1>5 DEF InsertedRows, DeletedRows

\* Deleting a row stages that, if the table has it or if it is unary.
RowStaged(t, table, u, u2, row) ==
  /\ InsertedRows(t, u2) = InsertedRows(t, u)
  /\ DeletedRows(t, u2) \cap RowsOf(t, table) = (DeletedRows(t, u) \cup {row}) \cap RowsOf(t, table)

\* And keeps what had been staged.
LEMMA DeletedFacts ==
  ASSUME NEW t \in Table, NEW table, table = tables[t], NEW K, NEW O \in SUBSET Nat,
         NEW u, Waits(t, table, u, K, O),
         NEW row \in [1 .. Arity[t] -> O], NEW u2, u2 = Deleted(t, u, row)
  PROVE  Waits(t, table, u2, K, O) /\ RowStaged(t, table, u, u2, row)
<1>1. CASE t \in Unary
  <2>1. PICK value \in O : value = row[1] /\ row = <<value>>
    BY <1>1, KindFacts, SingleRow
  <2>2. BufferOK(u) /\ Range(UnaryInserts(u)) \in SUBSET K /\ Range(UnaryDeletes(u)) \in SUBSET O
    BY <1>1 DEF Waits, UpdatesShaped, InsertsIn, DeletesIn
  <2>3. u2 = unary_table_delete(u, value) /\ value \in Int
    <3>1. u2 = unary_table_delete(u, row[1])
      BY <1>1 DEF Deleted
    <3>2. value \in Nat
      OBVIOUS
    <3> QED
      BY <2>1, <3>1, <3>2
  <2>4. /\ BufferOK(u2) /\ UnaryInserts(u2) = UnaryInserts(u)
        /\ UnaryDeletes(u2) = Append(UnaryDeletes(u), value)
    BY <2>2, <2>3, UnaryDeleteFacts
  <2>5. Range(UnaryDeletes(u2)) = Range(UnaryDeletes(u)) \cup {value}
    <3>1. PICK xs : xs = UnaryDeletes(u)
      OBVIOUS
    <3>2. xs \in Seq(Int)
      BY <2>2, <3>1, BufferFacts
    <3> QED
      BY <2>4, <3>1, <3>2, RangeAppend
  <2>6. Waits(t, table, u2, K, O)
    BY <1>1, <2>2, <2>4, <2>5 DEF Waits, UpdatesShaped, InsertsIn, DeletesIn
  <2>7. DeletedRows(t, u2) = DeletedRows(t, u) \cup {row}
    <3>1. /\ DeletedRows(t, u) = {<<v>> : v \in Range(UnaryDeletes(u))}
          /\ DeletedRows(t, u2) = {<<v>> : v \in Range(UnaryDeletes(u2))}
      BY <1>1, <2>2, <2>4, SingleFacts DEF DeletedRows
    <3> QED
      BY <2>1, <2>5, <3>1
  <2>8. InsertedRows(t, u2) = InsertedRows(t, u)
    BY <1>1, <2>4 DEF InsertedRows
  <2> QED
    BY <2>6, <2>7, <2>8 DEF RowStaged
<1>2. CASE t \notin Unary
  <2>1. PICK R : R = RowsOf(t, table)
    OBVIOUS
  <2>2. u2 = IF row \in R THEN [u EXCEPT !.deletes = Append(@, row)] ELSE u
    BY <1>2, <2>1 DEF Deleted, RowsOf, binary_table_delete, ternary_table_delete,
                      binary_table_contains, ternary_table_contains
  <2>3. CASE row \notin R
    BY <2>1, <2>2, <2>3 DEF RowStaged
  <2>4. CASE row \in R
    <3>0. PICK more : more = <<row>>
      OBVIOUS
    <3>1. more \in Seq(R) /\ Range(more) = {row}
      BY <2>4, <3>0 DEF Range
    <3>2. u2 = binary_table_delete_range_(more, u)
      <4>1. PICK xs : xs = u.deletes
        OBVIOUS
      <4>2. xs \in Seq(R)
        BY <1>2, <2>1, <4>1 DEF Waits, DeletesIn
      <4>3. Append(xs, row) = xs \o <<row>>
        BY <2>4, <4>2, AppendIsConcat
      <4> QED
        BY <2>2, <2>4, <3>0, <4>1, <4>3 DEF binary_table_delete_range_
    <3>3. /\ Waits(t, table, u2, K, O)
          /\ InsertedRows(t, u2) = InsertedRows(t, u)
          /\ DeletedRows(t, u2) = DeletedRows(t, u) \cup Range(more)
      <4>1. more \in Seq(RowsOf(t, table))
        BY <2>1, <3>1
      <4> QED
        BY <1>2, <3>2, <4>1, ListedFacts
    <3> QED
      BY <3>1, <3>3 DEF RowStaged
  <2> QED
    BY <2>3, <2>4
<1> QED
  BY <1>1, <1>2

\* Clearing a table stages the deletion of all its rows.
LEMMA ClearedFacts ==
  ASSUME NEW t \in Table, NEW table, table = tables[t], NEW K, NEW O \in SUBSET Nat,
         TableOK(t, table, O),
         NEW u, Waits(t, table, u, K, O), NEW u2, u2 = Cleared(t, u)
  PROVE  /\ Waits(t, table, u2, K, O)
         /\ InsertedRows(t, u2) = InsertedRows(t, u)
         /\ DeletedRows(t, u2) = DeletedRows(t, u) \cup RowsOf(t, table)
<1>1. CASE t \in Unary
  <2>1. BufferOK(u) /\ Range(UnaryInserts(u)) \in SUBSET K /\ Range(UnaryDeletes(u)) \in SUBSET O
    BY <1>1 DEF Waits, UpdatesShaped, InsertsIn, DeletesIn
  <2>2. u2 = unary_table_clear(table, u)
    BY <1>1 DEF Cleared
  <2>3. table.bitmap \in SUBSET O /\ table.bitmap \in SUBSET Nat /\ IsFiniteSet(table.bitmap)
    BY <1>1 DEF TableOK
  <2>4. /\ BufferOK(u2) /\ UnaryInserts(u2) = UnaryInserts(u)
        /\ Range(UnaryDeletes(u2)) = Range(UnaryDeletes(u)) \cup table.bitmap
    BY <2>1, <2>2, <2>3, UnaryClearFacts
  <2>5. Waits(t, table, u2, K, O)
    BY <1>1, <2>1, <2>3, <2>4 DEF Waits, UpdatesShaped, InsertsIn, DeletesIn
  <2>6. /\ DeletedRows(t, u) = {<<v>> : v \in Range(UnaryDeletes(u))}
        /\ DeletedRows(t, u2) = {<<v>> : v \in Range(UnaryDeletes(u2))}
    BY <1>1, <2>1, <2>4, SingleFacts DEF DeletedRows
  <2>7. RowsOf(t, table) = {<<v>> : v \in table.bitmap}
    BY <1>1 DEF RowsOf, UnaryRows
  <2>8. DeletedRows(t, u2) = DeletedRows(t, u) \cup RowsOf(t, table)
    BY <2>4, <2>6, <2>7
  <2> QED
    BY <1>1, <2>4, <2>5, <2>8 DEF InsertedRows
<1>2. CASE t \notin Unary
  <2>1. PICK R : R = RowsOf(t, table) /\ IsFiniteSet(R) /\ R \in SUBSET [1 .. Arity[t] -> Nat]
    <3>1. IsFiniteSet(RowsOf(t, table)) /\ RowsOf(t, table) \in SUBSET [1 .. Arity[t] -> O]
      BY DEF TableOK
    <3>2. [1 .. Arity[t] -> O] \in SUBSET [1 .. Arity[t] -> Nat]
      OBVIOUS
    <3> QED
      BY <3>1, <3>2
  <2>2. PICK more \in Seq(R) : Range(more) = R /\ u2 = binary_table_delete_range_(more, u)
    <3>1. CASE t \in Binary
      <4>1. u2 = binary_table_delete_range_(binary_table_get_iter(table), u)
        BY <1>2, <3>1 DEF Cleared, binary_table_clear, binary_table_delete_range_
      <4>2. R = table.left_to_right /\ R \in SUBSET [1 .. 2 -> Nat]
        BY <1>2, <2>1, <3>1, KindFacts DEF RowsOf
      <4>3. binary_table_get_iter(table) \in Seq(R) /\ Range(binary_table_get_iter(table)) = R
        <5>1. 2 \in 1 .. 3
          OBVIOUS
        <5> QED
          BY <2>1, <4>2, <5>1, InOrderFacts DEF binary_table_get_iter
      <4> QED
        BY <4>1, <4>3
    <3>2. CASE t \notin Binary
      <4>0. t \in Ternary /\ Arity[t] = 3
        BY <1>2, <3>2, KindFacts
      <4>1. u2 = binary_table_delete_range_(ternary_table_get_iter(table, << >>, << >>), u)
        BY <1>2, <3>2 DEF Cleared, ternary_table_clear, ternary_table_delete_by,
                          ternary_table_delete_range_, binary_table_delete_range_
      <4>2. /\ R = table.unshifted /\ R \in SUBSET [1 .. 3 -> Nat]
            /\ TernaryAgrees(table)
        BY <1>2, <2>1, <3>2, <4>0 DEF RowsOf, TableOK
      <4>3. PICK K0, k0 : K0 \in TernaryColumns /\ K0 = << >> /\ k0 = << >>
        BY DEF TernaryColumns
      <4>4. /\ ternary_table_get_iter(table, K0, k0) \in Seq(R)
            /\ Range(ternary_table_get_iter(table, K0, k0)) = {row \in R : key(K0, row) = k0}
        BY <2>1, <4>2, <4>3, TernaryIterFacts
      <4>5. \A row : key(K0, row) = k0
        <5>1. \A row : key(K0, row) = [i \in {} |-> row[K0[i]]]
          BY <4>3 DEF key
        <5>2. \A row : [i \in {} |-> row[K0[i]]] = << >>
          OBVIOUS
        <5> QED
          BY <4>3, <5>1, <5>2
      <4> QED
        BY <4>1, <4>3, <4>4, <4>5
    <3> QED
      BY <3>1, <3>2
  <2> QED
    <3>1. more \in Seq(RowsOf(t, table))
      BY <2>1
    <3> QED
      BY <1>2, <2>1, <2>2, <3>1, ListedFacts
<1> QED
  BY <1>1, <1>2

\* Deleting by some columns stages the rows that have the given values there.
RangeStaged(t, table, u, u2, K, k) ==
  /\ InsertedRows(t, u2) = InsertedRows(t, u)
  /\ DeletedRows(t, u2) = DeletedRows(t, u) \cup {row \in RowsOf(t, table) : key(K, row) = k}

\* And keeps what had been staged.
LEMMA RangeFacts ==
  ASSUME NEW t \in Table, t \notin Unary, NEW table, table = tables[t],
         NEW S \in SUBSET Nat, TableOK(t, table, S), NEW I, NEW O,
         NEW u, Waits(t, table, u, I, O),
         NEW K \in ColumnsOf[t], NEW k, DOMAIN k = DOMAIN K, k = [i \in DOMAIN k |-> k[i]],
         NEW u2, u2 = RangeDeleted(t, u, K, k)
  PROVE  Waits(t, table, u2, I, O) /\ RangeStaged(t, table, u, u2, K, k)
<1>1. PICK R : R = RowsOf(t, table) /\ IsFiniteSet(R) /\ R \in SUBSET [1 .. Arity[t] -> Nat]
  BY DEF TableOK
<1>2. PICK more \in Seq(R) : /\ Range(more) = {row \in R : key(K, row) = k}
                             /\ u2 = binary_table_delete_range_(more, u)
  <2>1. CASE t \in Ternary
    <3>1. t \notin Binary /\ Arity[t] = 3
      BY <2>1, KindFacts
    <3>2. u2 = binary_table_delete_range_(ternary_table_get_iter(table, K, k), u)
      BY <2>1 DEF RangeDeleted, ternary_table_delete_by, ternary_table_delete_range_,
                                binary_table_delete_range_
    <3>3. /\ R = table.unshifted /\ R \in SUBSET [1 .. 3 -> Nat]
          /\ TernaryAgrees(table)
      BY <1>1, <2>1, <3>1 DEF RowsOf, TableOK
    <3>4. K \in TernaryColumns
      BY <3>1 DEF ColumnsOf, TernaryColumns
    <3>5. /\ ternary_table_get_iter(table, K, k) \in Seq(R)
          /\ Range(ternary_table_get_iter(table, K, k)) = {row \in R : key(K, row) = k}
      BY <1>1, <3>3, <3>4, TernaryIterFacts
    <3> QED
      BY <3>2, <3>5
  <2>2. CASE t \notin Ternary
    <3>1. t \in Binary /\ Arity[t] = 2
      BY <2>2, KindFacts
    <3>2. K = <<1>> \/ K = <<2>>
      BY <3>1 DEF ColumnsOf, col_0, col_1
    <3>3. /\ R = table.left_to_right /\ R \in SUBSET [1 .. 2 -> Nat]
          /\ BinaryAgrees(table)
      BY <1>1, <3>1 DEF RowsOf, TableOK
    <3>4. PICK value : value = k[1]
      OBVIOUS
    <3>5. \A row : key(K, row) = k <=> row[K[1]] = value
      <4>1. DOMAIN K = {1} /\ DOMAIN k = {1}
        BY <3>2
      <4>2. \A row : key(K, row) = [i \in {1} |-> row[K[i]]]
        BY <4>1 DEF key
      <4>3. k = [i \in {1} |-> k[i]]
        BY <4>1
      <4>4. \A row : key(K, row) = k <=> \A i \in {1} : row[K[i]] = k[i]
        BY <4>2, <4>3
      <4> QED
        BY <3>4, <4>4
    <3>6. CASE K = <<1>>
      <4>1. u2 = binary_table_delete_range_(binary_table_get_iter_by_col_0(table, value), u)
        BY <2>2, <3>4, <3>6 DEF RangeDeleted, binary_table_delete_by_col_0,
                                binary_table_delete_range_, col_0
      <4>2. /\ binary_table_get_iter_by_col_0(table, value) \in Seq(R)
            /\ Range(binary_table_get_iter_by_col_0(table, value)) = {row \in R : row[1] = value}
        BY <1>1, <3>3, BinaryIterFacts
      <4>3. K[1] = 1
        BY <3>6
      <4>4. {row \in R : row[1] = value} = {row \in R : key(K, row) = k}
        BY <3>5, <4>3
      <4> QED
        BY <4>1, <4>2, <4>4
    <3>7. CASE K = <<2>>
      <4>1. u2 = binary_table_delete_range_(binary_table_get_iter_by_col_1(table, value), u)
        <5>1. K # col_0
          BY <3>7 DEF col_0
        <5> QED
          BY <2>2, <3>4, <5>1 DEF RangeDeleted, binary_table_delete_by_col_1,
                                  binary_table_delete_range_
      <4>2. /\ binary_table_get_iter_by_col_1(table, value) \in Seq(R)
            /\ Range(binary_table_get_iter_by_col_1(table, value)) = {row \in R : row[2] = value}
        BY <1>1, <3>3, BinaryIterFacts
      <4>3. K[1] = 2
        BY <3>7
      <4>4. {row \in R : row[2] = value} = {row \in R : key(K, row) = k}
        BY <3>5, <4>3
      <4> QED
        BY <4>1, <4>2, <4>4
    <3> QED
      BY <3>2, <3>6, <3>7
  <2> QED
    BY <2>1, <2>2
<1>3. more \in Seq(RowsOf(t, table))
  BY <1>1
<1> QED
  BY <1>1, <1>2, <1>3, ListedFacts DEF RangeStaged

-----------------------------------------------------------------------------
(***************************************************************************)
(* What applying and finishing the updates of a table leave.               *)
(***************************************************************************)

\* How applying a table's updates changes its rows R, with D staged to be
\* deleted and I to be inserted.
TableApplied(t, table, u, S, out) ==
  LET R == RowsOf(t, table)
      D == DeletedRows(t, u)
      I == InsertedRows(t, u)
  IN  /\ RowsOf(t, out.table) = (R \ D) \cup I
      /\ IsFiniteSet(I) /\ I \in SUBSET [1 .. Arity[t] -> S]
      /\ TableOK(t, out.table, S)
      /\ out.store = AddRefs(store, I \ (R \ D))
      /\ Drops(t, out.updates, S)
      /\ Dropped(t, out.updates) = D \cap R
      /\ InsertedRows(t, out.updates) = I

\* A table changes as it was staged, its new references are counted, and what
\* it drops is what it is left to release.
LEMMA AppliedFacts ==
  ASSUME NEW t \in Table, NEW table, table = tables[t], NEW u, u = staged[t],
         NEW S \in SUBSET Nat, TableOK(t, table, S), Waits(t, table, u, S, S),
         t \in Unary => \A i \in S : i < BITMAP_SIZE,
         NEW out \in Applied(t)
  PROVE  TableApplied(t, table, u, S, out)
<1>1. PICK R, D, I : R = RowsOf(t, table) /\ D = DeletedRows(t, u) /\ I = InsertedRows(t, u)
  OBVIOUS
<1>2. IsFiniteSet(R) /\ R \in SUBSET [1 .. Arity[t] -> S]
  BY <1>1 DEF TableOK
<1>3. ERASED \notin R
  <2>1. \A row \in R : DOMAIN row = 1 .. Arity[t] /\ Arity[t] \in 1 .. 3
    BY <1>2, KindFacts
  <2>2. DOMAIN ERASED = 1 .. 0
    BY DEF ERASED
  <2>3. \A n \in 1 .. 3 : 1 .. n # 1 .. 0
    OBVIOUS
  <2> QED
    BY <2>1, <2>2, <2>3
<1>4. \A marked : (Len(marked) \in Nat /\ DOMAIN marked = 1 .. Len(marked)
                   /\ (\A k \in DOMAIN marked : marked[k] = ERASED \/ marked[k] \in R)
                   /\ \A j, k \in DOMAIN marked : marked[j] = marked[k] /\ marked[j] # ERASED => j = k)
                     => Deletable(marked, S)
  <2>1. \A row \in R : RowLike(row, S)
    BY <1>2, KindFacts DEF RowLike
  <2> QED
    BY <2>1 DEF Deletable
<1>5. CASE t \in Unary
  <2>1. BufferOK(u) /\ Range(UnaryInserts(u)) \in SUBSET S /\ Range(UnaryDeletes(u)) \in SUBSET S
    BY <1>5 DEF Waits, UpdatesShaped, InsertsIn, DeletesIn
  <2>2. /\ table.size = BITMAP_SIZE /\ IsFiniteSet(table.bitmap) /\ table.bitmap \in SUBSET S
        /\ table.count = Cardinality(table.bitmap)
    BY <1>5 DEF TableOK
  <2>3. PICK size \in Nat : size = table.size /\ \A i \in S : i \in Nat /\ i < size
    BY <1>5, <2>2, UnaryAssumption
  <2>4. out \in unary_table_updates_apply(table, u, store)
    BY <1>5 DEF Applied
  <2>5. UnaryApplied(table, u, store, out)
    BY <2>1, <2>2, <2>3, <2>4, UnaryApplyFacts
  <2>6. PICK B, DS, IS, B2 : /\ B = table.bitmap /\ DS = Range(UnaryDeletes(u))
                             /\ IS = Range(UnaryInserts(u)) /\ B2 = (B \ DS) \cup IS
    OBVIOUS
  <2>7. /\ out.table = [bitmap |-> B2, size |-> table.size, count |-> Cardinality(B2)]
        /\ out.store = AddRefs(store, {<<value>> : value \in IS \ (B \ DS)})
        /\ BufferOK(out.updates)
        /\ UnaryInserts(out.updates) = UnaryInserts(u)
        /\ Unerased(UnaryDeletes(out.updates)) = MarkErased(SingleRows(UnaryDeletes(u)), UnaryRows(table))
    BY <2>5, <2>6 DEF UnaryApplied
  <2>8. /\ D = {<<value>> : value \in DS} /\ I = {<<value>> : value \in IS}
        /\ R = {<<value>> : value \in B} /\ RowsOf(t, out.table) = {<<value>> : value \in B2}
    BY <1>1, <1>5, <2>1, <2>6, <2>7, SingleFacts DEF RowsOf, UnaryRows, DeletedRows, InsertedRows
  <2>9. \A x, y : <<x>> = <<y>> => x = y
    OBVIOUS
  <2>10. RowsOf(t, out.table) = (R \ D) \cup I /\ {<<value>> : value \in IS \ (B \ DS)} = I \ (R \ D)
    BY <2>6, <2>8, <2>9
  <2>11. IsFiniteSet(IS) /\ IsFiniteSet(I)
    <3>1. PICK xs : xs = UnaryInserts(u)
      OBVIOUS
    <3>2. xs \in Seq(Int) /\ Len(xs) \in Nat /\ DOMAIN xs = 1 .. Len(xs)
      BY <2>1, <3>1, BufferFacts, LenProperties
    <3>3. [k \in 1 .. Len(xs) |-> xs[k]] \in Surjection(1 .. Len(xs), IS)
      BY <2>6, <3>1, <3>2 DEF Surjection, Range
    <3>4. IsFiniteSet(IS)
      BY <3>2, <3>3, IntervalSize, FS_Surjection
    <3>5. [value \in IS |-> <<value>>] \in Surjection(IS, I)
      BY <2>8 DEF Surjection
    <3> QED
      BY <3>4, <3>5, FS_Surjection
  <2>12. I \in SUBSET [1 .. Arity[t] -> S]
    <3>1. Arity[t] = 1 /\ IS \in SUBSET S
      BY <1>5, <2>1, <2>6, KindFacts
    <3> QED
      BY <2>8, <3>1, SingleRow
  <2>13. TableOK(t, out.table, S)
    <3>1. IsFiniteSet(B2) /\ B2 \in SUBSET S
      <4>1. IsFiniteSet(B \ DS)
        BY <2>2, <2>6, FS_Subset
      <4> QED
        BY <2>1, <2>2, <2>6, <2>11, <4>1, FS_Union
    <3>2. /\ out.table.size = BITMAP_SIZE /\ out.table.bitmap = B2
          /\ out.table.count = Cardinality(B2)
      BY <2>2, <2>7
    <3>3. IsFiniteSet(RowsOf(t, out.table)) /\ RowsOf(t, out.table) \in SUBSET [1 .. Arity[t] -> S]
      <4>1. IsFiniteSet(R \ D)
        BY <1>2, FS_Subset
      <4>2. IsFiniteSet((R \ D) \cup I)
        BY <2>11, <4>1, FS_Union
      <4>3. (R \ D) \cup I \in SUBSET [1 .. Arity[t] -> S]
        BY <1>2, <2>12
      <4> QED
        BY <2>10, <4>2, <4>3
    <3>4. t \notin Binary /\ t \notin Ternary
      BY <1>5, KindFacts
    <3> QED
      BY <3>1, <3>2, <3>3, <3>4 DEF TableOK
  <2>14. PICK deletes, marked : deletes = SingleRows(UnaryDeletes(u)) /\ marked = MarkErased(deletes, R)
    OBVIOUS
  <2>15. Len(deletes) \in Nat /\ DOMAIN deletes = 1 .. Len(deletes) /\ Range(deletes) = D
    BY <1>1, <1>5, <2>1, <2>14, SingleFacts DEF DeletedRows
  <2>16. /\ Deletable(marked, S) /\ Range(marked) \ {ERASED} = D \cap R
    BY <1>3, <1>4, <2>14, <2>15, MarkErasedFacts
  <2>17. MarkedRows(t, out.updates) = marked
    BY <1>1, <1>5, <2>7, <2>14 DEF MarkedRows, RowsOf
  <2>18. Drops(t, out.updates, S) /\ Dropped(t, out.updates) = D \cap R
    BY <1>5, <2>1, <2>7, <2>16, <2>17 DEF Drops, Dropped, UpdatesShaped, InsertsIn
  <2>19. InsertedRows(t, out.updates) = I
    BY <1>1, <1>5, <2>7 DEF InsertedRows
  <2> QED
    BY <1>1, <2>7, <2>10, <2>11, <2>12, <2>13, <2>18, <2>19 DEF TableApplied
<1>6. CASE t \notin Unary
  <2>1. PICK T : T = [1 .. Arity[t] -> S]
    OBVIOUS
  <2>2. PairOfLists(u) /\ u.inserts \in Seq(T) /\ u.deletes \in Seq(R)
    BY <1>1, <1>6, <2>1 DEF Waits, UpdatesShaped, InsertsIn, DeletesIn
  <2>3. /\ Len(u.deletes) \in Nat /\ DOMAIN u.deletes = 1 .. Len(u.deletes)
        /\ D = Range(u.deletes) /\ I = Range(u.inserts)
    BY <1>1, <1>6, <2>2, LenProperties DEF DeletedRows, InsertedRows
  <2>4. IsFiniteSet(I) /\ I \in SUBSET T
    <3>1. PICK xs \in Seq(T) : xs = u.inserts
      BY <2>2
    <3>2. PICK n \in Nat : DOMAIN xs = 1 .. n /\ \A k \in 1 .. n : xs[k] \in T
      BY <3>1, LenProperties
    <3>3. [k \in 1 .. n |-> xs[k]] \in Surjection(1 .. n, I)
      BY <2>3, <3>1, <3>2 DEF Surjection, Range
    <3>4. IsFiniteSet(I)
      BY <3>2, <3>3, IntervalSize, FS_Surjection
    <3> QED
      BY <2>3, <3>1, <3>2, <3>4 DEF Range
  <2>5. /\ RowsApplied(R, u, store, RowsOf(t, out.table), out)
        /\ t \in Binary => BinaryAgrees(out.table)
        /\ t \in Ternary => TernaryAgrees(out.table)
    <3>1. CASE t \in Binary
      <4>1. out = binary_table_updates_apply(table, u, store)
        BY <1>6, <3>1 DEF Applied
      <4>2. Arity[t] = 2 /\ t \notin Ternary
        BY <3>1, KindFacts
      <4>3. /\ R = table.left_to_right /\ R \in SUBSET [1 .. 2 -> S]
            /\ RowsOf(t, out.table) = out.table.left_to_right
            /\ BinaryAgrees(table)
        BY <1>1, <1>2, <1>6, <3>1, <4>2 DEF RowsOf, TableOK
      <4>4. Range(u.inserts) \in SUBSET [1 .. 2 -> S]
        BY <2>1, <2>3, <2>4, <4>2
      <4>5. /\ RowsApplied(table.left_to_right, u, store, out.table.left_to_right, out)
            /\ BinaryAgrees(out.table)
        <5>1. table.left_to_right \in SUBSET [1 .. 2 -> S]
          BY <4>3
        <5>2. BinaryAgrees(table)
          BY <4>3
        <5>3. PairOfLists(u) /\ Len(u.deletes) \in Nat /\ DOMAIN u.deletes = 1 .. Len(u.deletes)
          BY <2>2, <2>3
        <5> QED
          BY <4>1, <4>4, <5>1, <5>2, <5>3, BinaryApplyFacts
      <4> QED
        BY <4>2, <4>3, <4>5
    <3>2. CASE t \notin Binary
      <4>1. out = ternary_table_updates_apply(table, u, store)
        BY <1>6, <3>2 DEF Applied
      <4>2. Arity[t] = 3 /\ t \in Ternary
        BY <1>6, <3>2, KindFacts
      <4>3. /\ R = table.unshifted /\ R \in SUBSET [1 .. 3 -> S]
            /\ RowsOf(t, out.table) = out.table.unshifted
            /\ TernaryAgrees(table)
        BY <1>1, <1>2, <1>6, <3>2, <4>2 DEF RowsOf, TableOK
      <4>4. Range(u.inserts) \in SUBSET [1 .. 3 -> S]
        BY <2>1, <2>3, <2>4, <4>2
      <4>5. /\ RowsApplied(table.unshifted, u, store, out.table.unshifted, out)
            /\ TernaryAgrees(out.table)
        <5>1. table.unshifted \in SUBSET [1 .. 3 -> S]
          BY <4>3
        <5>2. /\ TernaryAgrees(table)
          BY <4>3
        <5>3. PairOfLists(u) /\ Len(u.deletes) \in Nat /\ DOMAIN u.deletes = 1 .. Len(u.deletes)
          BY <2>2, <2>3
        <5> QED
          BY <4>1, <4>4, <5>1, <5>2, <5>3, TernaryApplyFacts
      <4> QED
        BY <3>2, <4>3, <4>5
    <3> QED
      BY <3>1, <3>2
  <2>6. PICK marked : marked = MarkErased(u.deletes, R)
    OBVIOUS
  <2>7. /\ RowsOf(t, out.table) = (R \ D) \cup I
        /\ out.store = AddRefs(store, I \ (R \ D))
        /\ out.updates = [deletes |-> marked, inserts |-> u.inserts]
    BY <2>3, <2>5, <2>6 DEF RowsApplied
  <2>8. Deletable(marked, S) /\ Range(marked) \ {ERASED} = D \cap R
    <3>1. PICK ds : ds = u.deletes /\ Len(ds) \in Nat /\ DOMAIN ds = 1 .. Len(ds)
      BY <2>3
    <3>2. marked = MarkErased(ds, R)
      BY <2>6, <3>1
    <3>3. /\ Len(marked) \in Nat /\ DOMAIN marked = 1 .. Len(marked)
          /\ Range(marked) \ {ERASED} = Range(ds) \cap R
          /\ \A k \in DOMAIN marked : marked[k] = ERASED \/ marked[k] \in R
          /\ \A j, k \in DOMAIN marked : marked[j] = marked[k] /\ marked[j] # ERASED => j = k
      BY <1>3, <3>1, <3>2, MarkErasedFacts
    <3>4. Deletable(marked, S)
      BY <1>4, <3>3
    <3> QED
      BY <2>3, <3>1, <3>3, <3>4
  <2>9. TableOK(t, out.table, S)
    <3>1. IsFiniteSet(RowsOf(t, out.table)) /\ RowsOf(t, out.table) \in SUBSET [1 .. Arity[t] -> S]
      <4>1. IsFiniteSet(R \ D)
        BY <1>2, FS_Subset
      <4>2. IsFiniteSet((R \ D) \cup I)
        BY <2>4, <4>1, FS_Union
      <4> QED
        BY <1>2, <2>1, <2>4, <2>7, <4>2
    <3> QED
      BY <1>6, <2>5, <3>1 DEF TableOK
  <2>10. PICK v : v = out.updates
    OBVIOUS
  <2>11. v.deletes = marked /\ v.inserts = u.inserts /\ PairOfLists(v)
    BY <2>7, <2>10 DEF PairOfLists
  <2>12. Drops(t, v, S) /\ Dropped(t, v) = D \cap R /\ InsertedRows(t, v) = I
    BY <1>6, <2>1, <2>2, <2>3, <2>8, <2>11
      DEF Drops, Dropped, UpdatesShaped, InsertsIn, MarkedRows, InsertedRows
  <2> QED
    BY <1>1, <2>1, <2>4, <2>7, <2>9, <2>10, <2>12 DEF TableApplied
<1> QED
  BY <1>5, <1>6

-----------------------------------------------------------------------------
(***************************************************************************)
(* The inductive invariant.  No property of the tables can be shown alone: *)
(* that the rows of a table are made of surrogates in use depends on the   *)
(* counts, which depend on what all tables refer to and still have to      *)
(* release, and on the phase that each is in: it has updates staged, it    *)
(* has applied them and not released what it dropped, or it is done.       *)
(***************************************************************************)
ModeOf(t, ph, td) ==
  IF ph \in {"staging", "checked"} \/ (ph = "applying" /\ t \in td) THEN "waiting"
  ELSE IF ph = "applying" \/ t \in td THEN "dropping" ELSE "done"

\* The references of a table to a surrogate, and those of all tables.
CountOf(t, table, u, mode, i) ==
  Uses(RowsOf(t, table), i) + Uses(IF mode = "dropping" THEN Dropped(t, u) ELSE {}, i)
CountsOf(tb, sg, ph, td, i) ==
  [t \in Table |-> CountOf(t, tb[t], sg[t], ModeOf(t, ph, td), i)]
Referred(st, tb, sg, ph, td) ==
  [i \in Slots(st.block) |-> Total(CountsOf(tb, sg, ph, td, i), Table)]

UpdatesOK(t, table, u, mode, S, K, O) ==
  /\ mode = "waiting" => Waits(t, table, u, K, O)
  /\ mode = "dropping" => Drops(t, u, S)
  /\ mode = "done" => u = NoUpdates[t]

Phased(v, tb, sg, ph, td) ==
  /\ ph \in {"staging", "checked", "applying", "finishing"} /\ td \in SUBSET Table
  /\ ph \in {"staging", "checked"} => td = {}
  /\ ph \in {"applying", "finishing"} => v = value_store_updates_init
  /\ tb = [t \in Table |-> tb[t]] /\ sg = [t \in Table |-> sg[t]]

TablesOK(st, v, tb, sg, ph, td) ==
  \A t \in Table :
    /\ TableOK(t, tb[t], Slots(st.block))
    /\ UpdatesOK(t, tb[t], sg[t], ModeOf(t, ph, td), Slots(st.block), Known(st, v), Occupied(st.block))

StateOK(st, v, tb, sg, ph, td, freeList) ==
  /\ Phased(v, tb, sg, ph, td)
  /\ TablesOK(st, v, tb, sg, ph, td)
  /\ Sound(st, Referred(st, tb, sg, ph, td), freeList, v)

IInv == \E freeList : StateOK(store, vsu, tables, staged, phase, todo, freeList)

-----------------------------------------------------------------------------
\* Nothing is staged at the start of an update.
LEMMA NoUpdatesFacts ==
  ASSUME NEW t \in Table, NEW table, NEW K, NEW O
  PROVE  /\ Waits(t, table, NoUpdates[t], K, O)
         /\ InsertedRows(t, NoUpdates[t]) = {} /\ DeletedRows(t, NoUpdates[t]) = {}
<1>1. PICK u : u = NoUpdates[t]
  OBVIOUS
<1>2. CASE t \in Unary
  <2>1. /\ u.capacity = 0 /\ u.deletes_count = 0 /\ u.inserts_count = 0 /\ u.buffer = << >>
        /\ u \in [capacity : Nat, deletes_count : Nat, inserts_count : Nat, buffer : Seq(Int)]
    BY <1>1, <1>2, EmptySeq DEF NoUpdates, unary_table_updates_init
  <2>2. BufferOK(u)
    BY <2>1 DEF BufferOK
  <2>3. UnaryDeletes(u) = << >> /\ UnaryInserts(u) = << >>
    <3>1. UnaryDeletes(u) \in Seq(Int) /\ Len(UnaryDeletes(u)) = 0
      BY <2>1, <2>2, BufferFacts
    <3>2. UnaryInserts(u) \in Seq(Int) /\ Len(UnaryInserts(u)) = 0
      BY <2>1, <2>2, BufferFacts
    <3> QED
      BY <3>1, <3>2, EmptySeq
  <2>4. Range(<< >>) = {} /\ Range(SingleRows(<< >>)) = {}
    BY DEF Range, SingleRows
  <2> QED
    BY <1>1, <1>2, <2>2, <2>3, <2>4
      DEF Waits, UpdatesShaped, InsertsIn, DeletesIn, InsertedRows, DeletedRows
<1>3. CASE t \notin Unary
  <2>1. u = [deletes |-> << >>, inserts |-> << >>]
    BY <1>1, <1>3 DEF NoUpdates, binary_table_updates_init, ternary_table_updates_init
  <2>2. u.deletes = << >> /\ u.inserts = << >> /\ PairOfLists(u)
    BY <2>1 DEF PairOfLists
  <2>3. Range(<< >>) = {}
    BY DEF Range
  <2> QED
    BY <1>1, <1>3, <2>2, <2>3, EmptySeq
      DEF Waits, UpdatesShaped, InsertsIn, DeletesIn, InsertedRows, DeletedRows
<1> QED
  BY <1>2, <1>3

\* What is staged with surrogates that are known stays so as more are.
LEMMA WaitsMore ==
  ASSUME NEW t \in Table, NEW table, NEW u, NEW K, NEW O, Waits(t, table, u, K, O),
         NEW K2, K \subseteq K2, NEW O2, O \subseteq O2
  PROVE  Waits(t, table, u, K2, O2)
<1>1. [1 .. Arity[t] -> K] \subseteq [1 .. Arity[t] -> K2]
  OBVIOUS
<1>2. InsertsIn(t, u, K2)
  <2>1. CASE t \in Unary
    BY <2>1 DEF Waits, InsertsIn
  <2>2. CASE t \notin Unary
    <3>1. PICK xs, A, B : xs = u.inserts /\ A = [1 .. Arity[t] -> K] /\ B = [1 .. Arity[t] -> K2]
      OBVIOUS
    <3>2. xs \in Seq(A) /\ A \subseteq B
      BY <1>1, <2>2, <3>1 DEF Waits, InsertsIn
    <3>3. xs \in Seq(B)
      BY <3>2, SeqMonotonic
    <3> QED
      BY <2>2, <3>1, <3>3 DEF InsertsIn
  <2> QED
    BY <2>1, <2>2
<1> QED
  BY <1>2 DEF Waits, DeletesIn

\* An addend is at most the sum, and the sum changes with it.
LEMMA TotalAtLeast ==
  ASSUME NEW S, NEW f, Summed(S, f), NEW x \in S
  PROVE  f[x] <= Total(f, S) /\ f[x] \in Nat /\ Total(f, S) \in Nat
<1>1. Total(f, S) = f[x] + Total(f, S \ {x}) /\ Total(f, S \ {x}) \in Nat /\ f[x] \in Nat
  BY TotalFacts DEF Summed
<1> QED
  BY <1>1

\* Replacing one addend replaces it in the sum.
LEMMA TotalChanges ==
  ASSUME NEW S, NEW f, Summed(S, f), NEW g, Summed(S, g), NEW x \in S,
         \A y \in S \ {x} : f[y] = g[y]
  PROVE  /\ Total(f, S) \in Nat /\ Total(g, S) \in Nat /\ f[x] \in Nat /\ g[x] \in Nat
         /\ Total(g, S) + f[x] = Total(f, S) + g[x]
<1>1. Total(f, S) = f[x] + Total(f, S \ {x}) /\ Total(f, S \ {x}) \in Nat
  BY TotalFacts
<1>2. Total(g, S) = g[x] + Total(g, S \ {x}) /\ Total(g, S \ {x}) \in Nat
  BY TotalFacts
<1>3. Total(f, S \ {x}) = Total(g, S \ {x})
  BY SameTotal
<1>4. f[x] \in Nat /\ g[x] \in Nat
  BY DEF Summed
<1> QED
  BY <1>1, <1>2, <1>3, <1>4

\* The references of a table are a number.
LEMMA CountNat ==
  ASSUME NEW t \in Table, NEW table, NEW u, NEW mode, NEW S, NEW K, NEW O,
         TableOK(t, table, S), UpdatesOK(t, table, u, mode, S, K, O), NEW i
  PROVE  /\ IsFiniteSet(RowsOf(t, table)) /\ Uses(RowsOf(t, table), i) \in Nat
         /\ mode = "dropping" => IsFiniteSet(Dropped(t, u)) /\ Uses(Dropped(t, u), i) \in Nat
         /\ CountOf(t, table, u, mode, i) \in Nat
         /\ CountOf(t, table, u, mode, i) =
              Uses(RowsOf(t, table), i) + IF mode = "dropping" THEN Uses(Dropped(t, u), i) ELSE 0
<1>1. IsFiniteSet(RowsOf(t, table)) /\ Uses(RowsOf(t, table), i) \in Nat
  BY UsesNat DEF TableOK
<1>2. CASE mode = "dropping"
  <2>1. Deletable(MarkedRows(t, u), S)
    BY <1>2 DEF UpdatesOK, Drops
  <2>2. IsFiniteSet(Dropped(t, u))
    BY <2>1, FirstRowsFacts DEF Dropped
  <2>3. Uses(Dropped(t, u), i) \in Nat
    BY <2>2, UsesNat
  <2> QED
    BY <1>1, <1>2, <2>2, <2>3 DEF CountOf
<1>3. CASE mode # "dropping"
  <2>1. Uses({}, i) = 0
    BY UsesNone
  <2> QED
    BY <1>1, <1>3, <2>1 DEF CountOf
<1> QED
  BY <1>2, <1>3

\* So they can be summed up.
LEMMA CountsSummed ==
  ASSUME NEW st, NEW v, NEW tb, NEW sg, NEW ph, NEW td, TablesOK(st, v, tb, sg, ph, td), NEW i
  PROVE  Summed(Table, CountsOf(tb, sg, ph, td, i))
<1>1. \A t \in Table : CountOf(t, tb[t], sg[t], ModeOf(t, ph, td), i) \in Nat
  BY CountNat DEF TablesOK
<1> QED
  BY <1>1, TableAssumption DEF Summed, CountsOf

\* What a table refers to is in use, and so is what it has to release.
LEMMA RowsStored ==
  ASSUME NEW st, NEW v, NEW tb, NEW sg, NEW ph, NEW td, NEW freeList,
         StateOK(st, v, tb, sg, ph, td, freeList), NEW t \in Table,
         NEW row \in RowsOf(t, tb[t]) \cup
                     (IF ModeOf(t, ph, td) = "dropping" THEN Dropped(t, sg[t]) ELSE {})
  PROVE  /\ RowLike(row, Slots(st.block))
         /\ \A c \in DOMAIN row : /\ row[c] \in Occupied(st.block)
                                  /\ st.ref_counts[row[c]] >= Total(CountsOf(tb, sg, ph, td, row[c]), Table)
                                  /\ Referred(st, tb, sg, ph, td)[row[c]] > 0
<1>1. PICK mode, table, u : mode = ModeOf(t, ph, td) /\ table = tb[t] /\ u = sg[t]
  OBVIOUS
<1>2. /\ TableOK(t, table, Slots(st.block))
      /\ UpdatesOK(t, table, u, mode, Slots(st.block), Known(st, v), Occupied(st.block))
  BY <1>1 DEF StateOK, TablesOK
<1>3. RowLike(row, Slots(st.block))
  <2>1. CASE row \in RowsOf(t, table)
    BY <1>2, <2>1, KindFacts DEF TableOK, RowLike
  <2>2. CASE row \in Dropped(t, u) /\ mode = "dropping"
    <3>1. Deletable(MarkedRows(t, u), Slots(st.block))
      BY <1>2, <2>2 DEF UpdatesOK, Drops
    <3> QED
      BY <2>2, <3>1 DEF Dropped, Deletable, Range
  <2> QED
    BY <1>1, <2>1, <2>2
<1>4. ASSUME NEW c \in DOMAIN row
      PROVE  /\ row[c] \in Occupied(st.block)
             /\ st.ref_counts[row[c]] >= Total(CountsOf(tb, sg, ph, td, row[c]), Table)
             /\ Referred(st, tb, sg, ph, td)[row[c]] > 0
  <2>1. row[c] \in Slots(st.block) /\ c \in 1 .. 3
    BY <1>3, <1>4 DEF RowLike
  <2>2. PICK i : i = row[c] /\ i \in Slots(st.block)
    BY <2>1
  <2>3. CountOf(t, table, u, mode, i) > 0
    <3>1. /\ IsFiniteSet(RowsOf(t, table)) /\ Uses(RowsOf(t, table), i) \in Nat
          /\ mode = "dropping" => IsFiniteSet(Dropped(t, u)) /\ Uses(Dropped(t, u), i) \in Nat
          /\ CountOf(t, table, u, mode, i) =
               Uses(RowsOf(t, table), i) + IF mode = "dropping" THEN Uses(Dropped(t, u), i) ELSE 0
      BY <1>2, CountNat
    <3>2. CASE row \in RowsOf(t, table)
      <4>1. Uses(RowsOf(t, table), i) > 0
        BY <1>4, <2>1, <2>2, <3>1, <3>2, UsesSome
      <4> QED
        BY <3>1, <4>1
    <3>3. CASE row \in Dropped(t, u) /\ mode = "dropping"
      <4>1. Uses(Dropped(t, u), i) > 0
        BY <1>4, <2>1, <2>2, <3>1, <3>3, UsesSome
      <4> QED
        BY <3>1, <3>3, <4>1
    <3> QED
      BY <1>1, <3>2, <3>3
  <2>4. PICK f : f = CountsOf(tb, sg, ph, td, i)
    OBVIOUS
  <2>5. Summed(Table, f) /\ f[t] = CountOf(t, table, u, mode, i)
    <3>1. TablesOK(st, v, tb, sg, ph, td)
      BY DEF StateOK
    <3> QED
      BY <1>1, <2>4, <3>1, CountsSummed DEF CountsOf
  <2>6. f[t] <= Total(f, Table) /\ f[t] \in Nat /\ Total(f, Table) \in Nat
    BY <2>5, TotalAtLeast
  <2>7. PICK held : held = Referred(st, tb, sg, ph, td)
    OBVIOUS
  <2>11. held[i] = Total(f, Table)
    BY <2>2, <2>4, <2>7 DEF Referred
  <2>12. held[i] > 0
    BY <2>3, <2>5, <2>6, <2>11
  <2>8. RefsCovered(st, held)
    BY <2>7 DEF StateOK, Sound, StoreOK
  <2>9. ~ IsBlank(st.block, i) /\ held[i] <= st.ref_counts[i]
    BY <2>2, <2>8, <2>12 DEF RefsCovered
  <2>10. st.ref_counts[i] \in Nat
    <3>1. StoreTyped(st, held, freeList)
      BY <2>7 DEF StateOK, Sound, StoreOK
    <3> QED
      BY <2>2, <3>1 DEF StoreTyped, Store, Slots
  <2> QED
    BY <2>2, <2>4, <2>6, <2>7, <2>9, <2>10, <2>11, <2>12 DEF Occupied
<1> QED
  BY <1>3, <1>4

-----------------------------------------------------------------------------
(***************************************************************************)
(* The steps before an update is applied.  They leave the tables and the   *)
(* store alone, so all there is to show is that what is staged is made of  *)
(* surrogates that exist or have been promised.                            *)
(***************************************************************************)

\* What stays true of the tables while only the staged rows change.
LEMMA WaitingStep ==
  ASSUME NEW st, NEW v, NEW tb, NEW sg, NEW ph \in {"staging", "checked"}, NEW td, NEW fl,
         StateOK(st, v, tb, sg, ph, td, fl),
         NEW v2, Sound(st, Referred(st, tb, sg, ph, td), fl, v2),
         NEW sg2, sg2 = [t \in Table |-> sg2[t]], NEW ph2 \in {"staging", "checked"},
         \A t \in Table : Waits(t, tb[t], sg2[t], Known(st, v2), Occupied(st.block))
  PROVE  StateOK(st, v2, tb, sg2, ph2, td, fl)
<1>1. \A t \in Table : ModeOf(t, ph, td) = "waiting" /\ ModeOf(t, ph2, td) = "waiting"
  BY DEF ModeOf
<1>2. ASSUME NEW i
      PROVE  CountsOf(tb, sg2, ph2, td, i) = CountsOf(tb, sg, ph, td, i)
  <2>1. ASSUME NEW t \in Table
        PROVE  CountOf(t, tb[t], sg2[t], ModeOf(t, ph2, td), i) =
                 CountOf(t, tb[t], sg[t], ModeOf(t, ph, td), i)
    BY <1>1 DEF CountOf
  <2> QED
    BY <2>1 DEF CountsOf
<1>3. Referred(st, tb, sg2, ph2, td) = Referred(st, tb, sg, ph, td)
  BY <1>2 DEF Referred
<1>4. Phased(v2, tb, sg2, ph2, td)
  <2>1. Phased(v, tb, sg, ph, td)
    BY DEF StateOK
  <2> QED
    BY <2>1 DEF Phased
<1>5. TablesOK(st, v2, tb, sg2, ph2, td)
  <2>1. TablesOK(st, v, tb, sg, ph, td)
    BY DEF StateOK
  <2> QED
    BY <1>1, <2>1 DEF TablesOK, UpdatesOK
<1> QED
  BY <1>3, <1>4, <1>5 DEF StateOK

\* Of the updates of one table.
LEMMA StagingStep ==
  ASSUME NEW st, NEW v, NEW tb, NEW sg, NEW td, NEW fl,
         StateOK(st, v, tb, sg, "staging", td, fl),
         NEW v2, Sound(st, Referred(st, tb, sg, "staging", td), fl, v2),
         Known(st, v) \subseteq Known(st, v2),
         NEW t \in Table, NEW u2, Waits(t, tb[t], u2, Known(st, v2), Occupied(st.block)),
         NEW sg2, sg2 = [sg EXCEPT ![t] = u2]
  PROVE  StateOK(st, v2, tb, sg2, "staging", td, fl)
<1>1. sg = [x \in Table |-> sg[x]]
  BY DEF StateOK, Phased
<1>2. sg2 = [x \in Table |-> sg2[x]] /\ sg2[t] = u2 /\ \A x \in Table \ {t} : sg2[x] = sg[x]
  BY <1>1
<1>3. ASSUME NEW x \in Table
      PROVE  Waits(x, tb[x], sg2[x], Known(st, v2), Occupied(st.block))
  <2>1. CASE x = t
    BY <1>2, <2>1
  <2>2. CASE x # t
    <3>1. PICK tab, u, K, K2, O : /\ tab = tb[x] /\ u = sg[x] /\ K = Known(st, v)
                                  /\ K2 = Known(st, v2) /\ O = Occupied(st.block)
      OBVIOUS
    <3>2. Waits(x, tab, u, K, O)
      BY <3>1 DEF StateOK, TablesOK, UpdatesOK, ModeOf
    <3>3. K \subseteq K2
      BY <3>1
    <3>4. Waits(x, tab, u, K2, O)
      BY <3>2, <3>3, WaitsMore
    <3> QED
      BY <1>2, <2>2, <3>1, <3>4
  <2> QED
    BY <2>1, <2>2
<1> QED
  BY <1>2, <1>3, WaitingStep

\* What is known of the updates of a table while rows are being staged.
LEMMA StagedWaits ==
  ASSUME NEW st, NEW v, NEW tb, NEW sg, NEW ph \in {"staging", "checked"}, NEW td, NEW fl,
         StateOK(st, v, tb, sg, ph, td, fl), NEW t \in Table
  PROVE  /\ Waits(t, tb[t], sg[t], Known(st, v), Occupied(st.block))
         /\ TableOK(t, tb[t], Occupied(st.block)) /\ Occupied(st.block) \in SUBSET Slots(st.block)
         /\ Slots(st.block) \in SUBSET Nat /\ Known(st, v) \in SUBSET Nat
<1>1. PICK mode : mode = ModeOf(t, ph, td) /\ mode = "waiting"
  BY DEF ModeOf
<1>2. /\ TableOK(t, tb[t], Slots(st.block))
      /\ Waits(t, tb[t], sg[t], Known(st, v), Occupied(st.block))
  BY <1>1 DEF StateOK, TablesOK, UpdatesOK
<1>3. Occupied(st.block) \in SUBSET Slots(st.block) /\ Slots(st.block) \in SUBSET Nat
  BY DEF Occupied, Slots
<1>4. Known(st, v) \in SUBSET Nat
  <2>1. PICK held : Sound(st, held, fl, v)
    BY DEF StateOK
  <2>2. \A k \in 1 .. v.count : v.surrs[k] \in Nat
    BY <2>1, StagedFacts
  <2> QED
    BY <1>3, <2>2 DEF Known
<1>5. TableOK(t, tb[t], Occupied(st.block))
  <2>1. PICK table, R, n : table = tb[t] /\ R = RowsOf(t, table) /\ n = Arity[t]
    OBVIOUS
  <2>2. ASSUME NEW row \in R
        PROVE  row \in [1 .. n -> Occupied(st.block)]
    <3>1. row \in [1 .. n -> Slots(st.block)]
      BY <1>2, <2>1, <2>2 DEF TableOK
    <3>2. \A c \in DOMAIN row : row[c] \in Occupied(st.block)
      BY <2>1, <2>2, RowsStored
    <3> QED
      BY <3>1, <3>2
  <2>3. ASSUME t \in Unary, NEW i \in table.bitmap
        PROVE  i \in Occupied(st.block)
    <3>1. <<i>> \in R /\ n = 1
      BY <2>1, <2>3, KindFacts DEF RowsOf, UnaryRows
    <3>2. <<i>> \in [1 .. 1 -> Occupied(st.block)]
      BY <2>2, <3>1
    <3>3. <<i>>[1] \in Occupied(st.block)
      BY <3>2
    <3> QED
      BY <3>3
  <2> QED
    BY <1>2, <2>1, <2>2, <2>3 DEF TableOK
<1> QED
  BY <1>2, <1>3, <1>4, <1>5

-----------------------------------------------------------------------------
\* A sum of zeros.
LEMMA TotalNothing ==
  ASSUME NEW S, NEW f, \A x \in S : f[x] = 0
  PROVE  Total(f, S) = 0
<1>1. Units(f, S) = {}
  BY DEF Units
<1> QED
  BY <1>1, FS_EmptySet DEF Total

\* Nothing is stored and nothing is staged.
LEMMA InitKeeps == Init => IInv
<1> SUFFICES ASSUME Init
             PROVE  IInv
  OBVIOUS
<1>1. /\ store = value_store_init /\ vsu = value_store_updates_init
      /\ tables = [t \in Table |-> tables[t]] /\ staged = NoUpdates
      /\ phase = "staging" /\ todo = {}
  BY DEF Init
<1>2. /\ \A t \in Unary : tables[t] = unary_table_init
      /\ \A t \in Table : t \in Binary => tables[t] = binary_table_init
      /\ \A t \in Table : t \in Ternary => tables[t] = ternary_table_init
  BY KindFacts DEF Init
<1>3. ASSUME NEW t \in Table
      PROVE  /\ RowsOf(t, tables[t]) = {}
             /\ t \in Unary => /\ tables[t].size = BITMAP_SIZE /\ tables[t].bitmap = {}
                               /\ tables[t].count = 0
             /\ t \in Binary => BinaryAgrees(tables[t])
             /\ t \in Ternary => TernaryAgrees(tables[t])
  <2>1. CASE t \in Unary
    BY <1>2, <2>1, KindFacts DEF RowsOf, UnaryRows, unary_table_init
  <2>2. CASE t \in Binary
    <3>1. tables[t].left_to_right = {} /\ tables[t].right_to_left = {}
      BY <1>2, <2>2 DEF binary_table_init
    <3> QED
      BY <2>2, <3>1, KindFacts DEF RowsOf, BinaryAgrees
  <2>3. CASE t \in Ternary
    <3>1. /\ tables[t].unshifted = {} /\ tables[t].shifted_once = {}
          /\ tables[t].shifted_twice = {}
      BY <1>2, <2>3 DEF ternary_table_init
    <3> QED
      BY <2>3, <3>1, KindFacts DEF RowsOf, TernaryAgrees
  <2> QED
    BY <2>1, <2>2, <2>3, KindFacts
<1>4. ASSUME NEW t \in Table
      PROVE  TableOK(t, tables[t], Slots(store.block))
  <2>1. IsFiniteSet({}) /\ Cardinality({}) = 0
    BY FS_EmptySet
  <2> QED
    BY <1>3, <2>1 DEF TableOK
<1>5. TablesOK(store, vsu, tables, staged, phase, todo)
  <2>1. \A t \in Table : ModeOf(t, phase, todo) = "waiting"
    BY <1>1 DEF ModeOf
  <2> QED
    BY <1>1, <1>4, <2>1, NoUpdatesFacts DEF TablesOK, UpdatesOK
<1>6. Phased(vsu, tables, staged, phase, todo)
  <2>1. staged = [t \in Table |-> staged[t]]
    BY <1>1 DEF NoUpdates
  <2> QED
    BY <1>1, <2>1 DEF Phased
<1>7. PICK held, fl : held = [i \in 0 .. INIT_SIZE - 1 |-> 0] /\ fl = [i \in 1 .. INIT_SIZE |-> i - 1]
  OBVIOUS
<1>8. StoreOK(store, held, fl)
  BY <1>1, <1>7, StoreInitOK
<1>9. Sound(store, held, fl, vsu)
  BY <1>1, <1>8, UpdatesInitOK, HashInit, HashUpdatesInit DEF Sound
<1>10. held = Referred(store, tables, staged, phase, todo)
  <2>1. Slots(store.block) = 0 .. INIT_SIZE - 1
    <3>1. held \in [Slots(store.block) -> Nat]
      BY <1>8 DEF StoreOK, StoreTyped
    <3> QED
      BY <1>7, <3>1
  <2>2. ASSUME NEW i
        PROVE  Total(CountsOf(tables, staged, phase, todo, i), Table) = 0
    <3>1. PICK f : f = CountsOf(tables, staged, phase, todo, i)
      OBVIOUS
    <3>2. \A t \in Table : f[t] = 0
      <4>1. Uses({}, i) = 0
        BY UsesNone
      <4>2. ASSUME NEW t \in Table
            PROVE  f[t] = 0
        <5>1. ModeOf(t, phase, todo) = "waiting"
          BY <1>1 DEF ModeOf
        <5>2. f[t] = Uses(RowsOf(t, tables[t]), i) + Uses({}, i)
          BY <3>1, <5>1 DEF CountsOf, CountOf
        <5> QED
          BY <1>3, <4>1, <5>2
      <4> QED
        BY <4>2
    <3> QED
      BY <3>1, <3>2, TotalNothing
  <2> QED
    BY <1>7, <2>1, <2>2 DEF Referred
<1> QED
  BY <1>5, <1>6, <1>9, <1>10 DEF IInv, StateOK

\* insert, of a row whose values may be new to the store.
LEMMA InsertRowKeeps ==
  ASSUME IInv, NEW t \in Table, NEW values \in RowOfValues(t), InsertRow(t, values)
  PROVE  IInv'
<1>1. PICK fl : StateOK(store, vsu, tables, staged, phase, todo, fl)
  BY DEF IInv
<1>2. PICK in : in = InternRow(store, vsu, values)
  OBVIOUS
<1>3. /\ phase = "staging" /\ vsu' = in.updates
      /\ staged' = [staged EXCEPT ![t] = Inserted(t, @, in.row)]
      /\ store' = store /\ tables' = tables /\ phase' = phase /\ todo' = todo
  BY <1>2 DEF InsertRow
<1>4. PICK v2, u, K2, table, n : /\ v2 = in.updates /\ u = staged[t] /\ K2 = Known(store, v2)
                                 /\ table = tables[t] /\ n = Arity[t]
  OBVIOUS
<1>5. PICK held : /\ held = Referred(store, tables, staged, "staging", todo)
                  /\ Sound(store, held, fl, vsu)
  BY <1>1, <1>3 DEF StateOK
<1>6. n \in Nat /\ values \in [1 .. n -> Value]
  BY <1>4, KindFacts DEF RowOfValues
<1>7. /\ Sound(store, held, fl, v2) /\ Extends(store, vsu, v2)
      /\ in.row \in [1 .. n -> K2]
  BY <1>2, <1>4, <1>5, <1>6, InternRowKeeps
<1>8. Known(store, vsu) \subseteq K2
  BY <1>4, <1>7 DEF Extends
<1>9. Waits(t, table, u, K2, Occupied(store.block))
  BY <1>1, <1>3, <1>4, <1>8, StagedWaits, WaitsMore
<1>10. K2 \in SUBSET Nat
  <2>1. \A k \in 1 .. v2.count : v2.surrs[k] \in Nat
    BY <1>7, StagedFacts
  <2>2. Occupied(store.block) \in SUBSET Nat
    BY DEF Occupied, Slots
  <2> QED
    BY <1>4, <2>1, <2>2 DEF Known
<1>11. PICK u2, row : u2 = Inserted(t, u, row) /\ row = in.row
  OBVIOUS
<1>12. row \in [1 .. Arity[t] -> K2]
  BY <1>4, <1>7, <1>11
<1>13. Waits(t, table, u2, K2, Occupied(store.block))
  BY <1>9, <1>10, <1>11, <1>12, InsertedFacts
<1>14. staged' = [staged EXCEPT ![t] = u2]
  BY <1>3, <1>4, <1>11
<1>15. StateOK(store, v2, tables, staged', "staging", todo, fl)
  BY <1>1, <1>3, <1>4, <1>5, <1>7, <1>8, <1>13, <1>14, StagingStep
<1> QED
  BY <1>3, <1>4, <1>15 DEF IInv

\* What looking up a row of values yields.
LEMMA LookupRowFacts ==
  ASSUME NEW held, NEW fl, StoreOK(store, held, fl), StoreKeyed(store),
         NEW n, NEW values \in [1 .. n -> Value]
  PROVE  /\ LookupRow(store, values) = [i \in 1 .. n |-> lookup_value(store, values[i])]
         /\ Found(LookupRow(store, values)) =>
              /\ LookupRow(store, values) \in [1 .. n -> Occupied(store.block)]
              /\ \A i \in 1 .. n : store.block.slots[LookupRow(store, values)[i]] = values[i]
         /\ ~ Found(LookupRow(store, values)) =>
              \E i \in 1 .. n : \A s \in Occupied(store.block) : store.block.slots[s] # values[i]
<1>1. LookupRow(store, values) = [i \in 1 .. n |-> lookup_value(store, values[i])]
  BY DEF LookupRow
<1>2. ASSUME NEW i \in 1 .. n
      PROVE  \/ /\ lookup_value(store, values[i]) \in Occupied(store.block)
                /\ store.block.slots[lookup_value(store, values[i])] = values[i]
             \/ /\ lookup_value(store, values[i]) = -1
                /\ \A s \in Occupied(store.block) : store.block.slots[s] # values[i]
  <2>1. PICK value \in Value : value = values[i]
    OBVIOUS
  <2> QED
    BY <2>1, LookupValue
<1>3. -1 \notin Occupied(store.block)
  BY DEF Occupied, Slots
<1> QED
  BY <1>1, <1>2, <1>3 DEF Found

\* delete, of a row whose values are all stored.
LEMMA DeleteRowKeeps ==
  ASSUME IInv, NEW t \in Table, NEW values \in RowOfValues(t), DeleteRow(t, values)
  PROVE  IInv'
<1>1. PICK fl : StateOK(store, vsu, tables, staged, phase, todo, fl)
  BY DEF IInv
<1>2. PICK row : row = LookupRow(store, values)
  OBVIOUS
<1>3. /\ phase = "staging" /\ vsu' = vsu /\ Found(row)
      /\ staged' = [staged EXCEPT ![t] = Deleted(t, @, row)]
      /\ store' = store /\ tables' = tables /\ phase' = phase /\ todo' = todo
  BY <1>2 DEF DeleteRow
<1>4. PICK u, K, O, table, u2 : /\ u = staged[t] /\ K = Known(store, vsu) /\ O = Occupied(store.block)
                                /\ table = tables[t] /\ u2 = Deleted(t, u, row)
  OBVIOUS
<1>5. PICK held : /\ held = Referred(store, tables, staged, "staging", todo)
                  /\ Sound(store, held, fl, vsu)
  BY <1>1, <1>3 DEF StateOK
<1>6. Waits(t, table, u, K, O) /\ O \in SUBSET Nat
  BY <1>1, <1>3, <1>4, StagedWaits
<1>7. row \in [1 .. Arity[t] -> O]
  BY <1>2, <1>3, <1>4, <1>5, LookupRowFacts DEF Sound, RowOfValues
<1>8. Waits(t, table, u2, K, O)
  BY <1>4, <1>6, <1>7, DeletedFacts
<1>9. staged' = [staged EXCEPT ![t] = u2]
  BY <1>3, <1>4
<1>10. StateOK(store, vsu, tables, staged', "staging", todo, fl)
  BY <1>1, <1>3, <1>4, <1>5, <1>8, <1>9, StagingStep
<1> QED
  BY <1>3, <1>10 DEF IInv

\* delete_by, of the rows with some stored values.
LEMMA DeleteByKeeps ==
  ASSUME IInv, NEW t \in Table, NEW K \in ColumnsOf[t], NEW values \in [DOMAIN K -> Value],
         DeleteBy(t, K, values)
  PROVE  IInv'
<1>1. PICK fl : StateOK(store, vsu, tables, staged, phase, todo, fl)
  BY DEF IInv
<1>2. PICK k : k = LookupRow(store, values)
  OBVIOUS
<1>3. /\ phase = "staging" /\ vsu' = vsu
      /\ staged' = [staged EXCEPT ![t] = RangeDeleted(t, @, K, k)]
      /\ store' = store /\ tables' = tables /\ phase' = phase /\ todo' = todo
  BY <1>2 DEF DeleteBy
<1>4. PICK u, I, O, table, u2 : /\ u = staged[t] /\ I = Known(store, vsu) /\ O = Occupied(store.block)
                                /\ table = tables[t] /\ u2 = RangeDeleted(t, u, K, k)
  OBVIOUS
<1>5. PICK held : /\ held = Referred(store, tables, staged, "staging", todo)
                  /\ Sound(store, held, fl, vsu)
  BY <1>1, <1>3 DEF StateOK
<1>6. Waits(t, table, u, I, O) /\ O \in SUBSET Nat /\ TableOK(t, table, O)
  BY <1>1, <1>3, <1>4, StagedWaits
<1>7. t \notin Unary
  BY DEF ColumnsOf
<1>8. DOMAIN k = DOMAIN K /\ k = [i \in DOMAIN k |-> k[i]]
  BY <1>2 DEF LookupRow
<1>9. Waits(t, table, u2, I, O)
  BY <1>4, <1>6, <1>7, <1>8, RangeFacts
<1>10. staged' = [staged EXCEPT ![t] = u2]
  BY <1>3, <1>4
<1>11. StateOK(store, vsu, tables, staged', "staging", todo, fl)
  BY <1>1, <1>3, <1>4, <1>5, <1>9, <1>10, StagingStep
<1> QED
  BY <1>3, <1>11 DEF IInv

-----------------------------------------------------------------------------
(***************************************************************************)
(* Setting a table to a relation, row by row.                              *)
(***************************************************************************)
SetCleared(t) == [vsu |-> vsu, updates |-> Cleared(t, staged[t])]
SetAnother(t, x, values) ==
  [vsu |-> InternRow(store, x.vsu, values).updates,
   updates |-> Inserted(t, x.updates, InternRow(store, x.vsu, values).row)]

\* The loop over the rows of the relation exists.
LEMMA RowsSetSteps ==
  ASSUME NEW t, NEW relation, Len(relation) \in Nat
  PROVE  \E r : /\ r[0] = SetCleared(t) /\ RowsSet(t, relation) = r[Len(relation)]
                /\ \A k \in Nat : k < Len(relation) => r[k + 1] = SetAnother(t, r[k], relation[k + 1])
<1> DEFINE Loop(r, n) == r = [k \in 0 .. n |-> IF k = 0 THEN SetCleared(t) ELSE SetAnother(t, r[k - 1], relation[k])]
           N == {n \in Nat : \E r : Loop(r, n)}
           loop == CHOOSE r : Loop(r, Len(relation))
<1>1. 0 \in N
  <2>1. Loop([k \in 0 .. 0 |-> SetCleared(t)], 0)
    OBVIOUS
  <2> HIDE DEF Loop
  <2> QED
    BY <2>1
<1>2. ASSUME NEW n \in N, n \in Nat PROVE n + 1 \in N
  <2>1. PICK r : Loop(r, n)
    BY <1>2
  <2> DEFINE q == [k \in 0 .. n + 1 |-> IF k = n + 1 THEN SetAnother(t, r[n], relation[n + 1]) ELSE r[k]]
  <2>2. \A k \in 0 .. n : r[k] = IF k = 0 THEN SetCleared(t) ELSE SetAnother(t, r[k - 1], relation[k])
    BY <2>1
  <2>3. ASSUME NEW k \in 0 .. n + 1
        PROVE  q[k] = IF k = 0 THEN SetCleared(t) ELSE SetAnother(t, q[k - 1], relation[k])
    <3>1. CASE k = n + 1
      <4>1. k - 1 = n /\ k # 0 /\ n \in 0 .. n + 1 /\ n # n + 1
        BY <1>2, <3>1
      <4>2. q[k] = SetAnother(t, r[n], relation[n + 1]) /\ q[n] = r[n]
        BY <3>1, <4>1
      <4> QED
        BY <3>1, <4>1, <4>2
    <3>2. CASE k # n + 1
      <4>1. k \in 0 .. n /\ q[k] = r[k]
        BY <1>2, <3>2
      <4>2. CASE k = 0
        BY <2>2, <4>1, <4>2
      <4>3. CASE k # 0
        <5>1. k - 1 \in 0 .. n + 1 /\ k - 1 # n + 1
          BY <1>2, <4>1, <4>3
        <5>2. q[k - 1] = r[k - 1]
          BY <5>1
        <5> QED
          BY <2>2, <4>1, <4>3, <5>2
      <4> QED
        BY <4>2, <4>3
    <3> QED
      BY <3>1, <3>2
  <2>4. Loop(q, n + 1)
    <3>1. q = [k \in 0 .. n + 1 |-> q[k]]
      OBVIOUS
    <3> HIDE DEF q
    <3> QED
      BY <2>3, <3>1
  <2> HIDE DEF Loop, q
  <2> QED
    BY <1>2, <2>4
<1>3. \E r : Loop(r, Len(relation))
  <2>1. Nat \subseteq N
    <3> HIDE DEF N
    <3> QED
      BY <1>1, <1>2, SetInduction
  <2> QED
    BY <2>1
<1>4. RowsSet(t, relation) = loop[Len(relation)]
  BY DEF RowsSet, SetAnother, SetCleared
<1>5. Loop(loop, Len(relation))
  <2> HIDE DEF Loop
  <2> QED
    BY <1>3
<1>6. \A k \in 0 .. Len(relation) : loop[k] = IF k = 0 THEN SetCleared(t) ELSE SetAnother(t, loop[k - 1], relation[k])
  <2> HIDE DEF loop
  <2> QED
    BY <1>5
<1> HIDE DEF loop, Loop
<1>7. ASSUME NEW k \in Nat, k < Len(relation) PROVE loop[k + 1] = SetAnother(t, loop[k], relation[k + 1])
  <2>1. k + 1 \in 0 .. Len(relation) /\ k + 1 # 0 /\ (k + 1) - 1 = k
    BY <1>7
  <2> QED
    BY <1>6, <2>1
<1> QED
  BY <1>4, <1>6, <1>7

\* The rows of values that some rows of surrogates stand for.
Stands(st, v, row) == [i \in DOMAIN row |-> Denotes(st, v, row[i])]
Meaning(st, v, rows) == {Stands(st, v, row) : row \in rows}

\* They keep their meaning while more surrogates are promised.
LEMMA MeaningKept ==
  ASSUME NEW st, NEW v, NEW v2, Extends(st, v, v2), NEW n,
         NEW rows \in SUBSET [1 .. n -> Known(st, v)]
  PROVE  /\ \A row \in rows : Stands(st, v2, row) = Stands(st, v, row)
         /\ Meaning(st, v2, rows) = Meaning(st, v, rows)
<1>1. ASSUME NEW row \in rows
      PROVE  Stands(st, v2, row) = Stands(st, v, row)
  <2>1. \A i \in DOMAIN row : row[i] \in Known(st, v)
    BY <1>1
  <2>2. \A i \in DOMAIN row : Denotes(st, v2, row[i]) = Denotes(st, v, row[i])
    BY <2>1 DEF Extends
  <2> QED
    BY <2>2 DEF Stands
<1> QED
  BY <1>1 DEF Meaning

\* The rows staged for a table are made of the surrogates its inserts are.
LEMMA InsertsTyped ==
  ASSUME NEW t \in Table, NEW u, NEW K, UpdatesShaped(t, u), InsertsIn(t, u, K)
  PROVE  InsertedRows(t, u) \in SUBSET [1 .. Arity[t] -> K]
<1>1. CASE t \in Unary
  <2>1. BufferOK(u) /\ Range(UnaryInserts(u)) \in SUBSET K
    BY <1>1 DEF UpdatesShaped, InsertsIn
  <2>2. InsertedRows(t, u) = {<<value>> : value \in Range(UnaryInserts(u))}
    BY <1>1, <2>1, SingleFacts DEF InsertedRows
  <2>3. Arity[t] = 1 /\ \A x \in K : <<x>> \in [1 .. 1 -> K]
    BY <1>1, KindFacts, SingleRow
  <2> QED
    BY <2>1, <2>2, <2>3
<1>2. CASE t \notin Unary
  <2>1. PICK T, xs : T = [1 .. Arity[t] -> K] /\ xs = u.inserts
    OBVIOUS
  <2>2. xs \in Seq(T) /\ InsertedRows(t, u) = Range(xs)
    BY <1>2, <2>1 DEF InsertsIn, InsertedRows
  <2>3. \A k \in DOMAIN xs : xs[k] \in T
    BY <2>2
  <2> QED
    BY <2>1, <2>2, <2>3 DEF Range
<1> QED
  BY <1>1, <1>2

\* So they are while they wait.
LEMMA InsertedTyped ==
  ASSUME NEW t \in Table, NEW table, NEW u, NEW K, NEW O, Waits(t, table, u, K, O)
  PROVE  InsertedRows(t, u) \in SUBSET [1 .. Arity[t] -> K]
<1>1. UpdatesShaped(t, u) /\ InsertsIn(t, u, K)
  BY DEF Waits
<1> QED
  BY <1>1, InsertsTyped

\* The rows a table's updates insert are made of members of X.
TypedIn(t, u, X) == UpdatesShaped(t, u) /\ InsertedRows(t, u) \in SUBSET [1 .. Arity[t] -> X]

\* So are they at every phase of an update.
LEMMA StagedTyped ==
  ASSUME NEW t \in Table, NEW table, NEW u, NEW mode \in {"waiting", "dropping", "done"},
         NEW S, NEW K, NEW O, UpdatesOK(t, table, u, mode, S, K, O),
         NEW X, S \subseteq X, K \subseteq X
  PROVE  TypedIn(t, u, X)
<1> SUFFICES UpdatesShaped(t, u) /\ InsertedRows(t, u) \in SUBSET [1 .. Arity[t] -> X]
  BY DEF TypedIn
<1>1. CASE mode = "waiting"
  <2>1. Waits(t, table, u, K, O)
    BY <1>1 DEF UpdatesOK
  <2>2. UpdatesShaped(t, u) /\ InsertedRows(t, u) \in SUBSET [1 .. Arity[t] -> K]
    BY <2>1, InsertedTyped DEF Waits
  <2> QED
    BY <2>2
<1>2. CASE mode = "dropping"
  <2>1. UpdatesShaped(t, u) /\ InsertsIn(t, u, S)
    BY <1>2 DEF UpdatesOK, Drops
  <2>2. InsertedRows(t, u) \in SUBSET [1 .. Arity[t] -> S]
    BY <2>1, InsertsTyped
  <2> QED
    BY <2>1, <2>2
<1>3. CASE mode = "done"
  <2>1. u = NoUpdates[t]
    BY <1>3 DEF UpdatesOK
  <2>2. Waits(t, table, NoUpdates[t], K, O) /\ InsertedRows(t, NoUpdates[t]) = {}
    BY NoUpdatesFacts
  <2> QED
    BY <2>1, <2>2 DEF Waits
<1> QED
  BY <1>1, <1>2, <1>3

\* The first k rows have been set.
SetSo(t, relation, held, fl, x, k) ==
  /\ Sound(store, held, fl, x.vsu) /\ Extends(store, vsu, x.vsu)
  /\ Waits(t, tables[t], x.updates, Known(store, x.vsu), Occupied(store.block))
  /\ DeletedRows(t, x.updates) = DeletedRows(t, staged[t]) \cup RowsOf(t, tables[t])
  /\ Meaning(store, x.vsu, InsertedRows(t, x.updates)) =
       Meaning(store, vsu, InsertedRows(t, staged[t])) \cup {relation[j] : j \in 1 .. k}

\* Then the next one is.
LEMMA SetStep ==
  ASSUME NEW t \in Table, NEW relation, NEW held, NEW fl, NEW x, NEW k \in Nat,
         SetSo(t, relation, held, fl, x, k), relation[k + 1] \in RowOfValues(t),
         NEW x2, x2 = SetAnother(t, x, relation[k + 1])
  PROVE  SetSo(t, relation, held, fl, x2, k + 1)
<1>1. PICK values, v, u, in, v2, row, u2 :
        /\ values = relation[k + 1] /\ v = x.vsu /\ u = x.updates
        /\ in = InternRow(store, v, values) /\ v2 = in.updates /\ row = in.row
        /\ u2 = Inserted(t, u, row)
  OBVIOUS
<1>2. x2.vsu = v2 /\ x2.updates = u2
  BY <1>1 DEF SetAnother
<1>3. PICK table, O, n, K, K2 : /\ table = tables[t] /\ O = Occupied(store.block) /\ n = Arity[t]
                                /\ K = Known(store, v) /\ K2 = Known(store, v2)
  OBVIOUS
<1>4. Sound(store, held, fl, v) /\ Extends(store, vsu, v) /\ Waits(t, table, u, K, O)
  BY <1>1, <1>3 DEF SetSo
<1>5. n \in Nat /\ values \in [1 .. n -> Value]
  BY <1>1, <1>3, KindFacts DEF RowOfValues
<1>6. /\ Sound(store, held, fl, v2) /\ Extends(store, v, v2)
      /\ row \in [1 .. n -> K2]
      /\ \A i \in 1 .. n : Denotes(store, v2, row[i]) = values[i]
  BY <1>1, <1>3, <1>4, <1>5, InternRowKeeps
<1>7. Extends(store, vsu, v2)
  BY <1>4, <1>6 DEF Extends
<1>8. K \subseteq K2 /\ K2 \in SUBSET Nat
  <2>1. \A j \in 1 .. v2.count : v2.surrs[j] \in Nat
    BY <1>6, StagedFacts
  <2>2. O \in SUBSET Nat
    BY <1>3 DEF Occupied, Slots
  <2>3. K2 \in SUBSET Nat
    BY <1>3, <2>1, <2>2 DEF Known
  <2> QED
    BY <1>3, <1>6, <2>3 DEF Extends
<1>9. Waits(t, table, u, K2, O)
  BY <1>4, <1>8, WaitsMore
<1>10. row \in [1 .. Arity[t] -> K2]
  BY <1>3, <1>6
<1>11. /\ Waits(t, table, u2, K2, O)
       /\ InsertedRows(t, u2) = InsertedRows(t, u) \cup {row}
       /\ DeletedRows(t, u2) = DeletedRows(t, u)
  <2>1. u2 = Inserted(t, u, row)
    BY <1>1
  <2>2. K2 \in SUBSET Nat
    BY <1>8
  <2> QED
    BY <1>9, <1>10, <2>1, <2>2, InsertedFacts
<1>12. Meaning(store, v2, InsertedRows(t, u2)) = Meaning(store, v, InsertedRows(t, u)) \cup {values}
  <2>1. Stands(store, v2, row) = values
    BY <1>5, <1>6 DEF Stands
  <2>2. PICK rows : rows = InsertedRows(t, u)
    OBVIOUS
  <2>3. rows \in SUBSET [1 .. n -> Known(store, v)]
    BY <1>3, <1>4, <2>2, InsertedTyped
  <2>4. Meaning(store, v2, rows) = Meaning(store, v, rows)
    BY <1>6, <2>3, MeaningKept
  <2>5. Meaning(store, v2, rows \cup {row}) = Meaning(store, v2, rows) \cup {Stands(store, v2, row)}
    BY DEF Meaning
  <2> QED
    BY <1>11, <2>1, <2>2, <2>4, <2>5
<1>13. {relation[j] : j \in 1 .. k + 1} = {relation[j] : j \in 1 .. k} \cup {values}
  <2>1. 1 .. k + 1 = (1 .. k) \cup {k + 1}
    OBVIOUS
  <2> QED
    BY <1>1, <2>1
<1>14. /\ DeletedRows(t, u) = DeletedRows(t, staged[t]) \cup RowsOf(t, table)
       /\ Meaning(store, v, InsertedRows(t, u)) =
            Meaning(store, vsu, InsertedRows(t, staged[t])) \cup {relation[j] : j \in 1 .. k}
  BY <1>1, <1>3 DEF SetSo
<1>15. Meaning(store, v2, InsertedRows(t, u2)) =
         Meaning(store, vsu, InsertedRows(t, staged[t])) \cup {relation[j] : j \in 1 .. k + 1}
  <2>1. PICK M, A, B, C, D : /\ M = Meaning(store, v2, InsertedRows(t, u2))
                             /\ A = Meaning(store, v, InsertedRows(t, u))
                             /\ B = Meaning(store, vsu, InsertedRows(t, staged[t]))
                             /\ C = {relation[j] : j \in 1 .. k} /\ D = {relation[j] : j \in 1 .. k + 1}
    OBVIOUS
  <2>2. M = A \cup {values} /\ A = B \cup C /\ D = C \cup {values}
    BY <1>12, <1>13, <1>14, <2>1
  <2>3. M = B \cup D
    BY <2>2
  <2> QED
    BY <2>1, <2>3
<1> QED
  BY <1>2, <1>3, <1>6, <1>7, <1>11, <1>14, <1>15 DEF SetSo

\* At first there are none.
LEMMA SetFirst ==
  ASSUME NEW t \in Table, NEW relation, NEW held, NEW fl, Sound(store, held, fl, vsu),
         NEW table, table = tables[t], NEW O, O = Occupied(store.block),
         TableOK(t, table, O), NEW K, K = Known(store, vsu), NEW u, u = staged[t],
         Waits(t, table, u, K, O)
  PROVE  SetSo(t, relation, held, fl, SetCleared(t), 0)
<1>1. PICK u2 : u2 = Cleared(t, u)
  OBVIOUS
<1>2. O \in SUBSET Nat
  BY DEF Occupied, Slots
<1>3. /\ Waits(t, table, u2, K, O) /\ InsertedRows(t, u2) = InsertedRows(t, u)
      /\ DeletedRows(t, u2) = DeletedRows(t, u) \cup RowsOf(t, table)
  BY <1>1, <1>2, ClearedFacts
<1>4. SetCleared(t).vsu = vsu /\ SetCleared(t).updates = u2
  BY <1>1 DEF SetCleared
<1>5. Extends(store, vsu, vsu)
  BY DEF Extends
<1>6. {relation[j] : j \in 1 .. 0} = {}
  OBVIOUS
<1> QED
  BY <1>3, <1>4, <1>5, <1>6 DEF SetSo

\* So the whole relation is.
LEMMA RowsSetFacts ==
  ASSUME NEW t \in Table, NEW relation, Len(relation) \in Nat,
         \A k \in 1 .. Len(relation) : relation[k] \in RowOfValues(t),
         NEW held, NEW fl, Sound(store, held, fl, vsu),
         TableOK(t, tables[t], Occupied(store.block)),
         Waits(t, tables[t], staged[t], Known(store, vsu), Occupied(store.block))
  PROVE  SetSo(t, relation, held, fl, RowsSet(t, relation), Len(relation))
<1>1. PICK n \in Nat : n = Len(relation)
  OBVIOUS
<1>2. PICK r : /\ r[0] = SetCleared(t) /\ RowsSet(t, relation) = r[n]
               /\ \A k \in Nat : k < n => r[k + 1] = SetAnother(t, r[k], relation[k + 1])
  BY <1>1, RowsSetSteps
<1> DEFINE N == {k \in Nat : k <= n => SetSo(t, relation, held, fl, r[k], k)}
<1>3. 0 \in N
  <2>1. SetSo(t, relation, held, fl, SetCleared(t), 0)
    <3> HIDE DEF N
    <3> QED
      BY SetFirst
  <2> QED
    BY <1>2, <2>1
<1>4. ASSUME NEW k \in N, k \in Nat PROVE k + 1 \in N
  <2> SUFFICES ASSUME k + 1 <= n
               PROVE  SetSo(t, relation, held, fl, r[k + 1], k + 1)
    BY <1>4
  <2>1. SetSo(t, relation, held, fl, r[k], k) /\ k < n /\ k + 1 \in 1 .. n
    BY <1>4
  <2>2. PICK x, x2 : x = r[k] /\ x2 = r[k + 1]
    OBVIOUS
  <2>3. relation[k + 1] \in RowOfValues(t)
    BY <1>1, <2>1
  <2>4. x2 = SetAnother(t, x, relation[k + 1]) /\ SetSo(t, relation, held, fl, x, k)
    BY <1>2, <1>4, <2>1, <2>2
  <2> HIDE DEF N
  <2>5. SetSo(t, relation, held, fl, x2, k + 1)
    BY <1>4, <2>3, <2>4, SetStep
  <2> QED
    BY <2>2, <2>5
<1>5. n \in N
  <2>1. Nat \subseteq N
    <3> HIDE DEF N
    <3> QED
      BY <1>3, <1>4, SetInduction
  <2> QED
    BY <2>1
<1> QED
  BY <1>1, <1>2, <1>5

\* set_table, to any relation.
LEMMA SetTableKeeps ==
  ASSUME IInv, NEW t \in Table, NEW relation \in Seq(RowOfValues(t)), SetTable(t, relation)
  PROVE  IInv'
<1>1. PICK fl : StateOK(store, vsu, tables, staged, phase, todo, fl)
  BY DEF IInv
<1>2. PICK set, v2, u2 : set = RowsSet(t, relation) /\ v2 = set.vsu /\ u2 = set.updates
  OBVIOUS
<1>3. /\ phase = "staging" /\ vsu' = v2 /\ staged' = [staged EXCEPT ![t] = u2]
      /\ store' = store /\ tables' = tables /\ phase' = phase /\ todo' = todo
  BY <1>2 DEF SetTable
<1>4. PICK held : /\ held = Referred(store, tables, staged, "staging", todo)
                  /\ Sound(store, held, fl, vsu)
  BY <1>1, <1>3 DEF StateOK
<1>5. /\ Waits(t, tables[t], staged[t], Known(store, vsu), Occupied(store.block))
      /\ TableOK(t, tables[t], Occupied(store.block))
  BY <1>1, <1>3, StagedWaits
<1>6. Len(relation) \in Nat /\ \A k \in 1 .. Len(relation) : relation[k] \in RowOfValues(t)
  <2>1. PICK S : S = RowOfValues(t)
    OBVIOUS
  <2>2. relation \in Seq(S)
    BY <2>1
  <2>3. Len(relation) \in Nat /\ \A k \in 1 .. Len(relation) : relation[k] \in S
    BY <2>2, LenProperties, ElementOfSeq
  <2> QED
    BY <2>1, <2>3
<1>7. SetSo(t, relation, held, fl, set, Len(relation))
  BY <1>2, <1>4, <1>5, <1>6, RowsSetFacts
<1>8. /\ Sound(store, held, fl, v2) /\ Known(store, vsu) \subseteq Known(store, v2)
      /\ Waits(t, tables[t], u2, Known(store, v2), Occupied(store.block))
  BY <1>2, <1>7 DEF SetSo, Extends
<1>9. StateOK(store, v2, tables, staged', "staging", todo, fl)
  BY <1>1, <1>3, <1>4, <1>8, StagingStep
<1> QED
  BY <1>3, <1>9 DEF IInv

-----------------------------------------------------------------------------
(***************************************************************************)
(* The end of staging.                                                     *)
(***************************************************************************)

\* What the key checks leave of the updates of a table.
Sorted(t, u) == IF Keys[t] = {} THEN u ELSE [u EXCEPT !.inserts = sort_unique(@)]

\* They stage the same rows.
LEMMA CheckedFacts ==
  ASSUME NEW t \in Table, NEW table, NEW K \in SUBSET Nat, NEW O, NEW u, Waits(t, table, u, K, O),
         NEW u2, u2 = Sorted(t, u)
  PROVE  /\ Waits(t, table, u2, K, O)
         /\ InsertedRows(t, u2) = InsertedRows(t, u) /\ DeletedRows(t, u2) = DeletedRows(t, u)
<1>1. CASE Keys[t] = {}
  BY <1>1 DEF Sorted
<1>2. CASE Keys[t] # {}
  <2>1. t \notin Unary
    BY <1>2 DEF Keys, KeysOf, Unary
  <2>2. PICK n, T, xs, ys : /\ n = Arity[t] /\ T = [1 .. n -> K]
                            /\ xs = u.inserts /\ ys = sort_unique(xs)
    OBVIOUS
  <2>3. /\ u = [deletes |-> u.deletes, inserts |-> xs] /\ xs \in Seq(T)
        /\ n \in 1 .. 3
    BY <2>1, <2>2, KindFacts DEF Waits, UpdatesShaped, PairOfLists, InsertsIn
  <2>4. u2 = [deletes |-> u.deletes, inserts |-> ys]
    <3>1. u2 = [u EXCEPT !.inserts = sort_unique(@)]
      BY <1>2 DEF Sorted
    <3> QED
      BY <2>2, <2>3, <3>1
  <2>5. T \subseteq [1 .. n -> Nat]
    BY <2>2
  <2>6. xs \in Seq([1 .. n -> Nat])
    BY <2>3, <2>5, SeqMonotonic
  <2>7. ys \in Seq(Range(xs)) /\ Range(ys) = Range(xs)
    BY <2>2, <2>3, <2>6, SortedFacts
  <2>8. Range(xs) \subseteq T
    <3>1. \A k \in DOMAIN xs : xs[k] \in T
      BY <2>3
    <3> QED
      BY <3>1 DEF Range
  <2>9. ys \in Seq(T)
    BY <2>7, <2>8, SeqMonotonic
  <2>10. u2.deletes = u.deletes /\ u2.inserts = ys /\ PairOfLists(u2)
    BY <2>4 DEF PairOfLists
  <2> QED
    BY <2>1, <2>2, <2>7, <2>9, <2>10
      DEF Waits, UpdatesShaped, InsertsIn, DeletesIn, InsertedRows, DeletedRows
<1> QED
  BY <1>1, <1>2

\* Every check passes.
LEMMA CheckKeeps ==
  ASSUME IInv, Check
  PROVE  IInv'
<1>1. PICK fl : StateOK(store, vsu, tables, staged, phase, todo, fl)
  BY DEF IInv
<1>2. /\ phase = "staging" /\ phase' = "checked"
      /\ staged' = [t \in Table |-> Sorted(t, staged[t])]
      /\ store' = store /\ tables' = tables /\ vsu' = vsu /\ todo' = todo
  BY DEF Check, Sorted
<1>3. PICK held : /\ held = Referred(store, tables, staged, "staging", todo)
                  /\ Sound(store, held, fl, vsu)
  BY <1>1, <1>2 DEF StateOK
<1>4. PICK sg2 : sg2 = staged'
  OBVIOUS
<1>5. sg2 = [t \in Table |-> sg2[t]] /\ \A t \in Table : sg2[t] = Sorted(t, staged[t])
  BY <1>2, <1>4
<1>6. ASSUME NEW t \in Table
      PROVE  Waits(t, tables[t], sg2[t], Known(store, vsu), Occupied(store.block))
  <2>1. /\ Waits(t, tables[t], staged[t], Known(store, vsu), Occupied(store.block))
        /\ Known(store, vsu) \in SUBSET Nat
    BY <1>1, <1>2, StagedWaits
  <2>2. PICK u, u2, K, O, table : /\ u = staged[t] /\ u2 = sg2[t] /\ K = Known(store, vsu)
                                  /\ O = Occupied(store.block) /\ table = tables[t]
    OBVIOUS
  <2>3. Waits(t, table, u, K, O) /\ K \in SUBSET Nat /\ u2 = Sorted(t, u)
    BY <1>5, <2>1, <2>2
  <2>4. Waits(t, table, u2, K, O)
    BY <2>3, CheckedFacts
  <2> QED
    BY <2>2, <2>4
<1>7. StateOK(store, vsu, tables, sg2, "checked", todo, fl)
  BY <1>1, <1>2, <1>3, <1>5, <1>6, WaitingStep
<1> QED
  BY <1>2, <1>4, <1>7 DEF IInv

\* Some check fails.
LEMMA RejectKeeps ==
  ASSUME IInv, Reject
  PROVE  IInv'
<1>1. PICK fl : StateOK(store, vsu, tables, staged, phase, todo, fl)
  BY DEF IInv
<1>2. PICK v2 : v2 = value_store_updates_init
  OBVIOUS
<1>3. /\ phase = "staging" /\ staged' = NoUpdates /\ vsu' = v2
      /\ store' = store /\ tables' = tables /\ phase' = phase /\ todo' = todo
  BY <1>2 DEF Reject
<1>4. PICK held : /\ held = Referred(store, tables, staged, "staging", todo)
                  /\ Sound(store, held, fl, vsu)
  BY <1>1, <1>3 DEF StateOK
<1>5. Sound(store, held, fl, v2)
  BY <1>2, <1>4, UpdatesInitOK, HashUpdatesInit DEF Sound
<1>6. PICK sg2 : sg2 = NoUpdates
  OBVIOUS
<1>7. sg2 = [t \in Table |-> sg2[t]]
  BY <1>6 DEF NoUpdates
<1>8. \A t \in Table : Waits(t, tables[t], sg2[t], Known(store, v2), Occupied(store.block))
  BY <1>6, NoUpdatesFacts
<1>9. StateOK(store, v2, tables, sg2, "staging", todo, fl)
  BY <1>1, <1>3, <1>4, <1>5, <1>7, <1>8, WaitingStep
<1> QED
  BY <1>3, <1>6, <1>9 DEF IInv

\* The staged values go to the store: what was promised exists now.
LEMMA ApplyStoreKeeps ==
  ASSUME IInv, ApplyStore
  PROVE  IInv'
<1>1. PICK fl : StateOK(store, vsu, tables, staged, phase, todo, fl)
  BY DEF IInv
<1>2. PICK st2, v2 : st2 = value_store_apply(store, vsu) /\ v2 = value_store_updates_init
  OBVIOUS
<1>3. /\ phase = "checked" /\ store' = st2 /\ vsu' = v2 /\ phase' = "applying" /\ todo' = Table
      /\ tables' = tables /\ staged' = staged
  BY <1>2 DEF ApplyStore
<1>4. PICK held : /\ held = Referred(store, tables, staged, phase, todo)
                  /\ Sound(store, held, fl, vsu)
  BY <1>1 DEF StateOK
<1>5. PICK held2, fl2 : held2 = HeldBy(store, st2, held) /\ fl2 = FreeLeft(store, st2, vsu, fl)
  OBVIOUS
<1>6. StoreOK(store, held, fl) /\ StagedOK(store, vsu, fl) /\ StoreKeyed(store) /\ StagedKeyed(store, vsu)
  BY <1>4 DEF Sound
<1>7. StoreOK(st2, held2, fl2) /\ StoreKeyed(st2)
  BY <1>2, <1>5, <1>6, ApplyKeeps, ApplyKeepsKeyed
<1>8. Sound(st2, held2, fl2, v2)
  BY <1>2, <1>7, UpdatesInitOK, HashUpdatesInit DEF Sound
<1>9. PICK O, O2, c, c2 : /\ O = Occupied(store.block) /\ O2 = Occupied(st2.block)
                          /\ c = store.block.capacity /\ c2 = st2.block.capacity
  OBVIOUS
<1>10. /\ c2 \in Nat /\ c2 >= c /\ O \subseteq O2
       /\ \A k \in 1 .. vsu.count : vsu.surrs[k] \in O2
  BY <1>2, <1>6, <1>9, ApplySlots
<1>11. c \in Nat /\ Slots(store.block) = 0 .. c - 1 /\ Slots(st2.block) = 0 .. c2 - 1
  <2>1. c \in Nat
    BY <1>6, <1>9 DEF StoreOK, StoreTyped
  <2> QED
    BY <1>9, <2>1 DEF Slots
<1>12. Slots(store.block) \subseteq Slots(st2.block)
  BY <1>10, <1>11
<1>13. Known(store, vsu) \subseteq Known(st2, v2)
  BY <1>9, <1>10 DEF Known
<1>14. \A t \in Table : ModeOf(t, phase, todo) = "waiting" /\ ModeOf(t, "applying", Table) = "waiting"
  BY <1>3 DEF ModeOf
<1>15. ASSUME NEW i
       PROVE  CountsOf(tables, staged, "applying", Table, i) = CountsOf(tables, staged, phase, todo, i)
  <2>1. \A t \in Table : CountOf(t, tables[t], staged[t], ModeOf(t, "applying", Table), i) =
                           CountOf(t, tables[t], staged[t], ModeOf(t, phase, todo), i)
    BY <1>14 DEF CountOf
  <2> QED
    BY <2>1 DEF CountsOf
<1>16. ASSUME NEW t \in Table
       PROVE  RowsOf(t, tables[t]) \in SUBSET [1 .. Arity[t] -> Slots(store.block)]
  BY <1>1 DEF StateOK, TablesOK, TableOK
<1>17. ASSUME NEW i, i \notin Slots(store.block)
       PROVE  Total(CountsOf(tables, staged, phase, todo, i), Table) = 0
  <2>1. Uses({}, i) = 0
    BY UsesNone
  <2>2. PICK f : f = CountsOf(tables, staged, phase, todo, i)
    OBVIOUS
  <2>3. ASSUME NEW t \in Table
        PROVE  f[t] = 0
    <3>1. f[t] = Uses(RowsOf(t, tables[t]), i) + Uses({}, i)
      <4>1. f[t] = CountOf(t, tables[t], staged[t], "waiting", i)
        BY <1>14, <2>2 DEF CountsOf
      <4> QED
        BY <4>1 DEF CountOf
    <3>2. Uses(RowsOf(t, tables[t]), i) = 0
      <4>1. PICK R, n, S : R = RowsOf(t, tables[t]) /\ n = Arity[t] /\ S = Slots(store.block)
        OBVIOUS
      <4>2. R \in SUBSET [1 .. n -> S] /\ i \notin S
        BY <1>16, <1>17, <4>1
      <4>3. \A row \in R : \A k \in DOMAIN row : row[k] # i
        BY <4>2
      <4> QED
        BY <4>1, <4>3, UsesNone
    <3> QED
      BY <2>1, <3>1, <3>2
  <2> QED
    BY <2>2, <2>3, TotalNothing
<1>18. held2 = Referred(st2, tables, staged, "applying", Table)
  <2>1. \A i \in Slots(store.block) : held[i] = Total(CountsOf(tables, staged, phase, todo, i), Table)
    BY <1>4 DEF Referred
  <2>2. ASSUME NEW i \in Slots(st2.block)
        PROVE  held2[i] = Total(CountsOf(tables, staged, "applying", Table, i), Table)
    <3>1. held2[i] = IF i \in Slots(store.block) THEN held[i] ELSE 0
      BY <1>5, <2>2 DEF HeldBy
    <3>2. held2[i] = Total(CountsOf(tables, staged, phase, todo, i), Table)
      BY <1>17, <2>1, <3>1
    <3> QED
      BY <1>15, <3>2
  <2> QED
    BY <1>5, <2>2 DEF Referred, HeldBy
<1>19. ASSUME NEW t \in Table
       PROVE  /\ TableOK(t, tables[t], Slots(st2.block))
              /\ Waits(t, tables[t], staged[t], Known(st2, v2), Occupied(st2.block))
  <2>1. PICK mode : mode = ModeOf(t, phase, todo) /\ mode = "waiting"
    BY <1>14
  <2>2. /\ TableOK(t, tables[t], Slots(store.block))
        /\ Waits(t, tables[t], staged[t], Known(store, vsu), Occupied(store.block))
    BY <1>1, <2>1 DEF StateOK, TablesOK, UpdatesOK
  <2>3. Waits(t, tables[t], staged[t], Known(st2, v2), Occupied(st2.block))
    <3>1. PICK table, u, K, K2 : /\ table = tables[t] /\ u = staged[t] /\ K = Known(store, vsu)
                                 /\ K2 = Known(st2, v2)
      OBVIOUS
    <3>2. Waits(t, table, u, K, O) /\ K \subseteq K2 /\ O \subseteq O2
      BY <1>9, <1>10, <1>13, <2>2, <3>1
    <3>3. Waits(t, table, u, K2, O2)
      BY <3>2, WaitsMore
    <3> QED
      BY <1>9, <3>1, <3>3
  <2>4. TableOK(t, tables[t], Slots(st2.block))
    <3>1. PICK A, B, n : A = Slots(store.block) /\ B = Slots(st2.block) /\ n = Arity[t]
      OBVIOUS
    <3>2. A \subseteq B /\ TableOK(t, tables[t], A)
      BY <1>12, <2>2, <3>1
    <3>3. [1 .. n -> A] \subseteq [1 .. n -> B]
      BY <3>2
    <3>4. TableOK(t, tables[t], B)
      BY <3>1, <3>2, <3>3 DEF TableOK
    <3> QED
      BY <3>1, <3>4
  <2> QED
    BY <2>3, <2>4
<1>20. TablesOK(st2, v2, tables, staged, "applying", Table)
  BY <1>14, <1>19 DEF TablesOK, UpdatesOK
<1>21. Phased(v2, tables, staged, "applying", Table)
  <2>1. Phased(vsu, tables, staged, phase, todo)
    BY <1>1 DEF StateOK
  <2> QED
    BY <1>2, <2>1 DEF Phased
<1>22. StateOK(st2, v2, tables, staged, "applying", Table, fl2)
  BY <1>8, <1>18, <1>20, <1>21 DEF StateOK
<1> QED
  BY <1>3, <1>22 DEF IInv

-----------------------------------------------------------------------------
(***************************************************************************)
(* Applying and finishing a table.  Growing the bitmap of a unary table    *)
(* leaves it in a state where none of this holds, so that nothing is said  *)
(* of stores that outgrow the bitmaps.                                     *)
(***************************************************************************)
SmallStore == Unary = {} \/ store.block.capacity <= BITMAP_SIZE

\* A table that is yet to be applied, and the outcome.
LEMMA ApplyingFacts ==
  ASSUME NEW fl, StateOK(store, vsu, tables, staged, phase, todo, fl), SmallStore,
         phase = "applying", NEW t \in todo, NEW out \in Applied(t)
  PROVE  /\ t \in Table /\ ModeOf(t, phase, todo) = "waiting"
         /\ TableOK(t, tables[t], Slots(store.block))
         /\ Waits(t, tables[t], staged[t], Occupied(store.block), Occupied(store.block))
         /\ TableApplied(t, tables[t], staged[t], Slots(store.block), out)
         /\ InsertedRows(t, staged[t]) \in SUBSET [1 .. Arity[t] -> Occupied(store.block)]
<1>1. t \in Table /\ vsu = value_store_updates_init
  BY DEF StateOK, Phased
<1>2. PICK mode : mode = ModeOf(t, phase, todo) /\ mode = "waiting"
  BY DEF ModeOf
<1>3. PICK table, u, S, O, K : /\ table = tables[t] /\ u = staged[t] /\ S = Slots(store.block)
                               /\ O = Occupied(store.block) /\ K = Known(store, vsu)
  OBVIOUS
<1>4. K = O
  <2>1. vsu.count = 0
    BY <1>1, UpdatesInitOK
  <2> QED
    BY <1>3, <2>1 DEF Known
<1>5. TableOK(t, table, S) /\ Waits(t, table, u, O, O)
  <2>1. /\ TableOK(t, tables[t], Slots(store.block))
        /\ Waits(t, tables[t], staged[t], Known(store, vsu), Occupied(store.block))
    BY <1>1, <1>2 DEF StateOK, TablesOK, UpdatesOK
  <2> QED
    BY <1>3, <1>4, <2>1
<1>6. O \subseteq S /\ S \in SUBSET Nat
  BY <1>3 DEF Occupied, Slots
<1>7. Waits(t, table, u, S, S)
  BY <1>1, <1>5, <1>6, WaitsMore
<1>8. t \in Unary => \A i \in S : i < BITMAP_SIZE
  <2>1. store.block.capacity \in Nat
    BY DEF StateOK, Sound, StoreOK, StoreTyped
  <2>2. BITMAP_SIZE \in Nat
    BY UnaryAssumption
  <2> QED
    BY <1>3, <2>1, <2>2 DEF SmallStore, Slots
<1>9. TableApplied(t, table, u, S, out)
  BY <1>1, <1>3, <1>5, <1>6, <1>7, <1>8, AppliedFacts
<1>10. InsertedRows(t, u) \in SUBSET [1 .. Arity[t] -> O]
  BY <1>1, <1>5, InsertedTyped
<1> QED
  BY <1>1, <1>2, <1>3, <1>5, <1>9, <1>10

\* The next phase, and the mode that each table is in then.
LEMMA AppliedModes ==
  ASSUME NEW ph, ph = "applying", NEW td \in SUBSET Table, NEW t \in td,
         NEW td2, td2 = (IF td = {t} THEN Table ELSE td \ {t}),
         NEW ph2, ph2 = (IF td = {t} THEN "finishing" ELSE "applying")
  PROVE  /\ ph2 \in {"applying", "finishing"} /\ td2 \in SUBSET Table
         /\ ModeOf(t, ph, td) = "waiting" /\ ModeOf(t, ph2, td2) = "dropping"
         /\ \A x \in Table \ {t} : ModeOf(x, ph2, td2) = ModeOf(x, ph, td)
<1>1. CASE td = {t}
  BY <1>1 DEF ModeOf
<1>2. CASE td # {t}
  BY <1>2 DEF ModeOf
<1> QED
  BY <1>1, <1>2

\* What it refers to is counted before what it drops is released.
LEMMA ApplyTableKeeps ==
  ASSUME IInv, SmallStore, NEW t \in Table, ApplyTable(t)
  PROVE  IInv' /\ store'.block = store.block
<1>1. PICK fl : StateOK(store, vsu, tables, staged, phase, todo, fl)
  BY DEF IInv
<1>2. PICK td2, ph2 : /\ td2 = (IF todo = {t} THEN Table ELSE todo \ {t})
                      /\ ph2 = (IF todo = {t} THEN "finishing" ELSE "applying")
  OBVIOUS
<1>3. PICK out \in Applied(t) : /\ tables' = [tables EXCEPT ![t] = out.table]
                                /\ staged' = [staged EXCEPT ![t] = out.updates]
                                /\ store' = out.store
  BY DEF ApplyTable
<1>4. phase = "applying" /\ t \in todo /\ todo' = td2 /\ phase' = ph2 /\ vsu' = vsu
  BY <1>2 DEF ApplyTable
<1>5. PICK table, u, S, O, table2, u2, st2 :
        /\ table = tables[t] /\ u = staged[t] /\ S = Slots(store.block) /\ O = Occupied(store.block)
        /\ table2 = out.table /\ u2 = out.updates /\ st2 = out.store
  OBVIOUS
<1>6. PICK R, D, I, added : /\ R = RowsOf(t, table) /\ D = DeletedRows(t, u) /\ I = InsertedRows(t, u)
                            /\ added = I \ (R \ D)
  OBVIOUS
<1>7. /\ TableOK(t, table, S) /\ TableApplied(t, table, u, S, out)
      /\ I \in SUBSET [1 .. Arity[t] -> O]
  <2>1. /\ TableOK(t, tables[t], Slots(store.block))
        /\ TableApplied(t, tables[t], staged[t], Slots(store.block), out)
        /\ InsertedRows(t, staged[t]) \in SUBSET [1 .. Arity[t] -> Occupied(store.block)]
    BY <1>1, <1>3, <1>4, ApplyingFacts
  <2> QED
    BY <1>5, <1>6, <2>1
<1>8. /\ RowsOf(t, table2) = (R \ D) \cup I /\ IsFiniteSet(I) /\ TableOK(t, table2, S)
      /\ st2 = AddRefs(store, added)
      /\ Drops(t, u2, S) /\ Dropped(t, u2) = D \cap R
  BY <1>5, <1>6, <1>7 DEF TableApplied
<1>9. PICK held : /\ held = Referred(store, tables, staged, phase, todo)
                  /\ Sound(store, held, fl, vsu)
  BY <1>1 DEF StateOK
<1>10. PICK held2 : held2 = [i \in Slots(store.block) |-> held[i] + Uses(added, i)]
  OBVIOUS
<1>11. StoreOK(st2, held2, fl) /\ st2.block = store.block
  <2>1. IsFiniteSet(added)
    BY <1>6, <1>8, FS_Subset
  <2>2. \A row \in added : \A c \in DOMAIN row : row[c] \in Occupied(store.block)
    BY <1>5, <1>6, <1>7
  <2>3. StoreOK(store, held, fl)
    BY <1>9 DEF Sound
  <2> QED
    BY <1>8, <1>10, <2>1, <2>2, <2>3, AddRefsKeeps
<1>12. vsu = value_store_updates_init
  BY <1>1, <1>4 DEF StateOK, Phased
<1>13. Sound(st2, held2, fl, vsu)
  <2>1. StoreKeyed(st2)
    BY <1>9, <1>11 DEF Sound, StoreKeyed
  <2> QED
    BY <1>11, <1>12, <2>1, UpdatesInitOK, HashUpdatesInit DEF Sound
<1>14. todo \in SUBSET Table /\ tables = [x \in Table |-> tables[x]] /\ staged = [x \in Table |-> staged[x]]
  BY <1>1 DEF StateOK, Phased
<1>15. /\ ph2 \in {"applying", "finishing"} /\ td2 \in SUBSET Table
       /\ ModeOf(t, phase, todo) = "waiting" /\ ModeOf(t, ph2, td2) = "dropping"
       /\ \A x \in Table \ {t} : ModeOf(x, ph2, td2) = ModeOf(x, phase, todo)
  BY <1>2, <1>4, <1>14, AppliedModes
<1>16. PICK tb2, sg2 : tb2 = tables' /\ sg2 = staged'
  OBVIOUS
<1>17. /\ tb2 = [x \in Table |-> tb2[x]] /\ sg2 = [x \in Table |-> sg2[x]]
       /\ tb2[t] = table2 /\ sg2[t] = u2
       /\ \A x \in Table \ {t} : tb2[x] = tables[x] /\ sg2[x] = staged[x]
  BY <1>3, <1>5, <1>14, <1>16
<1>18. Phased(vsu, tb2, sg2, ph2, td2)
  BY <1>12, <1>15, <1>17 DEF Phased
<1>19. TablesOK(st2, vsu, tb2, sg2, ph2, td2)
  <2>1. ASSUME NEW x \in Table
        PROVE  /\ TableOK(x, tb2[x], S)
               /\ UpdatesOK(x, tb2[x], sg2[x], ModeOf(x, ph2, td2), S, Known(st2, vsu), O)
    <3>1. CASE x = t
      BY <1>8, <1>15, <1>17, <3>1 DEF UpdatesOK
    <3>2. CASE x # t
      <4>1. Known(st2, vsu) = Known(store, vsu)
        BY <1>11 DEF Known
      <4>2. /\ TableOK(x, tables[x], S)
            /\ UpdatesOK(x, tables[x], staged[x], ModeOf(x, phase, todo), S, Known(store, vsu), O)
        BY <1>1, <1>5 DEF StateOK, TablesOK
      <4> QED
        BY <1>15, <1>17, <3>2, <4>1, <4>2
    <3> QED
      BY <3>1, <3>2
  <2>2. Slots(st2.block) = S /\ Occupied(st2.block) = O
    BY <1>5, <1>11
  <2> QED
    BY <2>1, <2>2 DEF TablesOK
<1>20. ASSUME NEW i \in S
       PROVE  held2[i] = Total(CountsOf(tb2, sg2, ph2, td2, i), Table)
  <2>1. PICK f, g : f = CountsOf(tables, staged, phase, todo, i) /\ g = CountsOf(tb2, sg2, ph2, td2, i)
    OBVIOUS
  <2>2. TablesOK(store, vsu, tables, staged, phase, todo)
    BY <1>1 DEF StateOK
  <2>3. Summed(Table, f) /\ Summed(Table, g)
    BY <1>19, <2>1, <2>2, CountsSummed
  <2>4. \A x \in Table \ {t} : f[x] = g[x]
    <3>1. \A x \in Table : /\ f[x] = CountOf(x, tables[x], staged[x], ModeOf(x, phase, todo), i)
                           /\ g[x] = CountOf(x, tb2[x], sg2[x], ModeOf(x, ph2, td2), i)
      BY <2>1 DEF CountsOf
    <3> QED
      BY <1>15, <1>17, <3>1
  <2>5. /\ Total(f, Table) \in Nat /\ Total(g, Table) \in Nat /\ f[t] \in Nat /\ g[t] \in Nat
        /\ Total(g, Table) + f[t] = Total(f, Table) + g[t]
    BY <2>3, <2>4, TotalChanges
  <2>6. f[t] = Uses(R, i) + Uses({}, i) /\ Uses({}, i) = 0
    <3>1. f[t] = CountOf(t, table, u, "waiting", i)
      BY <1>5, <1>15, <2>1 DEF CountsOf
    <3>2. Uses({}, i) = 0
      BY UsesNone
    <3> QED
      BY <1>6, <3>1, <3>2 DEF CountOf
  <2>7. g[t] = Uses((R \ D) \cup I, i) + Uses(D \cap R, i)
    <3>1. g[t] = CountOf(t, table2, u2, "dropping", i)
      BY <1>15, <1>17, <2>1 DEF CountsOf
    <3> QED
      BY <1>8, <3>1 DEF CountOf
  <2>8. /\ Uses(R, i) \in Nat /\ Uses(added, i) \in Nat
        /\ Uses((R \ D) \cup I, i) + Uses(D \cap R, i) = Uses(R, i) + Uses(added, i)
    <3>1. IsFiniteSet(R)
      BY <1>6, <1>7 DEF TableOK
    <3>2. IsFiniteSet(I)
      BY <1>8
    <3>3. UsesBalanced(R, D, I, i)
      BY <3>1, <3>2, AppliedUses
    <3> QED
      BY <1>6, <3>3 DEF UsesBalanced
  <2>9. held[i] = Total(f, Table)
    BY <1>5, <1>9, <2>1 DEF Referred
  <2>10. held2[i] = held[i] + Uses(added, i)
    BY <1>5, <1>10
  <2>11. PICK a, b, m, n, d \in Nat : /\ a = f[t] /\ b = g[t] /\ m = Total(f, Table) /\ n = Total(g, Table)
                                      /\ d = Uses(added, i)
    BY <2>5, <2>8
  <2>12. b = a + d
    <3>1. a = Uses(R, i)
      BY <2>6, <2>8, <2>11
    <3> QED
      BY <2>7, <2>8, <2>11, <3>1
  <2>13. n + a = m + b
    BY <2>5, <2>11
  <2>14. n = m + d
    BY <2>11, <2>12, <2>13
  <2> QED
    BY <2>1, <2>9, <2>10, <2>11, <2>14
<1>21. held2 = Referred(st2, tb2, sg2, ph2, td2)
  <2>1. Slots(st2.block) = S
    BY <1>5, <1>11
  <2> QED
    BY <1>5, <1>10, <1>20, <2>1 DEF Referred
<1>22. StateOK(st2, vsu, tb2, sg2, ph2, td2, fl)
  BY <1>13, <1>18, <1>19, <1>21 DEF StateOK
<1>23. IInv'
  BY <1>3, <1>4, <1>5, <1>16, <1>22 DEF IInv
<1> QED
  BY <1>3, <1>5, <1>11, <1>23

\* The modes of the tables when one of them is finished.
Finishes(t, ph, td, ph2, td2) ==
  /\ ph2 \in {"staging", "finishing"} /\ td2 \in SUBSET Table /\ (ph2 = "staging" => td2 = {})
  /\ ModeOf(t, ph, td) = "dropping" /\ ModeOf(t, ph2, td2) \in {"waiting", "done"}
  /\ \A x \in Table \ {t} : \/ ModeOf(x, ph2, td2) = ModeOf(x, ph, td)
                            \/ ModeOf(x, ph2, td2) = "waiting" /\ ModeOf(x, ph, td) = "done"

\* Only its own mode changes, until none is left to be finished.
LEMMA FinishedModes ==
  ASSUME NEW td \in SUBSET Table, NEW t \in td
  PROVE  Finishes(t, "finishing", td, IF td = {t} THEN "staging" ELSE "finishing", td \ {t})
<1>1. CASE td = {t}
  BY <1>1 DEF Finishes, ModeOf
<1>2. CASE td # {t}
  BY <1>2 DEF Finishes, ModeOf
<1> QED
  BY <1>1, <1>2

\* The values that the rows of the tables refer to are where they were.
SlotsKept(st, st2, tb) ==
  \A t \in Table : \A row \in RowsOf(t, tb[t]) : \A c \in DOMAIN row :
    st2.block.slots[row[c]] = st.block.slots[row[c]]

\* What a table drops is released, which is still counted: no other reference
\* is lost with it.
LEMMA FinishTableKeeps ==
  ASSUME IInv, NEW t \in Table, FinishTable(t)
  PROVE  IInv' /\ SlotsKept(store, store', tables)
<1>1. PICK fl : StateOK(store, vsu, tables, staged, phase, todo, fl)
  BY DEF IInv
<1>2. PICK td2, ph2, st2 : /\ td2 = todo \ {t} /\ st2 = store'
                           /\ ph2 = (IF todo = {t} THEN "staging" ELSE "finishing")
  OBVIOUS
<1>3. PICK table, u, u2, S : /\ table = tables[t] /\ u = staged[t] /\ u2 = NoUpdates[t]
                             /\ S = Slots(store.block)
  OBVIOUS
<1>4. /\ phase = "finishing" /\ t \in todo /\ todo' = td2 /\ phase' = ph2
      /\ vsu' = vsu /\ tables' = tables /\ staged' = [staged EXCEPT ![t] = u2]
  BY <1>2, <1>3 DEF FinishTable
<1>5. PICK marked : marked = MarkedRows(t, u)
  OBVIOUS
<1>6. st2 = ReleaseRows(store, marked)
  <2>1. CASE t \in Unary
    BY <1>2, <1>3, <1>5, <2>1 DEF FinishTable, unary_table_updates_finish, MarkedRows, Unerased
  <2>2. CASE t \notin Unary
    BY <1>2, <1>3, <1>5, <2>2
      DEF FinishTable, binary_table_updates_finish, ternary_table_updates_finish, MarkedRows
  <2> QED
    BY <2>1, <2>2
<1>7. /\ todo \in SUBSET Table /\ vsu = value_store_updates_init
      /\ tables = [x \in Table |-> tables[x]] /\ staged = [x \in Table |-> staged[x]]
  BY <1>1, <1>4 DEF StateOK, Phased
<1>8. /\ ph2 \in {"staging", "finishing"} /\ td2 \in SUBSET Table /\ (ph2 = "staging" => td2 = {})
      /\ ModeOf(t, phase, todo) = "dropping" /\ ModeOf(t, ph2, td2) \in {"waiting", "done"}
      /\ \A x \in Table \ {t} :
           \/ ModeOf(x, ph2, td2) = ModeOf(x, phase, todo)
           \/ ModeOf(x, ph2, td2) = "waiting" /\ ModeOf(x, phase, todo) = "done"
  <2>1. Finishes(t, "finishing", todo, IF todo = {t} THEN "staging" ELSE "finishing", todo \ {t})
    BY <1>4, <1>7, FinishedModes
  <2>2. Finishes(t, phase, todo, ph2, td2)
    BY <1>2, <1>4, <2>1
  <2> QED
    BY <2>2 DEF Finishes
<1>9. TableOK(t, table, S) /\ Drops(t, u, S)
  BY <1>1, <1>3, <1>8 DEF StateOK, TablesOK, UpdatesOK
<1>10. Deletable(marked, S)
  BY <1>5, <1>9 DEF Drops
<1>11. PICK R, X : R = RowsOf(t, table) /\ X = Range(marked) \ {ERASED}
  OBVIOUS
<1>12. X = Dropped(t, u)
  BY <1>5, <1>11 DEF Dropped
<1>13. PICK held : /\ held = Referred(store, tables, staged, phase, todo)
                   /\ Sound(store, held, fl, vsu)
  BY <1>1 DEF StateOK
<1>14. TablesOK(store, vsu, tables, staged, phase, todo)
  BY <1>1 DEF StateOK
<1>15. IsFiniteSet(R) /\ IsFiniteSet(X)
  BY <1>9, <1>10, <1>11, FirstRowsFacts DEF TableOK
<1>16. ASSUME NEW i \in S
       PROVE  /\ Uses(R, i) \in Nat /\ Uses(X, i) \in Nat /\ held[i] \in Nat
              /\ held[i] >= Uses(R, i) + Uses(X, i)
  <2>1. PICK f : f = CountsOf(tables, staged, phase, todo, i)
    OBVIOUS
  <2>2. Summed(Table, f)
    BY <1>14, <2>1, CountsSummed
  <2>3. f[t] <= Total(f, Table) /\ f[t] \in Nat /\ Total(f, Table) \in Nat
    BY <2>2, TotalAtLeast
  <2>4. f[t] = Uses(R, i) + Uses(X, i)
    BY <1>3, <1>8, <1>11, <1>12, <2>1 DEF CountsOf, CountOf
  <2>5. held[i] = Total(f, Table)
    BY <1>3, <1>13, <2>1 DEF Referred
  <2>6. Uses(R, i) \in Nat /\ Uses(X, i) \in Nat
    BY <1>15, UsesNat
  <2> QED
    BY <2>3, <2>4, <2>5, <2>6
<1>17. PICK held2 : held2 = [i \in Slots(store.block) |-> held[i] - Uses(Range(marked) \ {ERASED}, i)]
  OBVIOUS
<1>18. Kept(store, st2, held2)
  <2>1. Kept(store, store, held)
    BY <1>13 DEF Kept, Sound
  <2>2. \A i \in Slots(store.block) : held[i] >= Uses(Range(marked) \ {ERASED}, i)
    <3>1. ASSUME NEW i \in S
          PROVE  held[i] >= Uses(X, i)
      <4>1. PICK a, b, c \in Nat : a = Uses(R, i) /\ b = Uses(X, i) /\ c = held[i] /\ c >= a + b
        BY <1>16
      <4> QED
        BY <4>1
    <3> QED
      BY <1>3, <1>11, <3>1
  <2>3. Deletable(marked, Slots(store.block))
    BY <1>3, <1>10
  <2> QED
    BY <1>6, <1>17, <2>1, <2>2, <2>3, ReleaseRowsKeeps
<1>19. PICK fl2 : StoreOK(st2, held2, fl2)
  BY <1>18 DEF Kept
<1>20. Slots(st2.block) = S /\ StoreKeyed(st2)
  BY <1>3, <1>18 DEF Kept, Slots
<1>21. Sound(st2, held2, fl2, vsu)
  BY <1>7, <1>19, <1>20, UpdatesInitOK, HashUpdatesInit DEF Sound
<1>22. PICK sg2 : sg2 = staged'
  OBVIOUS
<1>23. /\ sg2 = [x \in Table |-> sg2[x]] /\ sg2[t] = NoUpdates[t]
       /\ \A x \in Table \ {t} : sg2[x] = staged[x]
  BY <1>3, <1>4, <1>7, <1>22
<1>24. Phased(vsu, tables, sg2, ph2, td2)
  BY <1>7, <1>8, <1>23 DEF Phased
<1>25. TablesOK(st2, vsu, tables, sg2, ph2, td2)
  <2>1. ASSUME NEW x \in Table
        PROVE  /\ TableOK(x, tables[x], S)
               /\ UpdatesOK(x, tables[x], sg2[x], ModeOf(x, ph2, td2), S, Known(st2, vsu), Occupied(st2.block))
    <3>1. /\ TableOK(x, tables[x], S)
          /\ UpdatesOK(x, tables[x], staged[x], ModeOf(x, phase, todo), S, Known(store, vsu), Occupied(store.block))
      BY <1>3, <1>14 DEF TablesOK
    <3>2. sg2[x] = NoUpdates[x] => Waits(x, tables[x], sg2[x], Known(st2, vsu), Occupied(st2.block))
      BY NoUpdatesFacts
    <3>3. CASE x = t \/ (ModeOf(x, ph2, td2) = "waiting" /\ ModeOf(x, phase, todo) = "done")
      <4>1. sg2[x] = NoUpdates[x] /\ ModeOf(x, ph2, td2) \in {"waiting", "done"}
        BY <1>8, <1>23, <3>1, <3>3 DEF UpdatesOK
      <4> QED
        BY <3>1, <3>2, <4>1 DEF UpdatesOK
    <3>4. CASE x # t /\ ModeOf(x, ph2, td2) = ModeOf(x, phase, todo)
      <4>1. ModeOf(x, phase, todo) \in {"dropping", "done"} /\ sg2[x] = staged[x]
        BY <1>4, <1>23, <3>4 DEF ModeOf
      <4> QED
        BY <3>1, <3>4, <4>1 DEF UpdatesOK
    <3>5. CASE x = t
      <4>1. x = t \/ (ModeOf(x, ph2, td2) = "waiting" /\ ModeOf(x, phase, todo) = "done")
        BY <3>5
      <4> QED
        BY <3>3, <4>1
    <3>6. CASE x # t
      <4>1. \/ ModeOf(x, ph2, td2) = ModeOf(x, phase, todo)
            \/ ModeOf(x, ph2, td2) = "waiting" /\ ModeOf(x, phase, todo) = "done"
        BY <1>8, <3>6
      <4> QED
        BY <3>3, <3>4, <3>6, <4>1
    <3> QED
      BY <3>5, <3>6
  <2> QED
    BY <1>20, <2>1 DEF TablesOK
<1>26. ASSUME NEW i \in S
       PROVE  held2[i] = Total(CountsOf(tables, sg2, ph2, td2, i), Table)
  <2>1. PICK f, g : f = CountsOf(tables, staged, phase, todo, i) /\ g = CountsOf(tables, sg2, ph2, td2, i)
    OBVIOUS
  <2>2. Summed(Table, f) /\ Summed(Table, g)
    BY <1>14, <1>25, <2>1, CountsSummed
  <2>3. \A x \in Table : /\ f[x] = CountOf(x, tables[x], staged[x], ModeOf(x, phase, todo), i)
                         /\ g[x] = CountOf(x, tables[x], sg2[x], ModeOf(x, ph2, td2), i)
    BY <2>1 DEF CountsOf
  <2>4. \A x \in Table \ {t} : f[x] = g[x]
    BY <1>8, <1>23, <2>3 DEF CountOf
  <2>5. /\ Total(f, Table) \in Nat /\ Total(g, Table) \in Nat /\ f[t] \in Nat /\ g[t] \in Nat
        /\ Total(g, Table) + f[t] = Total(f, Table) + g[t]
    BY <2>2, <2>4, TotalChanges
  <2>6. f[t] = Uses(R, i) + Uses(X, i)
    BY <1>3, <1>8, <1>11, <1>12, <2>3 DEF CountOf
  <2>7. g[t] = Uses(R, i)
    <3>1. Uses({}, i) = 0
      BY UsesNone
    <3>2. g[t] = Uses(R, i) + Uses({}, i)
      BY <1>3, <1>8, <1>11, <2>3 DEF CountOf
    <3> QED
      BY <1>16, <3>1, <3>2
  <2>8. held[i] = Total(f, Table)
    BY <1>3, <1>13, <2>1 DEF Referred
  <2>9. held2[i] = held[i] - Uses(X, i)
    BY <1>3, <1>11, <1>17
  <2>10. Uses(R, i) \in Nat /\ Uses(X, i) \in Nat
    BY <1>16
  <2>11. PICK m, n, a, d \in Nat : /\ m = Total(f, Table) /\ n = Total(g, Table)
                                   /\ a = Uses(R, i) /\ d = Uses(X, i)
    BY <2>5, <2>10
  <2>12. n + (a + d) = m + a
    BY <2>5, <2>6, <2>7, <2>11
  <2>13. n = m - d
    BY <2>11, <2>12
  <2> QED
    BY <2>1, <2>8, <2>9, <2>11, <2>13
<1>27. held2 = Referred(st2, tables, sg2, ph2, td2)
  BY <1>3, <1>17, <1>20, <1>26 DEF Referred
<1>28. StateOK(st2, vsu, tables, sg2, ph2, td2, fl2)
  BY <1>21, <1>24, <1>25, <1>27 DEF StateOK
<1>29. SlotsKept(store, st2, tables)
  <2> SUFFICES ASSUME NEW x \in Table, NEW row \in RowsOf(x, tables[x]), NEW c \in DOMAIN row
               PROVE  st2.block.slots[row[c]] = store.block.slots[row[c]]
    BY DEF SlotsKept
  <2>1. row[c] \in Occupied(st2.block) /\ Referred(st2, tables, sg2, ph2, td2)[row[c]] > 0
    BY <1>28, RowsStored
  <2>2. row[c] \in Slots(store.block) /\ held2[row[c]] > 0
    BY <1>3, <1>20, <1>27, <2>1 DEF Occupied
  <2> QED
    BY <1>18, <2>2 DEF Kept
<1> QED
  <2>1. IInv'
    BY <1>2, <1>4, <1>22, <1>28 DEF IInv
  <2> QED
    BY <1>2, <1>29, <2>1

-----------------------------------------------------------------------------
(***************************************************************************)
(* Every step.                                                             *)
(***************************************************************************)

\* The relations that a table is set to are sequences of rows.
LEMMA RelationsTyped ==
  ASSUME NEW t \in Table
  PROVE  SmallRelation(t) \in SUBSET Seq(RowOfValues(t))
<1>1. PICK T : T = RowOfValues(t)
  OBVIOUS
<1>2. << >> \in Seq(T)
  BY EmptySeq
<1>3. \A row \in T : <<row>> \in Seq(T)
  OBVIOUS
<1>4. \A row1, row2 \in T : <<row1, row2>> \in Seq(T)
  OBVIOUS
<1>5. ASSUME NEW relation \in SmallRelation(t)
      PROVE  relation \in Seq(T)
  <2>1. \/ relation = << >> \/ (\E row \in T : relation = <<row>>)
        \/ \E row1, row2 \in T : relation = <<row1, row2>>
    BY <1>1, <1>5 DEF SmallRelation
  <2> QED
    BY <1>2, <1>3, <1>4, <2>1
<1> QED
  BY <1>1, <1>5

\* As long as the store does not outgrow the bitmaps, whatever an update does
\* leaves tables, counts and slots as they have to be.
LEMMA StepKeeps == IInv /\ SmallStore /\ [Next]_vars => IInv'
<1> SUFFICES ASSUME IInv, SmallStore, [Next]_vars
             PROVE  IInv'
  OBVIOUS
<1>1. CASE UNCHANGED vars
  <2>1. /\ store' = store /\ vsu' = vsu /\ tables' = tables /\ staged' = staged
        /\ phase' = phase /\ todo' = todo
    BY <1>1 DEF vars
  <2> QED
    BY <2>1 DEF IInv
<1>2. ASSUME NEW t \in Table, NEW values \in RowOfValues(t), InsertRow(t, values)
      PROVE  IInv'
  BY <1>2, InsertRowKeeps
<1>3. ASSUME NEW t \in Table, NEW values \in RowOfValues(t), DeleteRow(t, values)
      PROVE  IInv'
  BY <1>3, DeleteRowKeeps
<1>4. ASSUME NEW t \in Table, NEW K \in ColumnsOf[t], NEW values \in [DOMAIN K -> Value],
             DeleteBy(t, K, values)
      PROVE  IInv'
  BY <1>4, DeleteByKeeps
<1>5. ASSUME NEW t \in Table, NEW relation \in SmallRelation(t), SetTable(t, relation)
      PROVE  IInv'
  <2>1. relation \in Seq(RowOfValues(t))
    BY <1>5, RelationsTyped
  <2> QED
    BY <1>5, <2>1, SetTableKeeps
<1>6. ASSUME NEW t \in Table, ApplyTable(t)
      PROVE  IInv'
  BY <1>6, ApplyTableKeeps
<1>7. ASSUME NEW t \in Table, FinishTable(t)
      PROVE  IInv'
  BY <1>7, FinishTableKeeps
<1>8. CASE Check
  BY <1>8, CheckKeeps
<1>9. CASE Reject
  BY <1>9, RejectKeeps
<1>10. CASE ApplyStore
  BY <1>10, ApplyStoreKeeps
<1> QED
  BY <1>1, <1>2, <1>3, <1>4, <1>5, <1>6, <1>7, <1>8, <1>9, <1>10 DEF Next

\* The inductive invariant.
THEOREM DatabaseInvariant == Spec /\ []SmallStore => []IInv
<1>1. Init => IInv
  BY InitKeeps
<1>2. IInv /\ SmallStore /\ [Next]_vars => IInv'
  BY StepKeeps
<1> QED
  BY <1>1, <1>2, PTL DEF Spec

-----------------------------------------------------------------------------
(***************************************************************************)
(* What it implies.                                                        *)
(***************************************************************************)

\* The usage that a store keeps is the number of its values.
LEMMA UsageFacts ==
  ASSUME NEW st, NEW held, NEW fl, StoreOK(st, held, fl)
  PROVE  st.usage = Cardinality(Occupied(st.block))
<1>1. PICK c, n \in Nat : c = st.block.capacity /\ n = Len(fl)
  BY LenProperties DEF StoreOK, StoreTyped
<1>2. PICK S, O, F : S = Slots(st.block) /\ O = Occupied(st.block) /\ F = S \ O
  OBVIOUS
<1>3. /\ fl \in Seq(S) /\ st \in Store(c)
      /\ \A j, k \in 1 .. n : fl[j] = fl[k] => j = k
      /\ \A i \in S : IsBlank(st.block, i) <=> \E k \in 1 .. n : fl[k] = i
      /\ st.usage + n = c
  BY <1>1, <1>2 DEF StoreOK, StoreTyped, FreeListed
<1>4. S = 0 .. c - 1 /\ IsFiniteSet(S) /\ Cardinality(S) = c
  BY <1>1, <1>2, IntervalSize DEF Slots
<1>5. DOMAIN fl = 1 .. n /\ \A k \in 1 .. n : fl[k] \in S
  BY <1>1, <1>3, LenProperties
<1>6. \A i \in S : i \in F <=> \E k \in 1 .. n : fl[k] = i
  BY <1>2, <1>3 DEF Occupied
<1>7. [k \in 1 .. n |-> fl[k]] \in Bijection(1 .. n, F)
  BY <1>2, <1>3, <1>5, <1>6 DEF Bijection, Injection, Surjection, IsInjective
<1>8. IsFiniteSet(F) /\ Cardinality(F) = n
  BY <1>1, <1>7, IntervalSize, FS_Bijection DEF ExistsBijection
<1>9. O \in SUBSET S
  BY <1>2 DEF Occupied
<1>10. IsFiniteSet(O) /\ Cardinality(O) \in Nat
  BY <1>4, <1>9, FS_Subset, FS_CardinalityType
<1>11. O \cap F = {} /\ O \cup F = S
  BY <1>2, <1>9
<1>12. Cardinality(S) = Cardinality(O) + Cardinality(F)
  BY <1>8, <1>10, <1>11, DisjointSize
<1>13. st.usage \in Nat
  BY <1>3 DEF Store
<1>14. PICK m, k \in Nat : m = Cardinality(O) /\ k = st.usage
  BY <1>10, <1>13
<1>15. k + n = c /\ c = m + n
  BY <1>1, <1>3, <1>4, <1>8, <1>12, <1>14
<1> QED
  BY <1>2, <1>14, <1>15

\* What a reader calls the rows of a table and the ones it has staged.
LEMMA RowsAre ==
  ASSUME NEW t \in Table
  PROVE  /\ Rows(t) = RowsOf(t, tables[t])
         /\ UpdatesShaped(t, staged[t]) =>
              /\ Range(StagedInserts(t)) = InsertedRows(t, staged[t])
              /\ Range(StagedDeletes(t)) = DeletedRows(t, staged[t])
              /\ t \in Unary => Range(StagedDeletes(t)) \ {ERASED, <<-1>>} = Dropped(t, staged[t])
<1>1. Rows(t) = RowsOf(t, tables[t])
  BY DEF Rows, RowsOf
<1>2. CASE t \notin Unary
  BY <1>1, <1>2 DEF StagedInserts, StagedDeletes, InsertedRows, DeletedRows
<1>3. CASE t \in Unary
  <2> SUFFICES ASSUME BufferOK(staged[t])
               PROVE  /\ Range(StagedInserts(t)) = InsertedRows(t, staged[t])
                      /\ Range(StagedDeletes(t)) = DeletedRows(t, staged[t])
                      /\ Range(StagedDeletes(t)) \ {ERASED, <<-1>>} = Dropped(t, staged[t])
    BY <1>1, <1>3 DEF UpdatesShaped
  <2>1. PICK u, n, ds : u = staged[t] /\ n = u.deletes_count /\ ds = UnaryDeletes(u)
    OBVIOUS
  <2>2. StagedInserts(t) = SingleRows(UnaryInserts(u))
    BY <1>3, <2>1 DEF StagedInserts, SingleRows
  <2>3. n \in Nat /\ DOMAIN ds = 1 .. n /\ \A k \in 1 .. n : ds[k] = u.buffer[k]
    <3>1. BufferOK(u) /\ n \in Nat
      BY <2>1 DEF BufferOK
    <3>2. ds \in Seq(Int) /\ Len(ds) = n /\ \A k \in 1 .. n : ds[k] = u.buffer[k]
      BY <2>1, <3>1, BufferFacts
    <3> QED
      BY <3>1, <3>2, LenProperties
  <2>4. StagedDeletes(t) = [k \in 1 .. n |-> <<ds[k]>>]
    <3>1. StagedDeletes(t) = [k \in 1 .. n |-> <<u.buffer[k]>>]
      BY <1>3, <2>1 DEF StagedDeletes
    <3> QED
      BY <2>3, <3>1
  <2>5. StagedDeletes(t) = SingleRows(ds)
    BY <2>3, <2>4 DEF SingleRows
  <2>6. MarkedRows(t, u) = [k \in 1 .. n |-> IF ds[k] = -1 THEN ERASED ELSE <<ds[k]>>]
    BY <1>3, <2>1, <2>3 DEF MarkedRows, Unerased
  <2>7. Range(StagedDeletes(t)) = {<<ds[k]>> : k \in 1 .. n}
    BY <2>4 DEF Range
  <2>8. Dropped(t, u) = {IF ds[k] = -1 THEN ERASED ELSE <<ds[k]>> : k \in 1 .. n} \ {ERASED}
    BY <2>6 DEF Dropped, Range
  <2>9. \A x : <<x>> # ERASED /\ (<<x>> = <<-1>> => x = -1)
    BY DEF ERASED
  <2>10. {<<ds[k]>> : k \in 1 .. n} \ {ERASED, <<-1>>} =
           {IF ds[k] = -1 THEN ERASED ELSE <<ds[k]>> : k \in 1 .. n} \ {ERASED}
    BY <2>9
  <2> QED
    BY <1>3, <2>1, <2>2, <2>5, <2>7, <2>8, <2>10 DEF InsertedRows, DeletedRows
<1> QED
  BY <1>2, <1>3

\* Tables, counts and staged updates have their types; the store's usage is the
\* number of its values.
THEOREM TypeCorrect == Spec /\ []SmallStore => []TypeOK
<1>1. IInv => TypeOK
  <2> SUFFICES ASSUME IInv
               PROVE  TypeOK
    OBVIOUS
  <2>1. PICK fl : StateOK(store, vsu, tables, staged, phase, todo, fl)
    BY DEF IInv
  <2>2. PICK held : held = Referred(store, tables, staged, phase, todo) /\ Sound(store, held, fl, vsu)
    BY <2>1 DEF StateOK
  <2>3. StoreOK(store, held, fl)
    BY <2>2 DEF Sound
  <2>4. phase \in {"staging", "checked", "applying", "finishing"} /\ todo \subseteq Table
    BY <2>1 DEF StateOK, Phased
  <2>5. store.usage = Cardinality(Occupied(store.block))
    BY <2>3, UsageFacts
  <2>6. DOMAIN store.ref_counts = Slots(store.block)
    BY <2>3 DEF StoreOK, StoreTyped, Store, Slots
  <2>7. PICK c, n \in Nat : c = store.block.capacity /\ n = vsu.count
    BY <2>2, StagedFacts
  <2>8. Slots(store.block) = 0 .. c - 1 /\ Surrogates = 0 .. c + n - 1
    BY <2>7 DEF Slots, Surrogates
  <2>9. Slots(store.block) \subseteq Surrogates /\ Known(store, vsu) \subseteq Surrogates
    <3>1. \A k \in 1 .. n : vsu.surrs[k] \in Nat /\ vsu.surrs[k] < c + n
      BY <2>2, <2>7, StagedFacts
    <3>2. Occupied(store.block) \subseteq Slots(store.block) /\ Slots(store.block) \subseteq Surrogates
      BY <2>7, <2>8 DEF Occupied
    <3> QED
      BY <2>7, <2>8, <3>1, <3>2 DEF Known
  <2>10. ASSUME NEW t \in Table
         PROVE  /\ \A row \in Rows(t) : row \in [1 .. Arity[t] -> Slots(store.block)]
                /\ \A row \in Range(StagedInserts(t)) : row \in [1 .. Arity[t] -> Surrogates]
    <3>1. PICK mode, u, table, K, O, S : /\ mode = ModeOf(t, phase, todo) /\ u = staged[t] /\ table = tables[t]
                                         /\ K = Known(store, vsu) /\ O = Occupied(store.block)
                                         /\ S = Slots(store.block)
      OBVIOUS
    <3>2. TableOK(t, table, S) /\ UpdatesOK(t, table, u, mode, S, K, O)
      BY <2>1, <3>1 DEF StateOK, TablesOK
    <3>3. \A row \in Rows(t) : row \in [1 .. Arity[t] -> S]
      BY <3>1, <3>2, RowsAre DEF TableOK
    <3>4. mode \in {"waiting", "dropping", "done"}
      BY <3>1 DEF ModeOf
    <3>5. S \subseteq Surrogates /\ K \subseteq Surrogates
      BY <2>9, <3>1
    <3>6. UpdatesShaped(t, u) /\ InsertedRows(t, u) \in SUBSET [1 .. Arity[t] -> Surrogates]
      <4>1. PICK X : X = Surrogates
        OBVIOUS
      <4>2. S \subseteq X /\ K \subseteq X
        BY <3>5, <4>1
      <4>3. UpdatesOK(t, table, u, mode, S, K, O)
        BY <3>2
      <4>4. S \subseteq X
        BY <4>2
      <4>5. K \subseteq X
        BY <4>2
      <4>6. UpdatesShaped(t, u) /\ InsertedRows(t, u) \in SUBSET [1 .. Arity[t] -> X]
        <5>1. TypedIn(t, u, X)
          BY <3>4, <4>3, <4>4, <4>5, StagedTyped
        <5> QED
          BY <5>1 DEF TypedIn
      <4> QED
        BY <4>1, <4>6
    <3>7. Range(StagedInserts(t)) = InsertedRows(t, u)
      BY <3>1, <3>6, RowsAre
    <3> QED
      BY <3>1, <3>3, <3>6, <3>7
  <2> QED
    BY <2>4, <2>5, <2>6, <2>10 DEF TypeOK
<1> QED
  BY <1>1, DatabaseInvariant, PTL

\* The indexes of a table hold the same rows, and a unary table's count is the
\* number of its bits.
THEOREM IndexesSame == Spec /\ []SmallStore => []IndexesAgree
<1>1. IInv => IndexesAgree
  <2> SUFFICES ASSUME IInv
               PROVE  IndexesAgree
    OBVIOUS
  <2>1. PICK fl : StateOK(store, vsu, tables, staged, phase, todo, fl)
    BY DEF IInv
  <2>2. \A t \in Table : TableOK(t, tables[t], Slots(store.block))
    BY <2>1 DEF StateOK, TablesOK
  <2>3. CountIsBits
    BY <2>2, KindFacts DEF CountIsBits, TableOK
  <2>4. \A t \in Binary : BinaryAgrees(tables[t])
    BY <2>2, KindFacts DEF TableOK
  <2>5. \A t \in Ternary : TernaryAgrees(tables[t])
    BY <2>2 DEF TableOK, Ternary
  <2> QED
    BY <2>3, <2>4, <2>5 DEF IndexesAgree, BinaryAgrees, TernaryAgrees
<1> QED
  BY <1>1, DatabaseInvariant, PTL

\* What a table has dropped and not released.
LEMMA UnreleasedIs ==
  ASSUME NEW t \in Table, NEW S \in SUBSET Nat,
         ModeOf(t, phase, todo) = "dropping" => Drops(t, staged[t], S), phase \in {"staging", "checked", "applying", "finishing"}
  PROVE  Unreleased(t) = IF ModeOf(t, phase, todo) = "dropping" THEN Dropped(t, staged[t]) ELSE {}
<1>1. CASE ModeOf(t, phase, todo) # "dropping"
  BY <1>1 DEF Unreleased, ModeOf
<1>2. CASE ModeOf(t, phase, todo) = "dropping"
  <2>1. Unreleased(t) = Range(StagedDeletes(t)) \ {ERASED, <<-1>>}
    BY <1>2 DEF Unreleased, ModeOf
  <2>2. PICK u : u = staged[t]
    OBVIOUS
  <2>3. UpdatesShaped(t, u) /\ Deletable(MarkedRows(t, u), S)
    BY <1>2, <2>2 DEF Drops
  <2>4. CASE t \in Unary
    BY <1>2, <2>1, <2>2, <2>3, <2>4, RowsAre
  <2>5. CASE t \notin Unary
    <3>1. PICK ds : ds = u.deletes
      OBVIOUS
    <3>2. Range(StagedDeletes(t)) = Range(ds) /\ Dropped(t, u) = Range(ds) \ {ERASED} /\ Deletable(ds, S)
      BY <2>2, <2>3, <2>5, <3>1 DEF StagedDeletes, Dropped, MarkedRows
    <3>3. <<-1>> \notin Range(ds)
      <4>1. \A k \in DOMAIN ds : ds[k] = ERASED \/ RowLike(ds[k], S)
        BY <3>2 DEF Deletable
      <4>2. ~ RowLike(<<-1>>, S)
        <5> SUFFICES ASSUME NEW n \in 1 .. 3, <<-1>> \in [1 .. n -> S]
                     PROVE  FALSE
          BY DEF RowLike
        <5>1. <<-1>>[1] \in S
          BY SingleRow
        <5> QED
          BY <5>1
      <4>3. <<-1>> # ERASED
        BY DEF ERASED
      <4> QED
        BY <4>1, <4>2, <4>3 DEF Range
    <3> QED
      BY <1>2, <2>1, <2>2, <3>2, <3>3
  <2> QED
    BY <2>4, <2>5
<1> QED
  BY <1>1, <1>2

\* The fold that RowsCounted is stated with is the sum.
CountHere(u, i) == Uses(Rows(u), i) + Uses(Unreleased(u), i)
SumHere(i) == LET count(u) == CountHere(u, i) IN MapThenSumSet(count, Table)

\* Its addends are the counts.
LEMMA SumHereTotal ==
  ASSUME NEW i, NEW f, Summed(Table, f), \A t \in Table : f[t] = CountHere(t, i)
  PROVE  SumHere(i) = Total(f, Table)
<1> DEFINE First(s) == CHOOSE x \in s : TRUE
           Folds(k) == k = [s \in SUBSET Table |->
                              IF s = {} THEN 0 ELSE CountHere(First(s), i) + k[s \ {First(s)}]]
           fold == CHOOSE k : Folds(k)
<1>1. SumHere(i) = fold[Table]
  BY DEF SumHere, MapThenSumSet, MapThenFoldSet
<1>2. \A s \in SUBSET Table : s # {} => CountHere(First(s), i) = f[First(s)]
  <2>1. \A s \in SUBSET Table : s # {} => First(s) \in Table
    OBVIOUS
  <2> HIDE DEF First
  <2> QED
    BY <2>1
<1>3. \A k : Folds(k) <=> AddsUp(k, Table, f)
  <2>1. \A k : AddsUp(k, Table, f) <=>
          k = [s \in SUBSET Table |-> IF s = {} THEN 0 ELSE f[First(s)] + k[s \ {First(s)}]]
    BY DEF AddsUp
  <2>2. ASSUME NEW k
        PROVE  [s \in SUBSET Table |-> IF s = {} THEN 0 ELSE CountHere(First(s), i) + k[s \ {First(s)}]] =
               [s \in SUBSET Table |-> IF s = {} THEN 0 ELSE f[First(s)] + k[s \ {First(s)}]]
    <3> HIDE DEF First
    <3>1. \A s \in SUBSET Table :
            (IF s = {} THEN 0 ELSE CountHere(First(s), i) + k[s \ {First(s)}]) =
            (IF s = {} THEN 0 ELSE f[First(s)] + k[s \ {First(s)}])
      BY <1>2
    <3> QED
      BY <3>1
  <2> HIDE DEF First
  <2> QED
    BY <2>1, <2>2
<1>4. \E k : Folds(k)
  BY <1>3, TotalAddsUp
<1>5. Folds(fold)
  <2> HIDE DEF Folds
  <2> QED
    BY <1>4
<1>6. AddsUp(fold, Table, f)
  <2> HIDE DEF fold, Folds
  <2> QED
    BY <1>3, <1>5
<1>7. fold[Table] = Total(f, Table)
  <2> HIDE DEF fold
  <2> QED
    BY <1>6, AddsUpTotal
<1> QED
  BY <1>1, <1>7

\* At every step of every update, each row of each table, and each row that has
\* been dropped and not released, is made of values that are stored, and the
\* store counts at least the references of all these rows.
THEOREM EveryRowCounted == Spec /\ []SmallStore => []RowsCounted
<1>1. IInv => RowsCounted
  <2> SUFFICES ASSUME IInv, NEW t \in Table, NEW row \in Rows(t) \cup Unreleased(t), NEW c \in DOMAIN row
               PROVE  row[c] \in Occupied(store.block) /\ store.ref_counts[row[c]] >= SumHere(row[c])
    BY DEF RowsCounted, SumHere, CountHere
  <2>1. PICK fl : StateOK(store, vsu, tables, staged, phase, todo, fl)
    BY DEF IInv
  <2>2. PICK S : S = Slots(store.block)
    OBVIOUS
  <2>9. S \in SUBSET Nat
    BY <2>2 DEF Slots
  <2>3. ASSUME NEW x \in Table
        PROVE  /\ Rows(x) = RowsOf(x, tables[x])
               /\ Unreleased(x) = IF ModeOf(x, phase, todo) = "dropping" THEN Dropped(x, staged[x]) ELSE {}
    <3>1. /\ ModeOf(x, phase, todo) = "dropping" => Drops(x, staged[x], S)
          /\ phase \in {"staging", "checked", "applying", "finishing"}
      BY <2>1, <2>2 DEF StateOK, TablesOK, UpdatesOK, Phased
    <3> QED
      BY <2>9, <3>1, RowsAre, UnreleasedIs
  <2>4. /\ row[c] \in Occupied(store.block)
        /\ store.ref_counts[row[c]] >= Total(CountsOf(tables, staged, phase, todo, row[c]), Table)
    BY <2>1, <2>3, RowsStored
  <2>5. PICK i, f : i = row[c] /\ f = CountsOf(tables, staged, phase, todo, i)
    OBVIOUS
  <2>6. Summed(Table, f)
    BY <2>1, <2>5, CountsSummed DEF StateOK
  <2>7. \A x \in Table : f[x] = CountHere(x, i)
    BY <2>3, <2>5 DEF CountsOf, CountOf, CountHere
  <2>8. SumHere(i) = Total(f, Table)
    BY <2>6, <2>7, SumHereTotal
  <2> QED
    BY <2>4, <2>5, <2>8
<1> QED
  BY <1>1, DatabaseInvariant, PTL

\* Deleting by some columns stages exactly the rows with these values.
THEOREM RangesComplete == Spec /\ []SmallStore => []RangesExact
<1>1. IInv => RangesExact
  <2> SUFFICES ASSUME IInv, NEW t \in Binary \cup Ternary, NEW K \in ColumnsOf[t],
                      NEW k \in [DOMAIN K -> Occupied(store.block)]
               PROVE  Range(RangeDeleted(t, NoUpdates[t], K, k).deletes) = {row \in Rows(t) : key(K, row) = k}
    BY DEF RangesExact
  <2>1. PICK fl : StateOK(store, vsu, tables, staged, phase, todo, fl)
    BY DEF IInv
  <2>2. t \in Table /\ t \notin Unary
    BY KindFacts DEF Ternary
  <2>3. PICK table, u, u2, S : /\ table = tables[t] /\ u = NoUpdates[t] /\ u2 = RangeDeleted(t, u, K, k)
                               /\ S = Slots(store.block)
    OBVIOUS
  <2>4. TableOK(t, table, S) /\ S \in SUBSET Nat
    BY <2>1, <2>2, <2>3 DEF StateOK, TablesOK, Slots
  <2>5. Waits(t, table, u, S, S) /\ DeletedRows(t, u) = {}
    BY <2>2, <2>3, NoUpdatesFacts
  <2>6. DOMAIN k = DOMAIN K /\ k = [i \in DOMAIN k |-> k[i]]
    OBVIOUS
  <2>7. DeletedRows(t, u2) = DeletedRows(t, u) \cup {row \in RowsOf(t, table) : key(K, row) = k}
    <3>1. table = tables[t]
      BY <2>3
    <3>2. u2 = RangeDeleted(t, u, K, k)
      BY <2>3
    <3>3. t \in Table
      BY <2>2
    <3>4. t \notin Unary
      BY <2>2
    <3>5. TableOK(t, table, S)
      BY <2>4
    <3>6. S \in SUBSET Nat
      BY <2>4
    <3>7. Waits(t, table, u, S, S)
      BY <2>5
    <3>8. DOMAIN k = DOMAIN K
      OBVIOUS
    <3>9. k = [i \in DOMAIN k |-> k[i]]
      OBVIOUS
    <3> QED
      <4>1. RangeStaged(t, table, u, u2, K, k)
        BY <3>1, <3>2, <3>3, <3>4, <3>5, <3>6, <3>7, <3>8, <3>9, RangeFacts
      <4> QED
        BY <4>1 DEF RangeStaged
  <2>8. Rows(t) = RowsOf(t, table)
    BY <2>2, <2>3, RowsAre
  <2> QED
    BY <2>2, <2>3, <2>5, <2>7, <2>8 DEF DeletedRows
<1> QED
  BY <1>1, DatabaseInvariant, PTL

-----------------------------------------------------------------------------
(***************************************************************************)
(* Rows of surrogates and the rows of values they stand for.  Surrogates   *)
(* that are known stand for different values, so that what is done to sets *)
(* of the ones is done to sets of the others.                              *)
(***************************************************************************)

\* A row stands for a row of values, and no two for the same.
LEMMA StandsFacts ==
  ASSUME NEW st, NEW held, NEW fl, NEW v, Sound(st, held, fl, v), NEW n
  PROVE  /\ \A x \in [1 .. n -> Known(st, v)] : Stands(st, v, x) \in [1 .. n -> Value]
         /\ \A x, y \in [1 .. n -> Known(st, v)] : Stands(st, v, x) = Stands(st, v, y) => x = y
<1>1. ASSUME NEW x \in [1 .. n -> Known(st, v)]
      PROVE  Stands(st, v, x) \in [1 .. n -> Value]
  <2>1. \A i \in 1 .. n : Denotes(st, v, x[i]) \in Value
    BY DenotesFacts
  <2> QED
    BY <2>1 DEF Stands
<1>2. ASSUME NEW x \in [1 .. n -> Known(st, v)], NEW y \in [1 .. n -> Known(st, v)],
             Stands(st, v, x) = Stands(st, v, y)
      PROVE  x = y
  <2>1. \A i \in 1 .. n : Stands(st, v, x)[i] = Denotes(st, v, x[i])
    BY DEF Stands
  <2>2. \A i \in 1 .. n : Stands(st, v, y)[i] = Denotes(st, v, y[i])
    BY DEF Stands
  <2>3. \A i \in 1 .. n : Denotes(st, v, x[i]) = Denotes(st, v, y[i])
    BY <1>2, <2>1, <2>2
  <2>4. \A i \in 1 .. n : x[i] = y[i]
    BY <2>3, DenotesFacts
  <2>5. x = [i \in 1 .. n |-> x[i]] /\ y = [i \in 1 .. n |-> y[i]]
    OBVIOUS
  <2> QED
    BY <2>4, <2>5
<1> QED
  BY <1>1, <1>2

\* What is done to sets of rows is done to what they stand for.
MeaningSame(st, v, A, B) ==
  /\ Meaning(st, v, A \cup B) = Meaning(st, v, A) \cup Meaning(st, v, B)
  /\ Meaning(st, v, A \ B) = Meaning(st, v, A) \ Meaning(st, v, B)

\* Because no two rows stand for the same.
LEMMA MeaningSets ==
  ASSUME NEW st, NEW held, NEW fl, NEW v, Sound(st, held, fl, v), NEW n,
         NEW A \in SUBSET [1 .. n -> Known(st, v)], NEW B \in SUBSET [1 .. n -> Known(st, v)]
  PROVE  MeaningSame(st, v, A, B)
<1>1. \A x \in A, y \in B : Stands(st, v, x) = Stands(st, v, y) => x = y
  BY StandsFacts
<1>2. Meaning(st, v, A \cup B) = Meaning(st, v, A) \cup Meaning(st, v, B)
  BY DEF Meaning
<1>3. Meaning(st, v, A \ B) = Meaning(st, v, A) \ Meaning(st, v, B)
  BY <1>1 DEF Meaning
<1> QED
  BY <1>2, <1>3 DEF MeaningSame

\* Keys are equal column by column.
EqualAt(K, x, y) == \A i \in DOMAIN K : x[K[i]] = y[K[i]]

\* And only then.
LEMMA SameKey ==
  ASSUME NEW K, NEW x, NEW y
  PROVE  key(K, x) = key(K, y) <=> EqualAt(K, x, y)
<1> USE DEF EqualAt
<1>1. /\ key(K, x) = [i \in DOMAIN K |-> x[K[i]]]
      /\ key(K, y) = [i \in DOMAIN K |-> y[K[i]]]
  BY DEF key
<1>2. ASSUME key(K, x) = key(K, y), NEW i \in DOMAIN K
      PROVE  x[K[i]] = y[K[i]]
  <2>1. key(K, x)[i] = x[K[i]] /\ key(K, y)[i] = y[K[i]]
    BY <1>1
  <2> QED
    BY <1>2, <2>1
<1> QED
  BY <1>1, <1>2

\* The rows with some values are those whose surrogates stand for these.
LEMMA KeysStand ==
  ASSUME NEW st, NEW held, NEW fl, NEW v, Sound(st, held, fl, v), NEW n,
         NEW x \in [1 .. n -> Known(st, v)], NEW y \in [1 .. n -> Known(st, v)],
         NEW K, \A i \in DOMAIN K : K[i] \in 1 .. n
  PROVE  key(K, Stands(st, v, x)) = key(K, Stands(st, v, y)) <=> key(K, x) = key(K, y)
<1>1. \A c \in 1 .. n : Stands(st, v, x)[c] = Denotes(st, v, x[c]) /\ Stands(st, v, y)[c] = Denotes(st, v, y[c])
  BY DEF Stands
<1>2. \A c \in 1 .. n : Stands(st, v, x)[c] = Stands(st, v, y)[c] <=> x[c] = y[c]
  BY <1>1, DenotesFacts
<1>3. PICK X, Y : X = Stands(st, v, x) /\ Y = Stands(st, v, y)
  OBVIOUS
<1>4. \A i \in DOMAIN K : X[K[i]] = Y[K[i]] <=> x[K[i]] = y[K[i]]
  BY <1>2, <1>3
<1>5. key(K, X) = key(K, Y) <=> EqualAt(K, X, Y)
  BY SameKey
<1>6. key(K, x) = key(K, y) <=> EqualAt(K, x, y)
  BY SameKey
<1> QED
  BY <1>3, <1>4, <1>5, <1>6 DEF EqualAt

\* Inserting the rows in I and deleting those in D gives a key twice: to two
\* rows, or to one and to a row in R whose key no deleted row has.
KeyConflict(K, R, D, I) ==
  \E row \in I :
    \/ \E other \in I \ {row} : key(K, other) = key(K, row)
    \/ /\ \E old \in R : key(K, old) = key(K, row)
       /\ \A old \in D : key(K, old) # key(K, row)

\* It does to rows of surrogates if it does to those of values.
LEMMA ConflictStands ==
  ASSUME NEW st, NEW held, NEW fl, NEW v, Sound(st, held, fl, v), NEW n,
         NEW R \in SUBSET [1 .. n -> Known(st, v)], NEW D \in SUBSET [1 .. n -> Known(st, v)],
         NEW I \in SUBSET [1 .. n -> Known(st, v)], NEW K, \A i \in DOMAIN K : K[i] \in 1 .. n
  PROVE  KeyConflict(K, Meaning(st, v, R), Meaning(st, v, D), Meaning(st, v, I)) <=> KeyConflict(K, R, D, I)
<1> DEFINE T == [1 .. n -> Known(st, v)]
           F(x) == Stands(st, v, x)
<1>1. \A x, y \in T : key(K, F(x)) = key(K, F(y)) <=> key(K, x) = key(K, y)
  BY KeysStand
<1>2. \A x, y \in T : F(x) = F(y) => x = y
  BY StandsFacts
<1>3. /\ Meaning(st, v, R) = {F(x) : x \in R}
      /\ Meaning(st, v, D) = {F(x) : x \in D}
      /\ Meaning(st, v, I) = {F(x) : x \in I}
  BY DEF Meaning
<1>4. PICK R2, D2, I2 : /\ R2 = {F(x) : x \in R} /\ D2 = {F(x) : x \in D} /\ I2 = {F(x) : x \in I}
  OBVIOUS
<1>5. R \subseteq T /\ D \subseteq T /\ I \subseteq T
  OBVIOUS
<1> HIDE DEF T, F
<1>6. ASSUME KeyConflict(K, R, D, I)
      PROVE  KeyConflict(K, R2, D2, I2)
  <2>1. PICK row \in I : \/ \E other \in I \ {row} : key(K, other) = key(K, row)
                         \/ /\ \E old \in R : key(K, old) = key(K, row)
                            /\ \A old \in D : key(K, old) # key(K, row)
    BY <1>6 DEF KeyConflict
  <2>2. F(row) \in I2
    BY <1>4
  <2>3. CASE \E other \in I \ {row} : key(K, other) = key(K, row)
    <3>1. PICK other \in I \ {row} : key(K, other) = key(K, row)
      BY <2>3
    <3>2. F(other) \in I2 \ {F(row)} /\ key(K, F(other)) = key(K, F(row))
      BY <1>1, <1>2, <1>4, <1>5, <3>1
    <3> QED
      BY <2>2, <3>2 DEF KeyConflict
  <2>4. CASE /\ \E old \in R : key(K, old) = key(K, row)
             /\ \A old \in D : key(K, old) # key(K, row)
    <3>1. \E old \in R2 : key(K, old) = key(K, F(row))
      BY <1>1, <1>4, <1>5, <2>4
    <3>2. \A old \in D2 : key(K, old) # key(K, F(row))
      BY <1>1, <1>4, <1>5, <2>4
    <3> QED
      BY <2>2, <3>1, <3>2 DEF KeyConflict
  <2> QED
    BY <2>1, <2>3, <2>4
<1>7. ASSUME KeyConflict(K, R2, D2, I2)
      PROVE  KeyConflict(K, R, D, I)
  <2>1. PICK r2 \in I2 : \/ \E other \in I2 \ {r2} : key(K, other) = key(K, r2)
                         \/ /\ \E old \in R2 : key(K, old) = key(K, r2)
                            /\ \A old \in D2 : key(K, old) # key(K, r2)
    BY <1>7 DEF KeyConflict
  <2>2. PICK row \in I : r2 = F(row)
    BY <1>4
  <2>3. CASE \E other \in I2 \ {r2} : key(K, other) = key(K, r2)
    <3>1. PICK o2 \in I2 \ {r2} : key(K, o2) = key(K, r2)
      BY <2>3
    <3>2. PICK other \in I : o2 = F(other)
      BY <1>4, <3>1
    <3>3. other \in I \ {row} /\ key(K, other) = key(K, row)
      BY <1>1, <1>5, <2>2, <3>1, <3>2
    <3> QED
      BY <3>3 DEF KeyConflict
  <2>4. CASE /\ \E old \in R2 : key(K, old) = key(K, r2)
             /\ \A old \in D2 : key(K, old) # key(K, r2)
    <3>1. \E old \in R : key(K, old) = key(K, row)
      BY <1>1, <1>4, <1>5, <2>2, <2>4
    <3>2. \A old \in D : F(old) \in D2
      BY <1>4
    <3>3. \A old \in D : key(K, old) # key(K, row)
      BY <1>1, <1>5, <2>2, <2>4, <3>2
    <3> QED
      BY <3>1, <3>3 DEF KeyConflict
  <2> QED
    BY <2>1, <2>3, <2>4
<1> QED
  BY <1>3, <1>4, <1>6, <1>7

-----------------------------------------------------------------------------
(***************************************************************************)
(* The key checks pass when no key is given twice.                         *)
(***************************************************************************)

\* One check, with inserts that are sorted and an index that has the key first.
LEMMA CheckKeyFacts ==
  ASSUME NEW K, NEW xs, \A i, j \in DOMAIN xs : xs[i] = xs[j] => i = j,
         NEW ds, NEW target, NEW R,
         {key_shifted(K, entry) : entry \in target} = {key(K, row) : row \in R}
  PROVE  table_updates_check_key(K, xs, ds, target) <=> ~ KeyConflict(K, R, Range(ds), Range(xs))
<1>1. PICK ik, dk, I, D : ik = take_keys(K, xs) /\ dk = take_keys(K, ds) /\ I = Range(xs) /\ D = Range(ds)
  OBVIOUS
<1>2. /\ DOMAIN ik = DOMAIN xs /\ \A i \in DOMAIN xs : ik[i] = key(K, xs[i])
      /\ DOMAIN dk = DOMAIN ds /\ \A i \in DOMAIN ds : dk[i] = key(K, ds[i])
  BY <1>1 DEF take_keys
<1>3. /\ \A x : x \in I <=> \E i \in DOMAIN xs : xs[i] = x
      /\ \A x : x \in D <=> \E i \in DOMAIN ds : ds[i] = x
      /\ \A k : k \in Range(ik) <=> \E i \in DOMAIN xs : key(K, xs[i]) = k
      /\ \A k : k \in Range(dk) <=> \E i \in DOMAIN ds : key(K, ds[i]) = k
  BY <1>1, <1>2 DEF Range
<1>4. /\ \A k : k \in Range(ik) <=> \E row \in I : key(K, row) = k
      /\ \A k : k \in Range(dk) <=> \E row \in D : key(K, row) = k
  BY <1>3
<1>5. sorted_vector_has_duplicates(ik) <=> \E row \in I : \E other \in I \ {row} : key(K, other) = key(K, row)
  <2>1. sorted_vector_has_duplicates(ik) <=>
          \E i, j \in DOMAIN xs : key(K, xs[i]) = key(K, xs[j]) /\ i # j
    BY <1>2 DEF sorted_vector_has_duplicates, IsInjective
  <2>2. ASSUME NEW i \in DOMAIN xs, NEW j \in DOMAIN xs, key(K, xs[i]) = key(K, xs[j]), i # j
        PROVE  \E row \in I : \E other \in I \ {row} : key(K, other) = key(K, row)
    <3>1. xs[i] \in I /\ xs[j] \in I \ {xs[i]}
      BY <1>3, <2>2
    <3> QED
      BY <2>2, <3>1
  <2>3. ASSUME NEW row \in I, NEW other \in I \ {row}, key(K, other) = key(K, row)
        PROVE  \E i, j \in DOMAIN xs : key(K, xs[i]) = key(K, xs[j]) /\ i # j
    <3>1. PICK i, j \in DOMAIN xs : xs[i] = row /\ xs[j] = other
      BY <1>3
    <3> QED
      BY <2>3, <3>1
  <2> QED
    BY <2>1, <2>2, <2>3
<1>6. \A k : (\E entry \in target : key_shifted(K, entry) = k) <=> (\E row \in R : key(K, row) = k)
  <2>1. \A k : k \in {key_shifted(K, entry) : entry \in target} <=> k \in {key(K, row) : row \in R}
    OBVIOUS
  <2> QED
    BY <2>1
<1>7. update_has_conflicts(ik, dk, K, target) <=>
        \E row \in I : /\ \E old \in R : key(K, old) = key(K, row)
                       /\ \A old \in D : key(K, old) # key(K, row)
  <2>1. update_has_conflicts(ik, dk, K, target) <=>
          \E k \in Range(ik) \ Range(dk) : \E row \in R : key(K, row) = k
    BY <1>6 DEF update_has_conflicts
  <2> QED
    BY <1>4, <2>1
<1>8. table_updates_check_key(K, xs, ds, target) <=>
        ~ sorted_vector_has_duplicates(ik) /\ ~ update_has_conflicts(ik, dk, K, target)
  BY <1>1 DEF table_updates_check_key
<1> QED
  BY <1>1, <1>5, <1>7, <1>8 DEF KeyConflict

\* The leading columns of the index of a ternary table that a key is looked up in.
LEMMA TernaryTargets ==
  ASSUME NEW S, NEW table, table.unshifted \in SUBSET [1 .. 3 -> S], TernaryAgrees(table)
  PROVE  LET R == table.unshifted
         IN  /\ {key_shifted(cols_01, entry) : entry \in table.unshifted} = {key(cols_01, row) : row \in R}
             /\ {key_shifted(cols_12, entry) : entry \in table.shifted_once} = {key(cols_12, row) : row \in R}
             /\ {key_shifted(col_2, entry) : entry \in table.shifted_twice} = {key(col_2, row) : row \in R}
             /\ {key_shifted(cols_20, entry) : entry \in table.shifted_twice} = {key(cols_20, row) : row \in R}
<1>1. PICK R : R = table.unshifted
  OBVIOUS
<1>2. ASSUME NEW row \in R, NEW K \in TernaryColumns
      PROVE  key_shifted(K, Shifted(row, ShiftOf(K))) = key(K, row)
  BY <1>1, KeyShifted
<1>3. /\ ShiftOf(cols_01) = 0 /\ ShiftOf(cols_12) = 1 /\ ShiftOf(col_2) = 2 /\ ShiftOf(cols_20) = 2
  BY DEF ShiftOf, col_0, col_1, col_2, cols_01, cols_12, cols_20
<1>4. /\ cols_01 \in TernaryColumns /\ cols_12 \in TernaryColumns
      /\ col_2 \in TernaryColumns /\ cols_20 \in TernaryColumns
  BY DEF TernaryColumns
<1>5. ASSUME NEW row \in R
      PROVE  /\ key_shifted(cols_01, row) = key(cols_01, row)
             /\ key_shifted(cols_12, shift(row)) = key(cols_12, row)
             /\ key_shifted(col_2, shift2(row)) = key(col_2, row)
             /\ key_shifted(cols_20, shift2(row)) = key(cols_20, row)
  <2>1. Shifted(row, 0) = row /\ Shifted(row, 1) = shift(row) /\ Shifted(row, 2) = shift2(row)
    BY DEF Shifted
  <2> QED
    BY <1>2, <1>3, <1>4, <2>1
<1>6. table.shifted_once = {shift(row) : row \in R} /\ table.shifted_twice = {shift2(row) : row \in R}
  BY <1>1 DEF TernaryAgrees
<1>7. {key_shifted(cols_01, entry) : entry \in R} = {key(cols_01, row) : row \in R}
  BY <1>5
<1>8. {key_shifted(cols_12, entry) : entry \in {shift(row) : row \in R}} = {key(cols_12, row) : row \in R}
  BY <1>5
<1>9. {key_shifted(col_2, entry) : entry \in {shift2(row) : row \in R}} = {key(col_2, row) : row \in R}
  BY <1>5
<1>10. {key_shifted(cols_20, entry) : entry \in {shift2(row) : row \in R}} = {key(cols_20, row) : row \in R}
  BY <1>5
<1> QED
  BY <1>1, <1>6, <1>7, <1>8, <1>9, <1>10

\* And of the index of a binary table.
LEMMA BinaryTargets ==
  ASSUME NEW S, NEW table, table.left_to_right \in SUBSET [1 .. 2 -> S], BinaryAgrees(table)
  PROVE  LET R == table.left_to_right
         IN  /\ {key_shifted(col_0, entry) : entry \in table.left_to_right} = {key(col_0, row) : row \in R}
             /\ {key_shifted(col_1, entry) : entry \in table.right_to_left} = {key(col_1, row) : row \in R}
<1>1. PICK R : R = table.left_to_right
  OBVIOUS
<1>2. ASSUME NEW row \in [1 .. 2 -> S]
      PROVE  key_shifted(col_0, row) = <<row[1]>> /\ key_shifted(col_1, row) = <<row[1]>>
  <2>1. row \in Seq(S) /\ Len(row) = 2
    BY FunctionSeq
  <2>2. SubSeq(row, 1, 1) = <<row[1]>>
    <3>1. PICK s : s = SubSeq(row, 1, 1)
      OBVIOUS
    <3>2. s \in Seq(S) /\ Len(s) = 1 /\ s[1] = row[1]
      BY <2>1, <3>1, SubSeqProperties
    <3>3. s \in [1 .. 1 -> S]
      BY <3>2, LenProperties
    <3> QED
      BY <3>1, <3>2, <3>3, SingleRow
  <2>3. Len(col_0) = 1 /\ Len(col_1) = 1
    BY DEF col_0, col_1
  <2> QED
    BY <2>2, <2>3 DEF key_shifted
<1>3. ASSUME NEW row
      PROVE  key(col_0, row) = <<row[1]>> /\ key(col_1, row) = <<row[2]>>
  BY DEF key, col_0, col_1
<1>4. ASSUME NEW row \in R
      PROVE  /\ key_shifted(col_0, row) = key(col_0, row)
             /\ key_shifted(col_1, shift(row)) = key(col_1, row)
  <2>1. row \in [1 .. 2 -> S] /\ shift(row) \in [1 .. 2 -> S] /\ shift(row)[1] = row[2]
    BY <1>1, ShiftPair
  <2> QED
    BY <1>2, <1>3, <2>1
<1>5. table.right_to_left = {shift(row) : row \in R}
  BY <1>1 DEF BinaryAgrees
<1>6. {key_shifted(col_0, entry) : entry \in R} = {key(col_0, row) : row \in R}
  BY <1>4
<1>7. {key_shifted(col_1, entry) : entry \in {shift(row) : row \in R}} = {key(col_1, row) : row \in R}
  BY <1>4
<1> QED
  BY <1>1, <1>5, <1>6, <1>7

\* What is known of a table and its updates while rows are being staged.
TableStaged(t, table, u, O, K) ==
  TableOK(t, table, O) /\ Waits(t, table, u, K, O) /\ O \in SUBSET Nat /\ K \in SUBSET Nat

\* The checks of a table pass when its update gives no key twice.
LEMMA PassesFacts ==
  ASSUME NEW t \in Table, NEW table, table = tables[t], NEW u, u = staged[t],
         NEW O, NEW K, TableStaged(t, table, u, O, K)
  PROVE  Passes(t) <=> \A k \in Keys[t] : ~ KeyConflict(k, RowsOf(t, table), DeletedRows(t, u), InsertedRows(t, u))
<1>1. PICK R, D, I, xs, ds : /\ R = RowsOf(t, table) /\ D = DeletedRows(t, u) /\ I = InsertedRows(t, u)
                             /\ xs = sort_unique(u.inserts) /\ ds = u.deletes
  OBVIOUS
<1>2. Keys[t] = KeysOf(Kind[t]) /\ Kind[t] \in Kinds
  BY KindAssumption DEF Keys
<1>3. ASSUME t \notin Unary
      PROVE  /\ Range(xs) = I /\ Range(ds) = D
             /\ \A i, j \in DOMAIN xs : xs[i] = xs[j] => i = j
  <2>1. PICK n : n = Arity[t] /\ n \in 1 .. 3
    BY KindFacts
  <2>2. u.inserts \in Seq([1 .. n -> K]) /\ K \in SUBSET Nat
    BY <1>3, <2>1 DEF TableStaged, Waits, InsertsIn
  <2>3. [1 .. n -> K] \subseteq [1 .. n -> Nat]
    BY <2>2
  <2>4. u.inserts \in Seq([1 .. n -> Nat])
    BY <2>2, <2>3, SeqMonotonic
  <2>5. /\ Range(sort_unique(u.inserts)) = Range(u.inserts)
        /\ \A i, j \in DOMAIN sort_unique(u.inserts) :
             sort_unique(u.inserts)[i] = sort_unique(u.inserts)[j] => i = j
    BY <2>1, <2>4, SortedFacts
  <2> QED
    BY <1>1, <1>3, <2>5 DEF DeletedRows, InsertedRows
<1>4. ASSUME t \notin Unary, NEW k, NEW target,
             {key_shifted(k, entry) : entry \in target} = {key(k, row) : row \in R}
      PROVE  table_updates_check_key(k, xs, ds, target) <=> ~ KeyConflict(k, R, D, I)
  <2>1. /\ Range(xs) = I /\ Range(ds) = D
        /\ \A i, j \in DOMAIN xs : xs[i] = xs[j] => i = j
    BY <1>3, <1>4
  <2>2. table_updates_check_key(k, xs, ds, target) <=> ~ KeyConflict(k, R, Range(ds), Range(xs))
    BY <1>4, <2>1, CheckKeyFacts
  <2> QED
    BY <2>1, <2>2
<1>5. CASE t \in Binary
  <2>1. t \notin Unary /\ Arity[t] = 2 /\ R = table.left_to_right /\ BinaryAgrees(table)
        /\ R \in SUBSET [1 .. 2 -> O]
    BY <1>1, <1>5, KindFacts DEF TableStaged, TableOK, RowsOf
  <2>2. /\ {key_shifted(col_0, entry) : entry \in table.left_to_right} = {key(col_0, row) : row \in R}
        /\ {key_shifted(col_1, entry) : entry \in table.right_to_left} = {key(col_1, row) : row \in R}
    BY <2>1, BinaryTargets
  <2>3. table_updates_check_key(col_0, xs, ds, table.left_to_right) <=> ~ KeyConflict(col_0, R, D, I)
    BY <1>4, <2>1, <2>2
  <2>4. table_updates_check_key(col_1, xs, ds, table.right_to_left) <=> ~ KeyConflict(col_1, R, D, I)
    BY <1>4, <2>1, <2>2
  <2>5. /\ binary_table_updates_check_0(table, u) <=> ~ KeyConflict(col_0, R, D, I)
        /\ binary_table_updates_check_1(table, u) <=> ~ KeyConflict(col_1, R, D, I)
        /\ binary_table_updates_check_0_1(table, u) <=>
             ~ KeyConflict(col_0, R, D, I) /\ ~ KeyConflict(col_1, R, D, I)
    BY <1>1, <2>3, <2>4
      DEF binary_table_updates_check_0, binary_table_updates_check_1, binary_table_updates_check_0_1
  <2>6. Kind[t] \in {"binary", "binary_0", "binary_1", "binary_0_1"}
    BY <1>5 DEF Binary
  <2>7. CASE Kind[t] = "binary"
    BY <1>2, <2>7 DEF Passes, KeysOf
  <2>8. CASE Kind[t] = "binary_0"
    <3>1. Passes(t) <=> binary_table_updates_check_0(table, u)
      BY <2>8 DEF Passes
    <3>2. Keys[t] = {col_0}
      BY <1>2, <2>8 DEF KeysOf
    <3> QED
      BY <1>1, <2>5, <3>1, <3>2
  <2>9. CASE Kind[t] = "binary_1"
    <3>1. Passes(t) <=> binary_table_updates_check_1(table, u)
      BY <2>9 DEF Passes
    <3>2. Keys[t] = {col_1}
      BY <1>2, <2>9 DEF KeysOf
    <3> QED
      BY <1>1, <2>5, <3>1, <3>2
  <2>10. CASE Kind[t] = "binary_0_1"
    <3>1. Passes(t) <=> binary_table_updates_check_0_1(table, u)
      BY <2>10 DEF Passes
    <3>2. Keys[t] = {col_0, col_1}
      BY <1>2, <2>10 DEF KeysOf
    <3> QED
      BY <1>1, <2>5, <3>1, <3>2
  <2> QED
    BY <2>6, <2>7, <2>8, <2>9, <2>10
<1>6. CASE t \in Ternary
  <2>1. t \notin Unary /\ t \notin Binary /\ Arity[t] = 3 /\ R = table.unshifted /\ TernaryAgrees(table)
        /\ R \in SUBSET [1 .. 3 -> O]
    BY <1>1, <1>6, KindFacts DEF TableStaged, TableOK, RowsOf
  <2>2. /\ {key_shifted(cols_01, entry) : entry \in table.unshifted} = {key(cols_01, row) : row \in R}
        /\ {key_shifted(cols_12, entry) : entry \in table.shifted_once} = {key(cols_12, row) : row \in R}
        /\ {key_shifted(col_2, entry) : entry \in table.shifted_twice} = {key(col_2, row) : row \in R}
        /\ {key_shifted(cols_20, entry) : entry \in table.shifted_twice} = {key(cols_20, row) : row \in R}
    BY <2>1, TernaryTargets
  <2>3. table_updates_check_key(cols_01, xs, ds, table.unshifted) <=> ~ KeyConflict(cols_01, R, D, I)
    BY <1>4, <2>1, <2>2
  <2>4. table_updates_check_key(cols_12, xs, ds, table.shifted_once) <=> ~ KeyConflict(cols_12, R, D, I)
    BY <1>4, <2>1, <2>2
  <2>5. table_updates_check_key(col_2, xs, ds, table.shifted_twice) <=> ~ KeyConflict(col_2, R, D, I)
    BY <1>4, <2>1, <2>2
  <2>6. table_updates_check_key(cols_20, xs, ds, table.shifted_twice) <=> ~ KeyConflict(cols_20, R, D, I)
    BY <1>4, <2>1, <2>2
  <2>7. /\ ternary_table_updates_check_01(table, u) <=> ~ KeyConflict(cols_01, R, D, I)
        /\ ternary_table_updates_check_01_2(table, u) <=>
             ~ KeyConflict(cols_01, R, D, I) /\ ~ KeyConflict(col_2, R, D, I)
        /\ ternary_table_updates_check_01_12(table, u) <=>
             ~ KeyConflict(cols_01, R, D, I) /\ ~ KeyConflict(cols_12, R, D, I)
        /\ ternary_table_updates_check_01_12_20(table, u) <=>
             ~ KeyConflict(cols_01, R, D, I) /\ ~ KeyConflict(cols_12, R, D, I) /\ ~ KeyConflict(cols_20, R, D, I)
    BY <1>1, <2>3, <2>4, <2>5, <2>6
      DEF ternary_table_updates_check_01, ternary_table_updates_check_01_2,
          ternary_table_updates_check_01_12, ternary_table_updates_check_01_12_20
  <2>8. Kind[t] \in {"ternary_01", "ternary_01_2", "ternary_01_12", "ternary_01_12_20"}
    BY <1>2, <2>1 DEF Unary, Binary, Kinds
  <2>9. CASE Kind[t] = "ternary_01"
    <3>1. Passes(t) <=> ternary_table_updates_check_01(table, u)
      BY <2>9 DEF Passes
    <3>2. Keys[t] = {cols_01}
      BY <1>2, <2>9 DEF KeysOf
    <3> QED
      BY <1>1, <2>7, <3>1, <3>2
  <2>10. CASE Kind[t] = "ternary_01_2"
    <3>1. Passes(t) <=> ternary_table_updates_check_01_2(table, u)
      BY <2>10 DEF Passes
    <3>2. Keys[t] = {cols_01, col_2}
      BY <1>2, <2>10 DEF KeysOf
    <3> QED
      BY <1>1, <2>7, <3>1, <3>2
  <2>11. CASE Kind[t] = "ternary_01_12"
    <3>1. Passes(t) <=> ternary_table_updates_check_01_12(table, u)
      BY <2>11 DEF Passes
    <3>2. Keys[t] = {cols_01, cols_12}
      BY <1>2, <2>11 DEF KeysOf
    <3> QED
      BY <1>1, <2>7, <3>1, <3>2
  <2>12. CASE Kind[t] = "ternary_01_12_20"
    <3>1. Passes(t) <=> ternary_table_updates_check_01_12_20(table, u)
      BY <2>12 DEF Passes
    <3>2. Keys[t] = {cols_01, cols_12, cols_20}
      BY <1>2, <2>12 DEF KeysOf
    <3> QED
      BY <1>1, <2>7, <3>1, <3>2
  <2> QED
    BY <2>8, <2>9, <2>10, <2>11, <2>12
<1>7. CASE t \in Unary
  <2>1. Kind[t] = "unary"
    BY <1>7 DEF Unary
  <2> QED
    BY <1>2, <2>1 DEF Passes, KeysOf
<1> QED
  BY <1>5, <1>6, <1>7, KindFacts

-----------------------------------------------------------------------------
(***************************************************************************)
(* Keys.  That no key is given twice is checked when an update has been    *)
(* staged, and relied on when its tables are applied, one by one.          *)
(***************************************************************************)
KeyUnique(K, R) == \A x, y \in R : key(K, x) = key(K, y) => x = y

KeysOK(tb, sg, ph, td) ==
  \A t \in Table : \A K \in Keys[t] :
    /\ KeyUnique(K, RowsOf(t, tb[t]))
    /\ ph # "staging" /\ ModeOf(t, ph, td) = "waiting" =>
         ~ KeyConflict(K, RowsOf(t, tb[t]), DeletedRows(t, sg[t]), InsertedRows(t, sg[t]))

KInv == KeysOK(tables, staged, phase, todo)

\* An update that gives no key twice leaves the keys unique.
LEMMA UniqueApplied ==
  ASSUME NEW K, NEW R, KeyUnique(K, R), NEW D \in SUBSET R, NEW I, ~ KeyConflict(K, R, D, I)
  PROVE  KeyUnique(K, (R \ D) \cup I)
<1>1. \A x, y \in R : key(K, x) = key(K, y) => x = y
  BY DEF KeyUnique
<1>2. \A x, y \in I : key(K, x) = key(K, y) => x = y
  BY DEF KeyConflict
<1>3. ASSUME NEW x \in R \ D, NEW y \in I, key(K, x) = key(K, y)
      PROVE  FALSE
  <2>1. PICK d \in D : key(K, d) = key(K, y)
    BY <1>3 DEF KeyConflict
  <2>2. d = x
    BY <1>1, <1>3, <2>1
  <2> QED
    BY <2>1, <2>2, <1>3
<1> QED
  BY <1>1, <1>2, <1>3 DEF KeyUnique

\* A table with a key is not unary, and has the columns of its keys.
LEMMA KeyColumns ==
  ASSUME NEW t \in Table, NEW K \in Keys[t]
  PROVE  t \notin Unary /\ \A i \in DOMAIN K : K[i] \in 1 .. Arity[t]
<1>1. K \in KeysOf(Kind[t]) /\ Kind[t] \in Kinds
  BY KindAssumption DEF Keys
<1>2. t \notin Unary
  BY <1>1 DEF KeysOf, Unary
<1>3. CASE t \in Binary
  <2>1. Arity[t] = 2 /\ (K = col_0 \/ K = col_1)
    BY <1>1, <1>3, KindFacts DEF Binary, KeysOf
  <2> QED
    BY <1>2, <2>1 DEF col_0, col_1
<1>4. CASE t \in Ternary
  <2>1. t \notin Binary /\ Arity[t] = 3
    BY <1>4, KindFacts
  <2>2. Kind[t] \in {"ternary_01", "ternary_01_2", "ternary_01_12", "ternary_01_12_20"}
    BY <1>1, <1>2, <2>1 DEF Unary, Binary, Kinds
  <2>3. K \in {cols_01, cols_12, col_2, cols_20}
    BY <1>1, <2>2 DEF KeysOf
  <2> QED
    BY <1>2, <2>1, <2>3 DEF cols_01, cols_12, col_2, cols_20
<1> QED
  BY <1>2, <1>3, <1>4, KindFacts

\* What is staged to be deleted from a table that is not unary is in it.
LEMMA DeletesInTable ==
  ASSUME NEW t \in Table, t \notin Unary, NEW table, NEW u, NEW K, NEW O, Waits(t, table, u, K, O)
  PROVE  DeletedRows(t, u) \in SUBSET RowsOf(t, table)
<1>1. u.deletes \in Seq(RowsOf(t, table))
  BY DEF Waits, DeletesIn
<1>2. \A k \in DOMAIN u.deletes : u.deletes[k] \in RowsOf(t, table)
  BY <1>1
<1> QED
  BY <1>2 DEF DeletedRows, Range

\* Before an update is checked, and once its tables are applied, all there is
\* to know is that the keys of the tables are unique.
LEMMA KeysStill ==
  ASSUME KInv, tables' = tables, phase' \in {"staging", "finishing"}
  PROVE  KInv'
<1>1. ASSUME NEW t \in Table
      PROVE  ~ (phase' # "staging" /\ ModeOf(t, phase', todo') = "waiting")
  BY DEF ModeOf
<1> QED
  BY <1>1 DEF KInv, KeysOK

\* The check finds out that no key is given twice.
LEMMA KeysChecked ==
  ASSUME IInv, KInv, Check
  PROVE  KInv'
<1>1. PICK fl : StateOK(store, vsu, tables, staged, phase, todo, fl)
  BY DEF IInv
<1>2. /\ phase = "staging" /\ phase' = "checked" /\ tables' = tables
      /\ staged' = [t \in Table |-> Sorted(t, staged[t])]
      /\ \A t \in Table : Passes(t)
  BY DEF Check, Sorted
<1>3. ASSUME NEW t \in Table, NEW K \in Keys[t]
      PROVE  ~ KeyConflict(K, RowsOf(t, tables[t]), DeletedRows(t, staged'[t]), InsertedRows(t, staged'[t]))
  <2>1. PICK table, u, u2, O, X : /\ table = tables[t] /\ u = staged[t] /\ u2 = staged'[t]
                                  /\ O = Occupied(store.block) /\ X = Known(store, vsu)
    OBVIOUS
  <2>2. Waits(t, table, u, X, O) /\ TableOK(t, table, O) /\ O \in SUBSET Nat /\ X \in SUBSET Nat
    BY <1>1, <1>2, <2>1, StagedWaits
  <2>3. TableStaged(t, table, u, O, X)
    BY <2>2 DEF TableStaged
  <2>4. ~ KeyConflict(K, RowsOf(t, table), DeletedRows(t, u), InsertedRows(t, u))
    BY <1>2, <2>1, <2>3, PassesFacts
  <2>5. u2 = Sorted(t, u)
    BY <1>2, <2>1
  <2>6. InsertedRows(t, u2) = InsertedRows(t, u) /\ DeletedRows(t, u2) = DeletedRows(t, u)
    BY <2>2, <2>5, CheckedFacts
  <2> QED
    BY <2>1, <2>4, <2>6
<1> QED
  BY <1>2, <1>3 DEF KInv, KeysOK

\* A table is applied as it has been checked.
LEMMA KeysApplied ==
  ASSUME IInv, KInv, SmallStore, NEW t \in Table, ApplyTable(t)
  PROVE  KInv'
<1>1. PICK fl : StateOK(store, vsu, tables, staged, phase, todo, fl)
  BY DEF IInv
<1>2. PICK out \in Applied(t) : tables' = [tables EXCEPT ![t] = out.table] /\ staged' = [staged EXCEPT ![t] = out.updates]
  BY DEF ApplyTable
<1>3. /\ phase = "applying" /\ t \in todo
      /\ todo' = (IF todo = {t} THEN Table ELSE todo \ {t})
      /\ phase' = (IF todo = {t} THEN "finishing" ELSE "applying")
  BY DEF ApplyTable
<1>4. todo \in SUBSET Table /\ tables = [x \in Table |-> tables[x]] /\ staged = [x \in Table |-> staged[x]]
  BY <1>1 DEF StateOK, Phased
<1>5. /\ ModeOf(t, phase, todo) = "waiting" /\ ModeOf(t, phase', todo') = "dropping"
      /\ \A x \in Table \ {t} : ModeOf(x, phase', todo') = ModeOf(x, phase, todo)
  <2>1. PICK ph, td, ph2, td2 : ph = phase /\ td = todo /\ ph2 = phase' /\ td2 = todo'
    OBVIOUS
  <2>2. /\ ph = "applying" /\ td \in SUBSET Table /\ t \in td
        /\ td2 = (IF td = {t} THEN Table ELSE td \ {t})
        /\ ph2 = (IF td = {t} THEN "finishing" ELSE "applying")
    BY <1>3, <1>4, <2>1
  <2>3. CASE td = {t}
    BY <2>1, <2>2, <2>3 DEF ModeOf
  <2>4. CASE td # {t}
    BY <2>1, <2>2, <2>4 DEF ModeOf
  <2> QED
    BY <2>3, <2>4
<1>6. ASSUME NEW x \in Table \ {t}
      PROVE  tables'[x] = tables[x] /\ staged'[x] = staged[x]
  BY <1>2, <1>4
<1>7. tables'[t] = out.table
  BY <1>2, <1>4
<1>8. ASSUME NEW K \in Keys[t]
      PROVE  KeyUnique(K, RowsOf(t, out.table))
  <2>1. PICK R, D, I : R = RowsOf(t, tables[t]) /\ D = DeletedRows(t, staged[t]) /\ I = InsertedRows(t, staged[t])
    OBVIOUS
  <2>2. /\ Waits(t, tables[t], staged[t], Occupied(store.block), Occupied(store.block))
        /\ TableApplied(t, tables[t], staged[t], Slots(store.block), out)
    BY <1>1, <1>2, <1>3, ApplyingFacts
  <2>3. RowsOf(t, out.table) = (R \ D) \cup I
    BY <2>1, <2>2 DEF TableApplied
  <2>4. D \in SUBSET R
    BY <2>1, <2>2, KeyColumns, DeletesInTable
  <2>5. KeyUnique(K, R) /\ ~ KeyConflict(K, R, D, I)
    BY <1>3, <1>5, <2>1 DEF KInv, KeysOK
  <2>6. KeyUnique(K, (R \ D) \cup I)
    BY <2>4, <2>5, UniqueApplied
  <2> QED
    BY <2>3, <2>6
<1> QED
  <2> SUFFICES ASSUME NEW x \in Table, NEW K \in Keys[x]
               PROVE  /\ KeyUnique(K, RowsOf(x, tables'[x]))
                      /\ phase' # "staging" /\ ModeOf(x, phase', todo') = "waiting" =>
                           ~ KeyConflict(K, RowsOf(x, tables'[x]), DeletedRows(x, staged'[x]), InsertedRows(x, staged'[x]))
    BY DEF KInv, KeysOK
  <2>1. CASE x = t
    BY <1>5, <1>7, <1>8, <2>1
  <2>2. CASE x # t
    BY <1>3, <1>5, <1>6, <2>2 DEF KInv, KeysOK
  <2> QED
    BY <2>1, <2>2

\* Every step keeps the keys.
LEMMA KeysStep == IInv /\ KInv /\ SmallStore /\ [Next]_vars => KInv'
<1> SUFFICES ASSUME IInv, KInv, SmallStore, [Next]_vars
             PROVE  KInv'
  OBVIOUS
<1>1. ASSUME NEW t \in Table, NEW values \in RowOfValues(t), InsertRow(t, values) \/ DeleteRow(t, values)
      PROVE  KInv'
  BY <1>1, KeysStill DEF InsertRow, DeleteRow
<1>2. ASSUME NEW t \in Table, NEW K \in ColumnsOf[t], NEW values \in [DOMAIN K -> Value],
             DeleteBy(t, K, values)
      PROVE  KInv'
  BY <1>2, KeysStill DEF DeleteBy
<1>3. ASSUME NEW t \in Table, NEW relation, SetTable(t, relation)
      PROVE  KInv'
  BY <1>3, KeysStill DEF SetTable
<1>4. ASSUME NEW t \in Table, FinishTable(t)
      PROVE  KInv'
  BY <1>4, KeysStill DEF FinishTable
<1>5. CASE Reject
  BY <1>5, KeysStill DEF Reject
<1>6. CASE ApplyStore
  <2>1. \A t \in Table : ModeOf(t, phase, todo) = "waiting"
    BY <1>6 DEF ApplyStore, ModeOf
  <2> QED
    BY <1>6, <2>1 DEF ApplyStore, KInv, KeysOK
<1>7. CASE UNCHANGED vars
  BY <1>7 DEF vars, KInv
<1> QED
  BY <1>1, <1>2, <1>3, <1>4, <1>5, <1>6, <1>7, KeysChecked, KeysApplied DEF Next

\* At first the tables are empty.
LEMMA KeysInit == Init => KInv
<1> SUFFICES ASSUME Init, NEW t \in Table
             PROVE  RowsOf(t, tables[t]) = {} /\ phase = "staging"
  BY DEF KInv, KeysOK, KeyUnique
<1> QED
  BY DEF Init, RowsOf, UnaryRows, unary_table_init, binary_table_init, ternary_table_init

\* Rows are made of surrogates that are in use.
LEMMA RowsKnown ==
  ASSUME NEW st, NEW v, NEW tb, NEW sg, NEW ph, NEW td, NEW fl,
         StateOK(st, v, tb, sg, ph, td, fl), NEW t \in Table
  PROVE  /\ RowsOf(t, tb[t]) \in SUBSET [1 .. Arity[t] -> Occupied(st.block)]
         /\ RowsOf(t, tb[t]) \in SUBSET [1 .. Arity[t] -> Known(st, v)]
<1>1. RowsOf(t, tb[t]) \in SUBSET [1 .. Arity[t] -> Slots(st.block)]
  BY DEF StateOK, TablesOK, TableOK
<1>2. ASSUME NEW row \in RowsOf(t, tb[t])
      PROVE  row \in [1 .. Arity[t] -> Occupied(st.block)]
  <2>1. \A c \in DOMAIN row : row[c] \in Occupied(st.block)
    BY RowsStored
  <2> QED
    BY <1>1, <2>1
<1>3. Occupied(st.block) \subseteq Known(st, v)
  BY DEF Known
<1> QED
  BY <1>2, <1>3

\* No two rows of a table have the same key, at any step of any update.
THEOREM KeysKept == Spec /\ []SmallStore => []KeysUnique
<1>1. IInv /\ KInv => KeysUnique
  <2> SUFFICES ASSUME IInv, KInv, NEW t \in Table, NEW K \in Keys[t],
                      NEW row1 \in Relation(t), NEW row2 \in Relation(t), key(K, row1) = key(K, row2)
               PROVE  row1 = row2
    BY DEF KeysUnique, DB!KeysUnique, DB!KeyOf, key
  <2>1. PICK fl : StateOK(store, vsu, tables, staged, phase, todo, fl)
    BY DEF IInv
  <2>2. PICK held : Sound(store, held, fl, vsu)
    BY <2>1 DEF StateOK
  <2>3. PICK n, R : n = Arity[t] /\ R = RowsOf(t, tables[t])
    OBVIOUS
  <2>4. R \in SUBSET [1 .. n -> Known(store, vsu)]
    BY <2>1, <2>3, RowsKnown
  <2>5. Relation(t) = {Stands(store, vsu, row) : row \in R}
    BY <2>3, RowsAre DEF Relation, ValuesOf, Stands
  <2>6. PICK x \in R, y \in R : row1 = Stands(store, vsu, x) /\ row2 = Stands(store, vsu, y)
    BY <2>5
  <2>7. \A i \in DOMAIN K : K[i] \in 1 .. n
    BY <2>3, KeyColumns
  <2>8. key(K, x) = key(K, y)
    BY <2>2, <2>4, <2>6, <2>7, KeysStand
  <2>9. KeyUnique(K, R)
    BY <2>3 DEF KInv, KeysOK
  <2> QED
    BY <2>6, <2>8, <2>9 DEF KeyUnique
<1> QED
  BY <1>1, DatabaseInvariant, KeysInit, KeysStep, PTL DEF Spec

-----------------------------------------------------------------------------
(***************************************************************************)
(* Tables implement relations.  The relations that the tables stand for,   *)
(* and the rows of values staged for them, change in each step as          *)
(* AbstractDatabase has them change, or stay as they are.                  *)
(***************************************************************************)

MappedRel == [t \in Table |-> Relation(t)]

MappedDels == [t \in Table |-> IF Waiting(t)
                               THEN {ValuesOf(row) : row \in Range(StagedDeletes(t)) \cap Rows(t)}
                               ELSE {}]

MappedIns == [t \in Table |-> IF Waiting(t)
                              THEN {ValuesOf(row) : row \in Range(StagedInserts(t))}
                              ELSE {}]

MappedPending == IF phase = "checked" THEN Table ELSE IF phase = "applying" THEN todo ELSE {}

\* The rows that a table is about to lose and to gain.
Going(t, table, u, mode) == IF mode = "waiting" THEN DeletedRows(t, u) \cap RowsOf(t, table) ELSE {}
Coming(t, u, mode) == IF mode = "waiting" THEN InsertedRows(t, u) ELSE {}

RelOf(st, v, tb) == [t \in Table |-> Meaning(st, v, RowsOf(t, tb[t]))]

DelsOf(st, v, tb, sg, ph, td) ==
  [t \in Table |-> Meaning(st, v, Going(t, tb[t], sg[t], ModeOf(t, ph, td)))]

InsOf(st, v, sg, ph, td) == [t \in Table |-> Meaning(st, v, Coming(t, sg[t], ModeOf(t, ph, td)))]

PendingOf(ph, td) == IF ph = "checked" THEN Table ELSE IF ph = "applying" THEN td ELSE {}

\* The refinement mapping, of the surrogates that tables and updates are made of.
MappingIs ==
  /\ MappedRel = RelOf(store, vsu, tables)
  /\ MappedDels = DelsOf(store, vsu, tables, staged, phase, todo)
  /\ MappedIns = InsOf(store, vsu, staged, phase, todo)
  /\ MappedPending = PendingOf(phase, todo)

\* Reading the rows from tables and updates gives this mapping.
LEMMA MappedAre == IInv => MappingIs
<1> SUFFICES ASSUME IInv
             PROVE  MappingIs
  OBVIOUS
<1>1. PICK fl : StateOK(store, vsu, tables, staged, phase, todo, fl)
  BY DEF IInv
<1>2. ASSUME NEW t \in Table
      PROVE  /\ Waiting(t) <=> ModeOf(t, phase, todo) = "waiting"
             /\ Waiting(t) => UpdatesShaped(t, staged[t])
  <2>1. Waiting(t) <=> ModeOf(t, phase, todo) = "waiting"
    BY DEF Waiting, ModeOf
  <2> QED
    BY <1>1, <2>1 DEF StateOK, TablesOK, UpdatesOK, Waits
<1>3. \A rows : {ValuesOf(row) : row \in rows} = Meaning(store, vsu, rows)
  BY DEF ValuesOf, Meaning, Stands
<1>4. \A t \in Table : Relation(t) = Meaning(store, vsu, RowsOf(t, tables[t]))
  BY <1>3, RowsAre DEF Relation
<1>5. ASSUME NEW t \in Table
      PROVE  /\ (IF Waiting(t) THEN {ValuesOf(row) : row \in Range(StagedDeletes(t)) \cap Rows(t)} ELSE {})
                  = Meaning(store, vsu, Going(t, tables[t], staged[t], ModeOf(t, phase, todo)))
             /\ (IF Waiting(t) THEN {ValuesOf(row) : row \in Range(StagedInserts(t))} ELSE {})
                  = Meaning(store, vsu, Coming(t, staged[t], ModeOf(t, phase, todo)))
  <2>1. CASE Waiting(t)
    <3>1. /\ Range(StagedInserts(t)) = InsertedRows(t, staged[t])
          /\ Range(StagedDeletes(t)) = DeletedRows(t, staged[t])
          /\ Rows(t) = RowsOf(t, tables[t])
      BY <1>2, <2>1, RowsAre
    <3> QED
      BY <1>2, <1>3, <2>1, <3>1 DEF Going, Coming
  <2>2. CASE ~ Waiting(t)
    BY <1>2, <2>2 DEF Going, Coming, Meaning
  <2> QED
    BY <2>1, <2>2
<1> QED
  BY <1>4, <1>5 DEF MappingIs, MappedRel, MappedDels, MappedIns, MappedPending, RelOf, DelsOf, InsOf, PendingOf

\* In the state after a step too.
LEMMA MappedNext ==
  IInv' => /\ MappedRel' = RelOf(store', vsu', tables')
           /\ MappedDels' = DelsOf(store', vsu', tables', staged', phase', todo')
           /\ MappedIns' = InsOf(store', vsu', staged', phase', todo')
           /\ MappedPending' = PendingOf(phase', todo')
<1>1. IInv' => MappingIs'
  BY MappedAre, PTL
<1> QED
  BY <1>1 DEF MappingIs

\* What changes when the rows of one table are staged.
StagedSo(st, v, tb, sg, td, v2, sg2, t) ==
  /\ RelOf(st, v2, tb) = RelOf(st, v, tb)
  /\ DelsOf(st, v2, tb, sg2, "staging", td) =
       [DelsOf(st, v, tb, sg, "staging", td) EXCEPT
          ![t] = Meaning(st, v, DeletedRows(t, sg2[t]) \cap RowsOf(t, tb[t]))]
  /\ InsOf(st, v2, sg2, "staging", td) =
       [InsOf(st, v, sg, "staging", td) EXCEPT ![t] = Meaning(st, v2, InsertedRows(t, sg2[t]))]

\* Nothing else does, whatever surrogates have been promised for it.
LEMMA StagingMaps ==
  ASSUME NEW st, NEW v, NEW tb, NEW sg, NEW td, NEW fl, StateOK(st, v, tb, sg, "staging", td, fl),
         NEW v2, Extends(st, v, v2), NEW t \in Table, NEW sg2, sg2 = [x \in Table |-> sg2[x]],
         \A x \in Table \ {t} : sg2[x] = sg[x]
  PROVE  StagedSo(st, v, tb, sg, td, v2, sg2, t)
<1>1. ASSUME NEW x \in Table
      PROVE  ModeOf(x, "staging", td) = "waiting"
  BY DEF ModeOf
<1>2. ASSUME NEW x \in Table, NEW rows, rows \in SUBSET [1 .. Arity[x] -> Known(st, v)]
      PROVE  Meaning(st, v2, rows) = Meaning(st, v, rows)
  <2>1. PICK n : n = Arity[x]
    OBVIOUS
  <2>2. rows \in SUBSET [1 .. n -> Known(st, v)]
    BY <1>2, <2>1
  <2> QED
    BY <2>2, MeaningKept
<1>3. ASSUME NEW x \in Table
      PROVE  /\ RowsOf(x, tb[x]) \in SUBSET [1 .. Arity[x] -> Known(st, v)]
             /\ InsertedRows(x, sg[x]) \in SUBSET [1 .. Arity[x] -> Known(st, v)]
  <2>1. RowsOf(x, tb[x]) \in SUBSET [1 .. Arity[x] -> Known(st, v)]
    BY RowsKnown
  <2>2. Waits(x, tb[x], sg[x], Known(st, v), Occupied(st.block))
    BY StagedWaits
  <2> QED
    BY <2>1, <2>2, InsertedTyped
<1>4. \A x \in Table : Meaning(st, v2, RowsOf(x, tb[x])) = Meaning(st, v, RowsOf(x, tb[x]))
  BY <1>2, <1>3
<1>5. \A x \in Table : \A rows : Meaning(st, v2, rows \cap RowsOf(x, tb[x])) = Meaning(st, v, rows \cap RowsOf(x, tb[x]))
  BY <1>2, <1>3
<1>6. \A x \in Table : Meaning(st, v2, InsertedRows(x, sg[x])) = Meaning(st, v, InsertedRows(x, sg[x]))
  BY <1>2, <1>3
<1>7. RelOf(st, v2, tb) = RelOf(st, v, tb)
  BY <1>4 DEF RelOf
<1>8. DelsOf(st, v2, tb, sg2, "staging", td) =
        [DelsOf(st, v, tb, sg, "staging", td) EXCEPT
           ![t] = Meaning(st, v, DeletedRows(t, sg2[t]) \cap RowsOf(t, tb[t]))]
  BY <1>1, <1>5 DEF DelsOf, Going
<1>9. InsOf(st, v2, sg2, "staging", td) =
        [InsOf(st, v, sg, "staging", td) EXCEPT ![t] = Meaning(st, v2, InsertedRows(t, sg2[t]))]
  BY <1>1, <1>6 DEF InsOf, Coming
<1> QED
  BY <1>7, <1>8, <1>9 DEF StagedSo

\* The same of the relations: those of the table that is staged, and the step.
MappedOf(t) ==
  /\ MappedRel[t] = Meaning(store, vsu, RowsOf(t, tables[t]))
  /\ MappedDels[t] = Meaning(store, vsu, DeletedRows(t, staged[t]) \cap RowsOf(t, tables[t]))
  /\ MappedIns[t] = Meaning(store, vsu, InsertedRows(t, staged[t]))
  /\ MappedPending = {}

MappedStep(t, v2, u2) ==
  /\ MappedRel' = MappedRel /\ MappedPending' = MappedPending
  /\ MappedDels' = [MappedDels EXCEPT ![t] = Meaning(store, vsu, DeletedRows(t, u2) \cap RowsOf(t, tables[t]))]
  /\ MappedIns' = [MappedIns EXCEPT ![t] = Meaning(store, v2, InsertedRows(t, u2))]

\* Which follows from how the mapping changes.
LEMMA StagedMaps ==
  ASSUME IInv, IInv', NEW t \in Table, phase = "staging",
         phase' = phase, store' = store, tables' = tables, todo' = todo,
         NEW v2, vsu' = v2, Extends(store, vsu, v2),
         NEW u2, staged' = [staged EXCEPT ![t] = u2]
  PROVE  MappedOf(t) /\ MappedStep(t, v2, u2)
<1>1. PICK fl : StateOK(store, vsu, tables, staged, phase, todo, fl)
  BY DEF IInv
<1>2. PICK st, v, tb, sg, td : st = store /\ v = vsu /\ tb = tables /\ sg = staged /\ td = todo
  OBVIOUS
<1>3. PICK sg2 : sg2 = staged'
  OBVIOUS
<1>4. sg = [x \in Table |-> sg[x]]
  BY <1>1, <1>2 DEF StateOK, Phased
<1>5. sg2 = [x \in Table |-> sg2[x]] /\ sg2[t] = u2 /\ \A x \in Table \ {t} : sg2[x] = sg[x]
  BY <1>2, <1>3, <1>4
<1>6. StateOK(st, v, tb, sg, "staging", td, fl) /\ Extends(st, v, v2)
  BY <1>1, <1>2
<1>7. StagedSo(st, v, tb, sg, td, v2, sg2, t)
  BY <1>5, <1>6, StagingMaps
<1>8. /\ MappedRel = RelOf(st, v, tb) /\ MappedDels = DelsOf(st, v, tb, sg, "staging", td)
      /\ MappedIns = InsOf(st, v, sg, "staging", td) /\ MappedPending = PendingOf("staging", td)
  BY <1>2, MappedAre DEF MappingIs
<1>9. /\ MappedRel' = RelOf(st, v2, tb) /\ MappedDels' = DelsOf(st, v2, tb, sg2, "staging", td)
      /\ MappedIns' = InsOf(st, v2, sg2, "staging", td) /\ MappedPending' = PendingOf("staging", td)
  BY <1>2, <1>3, MappedNext
<1>10. MappedOf(t)
  <2>1. ModeOf(t, "staging", td) = "waiting"
    BY DEF ModeOf
  <2> QED
    BY <1>2, <1>8, <2>1 DEF MappedOf, RelOf, DelsOf, InsOf, PendingOf, Going, Coming
<1>11. MappedStep(t, v2, u2)
  BY <1>2, <1>5, <1>7, <1>8, <1>9 DEF MappedStep, StagedSo
<1> QED
  BY <1>10, <1>11

\* insert stages a row of values.
LEMMA InsertMaps ==
  ASSUME IInv, NEW t \in Table, NEW values \in RowOfValues(t), InsertRow(t, values)
  PROVE  DB!Insert(t, values)
<1>1. PICK fl : StateOK(store, vsu, tables, staged, phase, todo, fl)
  BY DEF IInv
<1>2. PICK in : in = InternRow(store, vsu, values)
  OBVIOUS
<1>3. PICK v2, u, u2, row : /\ v2 = in.updates /\ u = staged[t] /\ row = in.row
                            /\ u2 = Inserted(t, u, row)
  OBVIOUS
<1>4. /\ phase = "staging" /\ vsu' = v2 /\ staged' = [staged EXCEPT ![t] = u2]
      /\ store' = store /\ tables' = tables /\ phase' = phase /\ todo' = todo
  BY <1>2, <1>3 DEF InsertRow
<1>5. PICK held, n : /\ held = Referred(store, tables, staged, phase, todo)
                     /\ Sound(store, held, fl, vsu) /\ n = Arity[t]
  BY <1>1 DEF StateOK
<1>6. n \in Nat /\ values \in [1 .. n -> Value]
  BY <1>5, KindFacts DEF RowOfValues
<1>7. /\ Sound(store, held, fl, v2) /\ Extends(store, vsu, v2)
      /\ row \in [1 .. n -> Known(store, v2)]
      /\ \A i \in 1 .. n : Denotes(store, v2, row[i]) = values[i]
  <2>1. /\ Sound(store, held, fl, in.updates) /\ Extends(store, vsu, in.updates)
        /\ in.row \in [1 .. n -> Known(store, in.updates)]
        /\ \A i \in 1 .. n : Denotes(store, in.updates, in.row[i]) = values[i]
    BY <1>2, <1>5, <1>6, InternRowKeeps
  <2> QED
    BY <1>3, <2>1
<1>8. IInv'
  BY InsertRowKeeps
<1>9. PICK table, K, K2, O : /\ table = tables[t] /\ K = Known(store, vsu) /\ K2 = Known(store, v2)
                             /\ O = Occupied(store.block)
  OBVIOUS
<1>10. Waits(t, table, u, K, O)
  BY <1>1, <1>3, <1>4, <1>9, StagedWaits
<1>11. K2 \in SUBSET Nat /\ Waits(t, table, u, K2, O)
  <2>1. \A k \in 1 .. v2.count : v2.surrs[k] \in Nat
    BY <1>7, StagedFacts
  <2>2. O \in SUBSET Nat
    BY <1>9 DEF Occupied, Slots
  <2>3. K2 \in SUBSET Nat
    BY <1>9, <2>1, <2>2 DEF Known
  <2>4. K \subseteq K2
    BY <1>7, <1>9 DEF Extends
  <2> QED
    BY <1>10, <2>3, <2>4, WaitsMore
<1>12. row \in [1 .. Arity[t] -> K2]
  BY <1>5, <1>7, <1>9
<1>13. /\ Waits(t, table, u2, K2, O)
       /\ InsertedRows(t, u2) = InsertedRows(t, u) \cup {row}
       /\ DeletedRows(t, u2) = DeletedRows(t, u)
  <2>1. u2 = Inserted(t, u, row)
    BY <1>3
  <2> QED
    BY <1>11, <1>12, <2>1, InsertedFacts
<1>14. Stands(store, v2, row) = values
  BY <1>6, <1>7 DEF Stands
<1>15. Meaning(store, v2, InsertedRows(t, u2)) = Meaning(store, v2, InsertedRows(t, u)) \cup {values}
  BY <1>13, <1>14 DEF Meaning
<1>16. Meaning(store, v2, InsertedRows(t, u)) = Meaning(store, vsu, InsertedRows(t, u))
  <2>1. PICK rows : rows = InsertedRows(t, u)
    OBVIOUS
  <2>2. rows \in SUBSET [1 .. n -> Known(store, vsu)]
    BY <1>5, <1>9, <1>10, <2>1, InsertedTyped
  <2>3. Meaning(store, v2, rows) = Meaning(store, vsu, rows)
    BY <1>7, <2>2, MeaningKept
  <2> QED
    BY <2>1, <2>3
<1>17. MappedOf(t) /\ MappedStep(t, v2, u2)
  BY <1>4, <1>7, <1>8, StagedMaps
<1>18. MappedIns' = [MappedIns EXCEPT ![t] = MappedIns[t] \cup {values}]
  BY <1>3, <1>15, <1>16, <1>17 DEF MappedOf, MappedStep
<1>19. MappedDels' = MappedDels
  <2>1. MappedDels' = [MappedDels EXCEPT ![t] = MappedDels[t]]
    BY <1>3, <1>13, <1>17 DEF MappedOf, MappedStep
  <2> QED
    BY <2>1 DEF MappedDels
<1> QED
  BY <1>17, <1>18, <1>19 DEF MappedOf, MappedStep, DB!Insert, MappedRel, MappedDels, MappedIns, MappedPending

\* The rows with certain surrogates, or values, in some columns.
Selected(R, K, k) == {row \in R : key(K, row) = k}
Having(R, K, values) == {row \in R : \A i \in DOMAIN K : row[K[i]] = values[i]}

\* The surrogates in k are those of values.
StoredUnder(st, K, k, values) ==
  /\ k \in [DOMAIN K -> Occupied(st.block)]
  /\ \A i \in DOMAIN K : st.block.slots[k[i]] = values[i]

\* The rows with some surrogates stand for those with the values these are
\* stored for.
LEMMA SelectStands ==
  ASSUME NEW st, NEW held, NEW fl, NEW v, Sound(st, held, fl, v), NEW n,
         NEW O, O = Occupied(st.block), NEW R \in SUBSET [1 .. n -> O],
         NEW K, \A i \in DOMAIN K : K[i] \in 1 .. n,
         NEW k, NEW values, StoredUnder(st, K, k, values)
  PROVE  Meaning(st, v, Selected(R, K, k)) = Having(Meaning(st, v, R), K, values)
<1>1. \A s \in O : Denotes(st, v, s) = st.block.slots[s]
  BY DenotesFacts
<1>2. k \in [DOMAIN K -> O] /\ \A i \in DOMAIN K : st.block.slots[k[i]] = values[i]
  BY DEF StoredUnder
<1>3. \A s1, s2 \in O : st.block.slots[s1] = st.block.slots[s2] => s1 = s2
  BY DEF Sound, StoreKeyed, Keyed
<1>4. ASSUME NEW row \in R
      PROVE  key(K, row) = k <=> \A i \in DOMAIN K : Stands(st, v, row)[K[i]] = values[i]
  <2>1. \A i \in DOMAIN K : row[K[i]] \in O /\ Stands(st, v, row)[K[i]] = st.block.slots[row[K[i]]]
    BY <1>1 DEF Stands
  <2>2. key(K, row) = k <=> \A i \in DOMAIN K : row[K[i]] = k[i]
    <3>1. k = [i \in DOMAIN K |-> k[i]]
      BY <1>2
    <3> QED
      BY <3>1 DEF key
  <2>3. \A i \in DOMAIN K : row[K[i]] = k[i] <=> st.block.slots[row[K[i]]] = values[i]
    BY <1>2, <1>3, <2>1
  <2> QED
    BY <2>1, <2>2, <2>3
<1> QED
  BY <1>4 DEF Meaning, Selected, Having

\* A step stages, for t, only the deletion of its rows with the surrogates k.
StagesDeletes(t, u2, K, k) ==
  /\ phase = "staging" /\ staged' = [staged EXCEPT ![t] = u2]
  /\ phase' = phase /\ store' = store /\ tables' = tables /\ todo' = todo /\ vsu' = vsu
  /\ InsertedRows(t, u2) = InsertedRows(t, staged[t])
  /\ LET R == RowsOf(t, tables[t])
     IN  DeletedRows(t, u2) \cap R = (DeletedRows(t, staged[t]) \cap R) \cup Selected(R, K, k)

\* These stand for values in some columns C of a row.
RowHas(t, K, values, C, row) ==
  /\ \A i \in DOMAIN K : K[i] \in 1 .. Arity[t] /\ values[i] = row[K[i]]
  /\ C = {K[i] : i \in DOMAIN K}

\* Staging the deletion of the rows with some values.
LEMMA DeletesMap ==
  ASSUME IInv, IInv', NEW t \in Table, NEW u2, NEW K, NEW k, StagesDeletes(t, u2, K, k),
         NEW values, StoredUnder(store, K, k, values),
         NEW row \in DB!Row(t), NEW C, RowHas(t, K, values, C, row)
  PROVE  DB!Delete(t, C, row)
<1>1. PICK fl : StateOK(store, vsu, tables, staged, phase, todo, fl)
  BY DEF IInv
<1>2. PICK held, n, O : /\ held = Referred(store, tables, staged, phase, todo)
                        /\ Sound(store, held, fl, vsu) /\ n = Arity[t] /\ O = Occupied(store.block)
  BY <1>1 DEF StateOK
<1>3. PICK R : R = RowsOf(t, tables[t]) /\ R \in SUBSET [1 .. n -> O]
  BY <1>1, <1>2, RowsKnown
<1>4. PICK st, v : st = store /\ v = vsu
  OBVIOUS
<1>5. \A i \in DOMAIN K : K[i] \in 1 .. n
  BY <1>2 DEF RowHas
<1>6. Meaning(store, vsu, Selected(R, K, k)) = Having(Meaning(store, vsu, R), K, values)
  <2>1. Sound(st, held, fl, v) /\ O = Occupied(st.block) /\ StoredUnder(st, K, k, values)
    BY <1>2, <1>4
  <2>2. Meaning(st, v, Selected(R, K, k)) = Having(Meaning(st, v, R), K, values)
    BY <1>3, <1>5, <2>1, SelectStands
  <2> QED
    BY <1>4, <2>2
<1>7. Extends(store, vsu, vsu)
  BY DEF Extends
<1>8. MappedOf(t) /\ MappedStep(t, vsu, u2)
  BY <1>7, StagedMaps DEF StagesDeletes
<1>9. C = {K[i] : i \in DOMAIN K} /\ \A i \in DOMAIN K : values[i] = row[K[i]]
  BY DEF RowHas
<1>10. {r \in MappedRel[t] : \A i \in C : r[i] = row[i]} =
         Having(Meaning(store, vsu, R), K, values)
  BY <1>3, <1>8, <1>9 DEF MappedOf, Having
<1>11. Meaning(store, vsu, DeletedRows(t, u2) \cap R) =
         MappedDels[t] \cup {r \in MappedRel[t] : \A i \in C : r[i] = row[i]}
  <2>1. PICK D : D = DeletedRows(t, staged[t]) \cap R
    OBVIOUS
  <2>2. Meaning(store, vsu, DeletedRows(t, u2) \cap R) =
          Meaning(store, vsu, D) \cup Meaning(store, vsu, Selected(R, K, k))
    BY <1>3, <2>1 DEF Meaning, StagesDeletes
  <2>3. MappedDels[t] = Meaning(store, vsu, D)
    BY <1>3, <1>8, <2>1 DEF MappedOf
  <2> QED
    BY <1>6, <1>10, <2>2, <2>3
<1>12. MappedDels' = [MappedDels EXCEPT ![t] = MappedDels[t] \cup {r \in MappedRel[t] : \A i \in C : r[i] = row[i]}]
  BY <1>3, <1>8, <1>11 DEF MappedStep
<1>13. MappedIns' = MappedIns
  <2>1. MappedIns' = [MappedIns EXCEPT ![t] = MappedIns[t]]
    BY <1>8 DEF MappedOf, MappedStep, StagesDeletes
  <2> QED
    BY <2>1 DEF MappedIns
<1> QED
  BY <1>8, <1>12, <1>13 DEF MappedOf, MappedStep, DB!Delete, MappedRel, MappedDels, MappedIns, MappedPending

\* delete stages the deletion of a row of values, which has all columns.
LEMMA DeleteRowMaps ==
  ASSUME IInv, NEW t \in Table, NEW values \in RowOfValues(t), DeleteRow(t, values)
  PROVE  DB!Delete(t, 1 .. Arity[t], values)
<1>1. PICK fl : StateOK(store, vsu, tables, staged, phase, todo, fl)
  BY DEF IInv
<1>2. PICK row, u, u2, R, n : /\ row = LookupRow(store, values) /\ u = staged[t] /\ u2 = Deleted(t, u, row)
                              /\ R = RowsOf(t, tables[t]) /\ n = Arity[t]
  OBVIOUS
<1>3. /\ phase = "staging" /\ vsu' = vsu /\ Found(row) /\ staged' = [staged EXCEPT ![t] = u2]
      /\ store' = store /\ tables' = tables /\ phase' = phase /\ todo' = todo
  BY <1>2 DEF DeleteRow
<1>4. PICK held, O, K : /\ held = Referred(store, tables, staged, phase, todo)
                        /\ Sound(store, held, fl, vsu)
                        /\ O = Occupied(store.block) /\ K = Known(store, vsu)
  BY <1>1 DEF StateOK
<1>5. PICK table : table = tables[t] /\ Waits(t, table, u, K, O) /\ O \in SUBSET Nat
  BY <1>1, <1>2, <1>3, <1>4, StagedWaits
<1>6. n \in Nat /\ values \in [1 .. n -> Value]
  BY <1>2, KindFacts DEF RowOfValues
<1>7. row \in [1 .. n -> O] /\ \A i \in 1 .. n : store.block.slots[row[i]] = values[i]
  BY <1>2, <1>3, <1>4, <1>6, LookupRowFacts DEF Sound
<1>8. /\ InsertedRows(t, u2) = InsertedRows(t, u)
      /\ DeletedRows(t, u2) \cap R = (DeletedRows(t, u) \cup {row}) \cap R
  <2>1. row \in [1 .. Arity[t] -> O] /\ u2 = Deleted(t, u, row) /\ table = tables[t]
    BY <1>2, <1>5, <1>7
  <2>2. Waits(t, table, u2, K, O) /\ RowStaged(t, table, u, u2, row)
    BY <1>5, <2>1, DeletedFacts
  <2> QED
    BY <1>2, <1>5, <2>2 DEF RowStaged
<1>9. PICK all : all = [i \in 1 .. n |-> i]
  OBVIOUS
<1>10. /\ DOMAIN all = 1 .. n /\ \A i \in DOMAIN all : all[i] \in 1 .. Arity[t]
       /\ {all[i] : i \in DOMAIN all} = 1 .. Arity[t]
  BY <1>2, <1>9
<1>11. Selected(R, all, row) = {row} \cap R
  <2>1. R \in SUBSET [1 .. n -> O]
    BY <1>1, <1>2, <1>4, RowsKnown
  <2>2. \A r \in R : key(all, r) = r
    BY <1>9, <2>1 DEF key
  <2> QED
    BY <2>2 DEF Selected
<1>12. StagesDeletes(t, u2, all, row)
  BY <1>2, <1>3, <1>8, <1>11 DEF StagesDeletes
<1>13. StoredUnder(store, all, row, values)
  BY <1>4, <1>7, <1>9 DEF StoredUnder
<1>14. values \in DB!Row(t) /\ RowHas(t, all, values, 1 .. Arity[t], values)
  BY <1>2, <1>6, <1>9, <1>10 DEF DB!Row, RowHas
<1>15. IInv'
  BY DeleteRowKeeps
<1> QED
  BY <1>12, <1>13, <1>14, <1>15, DeletesMap

\* delete_by stages the deletion of the rows with given values in some columns.
LEMMA DeleteByMaps ==
  ASSUME IInv, NEW t \in Table, NEW K \in ColumnsOf[t], NEW values \in [DOMAIN K -> Value],
         DeleteBy(t, K, values)
  PROVE  \E row \in DB!Row(t) : \E C \in SUBSET (1 .. Arity[t]) : DB!Delete(t, C, row)
<1>1. PICK fl : StateOK(store, vsu, tables, staged, phase, todo, fl)
  BY DEF IInv
<1>2. PICK k, u, u2, R, table : /\ k = LookupRow(store, values) /\ u = staged[t] /\ u2 = RangeDeleted(t, u, K, k)
                                /\ R = RowsOf(t, tables[t]) /\ table = tables[t]
  OBVIOUS
<1>3. /\ phase = "staging" /\ vsu' = vsu /\ Found(k) /\ staged' = [staged EXCEPT ![t] = u2]
      /\ store' = store /\ tables' = tables /\ phase' = phase /\ todo' = todo
  BY <1>2 DEF DeleteBy
<1>4. PICK held, O, I : /\ held = Referred(store, tables, staged, phase, todo)
                        /\ Sound(store, held, fl, vsu)
                        /\ O = Occupied(store.block) /\ I = Known(store, vsu)
  BY <1>1 DEF StateOK
<1>5. Waits(t, table, u, I, O) /\ O \in SUBSET Nat /\ TableOK(t, table, O)
  BY <1>1, <1>2, <1>3, <1>4, StagedWaits
<1>6. /\ t \notin Unary /\ \A i \in DOMAIN K : K[i] \in 1 .. Arity[t]
      /\ DOMAIN K \in {1 .. 1, 1 .. 2} /\ \A i, j \in DOMAIN K : K[i] = K[j] => i = j
  <2>1. CASE t \in Unary
    BY <2>1 DEF ColumnsOf
  <2>2. CASE t \in Binary
    BY <2>2, KindFacts DEF ColumnsOf, col_0, col_1
  <2>3. CASE t \in Ternary
    <3>1. Arity[t] = 3 /\ t \notin Unary /\ K \in {<<1>>, <<2>>, <<3>>, <<1, 2>>, <<2, 3>>, <<3, 1>>}
      BY <2>3, KindFacts DEF ColumnsOf, col_0, col_1, col_2, cols_01, cols_12, cols_20
    <3> QED
      BY <3>1
  <2> QED
    BY <2>1, <2>2, <2>3, KindFacts
<1>7. DOMAIN k = DOMAIN K /\ k = [i \in DOMAIN k |-> k[i]]
  BY <1>2 DEF LookupRow
<1>8. /\ InsertedRows(t, u2) = InsertedRows(t, u)
      /\ DeletedRows(t, u2) = DeletedRows(t, u) \cup Selected(R, K, k)
  <2>1. table = tables[t] /\ u2 = RangeDeleted(t, u, K, k)
    BY <1>2
  <2>2. Waits(t, table, u2, I, O) /\ RangeStaged(t, table, u, u2, K, k)
    BY <1>5, <1>6, <1>7, <2>1, RangeFacts
  <2> QED
    BY <1>2, <2>2 DEF RangeStaged, Selected
<1>9. PICK n \in Nat : DOMAIN K = 1 .. n /\ n > 0
  <2>1. CASE DOMAIN K = 1 .. 1
    <3>1. 1 \in Nat /\ DOMAIN K = 1 .. 1 /\ 1 > 0
      BY <2>1
    <3> QED
      BY <3>1
  <2>2. CASE DOMAIN K = 1 .. 2
    <3>1. 2 \in Nat /\ DOMAIN K = 1 .. 2 /\ 2 > 0
      BY <2>2
    <3> QED
      BY <3>1
  <2> QED
    BY <1>6, <2>1, <2>2
<1>10. StoredUnder(store, K, k, values)
  <2>1. values \in [1 .. n -> Value]
    BY <1>9
  <2>2. k \in [1 .. n -> O] /\ \A i \in 1 .. n : store.block.slots[k[i]] = values[i]
    BY <1>2, <1>3, <1>4, <2>1, LookupRowFacts DEF Sound
  <2> QED
    BY <1>4, <1>9, <2>2 DEF StoredUnder
<1>11. PICK row : row = [c \in 1 .. Arity[t] |-> IF \E i \in DOMAIN K : K[i] = c
                                                THEN values[CHOOSE i \in DOMAIN K : K[i] = c]
                                                ELSE values[1]]
  OBVIOUS
<1>12. row \in DB!Row(t)
  <2>1. ASSUME NEW c \in 1 .. Arity[t]
        PROVE  row[c] \in Value
    BY <1>9, <1>11
  <2> QED
    BY <1>11, <2>1 DEF DB!Row
<1>13. \A i \in DOMAIN K : values[i] = row[K[i]]
  <2> SUFFICES ASSUME NEW i \in DOMAIN K
               PROVE  values[i] = row[K[i]]
    OBVIOUS
  <2>1. (CHOOSE j \in DOMAIN K : K[j] = K[i]) = i
    BY <1>6
  <2> QED
    BY <1>6, <1>11, <2>1
<1>14. IInv'
  BY DeleteByKeeps
<1>15. StagesDeletes(t, u2, K, k)
  BY <1>2, <1>3, <1>8 DEF StagesDeletes, Selected
<1>16. PICK C : C = {K[i] : i \in DOMAIN K}
  OBVIOUS
<1>17. RowHas(t, K, values, C, row)
  BY <1>6, <1>13, <1>16 DEF RowHas
<1>18. DB!Delete(t, C, row)
  BY <1>10, <1>12, <1>14, <1>15, <1>17, DeletesMap
<1> QED
  BY <1>6, <1>12, <1>16, <1>18

\* set_table replaces the rows of a table.
LEMMA SetMaps ==
  ASSUME IInv, NEW t \in Table, NEW relation \in Seq(RowOfValues(t)), SetTable(t, relation)
  PROVE  DB!Set(t)
<1>1. PICK fl : StateOK(store, vsu, tables, staged, phase, todo, fl)
  BY DEF IInv
<1>2. PICK set, v2, u2, R : /\ set = RowsSet(t, relation) /\ v2 = set.vsu /\ u2 = set.updates
                            /\ R = RowsOf(t, tables[t])
  OBVIOUS
<1>3. /\ phase = "staging" /\ vsu' = v2 /\ staged' = [staged EXCEPT ![t] = u2]
      /\ store' = store /\ tables' = tables /\ phase' = phase /\ todo' = todo
  BY <1>2 DEF SetTable
<1>4. PICK held : /\ held = Referred(store, tables, staged, "staging", todo)
                  /\ Sound(store, held, fl, vsu)
  BY <1>1, <1>3 DEF StateOK
<1>5. /\ Waits(t, tables[t], staged[t], Known(store, vsu), Occupied(store.block))
      /\ TableOK(t, tables[t], Occupied(store.block))
  BY <1>1, <1>3, StagedWaits
<1>6. Len(relation) \in Nat /\ \A k \in 1 .. Len(relation) : relation[k] \in RowOfValues(t)
  <2>1. PICK S : S = RowOfValues(t)
    OBVIOUS
  <2>2. relation \in Seq(S)
    BY <2>1
  <2>3. Len(relation) \in Nat /\ \A k \in 1 .. Len(relation) : relation[k] \in S
    BY <2>2, LenProperties, ElementOfSeq
  <2> QED
    BY <2>1, <2>3
<1>7. SetSo(t, relation, held, fl, set, Len(relation))
  BY <1>2, <1>4, <1>5, <1>6, RowsSetFacts
<1>8. PICK W : W = {relation[j] : j \in 1 .. Len(relation)}
  OBVIOUS
<1>9. /\ Extends(store, vsu, v2) /\ DeletedRows(t, u2) \cap R = R
      /\ Meaning(store, v2, InsertedRows(t, u2)) = Meaning(store, vsu, InsertedRows(t, staged[t])) \cup W
  BY <1>2, <1>7, <1>8 DEF SetSo
<1>10. IInv'
  BY SetTableKeeps
<1>11. MappedOf(t) /\ MappedStep(t, v2, u2)
  BY <1>3, <1>9, <1>10, StagedMaps
<1>12. W \in SUBSET DB!Row(t)
  BY <1>6, <1>8 DEF RowOfValues, DB!Row
<1>13. MappedDels' = [MappedDels EXCEPT ![t] = MappedRel[t]]
  BY <1>2, <1>9, <1>11 DEF MappedOf, MappedStep
<1>14. MappedIns' = [MappedIns EXCEPT ![t] = MappedIns[t] \cup W]
  BY <1>9, <1>11 DEF MappedOf, MappedStep
<1> QED
  BY <1>11, <1>12, <1>13, <1>14
    DEF MappedOf, MappedStep, DB!Set, MappedRel, MappedDels, MappedIns, MappedPending

\* The checks of the tables fail when the relations are in conflict.
LEMMA ConflictMaps ==
  ASSUME IInv, phase = "staging", NEW t \in Table
  PROVE  Passes(t) <=> ~ DB!Conflict(t)
<1>1. PICK fl : StateOK(store, vsu, tables, staged, phase, todo, fl)
  BY DEF IInv
<1>2. PICK table, u, O, X, n, held : /\ table = tables[t] /\ u = staged[t] /\ O = Occupied(store.block)
                                     /\ X = Known(store, vsu) /\ n = Arity[t] /\ Sound(store, held, fl, vsu)
  BY <1>1 DEF StateOK
<1>3. PICK R, D, I : R = RowsOf(t, table) /\ D = DeletedRows(t, u) /\ I = InsertedRows(t, u)
  OBVIOUS
<1>4. Waits(t, table, u, X, O) /\ TableOK(t, table, O) /\ O \in SUBSET Nat /\ X \in SUBSET Nat
  BY <1>1, <1>2, StagedWaits
<1>5. Passes(t) <=> \A K \in Keys[t] : ~ KeyConflict(K, R, D, I)
  <2>1. TableStaged(t, table, u, O, X)
    BY <1>4 DEF TableStaged
  <2> QED
    BY <1>2, <1>3, <2>1, PassesFacts
<1>6. ASSUME NEW K \in Keys[t]
      PROVE  KeyConflict(K, MappedRel[t], MappedDels[t], MappedIns[t]) <=> KeyConflict(K, R, D, I)
  <2>1. /\ R \in SUBSET [1 .. n -> X] /\ I \in SUBSET [1 .. n -> X]
    BY <1>1, <1>2, <1>3, <1>4, RowsKnown, InsertedTyped
  <2>2. t \notin Unary /\ \A i \in DOMAIN K : K[i] \in 1 .. n
    BY <1>2, KeyColumns
  <2>3. D \in SUBSET R
    BY <1>3, <1>4, <2>2, DeletesInTable
  <2>4. PICK st, v : st = store /\ v = vsu
    OBVIOUS
  <2>5. D \in SUBSET [1 .. n -> Known(st, v)] /\ R \in SUBSET [1 .. n -> Known(st, v)]
        /\ I \in SUBSET [1 .. n -> Known(st, v)] /\ Sound(st, held, fl, v)
    BY <1>2, <2>1, <2>3, <2>4
  <2>6. KeyConflict(K, Meaning(st, v, R), Meaning(st, v, D), Meaning(st, v, I)) <=> KeyConflict(K, R, D, I)
    BY <2>2, <2>5, ConflictStands
  <2>7. ModeOf(t, "staging", todo) = "waiting" /\ D \cap R = D
    BY <2>3 DEF ModeOf
  <2>8. /\ MappedRel[t] = Meaning(st, v, R) /\ MappedDels[t] = Meaning(st, v, D)
        /\ MappedIns[t] = Meaning(st, v, I)
    BY <1>2, <1>3, <2>4, <2>7, MappedAre DEF MappingIs, RelOf, DelsOf, InsOf, Going, Coming
  <2> QED
    BY <2>6, <2>8
<1>7. DB!Conflict(t) <=> \E K \in Keys[t] : KeyConflict(K, MappedRel[t], MappedDels[t], MappedIns[t])
  BY DEF DB!Conflict, DB!KeyOf, KeyConflict, key, MappedRel, MappedDels, MappedIns
<1> QED
  BY <1>5, <1>6, <1>7

\* When all checks pass the update is accepted.
LEMMA CheckMaps ==
  ASSUME IInv, Check
  PROVE  DB!Accept
<1>1. PICK fl : StateOK(store, vsu, tables, staged, phase, todo, fl)
  BY DEF IInv
<1>2. PICK sg2 : sg2 = staged'
  OBVIOUS
<1>3. /\ phase = "staging" /\ phase' = "checked" /\ sg2 = [t \in Table |-> Sorted(t, staged[t])]
      /\ store' = store /\ vsu' = vsu /\ tables' = tables /\ todo' = todo
      /\ \A t \in Table : Passes(t)
  BY <1>2 DEF Check, Sorted
<1>4. ASSUME NEW t \in Table
      PROVE  /\ ModeOf(t, "staging", todo) = "waiting" /\ ModeOf(t, "checked", todo) = "waiting"
             /\ InsertedRows(t, sg2[t]) = InsertedRows(t, staged[t])
             /\ DeletedRows(t, sg2[t]) = DeletedRows(t, staged[t])
  <2>1. PICK table, u, u2, O, X : /\ table = tables[t] /\ u = staged[t] /\ u2 = sg2[t]
                                  /\ O = Occupied(store.block) /\ X = Known(store, vsu)
    OBVIOUS
  <2>2. Waits(t, table, u, X, O) /\ X \in SUBSET Nat
    BY <1>1, <1>3, <2>1, StagedWaits
  <2>3. u2 = Sorted(t, u)
    BY <1>3, <2>1
  <2>4. InsertedRows(t, u2) = InsertedRows(t, u) /\ DeletedRows(t, u2) = DeletedRows(t, u)
    BY <2>2, <2>3, CheckedFacts
  <2> QED
    BY <2>1, <2>4 DEF ModeOf
<1>5. IInv'
  BY CheckKeeps
<1>6. /\ MappedRel' = RelOf(store, vsu, tables) /\ MappedPending' = PendingOf("checked", todo)
      /\ MappedDels' = DelsOf(store, vsu, tables, sg2, "checked", todo)
      /\ MappedIns' = InsOf(store, vsu, sg2, "checked", todo)
  BY <1>2, <1>3, <1>5, MappedNext
<1>7. /\ MappedRel = RelOf(store, vsu, tables) /\ MappedPending = PendingOf("staging", todo)
      /\ MappedDels = DelsOf(store, vsu, tables, staged, "staging", todo)
      /\ MappedIns = InsOf(store, vsu, staged, "staging", todo)
  BY <1>3, MappedAre DEF MappingIs
<1>8. /\ DelsOf(store, vsu, tables, sg2, "checked", todo) = DelsOf(store, vsu, tables, staged, "staging", todo)
      /\ InsOf(store, vsu, sg2, "checked", todo) = InsOf(store, vsu, staged, "staging", todo)
  BY <1>4 DEF DelsOf, InsOf, Going, Coming
<1>9. \A t \in Table : ~ DB!Conflict(t)
  BY <1>3, ConflictMaps
<1>10. MappedRel' = MappedRel /\ MappedDels' = MappedDels /\ MappedIns' = MappedIns
  BY <1>6, <1>7, <1>8
<1>11. MappedPending = {} /\ MappedPending' = Table
  BY <1>6, <1>7 DEF PendingOf
<1> QED
  BY <1>9, <1>10, <1>11 DEF DB!Accept, MappedRel, MappedDels, MappedIns, MappedPending

\* Rows of stored values stand for these, whatever else is staged.
LEMMA StoredStand ==
  ASSUME NEW st, NEW v, NEW st2, NEW v2, NEW n, NEW R \in SUBSET [1 .. n -> Occupied(st.block)],
         \A row \in R : \A c \in DOMAIN row :
           row[c] \in Occupied(st2.block) /\ st2.block.slots[row[c]] = st.block.slots[row[c]]
  PROVE  Meaning(st2, v2, R) = Meaning(st, v, R)
<1>1. ASSUME NEW row \in R
      PROVE  Stands(st2, v2, row) = Stands(st, v, row)
  <2>1. \A c \in DOMAIN row : Denotes(st2, v2, row[c]) = Denotes(st, v, row[c])
    BY DEF Denotes
  <2> QED
    BY <2>1 DEF Stands
<1> QED
  BY <1>1 DEF Meaning

\* When some check fails it is rejected.
LEMMA RejectMaps ==
  ASSUME IInv, Reject
  PROVE  DB!Reject
<1>1. PICK fl : StateOK(store, vsu, tables, staged, phase, todo, fl)
  BY DEF IInv
<1>2. PICK v2 : v2 = vsu'
  OBVIOUS
<1>3. /\ phase = "staging" /\ phase' = phase /\ staged' = NoUpdates
      /\ store' = store /\ tables' = tables /\ todo' = todo
      /\ \E t \in Table : ~ Passes(t)
  BY DEF Reject
<1>4. IInv'
  BY RejectKeeps
<1>5. /\ MappedRel' = RelOf(store, v2, tables) /\ MappedPending' = PendingOf("staging", todo)
      /\ MappedDels' = DelsOf(store, v2, tables, NoUpdates, "staging", todo)
      /\ MappedIns' = InsOf(store, v2, NoUpdates, "staging", todo)
  BY <1>2, <1>3, <1>4, MappedNext
<1>6. MappedRel = RelOf(store, vsu, tables) /\ MappedPending = PendingOf("staging", todo)
  BY <1>3, MappedAre DEF MappingIs
<1>7. RelOf(store, v2, tables) = RelOf(store, vsu, tables)
  <2>1. ASSUME NEW t \in Table
        PROVE  Meaning(store, v2, RowsOf(t, tables[t])) = Meaning(store, vsu, RowsOf(t, tables[t]))
    <3>1. PICK n, R : n = Arity[t] /\ R = RowsOf(t, tables[t])
      OBVIOUS
    <3>2. R \in SUBSET [1 .. n -> Occupied(store.block)]
      BY <1>1, <3>1, RowsKnown
    <3>3. \A row \in R : \A c \in DOMAIN row : row[c] \in Occupied(store.block)
      BY <3>2
    <3>4. PICK st, v : st = store /\ v = vsu
      OBVIOUS
    <3>5. Meaning(st, v2, R) = Meaning(st, v, R)
      BY <3>2, <3>3, <3>4, StoredStand
    <3> QED
      BY <3>1, <3>4, <3>5
  <2> QED
    BY <2>1 DEF RelOf
<1>8. /\ DelsOf(store, v2, tables, NoUpdates, "staging", todo) = [t \in Table |-> {}]
      /\ InsOf(store, v2, NoUpdates, "staging", todo) = [t \in Table |-> {}]
  <2>1. ASSUME NEW t \in Table, NEW table, NEW mode
        PROVE  /\ Meaning(store, v2, Going(t, table, NoUpdates[t], mode)) = {}
               /\ Meaning(store, v2, Coming(t, NoUpdates[t], mode)) = {}
    <3>1. InsertedRows(t, NoUpdates[t]) = {} /\ DeletedRows(t, NoUpdates[t]) = {}
      BY NoUpdatesFacts
    <3> QED
      BY <3>1 DEF Going, Coming, Meaning
  <2> QED
    BY <2>1 DEF DelsOf, InsOf
<1>9. \E t \in Table : DB!Conflict(t)
  BY <1>3, ConflictMaps
<1> QED
  BY <1>5, <1>6, <1>7, <1>8, <1>9
    DEF PendingOf, DB!Reject, MappedRel, MappedDels, MappedIns, MappedPending

\* A surrogate stands for the value that is stored under it when the update is
\* applied.
LEMMA AppliedStand ==
  ASSUME NEW st, NEW held, NEW fl, NEW v, Sound(st, held, fl, v),
         NEW st2, st2 = value_store_apply(st, v), NEW v2, NEW n, NEW R \in SUBSET [1 .. n -> Known(st, v)]
  PROVE  Meaning(st2, v2, R) = Meaning(st, v, R)
<1>1. ASSUME NEW s \in Known(st, v)
      PROVE  Denotes(st2, v2, s) = Denotes(st, v, s)
  <2>1. StoreOK(st, held, fl) /\ StagedOK(st, v, fl)
    BY DEF Sound
  <2>2. /\ \A i \in Occupied(st.block) :
             i \in Occupied(st2.block) /\ st2.block.slots[i] = st.block.slots[i]
        /\ \A k \in 1 .. v.count :
             /\ v.surrs[k] \in Occupied(st2.block)
             /\ v.surrs[k] \notin Occupied(st.block)
             /\ st2.block.slots[v.surrs[k]] = v.block.slots[k - 1]
    BY <2>1, ApplySlots
  <2>3. CASE s \in Occupied(st.block)
    BY <2>2, <2>3 DEF Denotes
  <2>4. CASE \E k \in 1 .. v.count : s = v.surrs[k]
    <3>1. PICK k \in 1 .. v.count : s = v.surrs[k]
      BY <2>4
    <3>2. Denotes(st, v, v.surrs[k]) = v.block.slots[k - 1]
      BY StagedFacts
    <3> QED
      BY <2>2, <3>1, <3>2 DEF Denotes
  <2> QED
    BY <2>3, <2>4 DEF Known
<1>2. ASSUME NEW row \in R
      PROVE  Stands(st2, v2, row) = Stands(st, v, row)
  <2>1. \A c \in DOMAIN row : Denotes(st2, v2, row[c]) = Denotes(st, v, row[c])
    BY <1>1
  <2> QED
    BY <2>1 DEF Stands
<1> QED
  BY <1>2 DEF Meaning

\* Applying the staged values changes no relation.
LEMMA ApplyStoreMaps ==
  ASSUME IInv, ApplyStore
  PROVE  UNCHANGED DB!vars
<1>1. PICK fl : StateOK(store, vsu, tables, staged, phase, todo, fl)
  BY DEF IInv
<1>2. PICK st, v, st2, v2 : st = store /\ v = vsu /\ st2 = store' /\ v2 = vsu'
  OBVIOUS
<1>3. /\ phase = "checked" /\ phase' = "applying" /\ todo' = Table
      /\ st2 = value_store_apply(st, v) /\ tables' = tables /\ staged' = staged
  BY <1>2 DEF ApplyStore
<1>4. PICK held : Sound(st, held, fl, v)
  BY <1>1, <1>2 DEF StateOK
<1>5. IInv'
  BY ApplyStoreKeeps
<1>6. /\ MappedRel' = RelOf(st2, v2, tables) /\ MappedPending' = PendingOf("applying", Table)
      /\ MappedDels' = DelsOf(st2, v2, tables, staged, "applying", Table)
      /\ MappedIns' = InsOf(st2, v2, staged, "applying", Table)
  BY <1>2, <1>3, <1>5, MappedNext
<1>7. /\ MappedRel = RelOf(st, v, tables) /\ MappedPending = PendingOf("checked", todo)
      /\ MappedDels = DelsOf(st, v, tables, staged, "checked", todo)
      /\ MappedIns = InsOf(st, v, staged, "checked", todo)
  BY <1>2, <1>3, MappedAre DEF MappingIs
<1>8. ASSUME NEW t \in Table, NEW R, R \in SUBSET [1 .. Arity[t] -> Known(st, v)]
      PROVE  Meaning(st2, v2, R) = Meaning(st, v, R)
  <2>1. PICK n : n = Arity[t]
    OBVIOUS
  <2>2. R \in SUBSET [1 .. n -> Known(st, v)]
    BY <1>8, <2>1
  <2> QED
    BY <1>3, <1>4, <2>2, AppliedStand
<1>9. ASSUME NEW t \in Table
      PROVE  /\ RowsOf(t, tables[t]) \in SUBSET [1 .. Arity[t] -> Known(st, v)]
             /\ InsertedRows(t, staged[t]) \in SUBSET [1 .. Arity[t] -> Known(st, v)]
             /\ ModeOf(t, "checked", todo) = "waiting" /\ ModeOf(t, "applying", Table) = "waiting"
  <2>1. RowsOf(t, tables[t]) \in SUBSET [1 .. Arity[t] -> Known(st, v)]
    BY <1>1, <1>2, RowsKnown
  <2>2. Waits(t, tables[t], staged[t], Known(st, v), Occupied(st.block))
    BY <1>1, <1>2, <1>3, StagedWaits
  <2> QED
    BY <2>1, <2>2, InsertedTyped DEF ModeOf
<1>10. RelOf(st2, v2, tables) = RelOf(st, v, tables)
  BY <1>8, <1>9 DEF RelOf
<1>11. DelsOf(st2, v2, tables, staged, "applying", Table) = DelsOf(st, v, tables, staged, "checked", todo)
  <2>1. ASSUME NEW t \in Table
        PROVE  Meaning(st2, v2, DeletedRows(t, staged[t]) \cap RowsOf(t, tables[t])) =
                 Meaning(st, v, DeletedRows(t, staged[t]) \cap RowsOf(t, tables[t]))
    BY <1>8, <1>9
  <2> QED
    BY <1>9, <2>1 DEF DelsOf, Going
<1>12. InsOf(st2, v2, staged, "applying", Table) = InsOf(st, v, staged, "checked", todo)
  BY <1>8, <1>9 DEF InsOf, Coming
<1>13. PendingOf("applying", Table) = PendingOf("checked", todo)
  BY DEF PendingOf
<1> QED
  BY <1>6, <1>7, <1>10, <1>11, <1>12, <1>13 DEF DB!vars, MappedRel, MappedDels, MappedIns, MappedPending

\* Finishing a table changes no relation.
LEMMA FinishTableMaps ==
  ASSUME IInv, NEW t \in Table, FinishTable(t)
  PROVE  UNCHANGED DB!vars
<1>1. PICK fl : StateOK(store, vsu, tables, staged, phase, todo, fl)
  BY DEF IInv
<1>2. PICK st, v, st2, sg2, ph2, td2 : /\ st = store /\ v = vsu /\ st2 = store'
                                       /\ sg2 = staged' /\ ph2 = phase' /\ td2 = todo'
  OBVIOUS
<1>3. /\ phase = "finishing" /\ t \in todo /\ ph2 \in {"staging", "finishing"}
      /\ ph2 = (IF todo = {t} THEN "staging" ELSE "finishing") /\ td2 = todo \ {t}
      /\ vsu' = v /\ tables' = tables /\ sg2 = [staged EXCEPT ![t] = NoUpdates[t]]
  BY <1>2 DEF FinishTable
<1>4. IInv' /\ SlotsKept(st, st2, tables)
  BY <1>2, FinishTableKeeps
<1>5. PICK fl2 : StateOK(st2, v, tables, sg2, ph2, td2, fl2)
  BY <1>2, <1>3, <1>4 DEF IInv
<1>6. /\ MappedRel' = RelOf(st2, v, tables) /\ MappedPending' = PendingOf(ph2, td2)
      /\ MappedDels' = DelsOf(st2, v, tables, sg2, ph2, td2)
      /\ MappedIns' = InsOf(st2, v, sg2, ph2, td2)
  BY <1>2, <1>3, <1>4, MappedNext
<1>7. /\ MappedRel = RelOf(st, v, tables) /\ MappedPending = PendingOf("finishing", todo)
      /\ MappedDels = DelsOf(st, v, tables, staged, "finishing", todo)
      /\ MappedIns = InsOf(st, v, staged, "finishing", todo)
  BY <1>2, <1>3, MappedAre DEF MappingIs
<1>8. RelOf(st2, v, tables) = RelOf(st, v, tables)
  <2>1. ASSUME NEW x \in Table
        PROVE  Meaning(st2, v, RowsOf(x, tables[x])) = Meaning(st, v, RowsOf(x, tables[x]))
    <3>1. PICK n, R : n = Arity[x] /\ R = RowsOf(x, tables[x])
      OBVIOUS
    <3>2. R \in SUBSET [1 .. n -> Occupied(st.block)] /\ R \in SUBSET [1 .. n -> Occupied(st2.block)]
      BY <1>1, <1>2, <1>5, <3>1, RowsKnown
    <3>3. \A row \in R : \A c \in DOMAIN row :
            row[c] \in Occupied(st2.block) /\ st2.block.slots[row[c]] = st.block.slots[row[c]]
      BY <1>4, <3>1, <3>2 DEF SlotsKept
    <3> QED
      BY <3>1, <3>2, <3>3, StoredStand
  <2> QED
    BY <2>1 DEF RelOf
<1>9. ASSUME NEW x \in Table
      PROVE  /\ Going(x, tables[x], staged[x], ModeOf(x, "finishing", todo)) = {}
             /\ Coming(x, staged[x], ModeOf(x, "finishing", todo)) = {}
             /\ Going(x, tables[x], sg2[x], ModeOf(x, ph2, td2)) = {}
             /\ Coming(x, sg2[x], ModeOf(x, ph2, td2)) = {}
  <2>1. ModeOf(x, "finishing", todo) # "waiting"
    BY DEF ModeOf
  <2>2. CASE ph2 = "staging"
    <3>1. staged = [y \in Table |-> staged[y]] /\ todo = {t}
      BY <1>1, <1>3, <2>2 DEF StateOK, Phased
    <3>2. x # t => ModeOf(x, "finishing", todo) = "done"
      BY <3>1 DEF ModeOf
    <3>3. x # t => staged[x] = NoUpdates[x]
      BY <1>1, <1>3, <3>2 DEF StateOK, TablesOK, UpdatesOK
    <3>4. sg2[x] = NoUpdates[x]
      BY <1>3, <3>1, <3>3
    <3>5. InsertedRows(x, NoUpdates[x]) = {} /\ DeletedRows(x, NoUpdates[x]) = {}
      BY NoUpdatesFacts
    <3> QED
      BY <2>1, <3>4, <3>5 DEF Going, Coming
  <2>3. CASE ph2 = "finishing"
    <3>1. ModeOf(x, ph2, td2) # "waiting"
      BY <2>3 DEF ModeOf
    <3> QED
      BY <2>1, <3>1 DEF Going, Coming
  <2> QED
    BY <1>3, <2>2, <2>3
<1>10. /\ DelsOf(st2, v, tables, sg2, ph2, td2) = DelsOf(st, v, tables, staged, "finishing", todo)
       /\ InsOf(st2, v, sg2, ph2, td2) = InsOf(st, v, staged, "finishing", todo)
  <2>1. Meaning(st2, v, {}) = {} /\ Meaning(st, v, {}) = {}
    BY DEF Meaning
  <2> QED
    BY <1>9, <2>1 DEF DelsOf, InsOf
<1>11. PendingOf(ph2, td2) = PendingOf("finishing", todo)
  BY <1>3 DEF PendingOf
<1> QED
  BY <1>6, <1>7, <1>8, <1>10, <1>11 DEF DB!vars, MappedRel, MappedDels, MappedIns, MappedPending

\* Applying a table's updates commits them: its relation changes as staged.
LEMMA ApplyTableMaps ==
  ASSUME IInv, SmallStore, NEW t \in Table, ApplyTable(t)
  PROVE  DB!Commit(t)
<1>1. PICK fl : StateOK(store, vsu, tables, staged, phase, todo, fl)
  BY DEF IInv
<1>2. PICK out \in Applied(t) : tables' = [tables EXCEPT ![t] = out.table]
  BY DEF ApplyTable
<1>3. PICK st, v, st2, tb2, sg2, ph2, td2 :
        /\ st = store /\ v = vsu /\ st2 = store' /\ tb2 = tables' /\ sg2 = staged'
        /\ ph2 = phase' /\ td2 = todo'
  OBVIOUS
<1>4. /\ phase = "applying" /\ t \in todo /\ vsu' = v
      /\ td2 = (IF todo = {t} THEN Table ELSE todo \ {t})
      /\ ph2 = (IF todo = {t} THEN "finishing" ELSE "applying")
  BY <1>3 DEF ApplyTable
<1>5. /\ todo \in SUBSET Table
      /\ tables = [x \in Table |-> tables[x]] /\ staged = [x \in Table |-> staged[x]]
  BY <1>1 DEF StateOK, Phased
<1>6. /\ tb2[t] = out.table
      /\ \A x \in Table \ {t} : tb2[x] = tables[x] /\ sg2[x] = staged[x]
  BY <1>2, <1>3, <1>5 DEF ApplyTable
<1>7. /\ ModeOf(t, phase, todo) = "waiting" /\ ModeOf(t, ph2, td2) = "dropping"
      /\ \A x \in Table \ {t} : ModeOf(x, ph2, td2) = ModeOf(x, phase, todo)
  <2>1. CASE todo = {t}
    BY <1>4, <2>1 DEF ModeOf
  <2>2. CASE todo # {t}
    BY <1>4, <2>2 DEF ModeOf
  <2> QED
    BY <2>1, <2>2
<1>8. IInv' /\ st2.block = st.block
  BY <1>3, ApplyTableKeeps
<1>9. \A rows : Meaning(st2, v, rows) = Meaning(st, v, rows)
  BY <1>8 DEF Meaning, Stands, Denotes
<1>10. PICK R, D, I, n, held : /\ R = RowsOf(t, tables[t]) /\ D = DeletedRows(t, staged[t])
                               /\ I = InsertedRows(t, staged[t]) /\ n = Arity[t] /\ Sound(st, held, fl, v)
  BY <1>1, <1>3 DEF StateOK
<1>11. RowsOf(t, tb2[t]) = (R \ D) \cup I
  <2>1. TableApplied(t, tables[t], staged[t], Slots(store.block), out)
    BY <1>1, <1>4, ApplyingFacts
  <2> QED
    BY <1>6, <1>10, <2>1 DEF TableApplied
<1>12. Meaning(st, v, (R \ D) \cup I) = (Meaning(st, v, R) \ Meaning(st, v, D \cap R)) \cup Meaning(st, v, I)
  <2>1. R \in SUBSET [1 .. n -> Known(st, v)]
    BY <1>1, <1>3, <1>10, RowsKnown
  <2>2. PICK G : G = D \cap R /\ G \in SUBSET [1 .. n -> Known(st, v)]
    BY <2>1
  <2>3. Meaning(st, v, R \ G) = Meaning(st, v, R) \ Meaning(st, v, G)
    BY <1>10, <2>1, <2>2, MeaningSets DEF MeaningSame
  <2>4. (R \ D) = R \ G
    BY <2>2
  <2>5. Meaning(st, v, (R \ D) \cup I) = Meaning(st, v, R \ G) \cup Meaning(st, v, I)
    BY <2>4 DEF Meaning
  <2> QED
    BY <2>2, <2>3, <2>5
<1>13. /\ MappedRel = RelOf(st, v, tables) /\ MappedPending = todo
       /\ MappedDels = DelsOf(st, v, tables, staged, phase, todo)
       /\ MappedIns = InsOf(st, v, staged, phase, todo)
  BY <1>3, <1>4, MappedAre DEF MappingIs, PendingOf
<1>14. /\ MappedRel' = RelOf(st2, v, tb2) /\ MappedPending' = PendingOf(ph2, td2)
       /\ MappedDels' = DelsOf(st2, v, tb2, sg2, ph2, td2)
       /\ MappedIns' = InsOf(st2, v, sg2, ph2, td2)
  BY <1>3, <1>4, <1>8, MappedNext
<1>15. /\ MappedRel[t] = Meaning(st, v, R) /\ MappedDels[t] = Meaning(st, v, D \cap R)
       /\ MappedIns[t] = Meaning(st, v, I)
  BY <1>7, <1>10, <1>13 DEF RelOf, DelsOf, InsOf, Going, Coming
<1>16. MappedRel' = [MappedRel EXCEPT ![t] = (MappedRel[t] \ MappedDels[t]) \cup MappedIns[t]]
  BY <1>6, <1>9, <1>11, <1>12, <1>13, <1>14, <1>15 DEF RelOf
<1>17. Meaning(st2, v, {}) = {}
  BY DEF Meaning
<1>18. MappedDels' = [MappedDels EXCEPT ![t] = {}]
  BY <1>6, <1>7, <1>9, <1>13, <1>14, <1>17 DEF DelsOf, Going
<1>19. MappedIns' = [MappedIns EXCEPT ![t] = {}]
  BY <1>6, <1>7, <1>9, <1>13, <1>14, <1>17 DEF InsOf, Coming
<1>20. t \in MappedPending /\ MappedPending' = MappedPending \ {t}
  BY <1>4, <1>13, <1>14 DEF PendingOf
<1> QED
  BY <1>16, <1>18, <1>19, <1>20 DEF DB!Commit, MappedRel, MappedDels, MappedIns, MappedPending

\* At first all relations are empty.
LEMMA InitMaps == Init => DB!Init
<1> SUFFICES ASSUME Init
             PROVE  DB!Init
  OBVIOUS
<1>1. IInv
  BY InitKeeps
<1>2. phase = "staging" /\ todo = {} /\ staged = NoUpdates
  BY DEF Init
<1>3. ASSUME NEW t \in Table
      PROVE  /\ RowsOf(t, tables[t]) = {} /\ ModeOf(t, phase, todo) = "waiting"
             /\ InsertedRows(t, staged[t]) = {} /\ DeletedRows(t, staged[t]) = {}
  <2>1. RowsOf(t, tables[t]) = {}
    BY DEF Init, RowsOf, UnaryRows, unary_table_init, binary_table_init, ternary_table_init
  <2> QED
    BY <1>2, <2>1, NoUpdatesFacts DEF ModeOf
<1>4. /\ MappedRel = [t \in Table |-> {}] /\ MappedDels = [t \in Table |-> {}]
      /\ MappedIns = [t \in Table |-> {}] /\ MappedPending = {}
  BY <1>1, <1>2, <1>3, MappedAre
    DEF MappingIs, RelOf, DelsOf, InsOf, PendingOf, Going, Coming, Meaning
<1> QED
  BY <1>4 DEF DB!Init, MappedRel, MappedDels, MappedIns, MappedPending

\* Every step is one of relations, or changes none.
LEMMA StepMaps == IInv /\ SmallStore /\ [Next]_vars => [DB!Next]_(DB!vars)
<1> SUFFICES ASSUME IInv, SmallStore, [Next]_vars
             PROVE  DB!Next \/ UNCHANGED DB!vars
  OBVIOUS
<1>1. ASSUME NEW t \in Table, NEW values \in RowOfValues(t), InsertRow(t, values)
      PROVE  DB!Next
  <2>1. DB!Insert(t, values) /\ values \in DB!Row(t)
    BY <1>1, InsertMaps DEF DB!Row, RowOfValues
  <2> QED
    BY <2>1 DEF DB!Next
<1>2. ASSUME NEW t \in Table, NEW values \in RowOfValues(t), DeleteRow(t, values)
      PROVE  DB!Next
  <2>1. DB!Delete(t, 1 .. Arity[t], values) /\ values \in DB!Row(t)
    BY <1>2, DeleteRowMaps DEF DB!Row, RowOfValues
  <2> QED
    BY <2>1 DEF DB!Next
<1>3. ASSUME NEW t \in Table, NEW K \in ColumnsOf[t], NEW values \in [DOMAIN K -> Value],
             DeleteBy(t, K, values)
      PROVE  DB!Next
  BY <1>3, DeleteByMaps DEF DB!Next
<1>4. ASSUME NEW t \in Table, NEW relation \in SmallRelation(t), SetTable(t, relation)
      PROVE  DB!Next
  <2>1. relation \in Seq(RowOfValues(t))
    BY RelationsTyped
  <2>2. DB!Set(t)
    BY <1>4, <2>1, SetMaps
  <2> QED
    BY <2>2 DEF DB!Next
<1>5. ASSUME NEW t \in Table, ApplyTable(t)
      PROVE  DB!Next
  BY <1>5, ApplyTableMaps DEF DB!Next
<1>6. ASSUME NEW t \in Table, FinishTable(t)
      PROVE  UNCHANGED DB!vars
  BY <1>6, FinishTableMaps
<1>7. CASE Check
  BY <1>7, CheckMaps DEF DB!Next
<1>8. CASE Reject
  BY <1>8, RejectMaps DEF DB!Next
<1>9. CASE ApplyStore
  BY <1>9, ApplyStoreMaps
<1>10. CASE UNCHANGED vars
  BY <1>10 DEF vars, DB!vars, Relation, Waiting, ValuesOf, Rows, StagedDeletes, StagedInserts
<1> QED
  BY <1>1, <1>2, <1>3, <1>4, <1>5, <1>6, <1>7, <1>8, <1>9, <1>10 DEF Next

\* The tables and the store implement relations over values: whatever surrogates,
\* indexes and counts do, each relation changes exactly as it was staged, by
\* updates that are accepted when no key would be given twice.
THEOREM Implements == Spec /\ []SmallStore => ImplementsRelations
<1>1. ImplementsRelations <=> DB!Init /\ [][DB!Next]_(DB!vars)
  BY DEF ImplementsRelations, DB!Spec
<1> QED
  BY <1>1, InitMaps, StepMaps, DatabaseInvariant, PTL DEF Spec

-----------------------------------------------------------------------------
(***************************************************************************)
(* Reading the tables.                                                     *)
(***************************************************************************)

\* Copying a table reads the relation that it stands for.
LEMMA CopyFacts ==
  ASSUME NEW fl, StateOK(store, vsu, tables, staged, phase, todo, fl), NEW t \in Table
  PROVE  Copy(t) = Meaning(store, vsu, RowsOf(t, tables[t]))
<1>1. PICK held, n, R, O : /\ Sound(store, held, fl, vsu) /\ n = Arity[t] /\ R = RowsOf(t, tables[t])
                           /\ O = Occupied(store.block)
  BY DEF StateOK
<1>2. R \in SUBSET [1 .. n -> O]
  BY <1>1, RowsKnown
<1>3. \A s \in O : Denotes(store, vsu, s) = store.block.slots[s]
  BY <1>1, DenotesFacts
<1>4. \A row \in R : Stands(store, vsu, row) = [i \in 1 .. n |-> store.block.slots[row[i]]]
  <2> SUFFICES ASSUME NEW row \in R
               PROVE  Stands(store, vsu, row) = [i \in 1 .. n |-> store.block.slots[row[i]]]
    OBVIOUS
  <2>1. DOMAIN row = 1 .. n /\ \A i \in 1 .. n : row[i] \in O
    BY <1>2
  <2> QED
    BY <1>3, <2>1 DEF Stands
<1>5. CASE t \in Unary
  <2>1. n = 1 /\ R = {<<value>> : value \in tables[t].bitmap}
    BY <1>1, <1>5, KindFacts DEF RowsOf, UnaryRows
  <2>2. \A value \in tables[t].bitmap : Stands(store, vsu, <<value>>) = <<store.block.slots[value]>>
    <3> SUFFICES ASSUME NEW value \in tables[t].bitmap
                 PROVE  Stands(store, vsu, <<value>>) = <<store.block.slots[value]>>
      OBVIOUS
    <3>1. Stands(store, vsu, <<value>>) = [i \in 1 .. 1 |-> store.block.slots[<<value>>[i]]]
      BY <1>4, <2>1
    <3> QED
      BY <3>1
  <2>3. Meaning(store, vsu, R) = {Stands(store, vsu, <<value>>) : value \in tables[t].bitmap}
    BY <2>1 DEF Meaning
  <2> QED
    BY <1>1, <1>5, <2>2, <2>3 DEF Copy, copy_unary_table
<1>6. CASE t \in Binary
  <2>1. n = 2 /\ R = tables[t].left_to_right /\ t \notin Unary
    BY <1>1, <1>6, KindFacts DEF RowsOf
  <2>2. \A row \in R : Stands(store, vsu, row) = <<store.block.slots[row[1]], store.block.slots[row[2]]>>
    BY <1>4, <2>1
  <2> QED
    BY <1>1, <1>6, <2>1, <2>2 DEF Copy, copy_binary_table, Meaning
<1>7. CASE t \in Ternary
  <2>1. n = 3 /\ R = tables[t].unshifted /\ t \notin Unary /\ t \notin Binary
    BY <1>1, <1>7, KindFacts DEF RowsOf
  <2> QED
    BY <1>1, <1>4, <2>1 DEF Copy, copy_ternary_table, Meaning
<1> QED
  BY <1>5, <1>6, <1>7, KindFacts

\* A row is in a table when its values are stored and their surrogates are a
\* row of the table.
LEMMA ContainsFacts ==
  ASSUME NEW fl, StateOK(store, vsu, tables, staged, phase, todo, fl), NEW t \in Table,
         NEW values \in RowOfValues(t)
  PROVE  table_contains(t, values) <=> values \in Meaning(store, vsu, RowsOf(t, tables[t]))
<1>1. PICK held, n, R, O : /\ Sound(store, held, fl, vsu) /\ n = Arity[t] /\ R = RowsOf(t, tables[t])
                           /\ O = Occupied(store.block)
  BY DEF StateOK
<1>2. n \in Nat /\ values \in [1 .. n -> Value]
  BY <1>1, KindFacts DEF RowOfValues
<1>3. PICK row : row = LookupRow(store, values)
  OBVIOUS
<1>4. /\ Found(row) => row \in [1 .. n -> O] /\ \A i \in 1 .. n : store.block.slots[row[i]] = values[i]
      /\ ~ Found(row) => \E i \in 1 .. n : \A s \in O : store.block.slots[s] # values[i]
  BY <1>1, <1>2, <1>3, LookupRowFacts DEF Sound
<1>5. R \in SUBSET [1 .. n -> O]
  BY <1>1, RowsKnown
<1>6. table_contains(t, values) <=> Found(row) /\ row \in R
  <2>1. CASE t \in Unary
    <3>1. n = 1 /\ R = {<<value>> : value \in tables[t].bitmap}
      BY <1>1, <2>1, KindFacts DEF RowsOf, UnaryRows
    <3>2. Found(row) => row = <<row[1]>>
      BY <1>4, <3>1, SingleRow
    <3>3. Found(row) => (row \in R <=> row[1] \in tables[t].bitmap)
      BY <3>1, <3>2
    <3> QED
      BY <1>3, <2>1, <3>3 DEF table_contains, unary_table_contains
  <2>2. CASE t \notin Unary
    BY <1>1, <1>3, <2>2 DEF table_contains, RowsOf, binary_table_contains, ternary_table_contains
  <2> QED
    BY <2>1, <2>2
<1>7. \A s \in O : Denotes(store, vsu, s) = store.block.slots[s]
  BY <1>1, DenotesFacts
<1>8. \A r \in R : /\ DOMAIN r = 1 .. n /\ \A i \in 1 .. n : r[i] \in O
                   /\ \A i \in 1 .. n : Stands(store, vsu, r)[i] = store.block.slots[r[i]]
                   /\ Stands(store, vsu, r) = [i \in 1 .. n |-> Stands(store, vsu, r)[i]]
  <2> SUFFICES ASSUME NEW r \in R
               PROVE  /\ DOMAIN r = 1 .. n /\ \A i \in 1 .. n : r[i] \in O
                      /\ \A i \in 1 .. n : Stands(store, vsu, r)[i] = store.block.slots[r[i]]
                      /\ Stands(store, vsu, r) = [i \in 1 .. n |-> Stands(store, vsu, r)[i]]
    OBVIOUS
  <2>1. DOMAIN r = 1 .. n /\ \A i \in 1 .. n : r[i] \in O
    BY <1>5
  <2>2. Stands(store, vsu, r) = [i \in 1 .. n |-> Denotes(store, vsu, r[i])]
    BY <2>1 DEF Stands
  <2> QED
    BY <1>7, <2>1, <2>2
<1>9. ASSUME Found(row), row \in R
      PROVE  values \in Meaning(store, vsu, R)
  <2>1. Stands(store, vsu, row) = values
    BY <1>2, <1>4, <1>8, <1>9
  <2> QED
    BY <1>9, <2>1 DEF Meaning
<1>10. ASSUME values \in Meaning(store, vsu, R)
       PROVE  Found(row) /\ row \in R
  <2>1. PICK r \in R : values = Stands(store, vsu, r)
    BY <1>10 DEF Meaning
  <2>2. \A i \in 1 .. n : r[i] \in O /\ values[i] = store.block.slots[r[i]]
    BY <1>8, <2>1
  <2>3. Found(row)
    BY <1>4, <2>2
  <2>4. \A i \in 1 .. n : row[i] = r[i]
    BY <1>1, <1>4, <2>2, <2>3 DEF Sound, StoreKeyed, Keyed
  <2>5. row = r
    <3>1. row \in [1 .. n -> O] /\ r \in [1 .. n -> O]
      BY <1>4, <1>5, <2>3
    <3>2. row = [i \in 1 .. n |-> row[i]] /\ r = [i \in 1 .. n |-> r[i]]
      BY <3>1
    <3> QED
      BY <2>4, <3>2
  <2> QED
    BY <2>3, <2>5
<1> QED
  BY <1>1, <1>6, <1>9, <1>10

\* Where the left column is a key, looking up by it finds the one partner.
LEMMA PartnerFacts ==
  ASSUME NEW fl, StateOK(store, vsu, tables, staged, phase, todo, fl), KInv, NEW t \in Table,
         col_0 \in Keys[t], NEW value \in Value
  PROVE  Range(lookup_by_left_col(tables[t], store, value)) =
           {values[2] : values \in {w \in Copy(t) : w[1] = value}}
<1>1. PICK held, table, R, O : /\ Sound(store, held, fl, vsu) /\ table = tables[t] /\ R = RowsOf(t, table)
                               /\ O = Occupied(store.block)
  BY DEF StateOK
<1>2. t \in Binary
  <2>1. t \notin Unary
    BY KeyColumns
  <2>2. Kind[t] \notin {"ternary_01", "ternary_01_2", "ternary_01_12", "ternary_01_12_20"}
    <3>1. col_0 \in KeysOf(Kind[t])
      BY DEF Keys
    <3>2. col_0 # cols_01 /\ col_0 # cols_12 /\ col_0 # cols_20 /\ col_0 # col_2
      <4>1. Len(col_0) = 1 /\ Len(cols_01) = 2 /\ Len(cols_12) = 2 /\ Len(cols_20) = 2
        BY DEF col_0, cols_01, cols_12, cols_20
      <4>2. col_0[1] = 1 /\ col_2[1] = 3
        BY DEF col_0, col_2
      <4> QED
        BY <4>1, <4>2
    <3> QED
      BY <3>1, <3>2 DEF KeysOf
  <2> QED
    BY <2>1, <2>2, KindAssumption DEF Unary, Binary, Kinds
<1>3. R = table.left_to_right /\ R \in SUBSET [1 .. 2 -> O] /\ O \in SUBSET Nat /\ Arity[t] = 2
  <2>1. R = table.left_to_right /\ Arity[t] = 2
    BY <1>1, <1>2, KindFacts DEF RowsOf
  <2>2. R \in SUBSET [1 .. Arity[t] -> O]
    BY <1>1, RowsKnown
  <2> QED
    BY <1>1, <2>1, <2>2 DEF Occupied, Slots
<1>4. PICK W : /\ W = {values[2] : values \in {w \in Copy(t) : w[1] = value}}
               /\ W = {store.block.slots[row[2]] : row \in {r \in R : store.block.slots[r[1]] = value}}
  <2>1. Copy(t) = {<<store.block.slots[row[1]], store.block.slots[row[2]]>> : row \in R}
    BY <1>1, <1>2, <1>3, KindFacts DEF Copy, copy_binary_table
  <2>2. PICK W : W = {values[2] : values \in {w \in Copy(t) : w[1] = value}}
    OBVIOUS
  <2>3. ASSUME NEW x \in W
        PROVE  \E row \in R : store.block.slots[row[1]] = value /\ x = store.block.slots[row[2]]
    <3>1. PICK w \in Copy(t) : w[1] = value /\ x = w[2]
      BY <2>2
    <3>2. PICK row \in R : w = <<store.block.slots[row[1]], store.block.slots[row[2]]>>
      BY <2>1
    <3> QED
      BY <3>1, <3>2
  <2>4. ASSUME NEW row \in R, store.block.slots[row[1]] = value
        PROVE  store.block.slots[row[2]] \in W
    <3>1. PICK w : w = <<store.block.slots[row[1]], store.block.slots[row[2]]>> /\ w \in Copy(t)
      BY <2>1
    <3>2. w[1] = value /\ w[2] = store.block.slots[row[2]]
      BY <2>4, <3>1
    <3>3. w[2] \in W
      BY <2>2, <3>1, <3>2
    <3> QED
      BY <3>2, <3>3
  <2>5. W = {store.block.slots[row[2]] : row \in {r \in R : store.block.slots[r[1]] = value}}
    BY <2>3, <2>4
  <2> QED
    BY <2>2, <2>5
<1>5. PICK surr, found : /\ surr = lookup_value(store, value)
                         /\ found = binary_table_get_iter_by_col_0(table, surr)
  OBVIOUS
<1>6. PICK partner : /\ partner = lookup_by_left_col(table, store, value)
                     /\ partner = IF surr = -1 \/ found = << >> THEN << >>
                                  ELSE <<store.block.slots[found[1][2]]>>
  BY <1>5 DEF lookup_by_left_col
<1>7. \/ surr \in O /\ store.block.slots[surr] = value
      \/ surr = -1 /\ \A i \in O : store.block.slots[i] # value
  <2>1. StoreOK(store, held, fl) /\ StoreKeyed(store)
    BY <1>1 DEF Sound
  <2> QED
    BY <1>1, <1>5, <2>1, LookupValue
<1>8. \A r \in R : r[1] \in O /\ r[2] \in O
  BY <1>3
<1>9. CASE surr = -1
  <2>1. W = {}
    BY <1>3, <1>4, <1>7, <1>8, <1>9
  <2>2. Range(partner) = {}
    BY <1>6, <1>9 DEF Range
  <2> QED
    BY <1>1, <1>4, <1>6, <2>1, <2>2
<1>10. CASE surr \in O /\ store.block.slots[surr] = value
  <2>1. \A r \in R : store.block.slots[r[1]] = value <=> r[1] = surr
    BY <1>1, <1>8, <1>10 DEF Sound, StoreKeyed, Keyed
  <2>2. found \in Seq(R) /\ Range(found) = {row \in R : row[1] = surr}
    <3>1. TableOK(t, table, Slots(store.block))
      BY <1>1 DEF StateOK, TablesOK
    <3>2. table.left_to_right \in SUBSET [1 .. 2 -> Nat] /\ IsFiniteSet(table.left_to_right) /\ BinaryAgrees(table)
      BY <1>1, <1>2, <1>3, <3>1 DEF TableOK
    <3> QED
      BY <1>3, <1>5, <3>2, BinaryIterFacts
  <2>3. W = {store.block.slots[row[2]] : row \in Range(found)}
    BY <1>4, <2>1, <2>2
  <2>4. surr # -1
    BY <1>3, <1>10
  <2>5. CASE found = << >>
    <3>1. Range(partner) = {} /\ Range(found) = {}
      BY <1>6, <2>5 DEF Range
    <3> QED
      BY <1>1, <1>4, <1>6, <2>3, <3>1
  <2>6. CASE found # << >>
    <3>1. 1 \in DOMAIN found /\ found[1] \in Range(found)
      BY <2>2, <2>6 DEF Range
    <3>2. KeyUnique(col_0, R)
      BY <1>1 DEF KInv, KeysOK
    <3>3. \A x, y \in R : x[1] = y[1] => x = y
      <4>1. \A x \in R : key(col_0, x) = [i \in 1 .. 1 |-> x[1]]
        BY DEF key, col_0
      <4> QED
        BY <3>2, <4>1 DEF KeyUnique
    <3>4. Range(found) = {found[1]}
      BY <2>2, <3>1, <3>3
    <3>5. W = {store.block.slots[found[1][2]]}
      BY <2>3, <3>4
    <3>6. partner = <<store.block.slots[found[1][2]]>>
      BY <1>6, <2>4, <2>6
    <3>7. Range(partner) = {store.block.slots[found[1][2]]}
      BY <3>6 DEF Range
    <3> QED
      BY <1>1, <1>4, <1>6, <3>5, <3>7
  <2> QED
    BY <2>5, <2>6
<1> QED
  BY <1>7, <1>9, <1>10

\* Looking up a row finds exactly the rows that reading the whole table yields,
\* and looking up by a key column the one value that goes with it.
THEOREM LookupsComplete == Spec /\ []SmallStore => []LookupsExact
<1>1. IInv /\ KInv => LookupsExact
  <2> SUFFICES ASSUME IInv, KInv
               PROVE  LookupsExact
    OBVIOUS
  <2>1. PICK fl : StateOK(store, vsu, tables, staged, phase, todo, fl)
    BY DEF IInv
  <2>2. \A t \in Table : \A values \in RowOfValues(t) : table_contains(t, values) <=> values \in Copy(t)
    BY <2>1, CopyFacts, ContainsFacts
  <2>3. \A t \in Table : col_0 \in Keys[t] => \A value \in Value :
          Range(lookup_by_left_col(tables[t], store, value)) =
            {values[2] : values \in {w \in Copy(t) : w[1] = value}}
    BY <2>1, PartnerFacts
  <2> QED
    BY <2>2, <2>3 DEF LookupsExact
<1> QED
  BY <1>1, DatabaseInvariant, KeysInit, KeysStep, PTL DEF Spec
=============================================================================
