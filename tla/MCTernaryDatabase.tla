------------------------- MODULE MCTernaryDatabase -------------------------
(***************************************************************************)
(* A model-checking instance of Database with one ternary table, and the   *)
(* key checks of every kind of table on small relations.                   *)
(***************************************************************************)
EXTENDS MCDatabase

OneTernary == (m :> "ternary_01_12_20")

(***************************************************************************)
(* The key checks of all kinds, over all tables and updates of at most two *)
(* rows: each fails exactly when the update gives one key to two rows, or  *)
(* a row the key of one that is in the table and not deleted.  The runs go *)
(* through longer histories with the strictest kind of each arity.         *)
(***************************************************************************)
Rejects(K, rel, dels, ins) ==
  \E row \in ins :
    \/ \E other \in ins \ {row} : key(K, other) = key(K, row)
    \/ /\ \E old \in rel : key(K, old) = key(K, row)
       /\ \A old \in dels : key(K, old) # key(K, row)

FewRows(arity) == UNION {kSubset(k, [1 .. arity -> {0, 1}]) : k \in 0 .. 2}
UpdateOf(dels, ins) == [deletes |-> SetToSeq(dels), inserts |-> SetToSeq(ins)]

BinaryCheck(rel, updates) ==
  LET table == BinaryAdd(binary_table_init, rel)
  IN  ({col_0} :> binary_table_updates_check_0(table, updates))
      @@ ({col_1} :> binary_table_updates_check_1(table, updates))
      @@ ({col_0, col_1} :> binary_table_updates_check_0_1(table, updates))

TernaryCheck(rel, updates) ==
  LET table == TernaryAdd(ternary_table_init, rel)
  IN  ({cols_01} :> ternary_table_updates_check_01(table, updates))
      @@ ({cols_01, col_2} :> ternary_table_updates_check_01_2(table, updates))
      @@ ({cols_01, cols_12} :> ternary_table_updates_check_01_12(table, updates))
      @@ ({cols_01, cols_12, cols_20} :> ternary_table_updates_check_01_12_20(table, updates))

Agrees(check, rel, dels, ins) ==
  \A keys \in DOMAIN check : check[keys] <=> \A K \in keys : ~ Rejects(K, rel, dels, ins)

ASSUME KeyChecksExact ==
  /\ \A rel, ins \in FewRows(2) : \A dels \in SUBSET rel :
       Agrees(BinaryCheck(rel, UpdateOf(dels, ins)), rel, dels, ins)
  /\ \A rel, ins \in FewRows(3) : \A dels \in SUBSET rel :
       Agrees(TernaryCheck(rel, UpdateOf(dels, ins)), rel, dels, ins)
=============================================================================
