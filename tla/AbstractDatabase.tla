-------------------------- MODULE AbstractDatabase --------------------------
(***************************************************************************)
(* What the tables and the value stores promise together, with no          *)
(* surrogates, indexes or reference counts: each table is a relation over  *)
(* values, an update stages rows to delete and rows to insert, and an      *)
(* update that violates no key constraint turns every relation into itself *)
(* minus the former plus the latter, table by table.                       *)
(***************************************************************************)
EXTENDS Naturals, Sequences

CONSTANTS
  Value,
  Table,
  Arity,     \* the number of columns of each table
  Keys       \* the keys of each table, a key being a sequence of columns

VARIABLES
  rel,       \* the relation each table holds
  dels,      \* its rows that the current update deletes
  ins,       \* the rows that the current update inserts in it
  pending    \* the tables that the update being committed has still to change

vars == <<rel, dels, ins, pending>>

Row(t) == [1 .. Arity[t] -> Value]
KeyOf(K, row) == [i \in DOMAIN K |-> row[K[i]]]

Init ==
  /\ rel = [t \in Table |-> {}]
  /\ dels = [t \in Table |-> {}]
  /\ ins = [t \in Table |-> {}]
  /\ pending = {}

\* Stages the deletion of the rows that agree with row on the columns C: of one
\* row, of the rows with given values in some columns, or of all rows.
Delete(t, C, row) ==
  /\ pending = {}
  /\ dels' = [dels EXCEPT ![t] = @ \cup {old \in rel[t] : \A i \in C : old[i] = row[i]}]
  /\ UNCHANGED <<rel, ins, pending>>

Insert(t, row) ==
  /\ pending = {}
  /\ ins' = [ins EXCEPT ![t] = @ \cup {row}]
  /\ UNCHANGED <<rel, dels, pending>>

\* Stages the replacement of all rows; rows staged before stay staged.
Set(t) ==
  /\ pending = {}
  /\ dels' = [dels EXCEPT ![t] = rel[t]]
  /\ \E R \in SUBSET Row(t) : ins' = [ins EXCEPT ![t] = @ \cup R]
  /\ UNCHANGED <<rel, pending>>

\* The update gives one key to two rows, or a row the key of one that is in
\* the table and not deleted, not even to be inserted again.
Conflict(t) ==
  \E K \in Keys[t], row \in ins[t] :
    \/ \E other \in ins[t] \ {row} : KeyOf(K, other) = KeyOf(K, row)
    \/ /\ \E old \in rel[t] : KeyOf(K, old) = KeyOf(K, row)
       /\ \A old \in dels[t] : KeyOf(K, old) # KeyOf(K, row)

Accept ==
  /\ pending = {}
  /\ \A t \in Table : ~ Conflict(t)
  /\ pending' = Table
  /\ UNCHANGED <<rel, dels, ins>>

Reject ==
  /\ pending = {}
  /\ \E t \in Table : Conflict(t)
  /\ dels' = [t \in Table |-> {}]
  /\ ins' = [t \in Table |-> {}]
  /\ UNCHANGED <<rel, pending>>

Commit(t) ==
  /\ t \in pending
  /\ rel' = [rel EXCEPT ![t] = (@ \ dels[t]) \cup ins[t]]
  /\ dels' = [dels EXCEPT ![t] = {}]
  /\ ins' = [ins EXCEPT ![t] = {}]
  /\ pending' = pending \ {t}

Next ==
  \/ \E t \in Table : \E row \in Row(t) :
       \/ \E C \in SUBSET (1 .. Arity[t]) : Delete(t, C, row)
       \/ Insert(t, row)
  \/ \E t \in Table : Set(t)
  \/ Accept
  \/ Reject
  \/ \E t \in Table : Commit(t)

Spec == Init /\ [][Next]_vars

KeysUnique ==
  \A t \in Table : \A K \in Keys[t] :
    \A row1, row2 \in rel[t] : KeyOf(K, row1) = KeyOf(K, row2) => row1 = row2
=============================================================================
