------------------------------ MODULE Objects ------------------------------
(***************************************************************************)
(* Objects as their references describe them: the physical types, the tags *)
(* kept in a reference, the order and the hash codes.                      *)
(*                                                                         *)
(* An object is a record: its physical type, the tags that are packed in   *)
(* the reference (outermost first), num, which is the integer, the index   *)
(* of the symbol or the tag in a TAG_OBJ, and elems, its elements in the   *)
(* order of the buffer: of a relation, one column after the other.         *)
(* One value can be several objects: a sequence or a slice; a map, a       *)
(* relation or a logical map; a tag in the reference or in a TAG_OBJ.      *)
(***************************************************************************)
EXTENDS Integers, Sequences, FiniteSets, SequencesExt

CONSTANT HASH_MODULUS   \* 2^32 in the code

ASSUME HashAssumption == HASH_MODULUS \in Nat \ {0}

\* The numbers of the physical types decide the order.
TypeNumber ==
  [blank |-> 0, symbol |-> 2, integer |-> 3, sequence |-> 5, set |-> 6, bin_rel |-> 7, tern_rel |-> 8,
   tag_obj |-> 9, slice |-> 10, map |-> 11, log_map |-> 12]

Make(type, num, elems) == [type |-> type, tags |-> <<>>, num |-> num, elems |-> elems]
make_symb(idx) == Make("symbol", idx, <<>>)
make_int(n) == Make("integer", n, <<>>)
make_seq(elems) == Make("sequence", 0, elems)
make_slice(elems) == Make(IF elems = <<>> THEN "sequence" ELSE "slice", 0, elems)
make_empty_rel == Make("set", 0, <<>>)

\* A reference has room for two tags, that of a sequence for one, that of a
\* slice for none. There is room in the reference to a TAG_OBJ as well.
make_tag_obj(tag, obj) ==
  LET room == CASE obj.type = "sequence" -> 1 [] obj.type = "slice" -> 0 [] OTHER -> 2
  IN  IF Len(obj.tags) < room THEN [obj EXCEPT !.tags = <<tag>> \o @]
      ELSE Make("tag_obj", tag, <<obj>>)

is_tag_obj(obj) == obj.tags # <<>> \/ obj.type = "tag_obj"
get_tag_idx(obj) == IF obj.tags # <<>> THEN obj.tags[1] ELSE obj.num
get_inner_obj(obj) == IF obj.tags # <<>> THEN [obj EXCEPT !.tags = Tail(@)] ELSE obj.elems[1]

\* Inline are the objects without a block; is_inline_obj asserts that these
\* are the ones of a simple type and the empty ones.
is_inline_obj(obj) == obj.type \in {"symbol", "integer"} \/ obj.elems = <<>>

is_seq(obj) == obj.tags = <<>> /\ obj.type \in {"sequence", "slice"}
is_empty_rel(obj) == obj = make_empty_rel
is_ne_set(obj) == obj.tags = <<>> /\ obj.type = "set" /\ obj.elems # <<>>
is_ne_map(obj) == obj.tags = <<>> /\ obj.type \in {"map", "log_map"}
is_ne_bin_rel(obj) == is_ne_map(obj) \/ (obj.tags = <<>> /\ obj.type = "bin_rel")
is_bin_rel(obj) == is_empty_rel(obj) \/ is_ne_bin_rel(obj)
is_ne_tern_rel(obj) == obj.tags = <<>> /\ obj.type = "tern_rel"
is_symb(obj) == obj.tags = <<>> /\ obj.type = "symbol"
is_int(obj) == obj.tags = <<>> /\ obj.type = "integer"

get_logical_type(obj) ==
  CASE obj.type = "slice"                                -> "sequence"
    [] obj.type # "slice" /\ obj.tags # <<>>             -> "tag_obj"
    [] obj.tags = <<>> /\ obj.type \in {"map", "log_map"} -> "bin_rel"
    [] OTHER                                             -> obj.type

\* The columns of a relation, and its rows.
Width(obj) == CASE obj.type = "tern_rel" -> 3 [] obj.type \in {"bin_rel", "map", "log_map"} -> 2 [] OTHER -> 1
RowCount(obj) == Len(obj.elems) \div Width(obj)
ColumnOf(obj, c) == SubSeq(obj.elems, (c - 1) * RowCount(obj) + 1, c * RowCount(obj))
RowsOf(obj) == [i \in 1 .. RowCount(obj) |-> [c \in 1 .. Width(obj) |-> ColumnOf(obj, c)[i]]]

-----------------------------------------------------------------------------
(* The order: positive if the first is less, algs.cpp *)

Sign(x, y) == IF x < y THEN 1 ELSE IF x > y THEN -1 ELSE 0

\* Where the fields of a reference are in its second word, the highest first:
\* the tags' count, the type, the tag, the inner tag, the index of a symbol.
ExtraData(obj) ==
  LET tag(k) == IF k <= Len(obj.tags) THEN obj.tags[k] ELSE 0
  IN  <<Len(obj.tags), TypeNumber[obj.type], tag(1), tag(2), IF obj.type = "symbol" THEN obj.num ELSE 0>>
CoreData(obj) == IF obj.type = "integer" THEN obj.num ELSE 0

\* The result of a comparison part by part.
FirstUnequal(results) ==
  LET unequal == {i \in DOMAIN results : results[i] # 0}
  IN  IF unequal = {} THEN 0 ELSE results[Min(unequal)]

\* The words of two inline objects.
Words(obj) == Append(ExtraData(obj), CoreData(obj))
shallow_cmp(x, y) == FirstUnequal([k \in 1 .. 6 |-> Sign(Words(x)[k], Words(y)[k])])

\* Mutant: the types compared are the physical ones.
TypeOrder_physical(x, y) == TypeNumber[y.type] - TypeNumber[x.type]

TypeOrder(x, y) == TypeNumber[get_logical_type(y)] - TypeNumber[get_logical_type(x)]

RECURSIVE comp_objs(_, _)
comp_objs(x, y) ==
  IF is_inline_obj(x) /\ is_inline_obj(y) THEN shallow_cmp(x, y)
  ELSE IF is_inline_obj(x) THEN 1
  ELSE IF is_inline_obj(y) THEN -1
  ELSE IF TypeOrder(x, y) # 0 THEN TypeOrder(x, y)
  ELSE IF get_logical_type(x) = "tag_obj"
  THEN IF get_tag_idx(x) # get_tag_idx(y) THEN get_tag_idx(y) - get_tag_idx(x)
       ELSE comp_objs(get_inner_obj(x), get_inner_obj(y))
  ELSE IF Len(x.elems) # Len(y.elems) THEN Len(y.elems) - Len(x.elems)
  ELSE FirstUnequal([i \in DOMAIN x.elems |-> comp_objs(x.elems[i], y.elems[i])])

-----------------------------------------------------------------------------
(* Hash codes: hashing.cpp *)

MULTIPLIER == 37
MULT_BASE_VALUE == 17 * MULTIPLIER

RECURSIVE compute_hash_code(_)

\* Mutant: the physical type is hashed too, and a map and the relation equal to it differ.
StartValue_typed(obj) == MULT_BASE_VALUE + TypeNumber[obj.type] + RowCount(obj)

StartValue(obj) == MULT_BASE_VALUE + RowCount(obj)

combined_hash_code(start, array) ==
  FoldLeft(LAMBDA code, obj : (MULTIPLIER * code + compute_hash_code(obj)) % HASH_MODULUS, start, array)

compute_hash_code(obj) ==
  IF is_tag_obj(obj)
  THEN (MULTIPLIER * (MULT_BASE_VALUE + get_tag_idx(obj)) + compute_hash_code(get_inner_obj(obj))) % HASH_MODULUS
  ELSE IF obj.type \in {"symbol", "integer"} THEN (MULT_BASE_VALUE + obj.num) % HASH_MODULUS
  ELSE combined_hash_code(StartValue(obj), obj.elems)

-----------------------------------------------------------------------------
(* What an object stands for, whichever object it is: sequences have numbered
   parts, relations a set of rows. *)

Meaning(is, num, parts) == [is |-> is, num |-> num, parts |-> parts]
Numbered(seq) == {<<i, <<seq[i]>>>> : i \in DOMAIN seq}
Unordered(rows) == {<<0, row>> : row \in rows}

RECURSIVE MeaningOf(_)
MeaningOf(obj) ==
  LET type == get_logical_type(obj)
      Row(row) == [c \in DOMAIN row |-> MeaningOf(row[c])]
  IN  CASE is_tag_obj(obj)    -> Meaning("tag_obj", get_tag_idx(obj), Numbered(<<MeaningOf(get_inner_obj(obj))>>))
        [] type = "sequence"  -> Meaning(type, 0, Numbered(Row(obj.elems)))
        [] type \in {"set", "bin_rel", "tern_rel"}
                              -> Meaning(type, 0, Unordered({Row(RowsOf(obj)[i]) : i \in 1 .. RowCount(obj)}))
        [] OTHER              -> Meaning(type, obj.num, {})
SameValue(x, y) == MeaningOf(x) = MeaningOf(y)
=============================================================================
