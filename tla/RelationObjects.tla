-------------------------- MODULE RelationObjects --------------------------
(***************************************************************************)
(* Sets, binary and ternary relations and maps: their builders, indexes    *)
(* and iterators (bin-rel-obj.cpp, tern-rel-obj.cpp, build_set) and the    *)
(* operations that read them (basic-ops.cpp).                              *)
(*                                                                         *)
(* A relation that was built is its physical type, its rows of objects in  *)
(* order, the index for each other first column, and the entries of the    *)
(* arrays it was built from that were kept and that were released.         *)
(***************************************************************************)
EXTENDS Searching

INVALID_INDEX == 0

Objs(row) == [c \in DOMAIN row |-> row[c].obj]
AllObjs(rows) == [i \in DOMAIN rows |-> Objs(rows[i])]
Built(type, kept, indexes, released) ==
  [type |-> type, rows |-> AllObjs(kept), index |-> indexes, failed |-> FALSE,
   kept |-> FlattenSeq(kept), released |-> released]
Failed(released) == [type |-> "none", rows |-> <<>>, index |-> <<>>, failed |-> TRUE, kept |-> <<>>, released |-> released]
EmptyRelation == Built("set", <<>>, <<>>, <<>>)

\* The rows with the columns turned, so that the first is the one given.
Rotated(rows, c) == [i \in DOMAIN rows |-> [k \in DOMAIN rows[i] |-> rows[i][((c + k - 2) % Len(rows[i])) + 1]]]

\* Arrays of one column, or of rows of two or three.
build_set(objs) ==
  IF objs = <<>> THEN {EmptyRelation}
  ELSE {Built("set", [i \in DOMAIN r.kept |-> <<r.kept[i]>>], <<>>, r.released) : r \in sort_and_release_dups(objs)}

\* The rows in order; each that is equal to the last one kept is released.
SortedUnique(rows) ==
  LET idx == stable_index_sort(AllObjs(rows))
  IN  FoldLeft(LAMBDA done, i :
                 IF done.kept # <<>> /\ CompareTuples(Objs(Last(done.kept)), Objs(rows[i])) = 0
                 THEN [done EXCEPT !.released = @ \o rows[i]]
                 ELSE [done EXCEPT !.kept = Append(@, rows[i])],
               [kept |-> <<>>, released |-> <<>>], idx)

\* The index by the column c. Rows that agree there keep their order: one sorts
\* by as many columns as are not in order already.
IndexBy(rows, c, columns) == stable_index_sort([i \in DOMAIN rows |-> SubSeq(Rotated(rows, c)[i], 1, columns)])

\* Mutant: the first two rows tell whether the left column is a key.
LeftColumnUnique_first(kept) == Len(kept) < 2 \/ ~Equal(kept[1][1].obj, kept[2][1].obj)

LeftColumnUnique(kept) == \A i \in 2 .. Len(kept) : ~Equal(kept[i - 1][1].obj, kept[i][1].obj)

build_bin_rel(rows) ==
  LET Index(sorted) == <<IndexBy(sorted, 2, 1)>>
      Relation(r) == Built(IF LeftColumnUnique(r.kept) THEN "log_map" ELSE "bin_rel", r.kept, Index(AllObjs(r.kept)), r.released)
  IN  IF rows = <<>> THEN {EmptyRelation} ELSE {Relation(SortedUnique(rows))}

\* The index of a map is made when it is needed: its first entry says so.
build_map(rows) ==
  IF rows = <<>> THEN {EmptyRelation}
  ELSE {IF r.failed THEN Failed(r.released)
        ELSE Built("map", r.kept, <<[i \in DOMAIN r.kept |-> INVALID_INDEX]>>, r.released) : r \in sort_and_check_no_dups(rows)}

build_tern_rel(rows) ==
  LET Indexes(sorted) == <<IndexBy(sorted, 2, 2), IndexBy(sorted, 3, 1)>>
      Relation(r) == Built("tern_rel", r.kept, Indexes(AllObjs(r.kept)), r.released)
  IN  IF rows = <<>> THEN {EmptyRelation} ELSE {Relation(SortedUnique(rows))}

\* The object that was built.
ObjectOf(rel) ==
  IF rel.rows = <<>> THEN make_empty_rel
  ELSE Make(rel.type, 0, FlattenSeq([c \in DOMAIN rel.rows[1] |-> [i \in DOMAIN rel.rows |-> rel.rows[i][c]]]))

-----------------------------------------------------------------------------
(* Iterators: the rows they go through *)

build_map_right_to_left_sorted_idx_array(rel) ==
  IF rel.index[1][1] # INVALID_INDEX THEN rel ELSE [rel EXCEPT !.index[1] = IndexBy(rel.rows, 2, 1)]

\* The positions of the rows in the order by the column c.
InOrder(rel, c) == IF c = 1 THEN [i \in DOMAIN rel.rows |-> i] ELSE rel.index[c - 1]

\* The rows whose columns from c on are the arguments.
IterBy(rel, c, args) ==
  LET order == InOrder(rel, c)
      Key(i) == SubSeq(Rotated(rel.rows, c)[order[i]], 1, Len(args))
      range == find_range([i \in DOMAIN rel.rows |-> CompareTuples(args, Key(i))])
  IN  [k \in 1 .. range.count |-> rel.rows[order[range.first + k - 1]]]

-----------------------------------------------------------------------------
(* Reading relations: basic-ops.cpp *)

\* How an object compares to each of a column.
CompareColumn(rows, c, obj) == [i \in DOMAIN rows |-> comp_objs(obj, rows[i][c])]
FindIn(rows, c, obj) == find_obj(CompareColumn(rows, c, obj))
RangeIn(rows, c, obj) == find_range(CompareColumn(rows, c, obj))
RowsIn(rows, range) == SubSeq(rows, range.first, range.first + range.count - 1)

has_elem(rel, elem) == rel.rows # <<>> /\ FindIn(rel.rows, 1, elem) # 0

IsMap(rel) == rel.type \in {"map", "log_map"}
has_key(rel, key) ==
  /\ rel.rows # <<>>
  /\ IF IsMap(rel) THEN FindIn(rel.rows, 1, key) # 0 ELSE RangeIn(rel.rows, 1, key).count > 0

has_pair(rel, arg0, arg1) ==
  LET range == RangeIn(rel.rows, 1, arg0)
      idx == FindIn(rel.rows, 1, arg0)
  IN  /\ rel.rows # <<>>
      /\ IF IsMap(rel) THEN idx # 0 /\ Equal(rel.rows[idx][2], arg1)
         ELSE range.count > 0 /\ FindIn(RowsIn(rel.rows, range), 2, arg1) # 0

has_triple(rel, arg1, arg2, arg3) ==
  LET with1 == RowsIn(rel.rows, RangeIn(rel.rows, 1, arg1))
      with12 == RowsIn(with1, RangeIn(with1, 2, arg2))
  IN  rel.rows # <<>> /\ with1 # <<>> /\ with12 # <<>> /\ FindIn(with12, 3, arg3) # 0

\* The value in a sequence, or nothing if the look-up fails.
lookup(rel, key) ==
  LET range == RangeIn(rel.rows, 1, key)
      idx == IF IsMap(rel) THEN FindIn(rel.rows, 1, key) ELSE IF range.count = 1 THEN range.first ELSE 0
  IN  IF rel.rows = <<>> \/ idx = 0 THEN <<>> ELSE <<rel.rows[idx][2]>>

\* Fields are looked for one by one, since their symbols are compared quickly.
lookup_field(rel, idx) ==
  LET places == {i \in DOMAIN rel.rows : is_symb(rel.rows[i][1]) /\ rel.rows[i][1].num = idx}
  IN  IF places = {} THEN <<>> ELSE <<rel.rows[CHOOSE i \in places : \A j \in places : i <= j][2]>>
has_field(rel, idx) == \E i \in DOMAIN rel.rows : is_symb(rel.rows[i][1]) /\ rel.rows[i][1].num = idx
=============================================================================
