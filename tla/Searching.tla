----------------------------- MODULE Searching -----------------------------
(***************************************************************************)
(* Sorting, searching and removing duplicates: algs.cpp, sorting.cpp.      *)
(*                                                                         *)
(* Arrays are sequences of objects. Where the code releases the objects of *)
(* an array, an entry is an object with the place it was given in, so that *)
(* one can tell which of several equal objects is kept. Positions count    *)
(* from 1.                                                                 *)
(***************************************************************************)
EXTENDS Objects

Equal(x, y) == comp_objs(x, y) = 0
Less(x, y) == comp_objs(x, y) > 0

\* Compares tuples column by column.
CompareTuples(s, t) == FirstUnequal([c \in DOMAIN s |-> comp_objs(s[c], t[c])])

\* What std::sort may make of the indexes 1 .. n: entries that compare equal
\* come in any order.
Sorted(n, before) == {p \in Injection(1 .. n, 1 .. n) : \A i \in 2 .. n : <<p[i], p[i - 1]>> \notin before}

\* index_sort of one column does not look at the index; the others do.
index_sort(col) == Sorted(Len(col), {p \in (DOMAIN col) \X (DOMAIN col) : Less(col[p[1]], col[p[2]])})

stable_index_sort(rows) ==
  LET Compare(p) == CompareTuples(rows[p[1]], rows[p[2]])
      before == {p \in (DOMAIN rows) \X (DOMAIN rows) : Compare(p) > 0 \/ (Compare(p) = 0 /\ p[1] < p[2])}
  IN  CHOOSE p \in Sorted(Len(rows), before) : TRUE

-----------------------------------------------------------------------------
(* Searching *)

NotFound == [first |-> 0, count |-> 0]

\* Binary search: cmp[i] is how what is looked for compares to the entry i of
\* a sorted array. Returns a position, or 0.
find_obj(cmp) ==
  LET n == Len(cmp)
      search[low \in 1 .. n + 1, high \in 0 .. n] ==
        LET middle == 1 + ((low - 1) + (high - 1)) \div 2
        IN  IF low > high THEN 0
            ELSE IF cmp[middle] = 0 THEN middle
            ELSE IF cmp[middle] > 0 THEN search[low, middle - 1]
            ELSE search[middle + 1, high]
  IN  search[1, n]

\* How many entries compare equal at the start, or the end, of an array.
count_at_start(cmp) == LET c[k \in 0 .. Len(cmp)] == IF k < Len(cmp) /\ cmp[k + 1] = 0 THEN c[k + 1] ELSE k IN c[0]
count_at_end(cmp) == LET c[k \in 0 .. Len(cmp)] == IF k < Len(cmp) /\ cmp[Len(cmp) - k] = 0 THEN c[k + 1] ELSE k IN c[0]

\* Mutant: the position found is taken for the first one that is equal.
find_range_from_middle(cmp) ==
  LET middle == find_obj(cmp)
  IN  IF middle = 0 THEN NotFound
      ELSE [first |-> middle, count |-> 1 + count_at_start(SubSeq(cmp, middle + 1, Len(cmp)))]

\* find_objs_range and find_idxs_range, of one column or two.
find_range(cmp) ==
  LET middle == find_obj(cmp)
      count_up == count_at_start(SubSeq(cmp, middle + 1, Len(cmp)))
      count_down == count_at_end(SubSeq(cmp, 1, middle - 1))
  IN  IF middle = 0 THEN NotFound
      ELSE [first |-> middle - count_down, count |-> 1 + count_up + count_down]

-----------------------------------------------------------------------------
(* Removing duplicates *)

\* The inline objects are moved to the front: two cursors swap what is misplaced.
RECURSIVE Partitioned(_, _, _)
Partitioned(objs, low, high) ==
  LET up == CHOOSE i \in low .. high : (i = high \/ ~is_inline_obj(objs[i].obj)) /\ \A j \in low .. i - 1 : is_inline_obj(objs[j].obj)
      down == CHOOSE i \in up .. high : (i = up \/ is_inline_obj(objs[i].obj)) /\ \A j \in i + 1 .. high : ~is_inline_obj(objs[j].obj)
  IN  IF up = down THEN [objs |-> objs, inline_count |-> IF is_inline_obj(objs[up].obj) THEN up ELSE up - 1]
      ELSE Partitioned([objs EXCEPT ![up] = objs[down], ![down] = objs[up]], up, down)

\* What sorting the entries of one part can give.
SortedParts(objs) == {[i \in DOMAIN objs |-> objs[p[i]]] : p \in index_sort([i \in DOMAIN objs |-> objs[i].obj])}

\* Each object that is equal to the last one kept is released, in the part
\* that is not inline.
WithoutDups(objs) ==
  FoldLeft(LAMBDA done, e :
             IF done.kept # <<>> /\ Equal(Last(done.kept).obj, e.obj)
             THEN [done EXCEPT !.released = IF is_inline_obj(e.obj) THEN @ ELSE Append(@, e)]
             ELSE [done EXCEPT !.kept = Append(@, e)],
           [kept |-> <<>>, released |-> <<>>], objs)

sort_and_release_dups(objs) ==
  IF Len(objs) < 2 THEN {[kept |-> objs, released |-> <<>>]}
  ELSE LET parted == Partitioned(objs, 1, Len(objs))
           Part(first, last) == SortedParts(SubSeq(parted.objs, first, last))
       IN  {WithoutDups(inline \o refs) : inline \in Part(1, parted.inline_count),
                                          refs \in Part(parted.inline_count + 1, Len(objs))}

\* Mutant: the cycle's first entry is not kept aside.
permute_overwriting(rows, idxs) ==
  FoldLeft(LAMBDA done, i : [done EXCEPT ![i] = done[idxs[i]]], rows, [i \in DOMAIN rows |-> i])

\* The entries are moved where the sorted index says, one cycle after the other,
\* in place: idxs[j] = j marks the places that are done. Cycle goes on at place
\* j of the cycle that starts at i, whose entry is kept aside.
permute(rows, idxs) ==
  LET RECURSIVE Cycle(_, _, _)
      Cycle(s, i, j) ==
        LET k == s.idxs[j]
            done == [s EXCEPT !.idxs[j] = j]
        IN  IF k = i THEN [done EXCEPT !.rows[j] = rows[i]]
            ELSE Cycle([done EXCEPT !.rows[j] = s.rows[k]], i, k)
  IN  FoldLeft(LAMBDA s, i : IF s.idxs[i] = i THEN s ELSE Cycle(s, i, i),
               [rows |-> rows, idxs |-> idxs], [i \in DOMAIN rows |-> i]).rows

\* adjust_map_with_duplicate_keys: an entry with the key of the last one kept is
\* released if the value is the same as well, and a failure if it is not.
AdjustedMap(rows) ==
  FoldLeft(LAMBDA done, row :
             IF done.kept = <<>> \/ ~Equal(Last(done.kept)[1].obj, row[1].obj)
             THEN [done EXCEPT !.kept = Append(@, row)]
             ELSE IF Equal(Last(done.kept)[2].obj, row[2].obj) THEN [done EXCEPT !.released = @ \o row]
             ELSE [done EXCEPT !.failed = TRUE],
           [kept |-> <<>>, released |-> <<>>, failed |-> FALSE], rows)

\* Before the first repeated key there is nothing to adjust.
sort_and_check_no_dups(rows) ==
  {AdjustedMap(permute(rows, idxs)) : idxs \in index_sort([i \in DOMAIN rows |-> rows[i][1].obj])}
=============================================================================
