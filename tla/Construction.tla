---------------------------- MODULE Construction ----------------------------
(***************************************************************************)
(* How a program comes to its values: generated code appends objects to    *)
(* streams and builds a set, a relation or a map of them, and an embedder  *)
(* has a text parsed. What was made is read, compared, printed and, at     *)
(* last, released.                                                         *)
(*                                                                         *)
(* given is what the streams hold, row by row, or the tokens of the text;  *)
(* an entry of a stream is an object with the place it was appended at.    *)
(***************************************************************************)
EXTENDS Printer, Grammar

CONSTANTS Cells,         \* the objects that are appended, for each column of each kind
          Tokens,        \* the tokens of texts
          MaxLength      \* the longest stream of each kind, and the longest text

VARIABLES source, given, result

vars == <<source, given, result>>

Kinds == {"set", "bin_rel", "map", "tern_rel"}
Sources == Kinds \cup {"text"}
Arity == [set |-> 1, bin_rel |-> 2, map |-> 2, tern_rel |-> 3]

NoResult == [failed |-> FALSE]
Done == result # NoResult

Init == source \in Sources /\ given = <<>> /\ result = NoResult

-----------------------------------------------------------------------------
(* Streams *)

Asked == UNION Range(Cells[source])

\* The next row: one object is appended to each of the streams.
AppendRow ==
  /\ source \in Kinds /\ ~Done /\ Len(given) < MaxLength[source]
  /\ \E row \in {r \in [1 .. Arity[source] -> Asked] : \A c \in DOMAIN r : r[c] \in Cells[source][c]} :
       given' = Append(given, [c \in DOMAIN row |-> [obj |-> row[c], from |-> <<Len(given) + 1, c>>]])
  /\ UNCHANGED <<source, result>>

\* std::sort may leave equal entries in any order.
Constructed(kind, rows) ==
  CASE kind = "set"      -> build_set(Column(rows))
    [] kind = "bin_rel"  -> build_bin_rel(rows)
    [] kind = "map"      -> build_map(rows)
    [] kind = "tern_rel" -> build_tern_rel(rows)

Build ==
  /\ source \in Kinds /\ ~Done
  /\ result' \in Constructed(source, given)
  /\ UNCHANGED <<source, given>>

\* A program reads a map by its right column for the first time.
ReadByRight ==
  /\ source = "map" /\ Done /\ result.type = "map"
  /\ result' = build_map_right_to_left_sorted_idx_array(result)
  /\ UNCHANGED <<source, given>>

-----------------------------------------------------------------------------
(* Texts *)

\* What has been refused at a token stays refused, whatever follows.
Open(tokens) == tokens = <<>> \/ parse(tokens).offset \in {Len(tokens), -Len(tokens) - 1}

AppendToken ==
  /\ source = "text" /\ ~Done /\ Len(given) < MaxLength["text"] /\ Open(given)
  /\ \E token \in Tokens : given' = Append(given, token)
  /\ UNCHANGED <<source, result>>

Parse ==
  /\ source = "text" /\ ~Done
  /\ result' = parse(given)
  /\ UNCHANGED <<source, given>>

-----------------------------------------------------------------------------

\* The object is released, and the next one is made.
Release == Done /\ source' \in Sources /\ given' = <<>> /\ result' = NoResult

Next == AppendRow \/ Build \/ ReadByRight \/ AppendToken \/ Parse \/ Release

Spec == Init /\ [][Next]_vars

-----------------------------------------------------------------------------
(* Properties of what streams make *)

IsRelation == source \in Kinds /\ Done
IsMade == IsRelation /\ ~result.failed

GivenRows == {Objs(given[i]) : i \in DOMAIN given}
MeaningOfRow(row) == [c \in DOMAIN row |-> MeaningOf(row[c])]
Increasing(rows) == \A i \in 2 .. Len(rows) : CompareTuples(rows[i - 1], rows[i]) > 0

\* Two rows say different things of one key.
KeyTaken == \E r, s \in GivenRows : SameValue(r[1], s[1]) /\ ~SameValue(r[2], s[2])

\* What is built of a stream has exactly the rows that were appended to it, each
\* once and in order, and each of its indexes goes through all of them in the
\* order of the columns it starts with; it is a map exactly if no key has two
\* values, and where a map is required two values of a key are what is refused,
\* whatever order the rows came in.
BuiltExact ==
  IsRelation =>
    /\ result.failed <=> (source = "map" /\ KeyTaken)
    /\ ~result.failed =>
         /\ Increasing(result.rows)
         /\ {MeaningOfRow(result.rows[i]) : i \in DOMAIN result.rows} = {MeaningOfRow(r) : r \in GivenRows}
         /\ source = "bin_rel" => (result.type = "bin_rel" <=> KeyTaken)
         /\ \A c \in DOMAIN result.index :
              result.index[c][1] # INVALID_INDEX =>
                /\ {result.index[c][i] : i \in DOMAIN result.rows} = DOMAIN result.rows
                /\ Increasing([i \in DOMAIN result.rows |-> Rotated(result.rows, c + 1)[result.index[c][i]]])

\* Of the references that were appended each is either in what was built or was
\* released, and neither twice; after a failure none was released twice.
ReferencesKept ==
  IsRelation =>
    LET all == {e \in UNION {{given[i][c] : c \in DOMAIN given[i]} : i \in DOMAIN given} : ~is_inline_obj(e.obj)}
        here == SelectSeq(result.kept \o result.released, LAMBDA e : ~is_inline_obj(e.obj))
    IN  /\ IsInjective(here)
        /\ ~result.failed => Range(here) = all

\* Every search finds exactly the rows that are there: by an element, a key, a
\* pair, a triple, or with an iterator by any columns, which visits each row once;
\* a look-up gives the only value of the key, and a field that of its symbol.
SearchesExact ==
  IsMade =>
    LET rel == IF result.type = "map" THEN build_map_right_to_left_sorted_idx_array(result) ELSE result
        meaning == [x \in Asked |-> MeaningOf(x)]
        meant == [r \in Range(result.rows) |-> MeaningOfRow(r)]
        RowsWith(c, args) ==
          {r \in DOMAIN meant : \A k \in DOMAIN args : meant[r][((c + k - 2) % Len(r)) + 1] = meaning[args[k]]}
        Visits(c, args) ==
          LET it == IterBy(rel, c, args) IN IsInjective(it) /\ Range(it) = RowsWith(c, args)
        Value(answer, c, rows) == answer = (IF Cardinality(rows) = 1 THEN <<Only(rows)[c]>> ELSE <<>>)
    IN  \A x \in Asked :
          /\ source = "set" => (has_elem(result, x) <=> RowsWith(1, <<x>>) # {})
          /\ source # "set" => \A c \in 1 .. Arity[source] : Visits(c, <<x>>)
          /\ Arity[source] = 2 =>
               /\ has_key(result, x) <=> RowsWith(1, <<x>>) # {}
               /\ Value(lookup(result, x), 2, RowsWith(1, <<x>>))
               /\ is_symb(x) => (has_field(result, x.num) <=> has_key(result, x))
               /\ is_symb(x) /\ IsMap(result) => lookup_field(result, x.num) = lookup(result, x)
               /\ \A y \in Asked : has_pair(result, x, y) <=> RowsWith(1, <<x, y>>) # {}
          /\ source = "tern_rel" => \A y \in Asked :
               /\ \A c \in 1 .. 3 : Visits(c, <<x, y>>)
               /\ \A z \in Asked : has_triple(result, x, y, z) <=> RowsWith(1, <<x, y, z>>) # {}

\* The order is total on the objects of a stream, objects are equal for it
\* exactly if they have the same value, and equal objects have one hash code:
\* sorted arrays and the hash tables of the value store agree on what is equal.
OrderExact ==
  source = "set" /\ Done =>
    \A x, y, z \in {given[i][1].obj : i \in DOMAIN given} :
      /\ Equal(x, y) <=> SameValue(x, y)
      /\ Less(x, y) <=> comp_objs(y, x) < 0
      /\ Less(x, y) /\ Less(y, z) => Less(x, z)
      /\ Equal(x, y) => compute_hash_code(x) = compute_hash_code(y)

\* A map and a relation that were built of the same rows, whatever the order of
\* the rows, are one value: they compare equal and have the same hash code.
MapIsRelation ==
  IsMade /\ source = "map" =>
    \A rel \in build_bin_rel(Reverse(given)) :
      /\ Equal(ObjectOf(result), ObjectOf(rel))
      /\ compute_hash_code(ObjectOf(result)) = compute_hash_code(ObjectOf(rel))

-----------------------------------------------------------------------------
(* Properties of texts *)

IsRead == source = "text" /\ Done
ObjectMade == IF source = "text" THEN result.obj ELSE ObjectOf(result)

RECURSIVE HasUnset(_)
HasUnset(obj) == obj.type = "blank" \/ \E i \in DOMAIN obj.elems : HasUnset(obj.elems[i])

\* A tag is put on nothing: the parser's variable of the inner object is unset.
EmptyTag == \E i \in 1 .. Len(given) - 2 : SubSeq(TypesOf(given), i, i + 2) = <<"SYMBOL", "OPEN_PAR", "CLOSE_PAR">>

\* The parser accepts exactly the texts that denote a value, and makes that
\* value, except that it accepts a tag with nothing in its parentheses: then,
\* and only then, it hands on a variable that was never written.
AcceptsValues ==
  IsRead =>
    IF result.ok /\ HasUnset(result.obj) THEN EmptyTag
    ELSE Denotes(given) = IF result.ok THEN {MeaningOf(result.obj)} ELSE {}

\* However a text fails, each reference the parser made is released, and only
\* once; after a success all but that of the result were moved into it or
\* released. Only a text that goes on after an object leaves that object behind.
NothingLeftBehind ==
  IsRead =>
    LET left == Range(result.made) \ Range(result.gone)
    IN  /\ IsInjective(result.made) /\ IsInjective(result.gone)
        /\ Range(result.gone) \subseteq Range(result.made)
        /\ result.offset <= 0 => left = {}
        /\ result.offset > 0 => left = IF is_inline_obj(result.obj) THEN {} ELSE {0}

\* The text of any object that was made, however it came to be, is accepted and
\* gives an object that compares equal and has the same hash code.
RoundTrip ==
  LET ReadBack(again) ==
        /\ again.ok
        /\ Equal(again.obj, ObjectMade)
        /\ compute_hash_code(again.obj) = compute_hash_code(ObjectMade)
  IN  (IsMade \/ (IsRead /\ result.ok /\ ~HasUnset(result.obj))) => ReadBack(parse(print_obj(ObjectMade)))
=============================================================================
