------------------------------- MODULE Parser -------------------------------
(***************************************************************************)
(* The parser of parsing.cpp, from the tokens on.                          *)
(*                                                                         *)
(* An offset counts the tokens read; a failure at the token k is -k - 1.   *)
(* What a function returns also says which references were made and which  *)
(* are gone, released or moved into an object, each by the offset of the   *)
(* token it starts at. Inline objects are not counted.                     *)
(***************************************************************************)
EXTENDS RelationObjects

symb_idx_string == 3

Token(type) == [type |-> type, value |-> <<>>]
TypeAt(tokens, offset) == IF offset < Len(tokens) THEN tokens[offset + 1].type ELSE "none"

Places(entries) ==
  LET refs == SelectSeq(entries, LAMBDA e : ~is_inline_obj(e.obj)) IN [i \in DOMAIN refs |-> refs[i].from]

\* The state of a list, STATE: the rows of entries that were read.
List(offset, rows) == [offset |-> offset, rows |-> rows, made |-> <<>>, gone |-> <<>>]
With(list, p, row) ==
  [offset |-> p.offset, rows |-> IF p.offset < 0 THEN list.rows ELSE Append(list.rows, row),
   made |-> list.made \o p.made, gone |-> list.gone \o p.gone]

NoEntry == [obj |-> make_empty_rel, from |-> -1]

\* cleanup: the entries are released if nothing was made of them.
Failure(list, offset) ==
  [offset |-> offset, entry |-> NoEntry, made |-> list.made, gone |-> list.gone \o Places(FlattenSeq(list.rows))]
Success(list, offset, at, obj, moved) ==
  [offset |-> offset, entry |-> [obj |-> obj, from |-> at],
   made |-> list.made \o Places(<<[obj |-> obj, from |-> at]>>), gone |-> list.gone \o Places(moved)]
SuccessIf(list, at, obj, moved) ==
  IF list.offset < 0 THEN Failure(list, list.offset) ELSE Success(list, list.offset, at, obj, moved)

AtEnd(tokens, offset) == offset >= Len(tokens)

RECURSIVE parse_obj(_, _), parse_entry(_, _, _, _), read_items(_, _, _, _, _)

-----------------------------------------------------------------------------
(* Entries and lists *)

\* Mutant: what was read of an entry is kept when the rest of it fails.
EntryFailed_unreleased(r) ==
  [offset |-> IF r.offset < 0 THEN r.offset ELSE -r.offset - 1, vars |-> <<>>, made |-> r.made, gone |-> r.gone]

EntryFailed(r) ==
  [offset |-> IF r.offset < 0 THEN r.offset ELSE -r.offset - 1, vars |-> <<>>,
   made |-> r.made, gone |-> r.gone \o Places(r.vars)]

\* The objects of an entry, with a separator between them; r.vars has been read.
parse_entry(tokens, count, sep, r) ==
  LET Read(p) == [offset |-> p.offset, vars |-> IF p.offset < 0 THEN r.vars ELSE Append(r.vars, p.entry),
                  made |-> r.made \o p.made, gone |-> r.gone \o p.gone]
      next == IF r.vars = <<>> THEN r.offset ELSE r.offset + 1
  IN  IF \/ r.offset < 0
         \/ Len(r.vars) = count /\ AtEnd(tokens, r.offset)
         \/ Len(r.vars) \in 1 .. count - 1 /\ TypeAt(tokens, r.offset) # sep
      THEN EntryFailed(r)
      ELSE IF Len(r.vars) = count THEN r
      ELSE parse_entry(tokens, count, sep, Read(parse_obj(tokens, next)))

WithObj(list, p) == With(list, p, <<p.entry>>)
read_obj(tokens, list) == WithObj(list, parse_obj(tokens, list.offset))

read_entry(tokens, list, count, sep) ==
  LET WithEntry(r) == With(list, r, r.vars)
  IN  WithEntry(parse_entry(tokens, count, sep, [offset |-> list.offset, vars |-> <<>>, made |-> <<>>, gone |-> <<>>]))

read_rec_entry(tokens, list) ==
  LET at == list.offset
      WithField(p) == With(list, p, <<[obj |-> make_symb(tokens[at + 1].value[1]), from |-> at], p.entry>>)
  IN  IF TypeAt(tokens, at) # "SYMBOL" THEN [list EXCEPT !.offset = -at - 1]
      ELSE IF TypeAt(tokens, at + 1) # "COLON" THEN [list EXCEPT !.offset = -at - 2]
      ELSE WithField(parse_obj(tokens, at + 2))

parse_elem(tokens, kind, list) ==
  CASE kind = "obj" -> read_obj(tokens, list)
    [] kind = "rec" -> read_rec_entry(tokens, list)
    [] OTHER        -> read_entry(tokens, list, IF kind = "tern_rel" THEN 3 ELSE 2, IF kind = "map" THEN "ARROW" ELSE "COMMA")

read_items(tokens, kind, sep, term, list) ==
  LET Next(l) ==
        LET type == TypeAt(tokens, l.offset)
            Stop(offset) == [l EXCEPT !.offset = offset]
        IN  IF l.offset < 0 THEN l
            ELSE IF AtEnd(tokens, l.offset) THEN Stop(-l.offset - 1)
            ELSE IF type = sep THEN read_items(tokens, kind, sep, term, Stop(l.offset + 1))
            ELSE IF type = term THEN Stop(l.offset + 1)
            ELSE IF term = "WHATEVER" THEN l
            ELSE Stop(-l.offset - 1)
  IN  Next(parse_elem(tokens, kind, list))

\* Only a list without any item may end before an item.
read_list(tokens, kind, sep, term, list) ==
  IF TypeAt(tokens, list.offset) = term THEN [list EXCEPT !.offset = @ + 1]
  ELSE read_items(tokens, kind, sep, term, list)

-----------------------------------------------------------------------------
(* Sequences, records and tagged objects *)

Column(rows) == [i \in DOMAIN rows |-> rows[i][1]]
Only(S) == CHOOSE x \in S : TRUE
SuccessWith(list, offset, at, rel) == Success(list, offset, at, ObjectOf(rel), rel.kept \o rel.released)

build_seq(entries) == make_seq([i \in DOMAIN entries |-> entries[i].obj])

parse_seq(tokens, at) ==
  LET Sequence(list) == SuccessIf(list, at, build_seq(Column(list.rows)), Column(list.rows))
  IN  Sequence(read_list(tokens, "obj", "COMMA", "CLOSE_PAR", List(at + 1, <<>>)))

\* Mutant: a symbol after the parenthesis is enough.
starts_record_at_symbol(tokens, at) == TypeAt(tokens, at + 1) = "SYMBOL" /\ TypeAt(tokens, at + 2) # "none"

starts_record(tokens, at) == TypeAt(tokens, at + 1) = "SYMBOL" /\ TypeAt(tokens, at + 2) = "COLON"

parse_rec(tokens, at) ==
  LET Record(list) == IF list.offset < 0 THEN Failure(list, list.offset)
                      ELSE SuccessWith(list, list.offset, at, Only(build_bin_rel(list.rows)))
  IN  Record(read_list(tokens, "rec", "COMMA", "CLOSE_PAR", List(at + 1, <<>>)))

\* A variable nothing was written to: parse_inner_obj_or_tuple returns without
\* an error and without an object if there is nothing between the parentheses.
Unset == Make("blank", 0, <<>>)

parse_inner_obj_or_tuple(tokens, at) ==
  LET Inner(objs) == IF Len(objs) = 0 THEN Unset ELSE IF Len(objs) = 1 THEN objs[1].obj ELSE build_seq(objs)
      Parsed(list) == SuccessIf(list, at, Inner(Column(list.rows)), Column(list.rows))
  IN  Parsed(read_list(tokens, "obj", "COMMA", "CLOSE_PAR", List(at + 1, <<>>)))

Tagged(p, at, tag) ==
  IF p.offset < 0 THEN p ELSE Success(p, p.offset, at, make_tag_obj(tag, p.entry.obj), <<p.entry>>)

parse_symb_or_tagged_obj(tokens, at) ==
  LET symb_idx == tokens[at + 1].value[1]
  IN  IF TypeAt(tokens, at + 1) # "OPEN_PAR" THEN Success(List(at + 1, <<>>), at + 1, at, make_symb(symb_idx), <<>>)
      ELSE Tagged(IF starts_record(tokens, at + 1) THEN parse_rec(tokens, at + 1)
                  ELSE parse_inner_obj_or_tuple(tokens, at + 1), at, symb_idx)

-----------------------------------------------------------------------------
(* Sets and relations *)

Relation(list, offset, at, rows) ==
  SuccessWith(list, offset, at, Only(IF Len(rows[1]) = 2 THEN build_bin_rel(rows) ELSE build_tern_rel(rows)))

parse_rel_tail(tokens, at, list, first_entry, is_map) ==
  LET kind == IF is_map THEN "map" ELSE IF Len(first_entry) = 2 THEN "bin_rel" ELSE "tern_rel"
      Parsed(tail) == IF tail.offset < 0 THEN Failure(tail, tail.offset) ELSE Relation(tail, tail.offset, at, tail.rows)
  IN  Parsed(read_list(tokens, kind, IF is_map THEN "COMMA" ELSE "SEMICOLON", "CLOSE_BRACKET",
                       [list EXCEPT !.rows = <<first_entry>>]))

\* After the first entry of a map any token stands for a comma.
parse_map(tokens, at, list) ==
  LET Rest(l) ==
        IF l.offset < 0 THEN Failure(l, l.offset)
        ELSE IF AtEnd(tokens, l.offset) THEN Failure(l, -l.offset - 1)
        ELSE IF TypeAt(tokens, l.offset) = "CLOSE_BRACKET" THEN Relation(l, l.offset + 1, at, <<Column(l.rows)>>)
        ELSE parse_rel_tail(tokens, at, [l EXCEPT !.offset = @ + 1], Column(l.rows), TRUE)
  IN  Rest(read_obj(tokens, [list EXCEPT !.offset = @ + 1]))

parse_rel(tokens, at, list) ==
  LET entry == Column(list.rows)
  IN  IF TypeAt(tokens, list.offset + 1) = "CLOSE_BRACKET" THEN Relation(list, list.offset + 2, at, <<entry>>)
      ELSE parse_rel_tail(tokens, at, [list EXCEPT !.offset = @ + 1], entry, FALSE)

\* What the token after the first entries, or the bracket, makes of them.
Collection(tokens, at, list) ==
  LET type == TypeAt(tokens, list.offset)
  IN  CASE list.offset < 0                                -> Failure(list, list.offset)
        [] type = "ARROW" /\ Len(list.rows) = 1           -> parse_map(tokens, at, list)
        [] type = "SEMICOLON" /\ Len(list.rows) \in {2, 3} -> parse_rel(tokens, at, list)
        [] type = "CLOSE_BRACKET"                         -> SuccessWith(list, list.offset + 1, at, Only(build_set(Column(list.rows))))
        [] OTHER                                          -> Failure(list, -list.offset - 1)

parse_unord_coll(tokens, at) ==
  CASE AtEnd(tokens, at + 1)                    -> Failure(List(0, <<>>), -at - 2)
    [] TypeAt(tokens, at + 1) = "CLOSE_BRACKET" -> Success(List(0, <<>>), at + 2, at, make_empty_rel, <<>>)
    [] OTHER -> Collection(tokens, at, read_list(tokens, "obj", "COMMA", "WHATEVER", List(at + 1, <<>>)))

-----------------------------------------------------------------------------

parse_string(chars) == make_tag_obj(symb_idx_string, make_seq([i \in DOMAIN chars |-> make_int(chars[i])]))

parse_obj(tokens, at) ==
  LET type == TypeAt(tokens, at)
      value == tokens[at + 1].value
      start == List(at + 1, <<>>)
  IN  CASE type = "INT"          -> Success(start, at + 1, at, make_int(value[1]), <<>>)
        [] type = "SYMBOL"       -> parse_symb_or_tagged_obj(tokens, at)
        [] type = "STRING"       -> Success(start, at + 1, at, parse_string(value), <<>>)
        [] type = "OPEN_PAR"     -> IF starts_record(tokens, at) THEN parse_rec(tokens, at) ELSE parse_seq(tokens, at)
        [] type = "OPEN_BRACKET" -> parse_unord_coll(tokens, at)
        [] OTHER                 -> Failure(start, -at - 1)

\* A text without tokens is refused; one that goes on after an object as well,
\* and that object is not released.
parse(tokens) ==
  LET Parsed(p) ==
        [ok |-> p.offset = Len(tokens), obj |-> p.entry.obj, offset |-> p.offset, made |-> p.made, gone |-> p.gone]
  IN  IF tokens = <<>> THEN [ok |-> FALSE, obj |-> make_empty_rel, offset |-> 0, made |-> <<>>, gone |-> <<>>]
      ELSE Parsed(parse_obj(tokens, 0))
=============================================================================
