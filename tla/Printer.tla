------------------------------ MODULE Printer -------------------------------
(***************************************************************************)
(* The text of an object, printing.cpp, as the tokens one reads in it.     *)
(***************************************************************************)
EXTENDS Parser

\* The characters of a string have 16 bits.
is_str(tag_idx, obj) ==
  /\ tag_idx = symb_idx_string
  /\ is_seq(obj)
  /\ \A i \in DOMAIN obj.elems : is_int(obj.elems[i]) /\ obj.elems[i].num \in 0 .. 65535

is_record(obj) == is_ne_map(obj) /\ \A i \in 1 .. RowCount(obj) : is_symb(ColumnOf(obj, 1)[i])

\* The texts one after the other, with separators between them.
Separated(texts, sep) == FlattenSeq([i \in DOMAIN texts |-> IF i = 1 THEN texts[i] ELSE <<Token(sep)>> \o texts[i]])
InParentheses(text) == <<Token("OPEN_PAR")>> \o text \o <<Token("CLOSE_PAR")>>
InBrackets(text) == <<Token("OPEN_BRACKET")>> \o text \o <<Token("CLOSE_BRACKET")>>

RECURSIVE print_obj(_)

print_symb(idx) == <<[type |-> "SYMBOL", value |-> <<idx>>]>>
print_int(n) == <<[type |-> "INT", value |-> <<n>>]>>
print_bare_str(obj) == [i \in DOMAIN obj.elems |-> obj.elems[i].num]

Printed(objs) == [i \in DOMAIN objs |-> print_obj(objs[i])]
print_seq(obj) == Separated(Printed(obj.elems), "COMMA")
print_set(obj) == InBrackets(Separated(Printed(obj.elems), "COMMA"))

print_record(obj) ==
  Separated([i \in 1 .. RowCount(obj) |-> print_symb(RowsOf(obj)[i][1].num) \o <<Token("COLON")>> \o print_obj(RowsOf(obj)[i][2])],
            "COMMA")

print_ne_map(obj) ==
  InBrackets(Separated([i \in 1 .. RowCount(obj) |-> Separated(Printed(RowsOf(obj)[i]), "ARROW")], "COMMA"))

\* print_ne_bin_rel, print_ne_tern_rel: a row alone is followed by a semicolon.
print_rel(obj) ==
  InBrackets(Separated([i \in 1 .. RowCount(obj) |-> Separated(Printed(RowsOf(obj)[i]), "COMMA")], "SEMICOLON")
             \o (IF RowCount(obj) = 1 THEN <<Token("SEMICOLON")>> ELSE <<>>))

\* Mutant: the parentheses of any sequence but the empty one are left out.
TaggedText_bare(inner) ==
  IF is_record(inner) THEN print_record(inner)
  ELSE IF is_seq(inner) /\ inner.elems # <<>> THEN print_seq(inner)
  ELSE print_obj(inner)

\* A sequence of several elements and a record need no parentheses of their own.
TaggedText(inner) ==
  IF is_record(inner) THEN print_record(inner)
  ELSE IF is_seq(inner) /\ Len(inner.elems) > 1 THEN print_seq(inner)
  ELSE print_obj(inner)

print_tag_obj(obj) ==
  LET tag_idx == get_tag_idx(obj)
      inner == get_inner_obj(obj)
  IN  IF is_str(tag_idx, inner) THEN <<[type |-> "STRING", value |-> print_bare_str(inner)]>>
      ELSE print_symb(tag_idx) \o InParentheses(TaggedText(inner))

print_obj(obj) ==
  CASE is_int(obj)                                             -> print_int(obj.num)
    [] is_symb(obj)                                            -> print_symb(obj.num)
    [] is_seq(obj)                                             -> InParentheses(print_seq(obj))
    [] is_empty_rel(obj) \/ is_ne_set(obj)                     -> print_set(obj)
    [] is_record(obj)                                          -> InParentheses(print_record(obj))
    [] is_ne_map(obj) /\ ~is_record(obj)                       -> print_ne_map(obj)
    [] (is_ne_bin_rel(obj) /\ ~is_ne_map(obj)) \/ is_ne_tern_rel(obj) -> print_rel(obj)
    [] OTHER                                                   -> print_tag_obj(obj)
=============================================================================
