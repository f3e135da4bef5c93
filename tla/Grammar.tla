------------------------------ MODULE Grammar -------------------------------
(***************************************************************************)
(* The texts of values, said without reading them from left to right: what *)
(* the tokens of a text denote, for any way to cut them into parts.        *)
(***************************************************************************)
EXTENDS Parser

\* All the ways to cut a text at some tokens of a type.
Cuts(tokens, type) ==
  LET Pieces(S) ==
        LET ends == SetToSortSeq(S \cup {Len(tokens) + 1}, <)
        IN  [k \in DOMAIN ends |-> SubSeq(tokens, IF k = 1 THEN 1 ELSE ends[k - 1] + 1, ends[k] - 1)]
  IN  {Pieces(S) : S \in SUBSET {i \in DOMAIN tokens : tokens[i].type = type}}

TypesOf(tokens) == [i \in DOMAIN tokens |-> tokens[i].type]

RECURSIVE Denotes(_)

\* The meanings of a list of texts, as a set of at most one sequence.
Each(texts) ==
  IF \A k \in DOMAIN texts : Denotes(texts[k]) # {} THEN {[k \in DOMAIN texts |-> Only(Denotes(texts[k]))]} ELSE {}
Lists(tokens, sep) == UNION {Each(texts) : texts \in Cuts(tokens, sep)}
Rows(tokens, sep, n) == {row \in Lists(tokens, sep) : Len(row) = n}

\* The rows of a relation, from texts that each hold one.
EachRow(texts, sep, n) ==
  IF \A k \in DOMAIN texts : Rows(texts[k], sep, n) # {} THEN {{Only(Rows(texts[k], sep, n)) : k \in DOMAIN texts}} ELSE {}

Bag(type, rows) == Meaning(type, 0, Unordered(rows))
InTag(tag, m) == Meaning("tag_obj", tag, Numbered(<<m>>))

Fields(tokens) ==
  LET Field(t) == {<<Meaning("symbol", t[1].value[1], {}), m>> : m \in Denotes(SubSeq(t, 3, Len(t)))}
      IsField(t) == Len(t) > 2 /\ SubSeq(TypesOf(t), 1, 2) = <<"SYMBOL", "COLON">> /\ Field(t) # {}
      IsRecord(texts) == \A k \in DOMAIN texts : IsField(texts[k])
  IN  {Bag("bin_rel", {Only(Field(texts[k])) : k \in DOMAIN texts}) : texts \in {x \in Cuts(tokens, "COMMA") : IsRecord(x)}}

\* Rows with a semicolon between them; one alone is followed by a semicolon.
Relations(tokens, type, n) ==
  LET IsRows(texts) == Len(texts) > 1
      RowTexts(texts) == IF Len(texts) = 2 /\ texts[2] = <<>> THEN <<texts[1]>> ELSE texts
  IN  {Bag(type, rows) : rows \in UNION {EachRow(RowTexts(x), "COMMA", n) : x \in {y \in Cuts(tokens, "SEMICOLON") : IsRows(y)}}}

\* Entries with a comma between them, but after the first one any token will do,
\* a last one too; a parenthesis there would belong to a symbol before it.
Maps(tokens) ==
  LET First(i) == EachRow(<<SubSeq(tokens, 1, i)>>, "ARROW", 2)
      Next(i) == SubSeq(tokens, i + 2, Len(tokens))
      Rest(i) == IF i + 1 >= Len(tokens) THEN {{}} ELSE UNION {EachRow(x, "ARROW", 2) : x \in Cuts(Next(i), "COMMA")}
      Ends(i) == i = Len(tokens) \/ (tokens[i + 1].type # "CLOSE_BRACKET" /\ SubSeq(TypesOf(tokens), i, i + 1) # <<"SYMBOL", "OPEN_PAR">>)
  IN  UNION {{Bag("bin_rel", f \cup r) : f \in First(i), r \in Rest(i)} : i \in {j \in DOMAIN tokens : Ends(j)}}

Denotes(tokens) ==
  LET n == Len(tokens)
      first == tokens[1]
      inner == SubSeq(tokens, 2, n - 1)
      args == SubSeq(tokens, 3, n - 1)
      Enclosed(open, close) == n > 1 /\ first.type = open /\ tokens[n].type = close
      sequence(ms) == Meaning("sequence", 0, Numbered(ms))
      chars == [i \in DOMAIN first.value |-> Meaning("integer", first.value[i], {})]
  IN  CASE n = 1 /\ first.type = "INT"    -> {Meaning("integer", first.value[1], {})}
        [] n = 1 /\ first.type = "SYMBOL" -> {Meaning("symbol", first.value[1], {})}
        [] n = 1 /\ first.type = "STRING" -> {InTag(symb_idx_string, sequence(chars))}
        [] Enclosed("OPEN_PAR", "CLOSE_PAR") ->
             IF inner = <<>> THEN {sequence(<<>>)}
             ELSE Fields(inner) \cup {sequence(ms) : ms \in Lists(inner, "COMMA")}
        [] n > 3 /\ first.type = "SYMBOL" /\ tokens[2].type = "OPEN_PAR" /\ tokens[n].type = "CLOSE_PAR" ->
             {InTag(first.value[1], m) : m \in Fields(args)}
             \cup {InTag(first.value[1], IF Len(ms) = 1 THEN ms[1] ELSE sequence(ms)) : ms \in Lists(args, "COMMA")}
        [] Enclosed("OPEN_BRACKET", "CLOSE_BRACKET") ->
             IF inner = <<>> THEN {Bag("set", {})}
             ELSE {Bag("set", {<<ms[i]>> : i \in DOMAIN ms}) : ms \in Lists(inner, "COMMA")}
                  \cup Relations(inner, "bin_rel", 2) \cup Relations(inner, "tern_rel", 3) \cup Maps(inner)
        [] OTHER -> {}
=============================================================================
