--------------------------- MODULE MCConstruction ---------------------------
(* Construction on a small universe of objects. *)
EXTENDS Construction

zero == make_int(0)
one == make_int(1)
a == make_symb(10)
list == make_seq(<<zero>>)
sliced == make_slice(<<zero>>)
pair(type) == Make(type, 0, <<zero, one>>)

MCElements ==
  {zero, one, a, make_seq(<<>>), make_empty_rel, list, sliced, make_seq(<<zero, zero>>), make_seq(<<list>>),
   make_seq(<<sliced>>), Make("set", 0, <<zero>>), pair("bin_rel"), pair("log_map"), pair("map"),
   Make("tern_rel", 0, <<zero, one, zero>>), make_tag_obj(10, zero), make_tag_obj(10, make_tag_obj(11, zero)),
   make_tag_obj(10, make_tag_obj(10, make_tag_obj(11, zero))), make_tag_obj(10, list), make_tag_obj(10, sliced),
   make_tag_obj(10, make_tag_obj(11, list)), make_tag_obj(10, make_tag_obj(11, sliced)),
   make_tag_obj(symb_idx_string, list), make_tag_obj(10, make_seq(<<>>)), make_tag_obj(10, make_seq(<<zero, zero>>)),
   make_tag_obj(10, Make("log_map", 0, <<a, zero>>))}

Few == {zero, a, list, sliced}
MCCells == [set |-> <<MCElements>>, bin_rel |-> <<Few, Few>>, map |-> <<Few, Few>>,
            tern_rel |-> <<{zero, list}, {zero, list}, {zero, list, sliced}>>]
MCMaxLength == [set |-> 3, bin_rel |-> 3, map |-> 3, tern_rel |-> 3, text |-> 8]

Word(type, value) == [type |-> type, value |-> value]
MCTokens ==
  {Token(t) : t \in {"COMMA", "COLON", "SEMICOLON", "ARROW", "OPEN_PAR", "CLOSE_PAR", "OPEN_BRACKET", "CLOSE_BRACKET"}}
  \cup {Word("INT", <<0>>), Word("SYMBOL", <<10>>), Word("STRING", <<0>>)}
=============================================================================
