---------------------------- MODULE MCArguments ----------------------------
(* Files of up to three lines: each keyword with a good value, a bad one   *)
(* and one that a blank cuts, a word that a keyword begins, and a comment. *)
EXTENDS Arguments

Line(word, tokens, kept) == [word |-> word, tokens |-> tokens, kept |-> kept]

MCLines ==
    { Line("category", <<"alarm">>, k) : k \in 0 .. 1 } \cup
    { Line("category-list", <<"vlan", "alarm">>, k) : k \in 1 .. 2 } \cup
    { Line("category-list", <<"vlan", "storm">>, 2), Line("categories", <<"alarm">>, 1),
      Line("num-events", <<"3">>, 1), Line("num-events", <<"0">>, 1),
      Line("urls", <<"tcp">>, 1), Line("#", <<>>, 0) } \cup
    { Line("url", <<"ipc">>, k) : k \in 0 .. 1 } \cup
    { Line("url-list", <<"ipc", "http">>, k) : k \in 0 .. 2 }
=============================================================================
