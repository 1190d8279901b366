--------------------------- MODULE MCObjectListing ---------------------------
(* An instance of ObjectListing for TLC, with the character codes of ASCII. *)
EXTENDS ObjectListing

Dash == 45
a == 97
b == 98
MCNameChars == {Dash, a, b}

\* The keys of "ab" follow those of "a" directly: "a/" < "ab/".
MCNamespaces == {<<a>>, <<a, b>>}
MCObjects == {<<<<a>>, p>> : p \in {<<a>>, <<a, Slash, b>>, <<b>>}}
               \cup {<<<<a, b>>, <<b>>>>}

Grant(pattern, permissions) == [pattern |-> pattern, permissions |-> permissions]

\* Listings of "a" of every kind, and what the server has to refuse: a page
\* size out of range, a cursor outside the prefix, a token of another scope.
MCQueries ==
  [ns : {<<a>>}, prefix : {<<>>, <<a>>, <<b>>}, cursor : {None, <<a>>}, limit : {1, 2},
   grant : {Grant(<<a>>, None)}]
  \cup [ns : {<<a>>}, prefix : {<<a>>}, cursor : {<<b>>, <<>>}, limit : {1},
        grant : {Grant(<<Star>>, <<"read">>)}]
  \cup [ns : {<<a>>}, prefix : {<<>>}, cursor : {None}, limit : {0, 3},
        grant : {Grant(<<Star>>, <<"read">>)}]
  \cup [ns : {<<a, b>>}, prefix : {<<>>}, cursor : {None}, limit : {2},
        grant : {Grant(<<a>>, None), Grant(<<a, b, Star>>, <<" READ ", "read">>),
                 Grant(<<a, Star>>, <<"Write">>)}]
=============================================================================
