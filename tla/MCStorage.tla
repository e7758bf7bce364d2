----------------------------- MODULE MCStorage -----------------------------
(* Model-checking instance of Storage. *)
EXTENDS Storage, TLC

\* Texts with the characters that LIKE and regular expressions give a meaning.
wild == <<"A", "%", "!">>
dotted == <<"_", ".">>
MCKeys == {wild, dotted}

Searches ==
  {<<>>, <<"a">>, <<"%">>, <<"_">>, <<"!">>, <<".">>, <<"^">>, <<"$">>, <<"\\">>,
   <<"a", "_">>, <<"%", "!">>, <<".", ".">>}

MCClauses ==
  [field : {"b"}, op : {"eq", "ne"}, value : {1, Null, NonScalar}, connector : {"AND", "OR"}]
  \cup [field : {"b"}, op : {"gt", "lte"}, value : {0, 1}, connector : {"AND", "OR"}]
  \cup [field : {"b"}, op : {"in"}, connector : {"AND", "OR"},
        value : {List("any", <<>>), List("any", <<1>>), List("int", <<1>>)}]
  \cup [field : {"key"}, op : TextOps, value : {<<>>, <<"a">>, <<"_">>}, connector : {"AND", "OR"}]

MCSearches == [field : {"key"}, op : TextOps, value : Searches, connector : {"AND"}]

\* Every search, lists of up to two clauses of any kind, and of three on equality.
MCQueries ==
  LET equalities == {c \in MCClauses : c.op = "eq"} IN
  {<<>>} \cup {<<c>> : c \in MCClauses \cup MCSearches} \cup {<<c, d>> : c, d \in MCClauses}
  \cup {<<c, d, e>> : c, d, e \in equalities}

Symmetry == Permutations(Callers)
=============================================================================
