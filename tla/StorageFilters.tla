--------------------------- MODULE StorageFilters ---------------------------
(***************************************************************************)
(* What a list of storage.Where clauses selects, as the three adapters     *)
(* work it out: storage.Matches (the memory adapter), sqlstore.buildWhere  *)
(* under SQL's three-valued logic, and mongostore.buildFilter.             *)
(*                                                                         *)
(* A record is a function from fields to values.  A text is a sequence of  *)
(* characters: a letter in both cases, and the ones that mean something in *)
(* a LIKE pattern or in a regular expression.  Null is an absent value,    *)
(* NonScalar one that is no scalar: a slice, a map.                        *)
(***************************************************************************)
EXTENDS Naturals, Sequences, SequencesExt

CONSTANTS Null, NonScalar

Chars == {"a", "A", "%", "_", "!", ".", "^", "$", "\\"}

\* A clause: its connector joins it to everything on its left.
Clause(field, op, value, connector) ==
  [field |-> field, op |-> op, value |-> value, connector |-> connector]
Is(field, value) == Clause(field, "eq", value, "AND")

\* compare, sym and mongoOp: the order operators, on two numbers.
Ordered(op, v, w) ==
  CASE op = "gt" -> v > w
    [] op = "gte" -> v >= w
    [] op = "lt" -> v < w
    [] op = "lte" -> v <= w

OrderOps == {"gt", "gte", "lt", "lte"}
Compares(c) == c.op \in OrderOps \cup {"eq", "ne"}
TextOps == {"contains", "starts_with", "ends_with"}

ToLower(s) == [i \in DOMAIN s |-> IF s[i] = "A" THEN "a" ELSE s[i]]

\* The value of an "in": a slice, by the Go type of its elements.  anyList, of SQL
\* and MongoDB, knows two of them; anySlice, of the memory adapter, takes any.
List(type, items) == [type |-> type, items |-> items]
anyList(list) == list.type \in {"any", "string"}

\* strContains, strHasPrefix and strHasSuffix.
TextMatches(op, s, sub) ==
  LET at(i) == SubSeq(ToLower(s), i, i + Len(sub) - 1) = ToLower(sub)
      starts == 1 .. (Len(s) + 1 - Len(sub))
  IN  /\ Len(sub) <= Len(s)
      /\ CASE op = "contains" -> \E i \in starts : at(i)
           [] op = "starts_with" -> at(1)
           [] op = "ends_with" -> at(Len(s) + 1 - Len(sub))

-----------------------------------------------------------------------------
(* storage.Matches *)

\* str: an absent value is the empty text.
Str(v) == IF v = Null THEN <<>> ELSE v

matchOne(r, c) ==
  LET v == r[c.field] IN
  CASE c.op = "eq" -> v = c.value
    [] c.op = "ne" -> v # c.value
    [] c.op = "in" -> v \in Range(c.value.items)
    [] c.op \in OrderOps -> v # Null /\ c.value \notin {Null, NonScalar} /\ Ordered(c.op, v, c.value)
    [] c.op \in TextOps -> TextMatches(c.op, Str(v), c.value)

\* The clauses fold from left to right; no clause matches everything.
Matches(r, where) ==
  LET upTo[k \in 0 .. Len(where)] ==
        IF k = 0 THEN TRUE
        ELSE IF k = 1 THEN matchOne(r, where[1])
        ELSE IF where[k].connector = "OR" THEN upTo[k - 1] \/ matchOne(r, where[k])
        ELSE upTo[k - 1] /\ matchOne(r, where[k])
  IN  upTo[Len(where)]

-----------------------------------------------------------------------------
(* Patterns *)

\* A text with the escape character before each special one.
Escaped(s, esc, special) ==
  LET upTo[k \in 0 .. Len(s)] ==
        IF k = 0 THEN <<>>
        ELSE upTo[k - 1] \o (IF s[k] \in special THEN <<esc, s[k]>> ELSE <<s[k]>>)
  IN  upTo[Len(s)]

\* What the engines read a pattern as (external): of the text s, the lengths of the
\* beginnings that the pattern matches so far, and whether its last character makes
\* the next one literal.  A wildcard that is not literal: "%" is any characters,
\* "_" and "." are one, "^" and "$" the ends of the text.
Wild(s, ends, ch) ==
  CASE ch = "%" -> {i \in 0 .. Len(s) : \E k \in ends : k <= i}
    [] ch \in {"_", "."} -> {i \in 1 .. Len(s) : i - 1 \in ends}
    [] ch = "^" -> ends \cap {0}
    [] ch = "$" -> ends \cap {Len(s)}

Read(s, m, ch, esc, wild) ==
  IF ch = esc /\ ~ m.literal THEN [ends |-> m.ends, literal |-> TRUE]
  ELSE [ends |-> IF ch \in wild /\ ~ m.literal THEN Wild(s, m.ends, ch)
                 ELSE {i \in 1 .. Len(s) : s[i] = ch /\ i - 1 \in m.ends},
        literal |-> FALSE]

Reading(s, p, from, esc, wild) ==
  LET after[j \in 0 .. Len(p)] ==
        IF j = 0 THEN [ends |-> from, literal |-> FALSE]
        ELSE Read(s, after[j - 1], p[j], esc, wild)
  IN  after[Len(p)].ends

\* LIKE with ESCAPE '!' matches the whole text; a regular expression with the option
\* "i" matches a part of it, in either case.
Like(s, p) == Len(s) \in Reading(s, p, {0}, "!", {"%", "_"})
Regex(s, p) == Reading(ToLower(s), ToLower(p), 0 .. Len(s), "\\", {".", "^", "$"}) # {}

-----------------------------------------------------------------------------
(* sqlstore.buildWhere *)

Truth(b) == IF b THEN "true" ELSE "false"
And3(p, q) == CASE "false" \in {p, q} -> "false"
                [] p = "true" /\ q = "true" -> "true"
                [] OTHER -> "unknown"
Or3(p, q) == CASE "true" \in {p, q} -> "true"
               [] p = "false" /\ q = "false" -> "false"
               [] OTHER -> "unknown"

\* Mutant: the escape character itself is not escaped.
escapeWildcards(s) == Escaped(s, "!", {"%", "_"})

escapeLike(s) == Escaped(s, "!", {"%", "_", "!"})

LikePattern(op, sub) ==
  LET p == escapeLike(ToLower(sub)) IN
  CASE op = "contains" -> <<"%">> \o p \o <<"%">>
    [] op = "starts_with" -> p \o <<"%">>
    [] op = "ends_with" -> <<"%">> \o p

\* The expression of one clause and its value; a list that is empty, or that is of
\* another type, is "1=0".
SqlClause(r, c) ==
  LET v == r[c.field] IN
  CASE c.op = "eq" /\ c.value = Null -> Truth(v = Null)
    [] c.op = "ne" /\ c.value = Null -> Truth(v # Null)
    [] c.op \in OrderOps \/ (c.op \in {"eq", "ne"} /\ c.value # Null) ->
         IF v = Null \/ c.value = Null THEN "unknown"
         ELSE Truth(IF c.op = "eq" THEN v = c.value
                    ELSE IF c.op = "ne" THEN v # c.value ELSE Ordered(c.op, v, c.value))
    [] c.op = "in" -> IF ~ anyList(c.value) \/ c.value.items = <<>> THEN "false"
                      ELSE IF v = Null THEN "unknown" ELSE Truth(v \in Range(c.value.items))
    [] c.op \in TextOps ->
         IF v = Null THEN "unknown" ELSE Truth(Like(ToLower(v), LikePattern(c.op, c.value)))

\* "(acc) AND expr", "(acc) OR expr"; a row is selected when the whole is true.  A
\* statement with a composite value is refused by the driver (external).
SqlMatches(r, where) ==
  LET acc[k \in 1 .. Len(where)] ==
        IF k = 1 THEN SqlClause(r, where[1])
        ELSE IF where[k].connector = "OR" THEN Or3(acc[k - 1], SqlClause(r, where[k]))
        ELSE And3(acc[k - 1], SqlClause(r, where[k]))
  IN  /\ ~ \E k \in DOMAIN where : Compares(where[k]) /\ where[k].value = NonScalar
      /\ where = <<>> \/ acc[Len(where)] = "true"

-----------------------------------------------------------------------------
(* mongostore.buildFilter *)

\* regexp.QuoteMeta, of the characters there are here (external).
QuoteMeta(s) == Escaped(s, "\\", {".", "^", "$", "\\"})

RegexPattern(op, sub) ==
  CASE op = "contains" -> QuoteMeta(sub)
    [] op = "starts_with" -> <<"^">> \o QuoteMeta(sub)
    [] op = "ends_with" -> QuoteMeta(sub) \o <<"$">>

\* checkScalar, and anyList: a clause that no filter is made of.  The operation
\* fails, so that it selects nothing.
buildClauseFails(c) ==
  \/ Compares(c) /\ c.value = NonScalar
  \/ c.op = "in" /\ ~ anyList(c.value)

\* The operators of MongoDB: an absent field equals null, and an order or a
\* regular expression selects no document without the field.
MongoClause(r, c) ==
  LET v == r[c.field] IN
  CASE c.op = "eq" -> v = c.value
    [] c.op = "ne" -> v # c.value
    [] c.op = "in" -> v \in Range(c.value.items)
    [] c.op \in OrderOps -> v # Null /\ Ordered(c.op, v, c.value)
    [] c.op \in TextOps -> v # Null /\ Regex(v, RegexPattern(c.op, c.value))

\* {"$or": [acc, clause]} and {"$and": [acc, clause]}.
MongoMatches(r, where) ==
  LET acc[k \in 1 .. Len(where)] ==
        IF k = 1 THEN MongoClause(r, where[1])
        ELSE IF where[k].connector = "OR" THEN acc[k - 1] \/ MongoClause(r, where[k])
        ELSE acc[k - 1] /\ MongoClause(r, where[k])
  IN  /\ ~ \E k \in DOMAIN where : buildClauseFails(where[k])
      /\ where = <<>> \/ acc[Len(where)]

-----------------------------------------------------------------------------
\* What a list of clauses means, with no fold: one that can make it true on its
\* own holds (the first one, or one joined by OR), and so does every clause
\* joined by AND after it.
Meaning(r, where) ==
  \/ where = <<>>
  \/ \E k \in DOMAIN where :
       /\ k = 1 \/ where[k].connector = "OR"
       /\ matchOne(r, where[k])
       /\ \A j \in k + 1 .. Len(where) : where[j].connector = "AND" => matchOne(r, where[j])

\* The clauses on which the adapters differ: for an absent value, "ne" with a value,
\* which SQL does not select, and a search for the empty text, which only the memory
\* adapter selects; a list of a type that only the memory adapter takes; and a
\* composite value, which SQL and MongoDB refuse.
Ambiguous(r, c) ==
  \/ r[c.field] = Null /\ c.op = "ne" /\ c.value # Null
  \/ r[c.field] = Null /\ c.op \in TextOps /\ c.value = <<>>
  \/ buildClauseFails(c)
=============================================================================
