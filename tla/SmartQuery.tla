----------------------------- MODULE SmartQuery -----------------------------
(***************************************************************************)
(* smart_parsing.py and the _expand_*_query functions of backend.py: how a *)
(* line typed by a user becomes a condition on the rows of a table.  The   *)
(* line is a sequence of tokens, as _string_to_ast cuts it up: words of    *)
(* several kinds, expressions (attribute and value), the booleans "and"    *)
(* and "or", and lines in parentheses, which are nested.                   *)
(***************************************************************************)
EXTENDS Integers, SequencesExt

CONSTANTS
  Attributes(_),      \* what the parser of a table takes for an attribute
  Valid(_, _),        \* whether it takes a value for one of the attribute
  Columns(_),         \* what the backend knows of a table
  Says(_, _, _),      \* whether a row with this content says a word in a column
  IsInside(_, _),     \* whether a row is the prefix with this name, or inside it
  None, Everything    \* nothing; the word '', which every text says

Boolean(op) == [kind |-> "boolean", op |-> op]
Word(kind, val) == [kind |-> kind, val |-> val]
Expression(key, val) == [kind |-> "expression", key |-> key, val |-> val]
Nested(ast) == [kind |-> "nested", of |-> ast]

Test(operator, column, val) == [operator |-> operator, column |-> column, val |-> val]
Join(operator, val1, val2) == [operator |-> operator, val1 |-> val1, val2 |-> val2]
IsQuery(x) == x # None
IsJoin(x) == IsQuery(x) /\ "val1" \in DOMAIN x

-----------------------------------------------------------------------------
(* The parser.                                                             *)

AnyOf(columns, val) ==
  FoldLeft(LAMBDA query, column : Join("or", query, Test("regex_match", column, val)),
           Test("regex_match", columns[1], val), Tail(columns))

PrefixWord(part) ==
  CASE part.kind = "tag" -> Join("or", Test("equals_any", "tags", part.val),
                                       Test("equals_any", "inherited_tags", part.val))
    [] part.kind = "vrf_rt" -> Test("equals", "vrf_rt", part.val)
    [] part.kind = "address" -> Test("contains_equals", "prefix", part.val)
    [] part.kind = "prefix" -> Test("contained_within_equals", "prefix", part.val)
    [] OTHER -> AnyOf(<<"comment", "description", "node", "order_id", "customer_id">>, part.val)

VrfWord(part) ==
  IF part.kind = "tag" THEN Test("equals_any", "tags", part.val)
                       ELSE AnyOf(<<"name", "description", "rt">>, part.val)

PoolWord(part) ==
  IF part.kind = "tag" THEN Test("equals_any", "tags", part.val)
                       ELSE AnyOf(<<"name", "description">>, part.val)

StringToDictSql(table, part) ==
  CASE table = "prefix" -> PrefixWord(part)
    [] table = "vrf" -> VrfWord(part)
    [] table = "pool" -> PoolWord(part)

\* An `and` between terms that have nothing between them; a boolean at the end is
\* dropped.
WithAnds(ast) ==
  FlattenSeq([i \in DOMAIN ast |->
    LET last == i = Len(ast)
    IN  IF ast[i].kind = "boolean" THEN IF last THEN <<>> ELSE <<ast[i]>>
        ELSE IF last \/ ast[i + 1].kind = "boolean" THEN <<ast[i]>>
        ELSE <<ast[i], Boolean("and")>>])

Empty == Join(None, None, None)

\* A mutation: the terms so far are not put on the stack.
NoStack(dss, last) == dss

\* What has been joined so far becomes the first part of what follows.
Stacked(dss, last) ==
  IF ~ last /\ dss.val1 # None /\ dss.val2 # None THEN Join(None, dss, None) ELSE dss

RECURSIVE AstToDictSql(_, _)
AstToDictSql(table, input) ==
  LET ast == WithAnds(input)
      Dse(part) == CASE part.kind = "nested" -> AstToDictSql(table, part.of)
                     [] part.kind = "expression" -> Test("=", part.key, part.val)
                     [] OTHER -> StringToDictSql(table, part)
      Joined(dss, i) ==
        IF ast[i].kind = "boolean" THEN [dss EXCEPT !.operator = ast[i].op]
        ELSE Stacked(IF dss.val1 = None THEN [dss EXCEPT !.val1 = Dse(ast[i])]
                                        ELSE [dss EXCEPT !.val2 = Dse(ast[i])], i = Len(ast))
  IN  CASE Len(ast) = 0 -> StringToDictSql(table, Word("word", Everything))
        [] Len(ast) = 1 -> IF ast[1].kind = "boolean" THEN None ELSE Dse(ast[1])
        [] OTHER -> FoldLeft(Joined, Empty, [i \in DOMAIN ast |-> i])

RECURSIVE Understood(_, _)
Understood(table, ast) ==
  \A i \in DOMAIN ast :
    CASE ast[i].kind = "nested" -> Understood(table, ast[i].of)
      [] ast[i].kind = "expression" -> ast[i].key \in Attributes(table) /\ Valid(ast[i].key, ast[i].val)
      [] OTHER -> ast[i].kind # "unclosed"

\* ASNs have a parser of their own: numbers and names, all of which have to match.
AsnQuery(ast) ==
  LET part(word) == IF word.kind = "number" THEN Test("equals", "asn", word.val)
                                            ELSE Test("regex_match", "name", word.val)
  IN  FoldLeft(LAMBDA query, word : IF query = None THEN part(word) ELSE Join("and", part(word), query),
               None, ast)

-----------------------------------------------------------------------------
(* The backend.                                                            *)

\* The query can be expanded.  One with a boolean that has nothing before it lacks a
\* second value, which is an error nobody catches; so is
\* one of booleans alone.
RECURSIVE Expands(_, _)
Expands(table, query) ==
  /\ IsQuery(query)
  /\ IF IsJoin(query)
     THEN /\ Expands(table, query.val1) /\ Expands(table, query.val2)
          /\ query.operator \in {"and", "or"}
     ELSE query.column \in Columns(table)

RowPasses(test, row, content) ==
  CASE test.operator = "contained_within_equals" -> IsInside(row, test.val)
    [] test.operator = "contains_equals" -> IsInside(test.val, row)
    [] OTHER -> test.val = Everything \/ Says(content, test.column, test.val)

RECURSIVE Where(_, _, _)
Where(query, row, content) ==
  IF ~ IsJoin(query) THEN RowPasses(query, row, content)
  ELSE IF query.operator = "and"
       THEN Where(query.val1, row, content) /\ Where(query.val2, row, content)
       ELSE Where(query.val1, row, content) \/ Where(query.val2, row, content)

-----------------------------------------------------------------------------
(* What a line means, read from the left to the right.                     *)

Terms(ast) == {i \in DOMAIN ast : ast[i].kind # "boolean"}

\* The last boolean between a term and the one before it.
OperatorBefore(ast, i) ==
  IF i > 1 /\ ast[i - 1].kind = "boolean" THEN ast[i - 1].op ELSE "and"

TextColumns(table) ==
  CASE table = "prefix" -> {"comment", "description", "node", "order_id", "customer_id"}
    [] table = "vrf" -> {"name", "description", "rt"}
    [] OTHER -> {"name", "description"}

\* A line holds if some term does that is the first or follows an "or", and so does
\* every term after it that follows an "and".
RECURSIVE Means(_, _, _, _)
Means(table, ast, row, content) ==
  LET says(columns, val) == \E c \in columns : Says(content, c, val)
      Holds(part) ==
        CASE part.kind = "nested" -> Means(table, part.of, row, content)
          [] part.kind = "expression" -> says({part.key}, part.val)
          [] part.kind = "tag" -> says({"tags"} \cup (IF table = "prefix" THEN {"inherited_tags"} ELSE {}),
                                       part.val)
          [] part.kind = "number" /\ table = "asn" -> says({"asn"}, part.val)
          [] part.kind = "vrf_rt" /\ table = "prefix" -> says({"vrf_rt"}, part.val)
          [] part.kind = "address" /\ table = "prefix" -> IsInside(part.val, row)
          [] part.kind = "prefix" /\ table = "prefix" -> IsInside(row, part.val)
          [] OTHER -> says(IF table = "asn" THEN {"name"} ELSE TextColumns(table), part.val)
      first == CHOOSE i \in Terms(ast) : \A j \in Terms(ast) : i <= j
  IN  \/ Terms(ast) = {}
      \/ \E i \in Terms(ast) :
           /\ i = first \/ OperatorBefore(ast, i) = "or"
           /\ Holds(ast[i])
           /\ \A j \in Terms(ast) : j > i /\ OperatorBefore(ast, j) = "and" => Holds(ast[j])

\* Every boolean stands between two terms, here and in parentheses, and every attribute
\* is one that both the parser and the backend know.
RECURSIVE ReadsWell(_, _)
ReadsWell(table, ast) ==
  /\ \A i \in DOMAIN ast :
       CASE ast[i].kind = "nested" -> ReadsWell(table, ast[i].of)
         [] ast[i].kind = "boolean" ->
              i \in 2 .. Len(ast) - 1 /\ ast[i - 1].kind # "boolean" /\ ast[i + 1].kind # "boolean"
         [] ast[i].kind = "expression" ->
              ast[i].key \in Attributes(table) \cap Columns(table) /\ Valid(ast[i].key, ast[i].val)
         [] OTHER -> ast[i].kind # "unclosed"

=============================================================================
