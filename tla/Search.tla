------------------------------- MODULE Search -------------------------------
(***************************************************************************)
(* Searches and the clients that page through their answers: smart_search_ *)
(* and search_ of prefixes, VRFs, pools and ASNs in backend.py, and the    *)
(* lists of nipap_cli and of the web interface.  A page is a search of its *)
(* own: rows come and go between two of them.                              *)
(***************************************************************************)
EXTENDS SmartQuery, FiniteSets

CONSTANTS
  Rows(_),              \* the rows of a table, in the order of its searches
  Within(_, _),         \* a prefix lies strictly inside another one of the same VRF
  Host, NetOf(_),       \* hosts, and the assignment a host is in (its display_prefix)
  Contents,             \* what the texts of a row may say
  Tables, Lines(_),     \* tables searched, and lines that are typed
  Clients(_),           \* clients and the options they search with
  FirstLimit, NextLimit,\* rows of the first page and of later ones
  MaxChanges            \* bound: changes while a client reads

ASSUME SearchAssumption ==
  /\ FirstLimit \in Nat \ {0} /\ NextLimit \in Nat \ {0}
  /\ MaxChanges \in Nat

VARIABLES
  table, line, options, \* what the client searches for
  query,                \* what becomes of the line, the same on every page
  rows,                 \* the rows there are
  content,              \* what their texts say
  offset, limit,        \* of the next page
  seen,                 \* the rows of the pages so far, with their match flag
  outcome,              \* "reading", "done", "error" or "raised"
  changes,              \* changes so far
  first, latest,        \* history: the whole answer at the first page and at the latest
  shrunk                \* history: whether it lost a row from one page to the next

asked == <<table, line, options, query>>
searchVars == <<asked, rows, content, offset, limit, seen, outcome, changes, first, latest, shrunk>>

-----------------------------------------------------------------------------
(* The rows a search finds.                                                *)

All == -1
Options(client, parents, children, neighbors, filter) ==
  [client |-> client, parents |-> parents, children |-> children, neighbors |-> neighbors, filter |-> filter]

\* What nipap_cli asks for, and the web interface; VRFs, pools and ASNs have no tree.
ListPrefix(filter) == Options("cli", All, 0, TRUE, filter)
SmartSearchPrefix(children, filter) == Options("web", All, children, TRUE, filter)
MatchesOnly(client) == Options(client, 0, 0, FALSE, None)

InOrder(set) == SelectSeq(Rows(table), LAMBDA x : x \in set)
FirstOf(seq, n) == SubSeq(seq, 1, IF n < Len(seq) THEN n ELSE Len(seq))

Filtered(condition) ==
  IF options.filter = None THEN condition ELSE Join("and", condition, options.filter)

Interpretation == Filtered(
  IF table = "asn" THEN AsnQuery(IF line = <<>> THEN <<Word("word", Everything)>> ELSE line)
  ELSE AstToDictSql(table, line))

\* ASN lines have no expressions and no parentheses.
Interpreted == table = "asn" \/ Understood(table, line)
Runs == IF table = "asn" THEN \A i \in DOMAIN line : line[i].kind # "unclosed"
                         ELSE Expands(table, query)

Matching == {x \in rows : Interpreted /\ Runs /\ Where(query, x, content[x])}

Indent(x) == Cardinality({y \in rows : Within(x, y)})
Display(x) == IF x \in Host THEN NetOf(x) ELSE x

ParentsDepth(x, hit) == options.parents = All \/ Indent(x) >= Indent(hit) - options.parents
ChildrenDepth(x, hit) == options.children = All \/ Indent(x) <= Indent(hit) + options.children

\* The rows that are shown because of a hit.
JoinedWith(hit) ==
  {x \in rows :
     \/ (x = hit \/ Within(hit, x)) /\ ParentsDepth(x, hit)
     \/ Within(x, hit) /\ ChildrenDepth(x, hit)
     \/ options.neighbors /\ Within(x, Display(hit)) /\ Indent(x) = Indent(hit)}

Answer(hits) == InOrder(UNION {JoinedWith(x) : x \in hits})

\* A mutation: the hits are those of one page.
HitsOfPage(from, max) == ToSet(FirstOf(InOrder(Matching), max))

\* The hits a page is made of: LIMIT is max_result and the offset together.
Hits(from, max) == ToSet(FirstOf(InOrder(Matching), max + from))

Marked(seq, hits) == [i \in DOMAIN seq |-> [row |-> seq[i], match |-> seq[i] \in hits]]

SearchPrefix(from, max) ==
  LET hits == Hits(from, max)
      joined == Answer(hits)
  IN  Marked(SubSeq(joined, from + 1, IF from + max < Len(joined) THEN from + max ELSE Len(joined)), hits)

Plain(from, max) ==
  LET found == InOrder(Matching)
  IN  Marked(SubSeq(found, from + 1, IF from + max < Len(found) THEN from + max ELSE Len(found)), Matching)

SearchVrf(from, max) == Plain(from, max)
SearchPool(from, max) == Plain(from, max)
SearchAsn(from, max) == Plain(0, max)      \* it has no OFFSET

Page(from, max) ==
  CASE table = "prefix" -> SearchPrefix(from, max)
    [] table = "vrf" -> SearchVrf(from, max)
    [] table = "pool" -> SearchPool(from, max)
    [] table = "asn" -> SearchAsn(from, max)

Whole == IF table = "prefix" THEN ToSet(Answer(Matching)) ELSE Matching

-----------------------------------------------------------------------------
(* The clients.                                                            *)

\* A mutation: the limit of later pages is set before the offset is moved on.
LateAdvance == IF options.client = "cli" /\ table = "prefix" THEN NextLimit ELSE limit

\* The web interface asks for the last prefix of a page again.
Advance == IF options.client = "web" /\ table = "prefix" THEN limit - 1 ELSE limit

Answers ==
  /\ latest' = Whole
  /\ first' = IF seen = <<>> THEN Whole ELSE first
  /\ shrunk' = (shrunk \/ (seen # <<>> /\ ~ latest \subseteq Whole))

ReadPage ==
  /\ outcome = "reading"
  /\ Answers
  /\ IF ~ Interpreted \/ ~ Runs
     THEN /\ outcome' = IF Interpreted THEN "raised" ELSE "error"
          /\ UNCHANGED <<offset, limit, seen>>
     ELSE LET page == Page(offset, limit)
          IN  /\ seen' = seen \o page
              /\ outcome' = IF Len(page) < limit \/ table = "asn" THEN "done" ELSE "reading"
              /\ offset' = offset + Advance
              /\ limit' = IF table = "prefix" /\ options.client = "cli" THEN NextLimit ELSE limit
  /\ UNCHANGED <<asked, rows, content, changes>>

-----------------------------------------------------------------------------
(* Others change the rows between two pages.                               *)

\* A host is in its assignment.
Planned(set) == \A x \in set \cap Host : NetOf(x) \in set

Between ==
  /\ outcome = "reading" /\ seen # <<>>
  /\ changes < MaxChanges
  /\ changes' = changes + 1
  /\ UNCHANGED <<asked, offset, limit, seen, outcome, first, latest, shrunk>>

AddRow ==
  /\ \E x \in ToSet(Rows(table)) \ rows : rows' = rows \cup {x} /\ Planned(rows')
  /\ UNCHANGED content /\ Between

RemoveRow ==
  /\ \E x \in rows : rows' = rows \ {x} /\ Planned(rows')
  /\ UNCHANGED content /\ Between

EditRow ==
  /\ \E x \in rows, c \in Contents : c # content[x] /\ content' = [content EXCEPT ![x] = c]
  /\ UNCHANGED rows /\ Between

-----------------------------------------------------------------------------
SearchInit ==
  /\ table \in Tables
  /\ line \in Lines(table)
  /\ options \in Clients(table)
  /\ query = Interpretation
  /\ rows \in SUBSET ToSet(Rows(table)) /\ Planned(rows)
  /\ content \in [ToSet(Rows(table)) -> Contents]
  /\ offset = 0 /\ limit = FirstLimit
  /\ seen = <<>> /\ outcome = "reading"
  /\ changes = 0 /\ first = {} /\ latest = {} /\ shrunk = FALSE

SearchNext == ReadPage \/ AddRow \/ RemoveRow \/ EditRow

SearchSpec == SearchInit /\ [][SearchNext]_searchVars

-----------------------------------------------------------------------------
(* Properties.                                                             *)

\* Rows that were shown; the web interface shows a row that comes twice once.
Shown == {seen[i].row : i \in DOMAIN seen}
ShownMatches == {seen[i].row : i \in {j \in DOMAIN seen : seen[j].match}}

\* The depth of the parents that are shown is not limited: the answer for the first
\* hits is then the beginning of the answer for all of them.
Unlimited == table # "prefix" \/ options.parents \in {0, All}

\* While nothing changes the pages of a list are together the beginning of the one
\* answer to the search, in its order and without gaps, and the whole answer when the
\* client stops.
PagesAgree ==
  changes = 0 /\ Unlimited =>
    LET whole == IF table = "prefix" THEN Answer(Matching) ELSE InOrder(Matching)
    IN  /\ InOrder(Shown) = FirstOf(whole, Cardinality(Shown))
        /\ Advance = limit => Len(seen) = Cardinality(Shown)
        /\ outcome = "done" /\ table # "asn" => Shown = Whole

\* A list that is complete marks as matches what the line that was typed means, read
\* from the left to the right; one that reads well is never refused.
FindsMatches ==
  changes = 0 =>
    /\ outcome = "done" /\ Unlimited /\ (table = "asn" => Len(seen) < limit) =>
         ShownMatches = {x \in rows : /\ Means(table, line, x, content[x])
                                      /\ options.filter # None => RowPasses(options.filter, x, content[x])}
    /\ ReadsWell(table, line) => outcome \in {"reading", "done"}

\* If the answer only grew while the client read its pages, no row is missing that was
\* in it from the first page on: rows may be shown twice, none is passed over.
NothingMissed == outcome = "done" /\ ~ shrunk /\ Unlimited /\ table # "asn" => first \subseteq Shown

=============================================================================
