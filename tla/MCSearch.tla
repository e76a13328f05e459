------------------------------ MODULE MCSearch ------------------------------
(***************************************************************************)
(* Small tables: every line is searched for in a table of three rows, and  *)
(* some simple lines are paged through while the rows change.              *)
(***************************************************************************)
EXTENDS Search, TLC

CONSTANTS root, net, near, h1, h2, other, r1, r2, r3, plain, hasX, hasY, tagged, inherits, typed

\* A reservation with two assignments, one of them with two hosts, a prefix in another
\* VRF, and other rows, in the order of their tables.
MCRows(tab) == IF tab = "prefix" THEN <<root, near, net, h1, h2, other>> ELSE <<r1, r2, r3>>
MCWithin(x, y) ==
  \/ y = root /\ x \in {near, net, h1, h2}
  \/ y = near /\ x \in {net, h1, h2}
  \/ y = net /\ x \in {h1, h2}
MCNetOf(x) == net
MCIsInside(x, y) == x = y \/ MCWithin(x, y)

MCAttributes(tab) == IF tab = "prefix" THEN {"type", "pool"} ELSE {"name"}
MCColumns(tab) ==
  IF tab = "prefix" THEN {"type", "free_addresses", "tags", "inherited_tags", "vrf_rt", "prefix", "comment",
                          "description", "node", "order_id", "customer_id"}
  ELSE IF tab = "asn" THEN {"asn", "name"} ELSE {"name", "description", "rt", "tags"}
MCValid(key, val) == key = "type" => val # "bad"

MCSays(c, column, val) ==
  \/ c = hasX /\ val = "x" /\ column \in {"node", "name", "asn"}
  \/ c = hasY /\ val = "y" /\ column \in {"comment", "rt", "description"}
  \/ c = tagged /\ val = "x" /\ column = "tags"
  \/ c = inherits /\ val = "x" /\ column = "inherited_tags"
  \/ c = typed /\ column \in {"type", "vrf_rt", "order_id"} /\ val \in {"x", "y"}

X == Word("word", "x")
Y == Word("word", "y")
And == Boolean("and")
Or == Boolean("or")

\* Lines of up to five tokens: two words, booleans and parentheses in every order.
Mixed == UNION {[1 .. n -> {X, Y, And, Or}] : n \in 0 .. 4}
         \cup {<<X, Or, Nested(<<Y, And, X>>)>>, <<Nested(<<X, Or, Y>>), Y>>, <<Nested(<<>>)>>,
               <<Nested(<<And, X>>), Y>>, <<X, Or, Y, And, X>>, <<X, And, Y, Or, Y>>, <<X, Y, Or, X>>}

Kinds == {Word("tag", "x"), Word("vrf_rt", "x"), Word("address", h1), Word("prefix", net),
          Word("quoted_string", "y"), Word("unclosed", "x"), Expression("type", "x"),
          Expression("type", "bad"), Expression("pool", "x"), Expression("free_addresses", "x"),
          Expression("name", "x")}
Special(tab) ==
  IF tab = "asn" THEN {<<>>, <<X>>, <<Word("number", "x")>>, <<X, Y>>, <<Word("unclosed", "x")>>,
                       <<Y, Word("number", "x")>>}
  ELSE UNION {{<<k>>, <<k, X>>, <<Y, Or, k>>} :
                k \in IF tab = "prefix" THEN Kinds
                      ELSE {k \in Kinds : k.kind \notin {"address", "prefix"}}}

Simple == {<<>>, <<X>>}

MCLines(tab) == Simple \cup Special(tab) \cup (IF tab = "asn" THEN {} ELSE Mixed)

InVrf == Test("equals", "vrf_rt", "x")

MCClients(tab) ==
  IF tab = "prefix" THEN {ListPrefix(None), ListPrefix(InVrf), SmartSearchPrefix(0, None), SmartSearchPrefix(1, None),
                          SmartSearchPrefix(All, None), MatchesOnly("api"), Options("api", 1, 1, FALSE, None)}
  ELSE {MatchesOnly("cli"), MatchesOnly("web")}

MCContents == {plain, hasX, hasY, tagged, inherits, typed}

Texts(f, others) == [x \in ToSet(Rows(table)) |-> IF x \in DOMAIN f THEN f[x] ELSE others]

\* Lines are read by a search that needs one page or two, pages by a simple line.
MCInit ==
  /\ table \in {"prefix", "vrf", "pool", "asn"}
  /\ line \in MCLines(table)
  /\ options \in MCClients(table)
  /\ query = Interpretation
  /\ offset = 0 /\ limit = FirstLimit
  /\ seen = <<>> /\ outcome = "reading"
  /\ first = {} /\ latest = {} /\ shrunk = FALSE
  /\ changes = 0
  /\ \/ /\ line \in Simple
        /\ rows \in SUBSET ToSet(Rows(table)) /\ Planned(rows)
        /\ options.filter = None
        /\ \E f \in [rows -> IF line = <<>> THEN {hasX} ELSE {plain, hasX}] : content = Texts(f, hasX)
     \/ /\ options \in {ListPrefix(None), ListPrefix(InVrf), MatchesOnly("cli")}
        /\ rows = {x \in ToSet(Rows(table)) : x \in {net, near, r1, r2}}
        /\ \E f \in [rows -> MCContents] : content = Texts(f, plain)

\* Rows change under simple lines, for the command line client, and in two tables.
Calm ==
  changes' # changes =>
    /\ options \in {ListPrefix(None), MatchesOnly("cli")} /\ line \in Simple /\ table \in {"prefix", "vrf"}
    /\ \A x \in DOMAIN content' : content'[x] \in {plain, hasX}

MCSpec == MCInit /\ [][SearchNext]_searchVars

=============================================================================
