------------------------------- MODULE Backend -------------------------------
(***************************************************************************)
(* The operations of backend.py that change something and write it to the  *)
(* audit log, ip_net_log.  An operation is a sequence of statements, each  *)
(* a transaction of its own (the connections are in autocommit mode), so   *)
(* that other workers, lost connections and crashes get in between; a      *)
(* statement on a lost connection is repeated by _execute (Connection).    *)
(***************************************************************************)
EXTENDS Connection, Folds, FiniteSets

CONSTANTS
  Prefix, Host, Assignment,  \* prefixes, and those of two types
  IPv4, Everything,          \* the IPv4 prefixes; 0.0.0.0/0 and ::/0
  Below(_),                  \* the prefixes inside a prefix, itself included
  Vrf, DefaultVrf, VrfOf(_), \* the VRFs, the one with id 0, the VRF of a prefix
  Pool, Asn,
  NoPool,                    \* pool_id is NULL
  Same,                      \* the attributes of an edit do not name a pool
  Requests,                  \* the requests clients send
  FirstRows,                 \* the rows a run may start with
  MaxRequests                \* bound

Operations ==
  {"add_vrf", "edit_vrf", "remove_vrf", "add_pool", "edit_pool", "remove_pool",
   "add_asn", "edit_asn", "remove_asn", "add_prefix", "edit_prefix", "remove_prefix"}

Row == Prefix \cup Vrf \cup Pool \cup Asn

\* The rows an operation is about are of one kind.
Kind(op) ==
  CASE op \in {"add_vrf", "edit_vrf", "remove_vrf"} -> Vrf
    [] op \in {"add_pool", "edit_pool", "remove_pool"} -> Pool
    [] op \in {"add_asn", "edit_asn", "remove_asn"} -> Asn
    [] OTHER -> Prefix

\* A recursive removal takes everything inside the prefixes it is asked to remove.
Sweeps(q) == q.op = "remove_prefix" /\ q.recursive

RequestOK(q) ==
  /\ q.op \in Operations
  /\ q.spec \subseteq Kind(q.op)
  /\ q.pool \in Pool \cup {NoPool, Same}
  /\ {q.recursive, q.byId} \subseteq BOOLEAN
  /\ Sweeps(q) => /\ q.spec \subseteq q.within /\ q.within \subseteq Prefix
                  /\ \A x \in q.within : Below(x) \subseteq q.within

ASSUME BackendAssumption ==
  /\ (Host \cup Assignment \cup IPv4 \cup Everything) \subseteq Prefix
  /\ Host \cap Assignment = {}
  /\ DefaultVrf \in Vrf
  /\ \A x \in Prefix : x \in Below(x) /\ Below(x) \subseteq Prefix /\ VrfOf(x) \in Vrf
  /\ \A x \in Prefix : \A y \in Below(x) : VrfOf(y) = VrfOf(x) /\ (y \in IPv4 <=> x \in IPv4)
  /\ MaxRequests \in Nat
  /\ \A q \in Requests : RequestOK(q)

\* Tables do not share rows, NULL is no pool, and a row may refer to its VRF.
ASSUME RowsAssumption ==
  /\ Prefix \cap (Vrf \cup Pool \cup Asn) = {}
  /\ Vrf \cap (Pool \cup Asn) = {}
  /\ Pool \cap Asn = {}
  /\ NoPool # Same /\ {NoPool, Same} \cap Pool = {}
  /\ \A R \in FirstRows : /\ R \subseteq Row
                           /\ \A x \in R \cap Prefix : VrfOf(x) \in R

VARIABLES
  rows,     \* the rows that exist
  poolOf,   \* pool_id of every prefix
  ledger,   \* history: what became of every request
  received  \* how many requests have been received

dataVars == <<rows, poolOf, ledger, received>>
vars == <<connVars, dataVars>>

-----------------------------------------------------------------------------
(* Requests, statements, and what both of them do.  A change and an entry  *)
(* of the log are the same thing: a row was added, edited or removed, it   *)
(* joined a pool or left one.                                              *)

\* `spec` are the rows the specification of the request fits, `within` those it
\* removes when it is recursive.
Ask(op, spec, pool) ==
  [op |-> op, spec |-> spec, within |-> spec, pool |-> pool, recursive |-> FALSE, byId |-> FALSE]

Touched(row) == [row |-> row, what |-> "changed", pool |-> NoPool]
Joined(row, pool) == [row |-> row, what |-> "joined", pool |-> pool]
Left(row, pool) == [row |-> row, what |-> "left", pool |-> pool]

GetPool(pool) == [do |-> "get_pool", pool |-> pool]
Resolve(q) == [do |-> "resolve", rows |-> q.spec]
List(q) == [do |-> "list", rows |-> q.spec]
Insert(q) == [do |-> "insert", rows |-> q.spec, pool |-> q.pool]
Fetch(q) == [do |-> "fetch", rows |-> q.spec]
Update(q) == [do |-> "update", rows |-> q.spec, pool |-> q.pool]
Delete(which) == [do |-> "delete", rows |-> which]
Log(entry) == [do |-> "log", entry |-> entry]

\* Loops over the rows that were listed: remove_vrf calls remove_prefix for each, and all
\* operations write the entries of each.
Removals == [do |-> "removals", done |-> {}]
Logs == [do |-> "logs", done |-> {}]

NamesPool(q) == q.pool \notin {NoPool, Same}

If(condition, statements) == IF condition THEN statements ELSE <<>>

\* What every operation sends, in its order.  The rows an edit returns are read
\* again before the log is written, which changes nothing.
AddVrf(q) == <<Insert(q), Fetch(q), Logs>>
EditVrf(q) == <<List(q), Update(q), Logs>>
RemoveVrf(q) == <<List(q), Removals, Delete(q.spec), Logs>>

AddPool(q) == <<Insert(q), Fetch(q), Logs>>
EditPool(q) == <<List(q), Update(q), Logs>>
RemovePool(q) == <<List(q), Delete(q.spec), Logs>>

AddAsn(q) == <<Insert(q), Fetch(q), Logs>>
EditAsn(q) == <<List(q), Update(q), Logs>>
RemoveAsn(q) == <<List(q), Delete(q.spec), Logs>>

AddPrefix(q) == If(NamesPool(q), <<GetPool(q.pool)>>) \o <<Insert(q), Fetch(q), Logs>>
EditPrefix(q) == If(NamesPool(q), <<GetPool(q.pool)>>) \o <<List(q), Update(q), Logs>>

\* A mutation: the rows are deleted one by one.
RowByRow(q) ==
  <<List(q)>> \o [i \in 1 .. Cardinality(q.within) |-> Delete({SetToSeq(q.within)[i]})] \o <<Logs>>

RemovePrefix(q) ==
  If(q.byId, <<Resolve(q)>>) \o <<List(q)>>
    \o (IF q.recursive THEN <<Delete(q.within \cap Host), Delete(q.within)>>
                       ELSE <<Delete(q.spec)>>)
    \o <<Logs>>

Program(q) ==
  CASE q.op = "add_vrf" -> AddVrf(q)
    [] q.op = "edit_vrf" -> EditVrf(q)
    [] q.op = "remove_vrf" -> RemoveVrf(q)
    [] q.op = "add_pool" -> AddPool(q)
    [] q.op = "edit_pool" -> EditPool(q)
    [] q.op = "remove_pool" -> RemovePool(q)
    [] q.op = "add_asn" -> AddAsn(q)
    [] q.op = "edit_asn" -> EditAsn(q)
    [] q.op = "remove_asn" -> RemoveAsn(q)
    [] q.op = "add_prefix" -> AddPrefix(q)
    [] q.op = "edit_prefix" -> EditPrefix(q)
    [] q.op = "remove_prefix" -> RemovePrefix(q)

\* The calls of remove_prefix for a VRF: everything in it, IPv4 first.
EmptyVrf(v) ==
  LET mine == {x \in Prefix : VrfOf(x) = v}
      call(within) == [op |-> "remove_prefix", spec |-> within \cap Everything, within |-> within,
                       pool |-> Same, recursive |-> TRUE, byId |-> FALSE]
  IN  <<call(mine \cap IPv4), call(mine \ IPv4)>>

\* Mutations: the pool a prefix has left is not logged; the pool it has been in all
\* along is.
JoinsOnly(q, row, pool) ==
  <<Log(Touched(row))>> \o If(NamesPool(q) /\ pool # q.pool, <<Log(Joined(row, q.pool))>>)
AlwaysJoins(q, row, pool) ==
  <<Log(Touched(row))>> \o If(NamesPool(q), <<Log(Joined(row, q.pool))>>)

\* The entries for a row that was listed with this pool.
Entries(q, row, pool) ==
  <<Log(Touched(row))>> \o
    CASE q.op = "add_prefix" -> If(NamesPool(q), <<Log(Joined(row, q.pool))>>)
      [] q.op = "edit_prefix" ->
           LET asked == IF q.pool = Same THEN NoPool ELSE q.pool
           IN  If(pool # asked,
                  If(asked # NoPool, <<Log(Joined(row, asked))>>)
                    \o If(pool # NoPool, <<GetPool(pool), Log(Left(row, pool))>>))
      [] q.op = "remove_prefix" -> If(pool # NoPool, <<GetPool(pool), Log(Left(row, pool))>>)
      [] OTHER -> <<>>

\* What a loop does for one row.
Body(loop, q, x) ==
  IF loop.do = "logs" THEN Entries(q, x.row, x.pool)
  ELSE [i \in 1 .. 2 |-> [do |-> "call", q |-> EmptyVrf(x.row)[i]]]

-----------------------------------------------------------------------------
(* The database.                                                           *)

Listing(which) == {[row |-> x, pool |-> IF x \in Prefix THEN poolOf[x] ELSE NoPool] :
                     x \in which \cap rows}

IsChange(stmt) == stmt.do \in {"insert", "update", "delete"}

\* Rows that go when these go: a VRF takes its prefixes along.
Gone(which) == rows \cap (which \cup {x \in Prefix : VrfOf(x) \in which})

HostsIn(row) == (Host \cap rows \cap Below(row)) \ {row}

\* Keys, references and triggers refuse a statement, or may refuse it: an assignment
\* goes together with its hosts when they happen to be deleted first.
MustRefuse(stmt) ==
  CASE stmt.do = "get_pool" -> stmt.pool \notin rows
    [] stmt.do = "insert" -> \/ stmt.rows \cap rows # {}
                             \/ \E x \in stmt.rows \cap Prefix : VrfOf(x) \notin rows
                             \/ stmt.pool \notin {NoPool, Same} \cup rows
    [] stmt.do = "update" -> stmt.rows \cap rows # {} /\ stmt.pool \notin {NoPool, Same} \cup rows
    [] stmt.do = "delete" -> \/ DefaultVrf \in stmt.rows \cap rows
                             \/ \E x \in Gone(stmt.rows) \cap Assignment :
                                  HostsIn(x) \ Gone(stmt.rows) # {}
    [] OTHER -> FALSE

MayRefuse(stmt) ==
  \/ MustRefuse(stmt)
  \/ stmt.do = "delete" /\ \E x \in Gone(stmt.rows) \cap Assignment : HostsIn(x) # {}

RowsAfter(stmt) ==
  CASE stmt.do = "insert" -> rows \cup stmt.rows
    [] stmt.do = "delete" -> rows \ Gone(stmt.rows)
    [] OTHER -> rows

PoolsAfter(stmt) ==
  [x \in Prefix |->
     CASE stmt.do \in {"insert", "update"} /\ x \in stmt.rows /\ x \in RowsAfter(stmt) ->
            IF stmt.pool # Same THEN stmt.pool
            ELSE IF stmt.do = "insert" THEN NoPool ELSE poolOf[x]
       [] stmt.do = "delete" /\ (x \in Gone(stmt.rows) \/ poolOf[x] \in stmt.rows) -> NoPool
       [] OTHER -> poolOf[x]]

\* What the statement changes.
Changes(stmt) ==
  LET hit == IF stmt.do = "delete" THEN Gone(stmt.rows) ELSE stmt.rows \cap RowsAfter(stmt)
      moved == {x \in Prefix : PoolsAfter(stmt)[x] # poolOf[x]}
  IN  {Touched(x) : x \in hit}
      \cup {Joined(x, PoolsAfter(stmt)[x]) : x \in {y \in moved : PoolsAfter(stmt)[y] # NoPool}}
      \cup {Left(x, poolOf[x]) : x \in {y \in moved : poolOf[y] # NoPool}}

-----------------------------------------------------------------------------
(* A worker and its request.                                               *)

Serve(r, q) == [call |-> "request", r |-> r, q |-> q, todo |-> Program(q), listed |-> {}]
InRequest(p) == stack[p] # <<>> /\ Head(stack[p]).call = "request"
RequestOf(p) == Head(stack[p]).r
Running(r) == ledger[r].answer = "none"

Entered(r, stmt) == IF stmt.do = "log" THEN {stmt.entry} ELSE {}

\* What is known of the requests when r has committed this statement.
Committed(r, stmt) ==
  IF ~ IsChange(stmt) THEN [ledger EXCEPT ![r].entries = @ \cup Entered(r, stmt)]
  ELSE [i \in DOMAIN ledger |->
          IF i = r THEN [ledger[r] EXCEPT !.changes = @ \cup Changes(stmt)]
          ELSE [ledger[i] EXCEPT !.crossed = @ \/ (Running(i) /\ Changes(stmt) # {})]]

Answered(book, p, answer) ==
  IF InRequest(p) THEN [book EXCEPT ![RequestOf(p)].answer = answer] ELSE book

Receive(p) ==
  /\ status[p] = "up" /\ stack[p] = <<>>
  /\ p \in Worker
  /\ received < MaxRequests
  /\ received' = received + 1
  /\ \E q \in Requests :
       /\ stack' = [stack EXCEPT ![p] = <<Serve(Len(ledger) + 1, q)>>]
       /\ ledger' = Append(ledger, [q |-> q, answer |-> "none", changes |-> {}, entries |-> {},
                                    lost |-> FALSE, crossed |-> FALSE])
  /\ UNCHANGED <<schema, status, alive, seen, starts, crashes, losses, shaken, trouble, rows, poolOf>>

\* The operation goes on to its next statement or call, or returns.
Continue(p) ==
  /\ IsCall(p, "request")
  /\ LET call == Top(p)
         next == Head(call.todo)
         after(statements) == Append(Under(p), [call EXCEPT !.todo = statements \o Tail(@)])
     IN  IF call.todo = <<>> THEN Goes(p, Under(p))
         ELSE CASE next.do \in {"logs", "removals"} ->
                     LET left == call.listed \ next.done
                         x == CHOOSE y \in left : TRUE
                     IN  Goes(p, after(IF left = {} THEN <<>>
                                       ELSE Append(Body(next, call.q, x),
                                                   [next EXCEPT !.done = @ \cup {x}])))
                [] next.do = "call" -> Goes(p, Append(after(<<>>), Serve(call.r, next.q)))
                [] OTHER -> Goes(p, Append(after(<<>>), Execute(next, 0)))
  /\ ledger' = IF Top(p).todo = <<>> /\ Under(p) = <<>> THEN Answered(ledger, p, "ok") ELSE ledger
  /\ UNCHANGED <<schema, alive, seen, starts, crashes, losses, shaken, trouble, rows, poolOf, received>>

IsData(stmt) == stmt.do \in {"get_pool", "resolve", "list", "insert", "fetch", "update", "delete", "log"}

\* The result goes to the operation underneath.
Returns(p, stmt) ==
  LET below == Last(Under(p))
      calls == Front(Under(p))
  IN  IF stmt.do \in {"resolve", "fetch"} /\ Listing(stmt.rows) = {}
      THEN Raises(p)
      ELSE Goes(p, Append(calls, IF stmt.do \in {"list", "fetch"}
                                 THEN [below EXCEPT !.listed = Listing(stmt.rows)] ELSE below))

RunStatement(p) ==
  /\ IsCall(p, "execute") /\ alive[p]
  /\ LET stmt == Top(p).stmt
     IN  /\ IsData(stmt)
         /\ ~ MustRefuse(stmt)
         /\ Returns(p, stmt)
         /\ rows' = RowsAfter(stmt)
         /\ poolOf' = PoolsAfter(stmt)
         /\ ledger' = IF stack'[p] = <<>> THEN Answered(ledger, p, "error")
                      ELSE Committed(RequestOf(p), stmt)
  /\ UNCHANGED <<schema, alive, seen, starts, crashes, losses, shaken, trouble, received>>

\* _execute raises what the database said, and the operation catches nothing.
RefuseStatement(p) ==
  /\ IsCall(p, "execute") /\ alive[p]
  /\ IsData(Top(p).stmt) /\ MayRefuse(Top(p).stmt)
  /\ Raises(p)
  /\ ledger' = Answered(ledger, p, "refused")
  /\ UNCHANGED <<schema, alive, seen, starts, crashes, losses, shaken, trouble, rows, poolOf, received>>

MarkLost(book, p) == IF InRequest(p) THEN [book EXCEPT ![RequestOf(p)].lost = TRUE] ELSE book

Closed(book, p) == IF stack'[p] = <<>> THEN Answered(book, p, "error") ELSE book

\* The connection is lost before the statement is committed, or after.
LoseStatement(p) ==
  /\ Loses(p)
  /\ IsData(Top(p).stmt)
  /\ \/ /\ ledger' = Closed(MarkLost(ledger, p), p)
        /\ UNCHANGED <<rows, poolOf>>
     \/ /\ IsChange(Top(p).stmt) \/ Top(p).stmt.do = "log"
        /\ ~ MustRefuse(Top(p).stmt)
        /\ rows' = RowsAfter(Top(p).stmt)
        /\ poolOf' = PoolsAfter(Top(p).stmt)
        /\ ledger' = Closed(MarkLost(Committed(RequestOf(p), Top(p).stmt), p), p)
  /\ UNCHANGED <<schema, received>>

-----------------------------------------------------------------------------
Init ==
  /\ ConnInit
  /\ rows \in FirstRows
  /\ poolOf \in [Prefix -> Pool \cup {NoPool}]
  /\ \A x \in Prefix : x \notin rows => poolOf[x] = NoPool
  /\ \A x \in Prefix : poolOf[x] \in rows \cup {NoPool}
  /\ ledger = <<>>
  /\ received \in 0 .. MaxRequests

Reconnects(p) ==
  /\ Proceed(p)
  /\ ledger' = Closed(ledger, p)
  /\ UNCHANGED <<rows, poolOf, received>>

Disconnects(p) ==
  /\ OpenFails(p) \/ LoseScript(p)
  /\ ledger' = Closed(MarkLost(ledger, p), p)
  /\ UNCHANGED <<rows, poolOf, received>>

Works(p) == Reconnects(p) \/ Continue(p) \/ RunStatement(p) \/ RefuseStatement(p)

Next ==
  \E p \in Process :
    \/ Works(p) \/ Disconnects(p) \/ LoseStatement(p) \/ Receive(p)
    \/ (Start(p) \/ Crash(p)) /\ UNCHANGED dataVars

Spec == Init /\ [][Next]_vars /\ WF_vars(\E p \in Process : Reconnects(p))

-----------------------------------------------------------------------------
(* Properties.                                                             *)

\* The named rows of a request and the pools they were to join or leave: what the log
\* of the request is about.  What a recursive removal, a removed VRF or a removed pool
\* takes along is not logged.
Named(r) == {c \in ledger[r].changes : c.row \in ledger[r].q.spec}

\* A request that was answered has written every change of the rows it named to the
\* log, whatever connections were lost on the way, if no other request changed rows
\* between the list it took first and its own change.
AnsweredIsLogged ==
  \A r \in DOMAIN ledger :
    ledger[r].answer = "ok" /\ ~ ledger[r].crossed => Named(r) \subseteq ledger[r].entries

\* The log says of a row only what happened to it, apart from the pools that an edit
\* without a pool says it was taken out of.
LogIsTrue ==
  \A r \in DOMAIN ledger :
    ~ ledger[r].lost /\ ~ ledger[r].crossed =>
      \A e \in ledger[r].entries \ ledger[r].changes :
        e.what = "left" /\ ledger[r].q.op = "edit_prefix" /\ ledger[r].q.pool = Same

\* A request that was refused has changed nothing, unless it was to remove the default
\* VRF: its prefixes are gone by then.
RefusedChangesNothing ==
  \A r \in DOMAIN ledger :
    ledger[r].answer = "refused" /\ ~ ledger[r].lost /\ ~ ledger[r].crossed =>
      ledger[r].changes = {} \/ DefaultVrf \in ledger[r].q.spec

\* backend.py:2620: "Only add to log if something was changed".  It does not hold
\* (PoolEntries.cfg): an edit that names no pool logs that prefixes left theirs.
PoolEntriesTrue ==
  \A r \in DOMAIN ledger :
    ~ ledger[r].lost /\ ~ ledger[r].crossed =>
      \A e \in ledger[r].entries : e.what # "changed" => e \in ledger[r].changes

=============================================================================
