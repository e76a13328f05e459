------------------------------ MODULE AddressPlan ------------------------------
(***************************************************************************)
(* The address plan of NIPAP: the table ip_net_plan, and what its triggers *)
(* keep in step with it, under the prefix operations of the backend        *)
(* (add_prefix, edit_prefix and remove_prefix of nipap/backend.py).  Every *)
(* statement the backend sends is a transaction of its own and is one      *)
(* step; a recursive removal is two statements, and other workers may come *)
(* between them.                                                           *)
(***************************************************************************)
EXTENDS PlanTriggers

CONSTANTS
  Tag,          \* the tags a user may attach to a prefix
  Node,         \* values of the column node
  NoNode,       \* node IS NULL
  Pool,         \* ids of ip_net_pool
  MaxRemovals   \* bound: recursive removals in progress at a time

ASSUME PlanAssumption == /\ NoPool \notin Pool
                         /\ NoNode \notin Node
                         /\ MaxRemovals \in Nat

VARIABLES
  plan,      \* the rows: the columns type, node, tags and pool of each
  indent,    \* the column indent
  display,   \* masklen(display_prefix)
  stat,      \* the statistics of PlanTriggers
  removing   \* prefixes whose recursive removal is between its statements

vars == <<plan, indent, display, stat, removing>>

rows == DOMAIN plan
Database == [plan |-> plan, indent |-> indent, stat |-> stat]

Types == {"reservation", "assignment", "host"}
RowAttrs == [type : Types, node : Node \cup {NoNode},
             tags : SUBSET Tag, pool : Pool \cup {NoPool}]

VrfAccounts == {VrfAccount(p) : p \in Prefix}
PoolAccounts == Pool \X {4, 6}

-----------------------------------------------------------------------------
(* The checks of tf_ip_net_plan__prefix_iu_before.  R is the table the      *)
(* queries see: without the row itself when an UPDATE excludes it.         *)

\* A mutation: nothing is asked of the rows inside a new assignment.
AssignmentCoversAnything(R, p, type) ==
  /\ type = "host" => /\ IsMaxLen(p)
                      /\ Parent(R, p) # {}
                      /\ \A q \in Parent(R, p) : plan[q].type = "assignment"
  /\ type # "host" => \A q \in Parent(R, p) : plan[q].type = "reservation"

TypeRules(R, p, type) ==
  /\ type = "host" => /\ IsMaxLen(p)
                      /\ Parent(R, p) # {}
                      /\ \A q \in Parent(R, p) : plan[q].type = "assignment"
  /\ type # "host" => \A q \in Parent(R, p) : plan[q].type = "reservation"
  /\ type = "assignment" => \A q \in Inside(R, p) : plan[q].type = "host"

\* A mutation: pools may span VRFs.
AnyPool(p, pool) == TRUE

\* All members of a pool belong to the VRF of the first one found.
PoolRules(p, pool) ==
  pool # NoPool => \A q \in rows : plan[q].pool = pool => Vrf(q) = Vrf(p)

NodeRules(p, attrs) ==
  attrs.node # NoNode => \/ attrs.type = "host"
                         \/ attrs.type = "assignment" /\ IsMaxLen(p)

\* A mutation: nothing is asked of the rows inside when the type changes.
TypeChangesFreely(o, n, type) ==
  type # plan[o].type => {type, plan[o].type} = {"reservation", "assignment"}

\* OLD.type to NEW.type: only between reservation and assignment, and with no
\* row inside the prefix, OLD's own row included in the search.
TypeChangeRules(o, n, type) ==
  type # plan[o].type => /\ {type, plan[o].type} = {"reservation", "assignment"}
                         /\ Inside(rows, n) = {}

\* A mutation: a host is displayed with its own mask.
OwnMaskLen(R, p, type) == MaskLen(p)

\* display_prefix := set_masklen(prefix, masklen(parent)) for a host.
DisplayLen(R, p, type) ==
  IF type = "host" /\ Parent(R, p) # {}
  THEN MaskLen(CHOOSE q \in Parent(R, p) : TRUE)
  ELSE MaskLen(p)

\* The tags a row takes over from the parent it is put under.
TagsFrom(P) ==
  UNION {stat.inherited[q] \cup plan[q].tags : q \in P}

-----------------------------------------------------------------------------
(* add_prefix: INSERT INTO ip_net_plan.  Allocation from a pool or from a  *)
(* prefix chooses p first and then runs the same statement.                *)

\* used_addresses of NEW: what lies inside, found by the indent it still has.
UsedOfInserted(p, level) ==
  IF IsMaxLen(p) THEN Total(p)
  ELSE SumOfTotals({q \in Inside(rows, p) : indent[q] = level})

\* The row p of a column is set to value, the rows being R from now on.
Put(column, R, p, value) == [q \in R |-> IF q = p THEN value ELSE column[q]]

\* The row as the BEFORE triggers leave it, and then the AFTER trigger.
StatAfterInsert(p, attrs, level) ==
  LET R == rows \cup {p}
      inserted ==
        [plan |-> Put(plan, R, p, attrs),
         indent |-> Put(indent, R, p, level),
         stat |-> [stat EXCEPT
           !.children = Put(@, R, p, ChildrenAt(Database, p, level)),
           !.used = Put(@, R, p, UsedOfInserted(p, level)),
           !.inherited = Put(@, R, p, TagsFrom(Parent(rows, p)))]]
  IN  AfterInsert(inserted, p).stat

AddPrefix(p, attrs) ==
  /\ p \notin rows
  /\ TypeRules(rows, p, attrs.type)
  /\ PoolRules(p, attrs.pool)
  /\ NodeRules(p, attrs)
  /\ LET R == rows \cup {p}
         before == Put(indent, R, p, LevelBelow(indent, Parent(rows, p), 0))
     IN  /\ plan' = Put(plan, R, p, attrs)
         /\ indent' = ShiftIndent(R, CountIndent(R, before, p), p, 1)
         /\ display' = Put(display, R, p, DisplayLen(rows, p, attrs.type))
  /\ stat' = StatAfterInsert(p, attrs, LevelBelow(indent, Parent(rows, p), 0))
  /\ UNCHANGED removing

-----------------------------------------------------------------------------
(* edit_prefix: UPDATE ip_net_plan of one row, o, which becomes n.         *)

\* children of NEW, from tf_ip_net_plan__indent_children__iu_before, which
\* may take OLD's own row for the parent.
ChildrenOfMoved(o, n) ==
  Cardinality({q \in Inside(rows, n) \ {o} :
                 indent[q] = LevelBelow(indent, Parent(rows, n), 1)})

\* A mutation: the rows inside NEW are looked up as for an INSERT.
UsedAsInserted(o, n, level) ==
  IF IsMaxLen(n) THEN Total(n)
  ELSE SumOfTotals({q \in Inside(rows, n) : indent[q] = level})

\* used_addresses of NEW when the prefix changed, by how NEW lies to OLD.
UsedOfMoved(o, n, level) ==
  LET At(S, l) == {q \in S : indent[q] = l}
      others == Inside(rows, n) \ {o}
  IN  IF IsMaxLen(n) THEN Total(n)
      ELSE SumOfTotals(
        IF Covers(o, n)
        THEN IF indent[o] = level THEN At(Inside(rows, n), level + 1)
                                  ELSE At(Inside(rows, n), level)
        ELSE IF Covers(n, o)
        THEN IF indent[o] = level
             THEN At(Inside(rows, o), indent[o] + 1) \cup At(others, level)
             ELSE At(others, level)
        ELSE At(Inside(rows, n), level))

\* The trigger returns early when type, prefix and pool stay the same.
FullCheck(o, n, attrs) ==
  n # o \/ attrs.type # plan[o].type \/ attrs.pool # plan[o].pool

\* The WHEN clause of trigger_ip_net_plan__vrf_prefix_type__u_after.
AfterUpdateFires(old, new) == [old EXCEPT !.node = new.node] # new

\* indent of NEW as the BEFORE trigger leaves it.
NewLevel(o, n, attrs) ==
  IF FullCheck(o, n, attrs) THEN LevelBelow(indent, Parent(rows \ {o}, n), 0)
                            ELSE indent[o]

\* used_addresses of NEW as the BEFORE trigger leaves it.
NewUsed(o, n, attrs, level) ==
  IF ~ FullCheck(o, n, attrs) THEN stat.used[o]
  ELSE IF n # o THEN UsedOfMoved(o, n, level)
  ELSE IF IsMaxLen(n) THEN Total(n) ELSE stat.used[o]

\* The columns of a row that the WHEN clause compares.
Watched(db, p) ==
  [prefix |-> p, type |-> db.plan[p].type, node |-> db.plan[p].node,
   tags |-> db.plan[p].tags, pool |-> db.plan[p].pool, indent |-> db.indent[p],
   used |-> db.stat.used[p], inherited |-> db.stat.inherited[p]]

\* The database when the BEFORE triggers are done and NEW is in OLD's place.
Updated(o, n, attrs, level) ==
  LET R == (rows \ {o}) \cup {n}
      inherited == IF FullCheck(o, n, attrs) THEN TagsFrom(Parent(rows \ {o}, n))
                                             ELSE stat.inherited[o]
      children == IF n # o THEN ChildrenOfMoved(o, n) ELSE stat.children[o]
  IN  [plan |-> Put(plan, R, n, attrs),
       indent |-> Put(indent, R, n, level),
       stat |-> [stat EXCEPT !.children = Put(@, R, n, children),
                             !.used = Put(@, R, n, NewUsed(o, n, attrs, level)),
                             !.inherited = Put(@, R, n, inherited)]]

\* db is the database Updated, in which o has become n.
StatAfterUpdate(o, n, db) ==
  IF AfterUpdateFires(Watched(Database, o), Watched(db, n))
  THEN AfterUpdate(db, RowRecord(Database, o), n).stat
  ELSE db.stat

UpdateRow(o, n, attrs) ==
  LET R == (rows \ {o}) \cup {n}
      before == Put(indent, R, n, NewLevel(o, n, attrs))
      own == IF FullCheck(o, n, attrs) THEN DisplayLen(rows \ {o}, n, attrs.type)
                                       ELSE display[o]
  IN  /\ plan' = Put(plan, R, n, attrs)
      /\ indent' = IF n = o THEN before
                   ELSE ShiftIndent(R, CountIndent(R, ShiftIndent(R, before, o, -1), n), n, 1)
      /\ display' = [q \in R |-> IF q = n THEN own
                                 ELSE IF n # o /\ attrs.type = "assignment" /\ Covers(n, q)
                                 THEN MaskLen(n) ELSE display[q]]
      /\ stat' = StatAfterUpdate(o, n, Updated(o, n, attrs, NewLevel(o, n, attrs)))

\* The attributes of a row are edited, its prefix is not.
EditPrefix(o, attrs) ==
  /\ o \in rows
  /\ attrs # plan[o]
  /\ FullCheck(o, o, attrs) => /\ TypeRules(rows \ {o}, o, attrs.type)
                               /\ PoolRules(o, attrs.pool)
                               /\ NodeRules(o, attrs)
                               /\ TypeChangeRules(o, o, attrs.type)
  /\ UpdateRow(o, o, attrs)
  /\ UNCHANGED removing

\* The prefix itself is edited, with or without other attributes.
Renumber(o, n, attrs) ==
  /\ o \in rows
  /\ n \notin rows
  /\ Vrf(n) = Vrf(o)
  /\ TypeRules(rows \ {o}, n, attrs.type)
  /\ PoolRules(n, attrs.pool)
  /\ NodeRules(n, attrs)
  /\ TypeChangeRules(o, n, attrs.type)
  /\ UpdateRow(o, n, attrs)
  /\ UNCHANGED removing

-----------------------------------------------------------------------------
(* remove_prefix: DELETE FROM ip_net_plan.                                 *)

\* A mutation: an assignment is deleted from above its hosts.
DeleteAlwaysPasses(S) == TRUE

\* tf_ip_net_prefix_d_before for every row of S.  It sees the rows of S that
\* the statement has deleted already, and the order is the executor's choice.
DeleteMayPass(S) ==
  \A q \in S : plan[q].type = "assignment" => Inside(rows, q) \subseteq S

Keep(column, R) == [q \in R |-> column[q]]

StatAfterDelete(S) ==
  LET R == rows \ S
      deleted == [plan |-> Keep(plan, R), indent |-> Keep(indent, R),
                  stat |-> [stat EXCEPT !.children = Keep(@, R), !.used = Keep(@, R),
                                        !.inherited = Keep(@, R)]]
      Trigger(p, db) == AfterDelete(db, RowRecord(Database, p))
  IN  FoldSet(Trigger, deleted, S).stat

\* One DELETE statement of the rows S with its AFTER triggers, each of which
\* takes one level from the rows inside its own.
DeleteRows(S) ==
  /\ plan' = Keep(plan, rows \ S)
  /\ indent' = [q \in rows \ S |-> indent[q] - Cardinality(Above(S, q))]
  /\ display' = Keep(display, rows \ S)
  /\ stat' = StatAfterDelete(S)

RemovePrefix(p) ==
  /\ p \in rows
  /\ DeleteMayPass({p})
  /\ DeleteRows({p})
  /\ UNCHANGED removing

\* WHERE prefix <<= p AND vrf_id = ...; p itself need not be a row.
Subtree(p) == {q \in rows : q = p \/ Covers(p, q)}

\* recursive = True, first statement: AND type = 'host'.
RemoveHosts(p) ==
  /\ p \notin removing
  /\ Cardinality(removing) < MaxRemovals
  /\ DeleteRows({q \in Subtree(p) : plan[q].type = "host"})
  /\ removing' = removing \cup {p}

\* The second statement removes what is there by now.
RemoveRest(p) ==
  /\ p \in removing
  /\ DeleteMayPass(Subtree(p))
  /\ DeleteRows(Subtree(p))
  /\ removing' = removing \ {p}

\* The second statement is refused, or the worker is lost before it.
RemoveRestFails(p) ==
  /\ p \in removing
  /\ removing' = removing \ {p}
  /\ UNCHANGED <<plan, indent, display, stat>>

-----------------------------------------------------------------------------
NoStat ==
  [children |-> <<>>, used |-> <<>>, inherited |-> <<>>,
   vrf |-> [a \in VrfAccounts |-> [num |-> 0, total |-> 0, used |-> 0]],
   pool |-> [a \in PoolAccounts |->
               [members |-> 0, usedPrefixes |-> 0, total |-> 0, used |-> 0]]]

Init ==
  /\ plan = <<>>
  /\ indent = <<>>
  /\ display = <<>>
  /\ stat = NoStat
  /\ removing = {}

\* Every operation but renumbering.
StableNext ==
  \/ \E p \in Prefix, attrs \in RowAttrs : AddPrefix(p, attrs)
  \/ \E p \in rows, attrs \in RowAttrs : EditPrefix(p, attrs)
  \/ \E p \in Prefix : RemovePrefix(p)
  \/ \E p \in Prefix : RemoveHosts(p)
  \/ \E p \in Prefix : RemoveRest(p)
  \/ \E p \in Prefix : RemoveRestFails(p)

Next ==
  \/ StableNext
  \/ \E o, n \in Prefix, attrs \in RowAttrs : Renumber(o, n, attrs)

Spec == Init /\ [][Next]_vars
SpecStable == Init /\ [][StableNext]_vars

-----------------------------------------------------------------------------
(* What the columns are meant to hold, computed from the rows alone.       *)

DirectChildren(p) == {q \in rows : Parent(rows, q) = {p}}
TopLevel(a) == {p \in rows : VrfAccount(p) = a /\ Above(rows, p) = {}}
Members(a) == {p \in rows : <<plan[p].pool, Family(p)>> = a}

\* The table is a function on its rows, with values of the kinds the columns have.
PlanTypeOK ==
  /\ rows \subseteq Prefix
  /\ plan \in [rows -> RowAttrs]
  /\ indent \in [rows -> Nat]
  /\ display \in [rows -> Nat]
  /\ removing \subseteq Prefix

\* Whatever is not a host lies in reservations only, at every depth: the
\* trigger looks at the innermost covering row and at the rows inside, one
\* statement at a time (triggers.plsql, "check that type is correct").
NestingCorrect ==
  \A p \in rows : plan[p].type # "host" =>
    \A q \in Above(rows, p) : plan[q].type = "reservation"

\* A host has an assignment for its innermost covering row, at all times and
\* not only when it is added.
HostsUnderAssignment ==
  \A p \in rows : plan[p].type = "host" =>
    \E q \in Parent(rows, p) : plan[q].type = "assignment"

\* The column indent, maintained by increments, is the depth of the row.
IndentCorrect ==
  \A p \in rows : indent[p] = Cardinality(Above(rows, p))

\* The column children, "Number of direct sub-prefixes".
ChildrenCorrect ==
  \A p \in rows : stat.children[p] = Cardinality(DirectChildren(p))

\* The column used_addresses, maintained by charges and refunds, is what the
\* direct sub-prefixes take up.
UsedCorrect ==
  \A p \in rows : stat.used[p] = IF IsMaxLen(p) THEN Total(p)
                                 ELSE SumOfTotals(DirectChildren(p))

\* The column inherited_tags, "Tags inherited from parent (and grand-parent)
\* prefixes".
InheritedTagsCorrect ==
  \A p \in rows :
    stat.inherited[p] = UNION {plan[q].tags : q \in Above(rows, p)}

\* display_prefix, "IP prefix with hosts having their covering assignments
\* prefix-length".
DisplayCorrect ==
  \A p \in rows : IF plan[p].type = "host"
                  THEN \A q \in Parent(rows, p) : display[p] = MaskLen(q)
                  ELSE display[p] = MaskLen(p)

\* total_addresses and used_addresses of a VRF are those of its top level
\* prefixes, although rows move in and out of the top level by side effect.
VrfAddressesCorrect ==
  \A a \in VrfAccounts :
    /\ stat.vrf[a].total = SumOfTotals(TopLevel(a))
    /\ stat.vrf[a].used = MapThenSumSet(LAMBDA p : stat.used[p], TopLevel(a))

\* All members of a pool are in one VRF, the pool's implied VRF.
PoolInOneVrf ==
  \A p, q \in rows : plan[p].pool = plan[q].pool /\ plan[p].pool # NoPool =>
    Vrf(p) = Vrf(q)

\* The members of a pool, and the addresses they have in total, are counted.
PoolMembersCorrect ==
  \A a \in PoolAccounts :
    /\ stat.pool[a].members = Cardinality(Members(a))
    /\ stat.pool[a].total = SumOfTotals(Members(a))

\* "Number of used IPv4 addresses in this pool": what its members have used,
\* asked of pools whose members do not lie inside each other.  It does not hold
\* (PoolUsed.cfg): a prefix put around others is charged to the pool in full.
PoolUsedCorrect ==
  \A a \in PoolAccounts :
    (\A p, q \in Members(a) : ~ Covers(p, q)) =>
      stat.pool[a].used = MapThenSumSet(LAMBDA p : stat.used[p], Members(a))

-----------------------------------------------------------------------------
(* The table implements the registry it is kept for.                       *)

Registry == INSTANCE PrefixRegistry WITH
  type <- [p \in rows |-> plan[p].type],
  depth <- indent

\* Every statement on the table is a step of the registry or leaves it alone, as long as
\* prefixes are not renumbered: the triggers look at one row and its neighbours, and
\* count up and down, where the registry speaks of everything around and inside.
ImplementsRegistry == Registry!Spec

=============================================================================
