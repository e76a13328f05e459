----------------------------- MODULE PlanTriggers -----------------------------
(***************************************************************************)
(* The columns of NIPAP's tables that nobody writes by hand: what the      *)
(* trigger functions of nipap/sql/triggers.plsql, and the functions        *)
(* calc_indent and calc_tags of functions.plsql, leave in them after one   *)
(* INSERT, UPDATE or DELETE on ip_net_plan.                                *)
(*                                                                         *)
(* A database db is [plan, indent, stat]: plan maps every row of           *)
(* ip_net_plan to the columns the user writes, indent to the depth the row *)
(* is shown at.  The statistics stat are [children, used, inherited, vrf,  *)
(* pool]: three more columns of ip_net_plan, and the counters of           *)
(* ip_net_vrf and ip_net_pool per family.  Nothing in plan and indent is   *)
(* computed from stat.  Free addresses are left out: every assignment of   *)
(* the triggers keeps them equal to total minus used.                      *)
(***************************************************************************)
EXTENDS PrefixTree, FiniteSetsExt

CONSTANTS NoPool   \* pool_id IS NULL

Rows(db) == DOMAIN db.plan

\* SUM(power(2, i_max_pref_len - masklen(prefix))) over a set of rows.
SumOfTotals(S) == MapThenSumSet(Total, S)

-----------------------------------------------------------------------------
(* calc_indent: two UPDATE statements on the column indent.                *)

\* UPDATE ... SET indent = (number of covering prefixes) WHERE prefix = p.
CountIndent(R, indent, p) ==
  [q \in R |-> IF q = p THEN Cardinality(Above(R, p)) ELSE indent[q]]

\* A mutation: the rows next to p are moved, p's own row among them.
ShiftIndentIncludingSelf(R, indent, p, delta) ==
  [q \in R |-> IF q = p \/ Covers(p, q) THEN indent[q] + delta ELSE indent[q]]

\* UPDATE ... SET indent = indent + delta WHERE prefix << p.
ShiftIndent(R, indent, p, delta) ==
  [q \in R |-> IF Covers(p, q) THEN indent[q] + delta ELSE indent[q]]

\* COALESCE(new_parent.indent + 1, top), P being the set Parent returned.
LevelBelow(indent, P, top) ==
  IF P = {} THEN top ELSE 1 + indent[CHOOSE q \in P : TRUE]

-----------------------------------------------------------------------------
(* The column children.                                                    *)

\* A mutation: every descendant is counted, whatever its depth.
DescendantsAt(db, p, level) == Cardinality(Inside(Rows(db), p))

ChildrenAt(db, p, level) ==
  Cardinality({q \in Inside(Rows(db), p) : db.indent[q] = level})

\* UPDATE ... SET children = (count of rows one level below) for the rows P,
\* whose indent is taken from the record the trigger fetched.
Recount(db, P, fetched) ==
  [db EXCEPT !.stat.children = [q \in Rows(db) |->
     IF q \in P THEN ChildrenAt(db, q, fetched[q] + 1) ELSE @[q]]]

-----------------------------------------------------------------------------
(* The columns of ip_net_vrf.  A row counts towards its VRF and family     *)
(* while its indent is 0.                                                  *)

VrfAccount(p) == <<Vrf(p), Family(p)>>

ShareTotal(p, indent) == IF indent = 0 THEN Total(p) ELSE 0
ShareUsed(indent, used) == IF indent = 0 THEN used ELSE 0

\* A mutation: a row that stops being a top level row keeps its share.
KeepVrfShare(vrf, old, new) ==
  IF old.indent = 0 /\ new.indent > 0 THEN vrf
  ELSE [vrf EXCEPT
    ![VrfAccount(old.prefix)].total =
       @ - ShareTotal(old.prefix, old.indent) + ShareTotal(new.prefix, new.indent),
    ![VrfAccount(old.prefix)].used =
       @ - ShareUsed(old.indent, old.used) + ShareUsed(new.indent, new.used)]

\* The three branches on OLD.indent and NEW.indent of an UPDATE.  When the
\* row was at top level the family of OLD.prefix picks the columns.
MoveVrfShare(vrf, old, new) ==
  LET account == IF old.indent = 0 THEN VrfAccount(old.prefix)
                                   ELSE VrfAccount(new.prefix)
  IN  [vrf EXCEPT
        ![account].total = @ - ShareTotal(old.prefix, old.indent)
                             + ShareTotal(new.prefix, new.indent),
        ![account].used = @ - ShareUsed(old.indent, old.used)
                            + ShareUsed(new.indent, new.used)]

\* The INSERT (sign 1) and DELETE (sign -1) branches, with the prefix count.
CountInVrf(vrf, row, sign) ==
  LET account == VrfAccount(row.prefix)
  IN  [vrf EXCEPT
        ![account].num = @ + sign,
        ![account].total = @ + sign * ShareTotal(row.prefix, row.indent),
        ![account].used = @ + sign * ShareUsed(row.indent, row.used)]

-----------------------------------------------------------------------------
(* The columns of ip_net_pool, per family.                                 *)

\* A mutation: a prefix that leaves a pool leaves its addresses behind.
MoveMemberOnly(pool, row, sign) ==
  IF row.pool = NoPool THEN pool
  ELSE [pool EXCEPT ![<<row.pool, Family(row.prefix)>>].members = @ + sign,
                    ![<<row.pool, Family(row.prefix)>>].total =
                       @ + (IF sign = 1 THEN Total(row.prefix) ELSE 0)]

\* "we are a member prefix of a pool, update pool total"
MoveMember(pool, row, sign) ==
  IF row.pool = NoPool THEN pool
  ELSE LET account == <<row.pool, Family(row.prefix)>>
       IN  [pool EXCEPT
             ![account].members = @ + sign,
             ![account].usedPrefixes = @ + sign * row.children,
             ![account].total = @ + sign * Total(row.prefix),
             ![account].used = @ + sign * row.used]

\* "we are the child of a pool, ie our parent prefix is a member of the pool"
MoveChild(pool, parentPool, p, sign) ==
  IF parentPool = NoPool THEN pool
  ELSE LET account == <<parentPool, Family(p)>>
       IN  [pool EXCEPT
             ![account].usedPrefixes = @ + sign,
             ![account].used = @ + sign * Total(p)]

\* pool_id of the parent record, NULL when there is no parent.
PoolOf(plan, P) == IF P = {} THEN NoPool ELSE plan[CHOOSE q \in P : TRUE].pool

-----------------------------------------------------------------------------
(* calc_tags and the AFTER triggers that fire inside the AFTER trigger.    *)

\* The rows calc_tags(p) updates: one level below p's indent, level 0 when
\* there is no row p, in which case they lose what they had inherited.
Heirs(db, p) ==
  LET level == IF p \in Rows(db) THEN db.indent[p] + 1 ELSE 0
  IN  {q \in Inside(Rows(db), p) : db.indent[q] = level}

\* A mutation: the tags a prefix has inherited are not handed on.
OwnTagsOnly(db, p) == IF p \in Rows(db) THEN db.plan[p].tags ELSE {}

\* array_undup(array_cat(inherited_tags, tags)) of p, '{}' without a row p.
Legacy(db, p) ==
  IF p \in Rows(db) THEN db.stat.inherited[p] \cup db.plan[p].tags ELSE {}

\* calc_tags of every prefix in P: one round of UPDATE statements.
PushRound(db, P) ==
  [db EXCEPT !.stat.inherited = [q \in Rows(db) |->
     LET givers == {p \in P : q \in Heirs(db, p)}
     IN  IF givers = {} THEN @[q] ELSE Legacy(db, CHOOSE p \in givers : TRUE)]]

\* The rows whose inherited_tags an UPDATE changed: their AFTER trigger fires,
\* recounts their parents and hands the tags on, as long as rows change.  The
\* nesting ends at the depth of the tree, which the number of rows bounds.
CascadeTags(db, P) ==
  LET round[n \in 0 .. Cardinality(Rows(db)) + 1] ==
        IF n = 0 THEN [db |-> db, from |-> P]
        ELSE LET last == round[n - 1]
                 pushed == PushRound(last.db, last.from)
                 changed == {q \in Rows(db) :
                       last.db.stat.inherited[q] # pushed.stat.inherited[q]}
             IN  [db |-> Recount(pushed, ParentsOf(Rows(db), changed), db.indent),
                  from |-> changed]
  IN  round[Cardinality(Rows(db)) + 1].db

\* A mutation: the AFTER triggers of rows changed by a trigger do not fire.
NoNestedTriggers(before, after) == after

\* What the AFTER triggers of the rows changed by one UPDATE of indent or used
\* do, db being before it and after it.  Such a trigger finds OLD.prefix =
\* NEW.prefix, so it recounts the parent of its row, moves the row's share of
\* the VRF and hands on the tags.
NestedTriggers(before, after) ==
  LET fired == {q \in Rows(after) : \/ before.indent[q] # after.indent[q]
                                    \/ before.stat.used[q] # after.stat.used[q]}
      Share(db, q) == [prefix |-> q, indent |-> db.indent[q], used |-> db.stat.used[q]]
      Move(q, vrf) == MoveVrfShare(vrf, Share(before, q), Share(after, q))
      moved == [after EXCEPT !.stat.vrf = FoldSet(Move, @, fired)]
  IN  CascadeTags(Recount(moved, ParentsOf(Rows(after), fired), after.indent), fired)

\* UPDATE ip_net_plan SET indent = ... with the triggers it fires.
SetIndent(db, indent) == NestedTriggers(db, [db EXCEPT !.indent = indent])

CalcIndentAt(db, p) ==
  SetIndent(db, CountIndent(Rows(db), db.indent, p))
CalcIndentInside(db, p, delta) ==
  SetIndent(db, ShiftIndent(Rows(db), db.indent, p, delta))

\* calc_indent(vrf_id, p, delta).
CalcIndent(db, p, delta) == CalcIndentInside(CalcIndentAt(db, p), p, delta)

\* UPDATE ip_net_plan SET used_addresses = value WHERE id = parent.id.
SetUsed(db, P, value) ==
  NestedTriggers(db, [db EXCEPT !.stat.used =
                        [q \in Rows(db) |-> IF q \in P THEN value ELSE @[q]]])

-----------------------------------------------------------------------------
(* tf_ip_net_plan__prefix_iu_after, for each of its three commands.  The    *)
(* parent records are fetched first and stale afterwards, as in the code:  *)
(* db is the database the trigger finds, and what is read of db below is   *)
(* read of those records.                                                  *)

\* What the trigger reads of OLD or NEW.
RowRecord(db, p) ==
  [prefix |-> p, pool |-> db.plan[p].pool, indent |-> db.indent[p],
   children |-> db.stat.children[p], used |-> db.stat.used[p]]

\* used_addresses of the parent record.
UsedOf(db, P) == IF P = {} THEN 0 ELSE db.stat.used[CHOOSE q \in P : TRUE]

\* A mutation: the addresses used inside the prefix are charged twice.
ChargeWholePrefix(row, maxlen) == Total(row.prefix)

\* What a prefix costs its parent: its size, less what its own children cost
\* the parent before it came between them.
Charge(row, maxlen) ==
  Total(row.prefix) - (IF MaskLen(row.prefix) = maxlen THEN 0 ELSE row.used)

\* VRF and pool statistics of a row that came (sign 1) or went (sign -1).
Book(db, row, parentPool, sign) ==
  [db EXCEPT !.stat.vrf = CountInVrf(@, row, sign),
             !.stat.pool = MoveChild(MoveMember(@, row, sign), parentPool,
                                     row.prefix, sign)]

AfterInsert(db, p) ==
  LET new == RowRecord(db, p)
      parent == Parent(Rows(db), p)
      recounted == Recount(CalcIndent(db, p, 1), parent, db.indent)
      charged == SetUsed(recounted, parent,
                         UsedOf(db, parent) + Charge(new, MaxLen(Family(p))))
  IN  CascadeTags(Book(charged, new, PoolOf(db.plan, parent), 1), {p})

\* i_max_pref_len is left at 32 here, whatever the family of OLD.prefix.
AfterDelete(db, old) ==
  LET parent == Parent(Rows(db), old.prefix)
      recounted == Recount(CalcIndent(db, old.prefix, -1), parent, db.indent)
      charged == SetUsed(recounted, parent, UsedOf(db, parent) - Charge(old, MaxLen(4)))
  IN  CascadeTags(Book(charged, old, PoolOf(db.plan, parent), -1),
                  IF parent = {} THEN {old.prefix} ELSE parent)

\* "Prefix statistics" of an UPDATE: what OLD cost is given back to its parent
\* and what NEW costs is taken from the new one, in one UPDATE or in two.
MoveCharge(db, oldParent, newParent, refunded, charged, cost) ==
  IF oldParent = newParent THEN SetUsed(db, newParent, refunded + cost)
  ELSE SetUsed(SetUsed(db, oldParent, refunded), newParent, charged)

\* Pool statistics of an UPDATE: as a member of a pool, then as a child of one.
MovePools(pool, old, new, oldPool, newPool) ==
  LET moved == old.prefix # new.prefix
      members == IF moved \/ old.pool # new.pool
                 THEN MoveMember(MoveMember(pool, old, -1), new, 1) ELSE pool
  IN  IF moved THEN MoveChild(MoveChild(members, oldPool, old.prefix, -1),
                              newPool, new.prefix, 1)
               ELSE members

\* The row old.prefix is now the row n (the same one unless it was renumbered).
AfterUpdate(db, old, n) ==
  LET new == RowRecord(db, n)
      moved == old.prefix # n
      oldParent == Parent(Rows(db) \ {n}, old.prefix)
      newParent == Parent(Rows(db), n)
      cost == Charge(new, MaxLen(Family(n)))
      refunded == UsedOf(db, oldParent) - Charge(old, MaxLen(Family(n)))
      calculated == IF moved THEN CalcIndent(CalcIndent(db, old.prefix, -1), n, 1) ELSE db
      recounted == Recount(Recount(calculated, oldParent, db.indent), newParent, db.indent)
      Charged(x) == IF moved
                    THEN MoveCharge(x, oldParent, newParent, refunded,
                                    UsedOf(db, newParent) + cost, cost)
                    ELSE x
      Booked(x) ==
        [x EXCEPT !.stat.vrf = MoveVrfShare(@, old, new),
                  !.stat.pool = MovePools(@, old, new, PoolOf(db.plan, oldParent),
                                          PoolOf(db.plan, newParent))]
  IN  CascadeTags(CascadeTags(Booked(Charged(recounted)), {old.prefix}), {n})

=============================================================================
