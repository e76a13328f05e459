----------------------------- MODULE PlanLifecycle -----------------------------
(***************************************************************************)
(* The address plan with the VRFs and pools its rows refer to: add_vrf,    *)
(* remove_vrf, add_pool and remove_pool of nipap/backend.py, the foreign   *)
(* keys of ip_net.plsql and the triggers they set off.  remove_vrf is five *)
(* statements, and other workers may come between them.  edit_vrf and      *)
(* edit_pool change no column that is modelled here.                       *)
(***************************************************************************)
EXTENDS AddressPlan

CONSTANT DefaultVrf   \* id 0, inserted with the table and never deleted

VRFs == {Vrf(p) : p \in Prefix}

ASSUME LifecycleAssumption == DefaultVrf \in VRFs

VARIABLES
  vrfs,      \* the rows of ip_net_vrf
  pools,     \* the rows of ip_net_pool
  emptying   \* VRF being removed |-> how many of the statements are done

lifeVars == <<vars, vrfs, pools, emptying>>

LifeInit ==
  /\ Init
  /\ vrfs = {DefaultVrf}
  /\ pools = {}
  /\ emptying = <<>>

-----------------------------------------------------------------------------
(* Prefixes, under the foreign keys; they are not renumbered here.         *)

ForeignKeys(p, attrs) == Vrf(p) \in vrfs /\ attrs.pool \in pools \cup {NoPool}

PlanStep ==
  /\ \/ \E p \in Prefix, attrs \in RowAttrs : ForeignKeys(p, attrs) /\ AddPrefix(p, attrs)
     \/ \E p \in rows, attrs \in RowAttrs : ForeignKeys(p, attrs) /\ EditPrefix(p, attrs)
     \/ \E p \in Prefix : RemovePrefix(p)
  /\ UNCHANGED <<vrfs, pools, emptying>>

-----------------------------------------------------------------------------
(* Pools.                                                                  *)

NoMembers == [members |-> 0, usedPrefixes |-> 0, total |-> 0, used |-> 0]

\* The counters of a new row of ip_net_pool; those of a deleted one are gone.
ZeroPool(counts, pool) ==
  [a \in DOMAIN counts |-> IF a[1] = pool THEN NoMembers ELSE counts[a]]

AddPool(pool) ==
  /\ pool \notin pools
  /\ pools' = pools \cup {pool}
  /\ UNCHANGED <<vars, vrfs, emptying>>

MembersOf(pool) == {q \in rows : plan[q].pool = pool}

Detach(attrs) == [attrs EXCEPT !.pool = NoPool]

\* ON DELETE SET NULL is an UPDATE of every member: the BEFORE trigger checks
\* the row in full, for its pool changes.
DetachMayPass(S) ==
  \A q \in S : TypeRules(rows \ {q}, q, plan[q].type) /\ NodeRules(q, Detach(plan[q]))

\* The members as the BEFORE triggers leave them.
Detached(S) ==
  [plan |-> [q \in rows |-> IF q \in S THEN Detach(plan[q]) ELSE plan[q]],
   indent |-> [q \in rows |-> IF q \in S THEN NewLevel(q, q, Detach(plan[q])) ELSE indent[q]],
   stat |-> [stat EXCEPT
     !.used = [q \in rows |-> IF q \in S /\ IsMaxLen(q) THEN Total(q) ELSE @[q]],
     !.inherited = [q \in rows |-> IF q \in S THEN TagsFrom(Parent(rows \ {q}, q)) ELSE @[q]]]]

StatAfterDetach(S) ==
  LET Trigger(q, db) == AfterUpdate(db, RowRecord(Database, q), q)
  IN  FoldSet(Trigger, Detached(S), S).stat

RemovePool(pool) ==
  /\ pool \in pools
  /\ DetachMayPass(MembersOf(pool))
  /\ pools' = pools \ {pool}
  /\ plan' = Detached(MembersOf(pool)).plan
  /\ indent' = Detached(MembersOf(pool)).indent
  /\ display' = [q \in rows |-> IF q \in MembersOf(pool)
                                THEN DisplayLen(rows \ {q}, q, plan[q].type) ELSE display[q]]
  /\ stat' = [StatAfterDetach(MembersOf(pool)) EXCEPT !.pool = ZeroPool(@, pool)]
  /\ UNCHANGED <<removing, vrfs, emptying>>

-----------------------------------------------------------------------------
(* VRFs.                                                                   *)

AddVrf(v) ==
  /\ v \notin vrfs
  /\ vrfs' = vrfs \cup {v}
  /\ UNCHANGED <<vars, pools, emptying>>

RowsOf(v) == {q \in rows : Vrf(q) = v}

\* A mutation: the foreign key takes the rows without their AFTER triggers.
SilentCascade(v) ==
  [stat EXCEPT !.children = Keep(@, rows \ RowsOf(v)), !.used = Keep(@, rows \ RowsOf(v)),
               !.inherited = Keep(@, rows \ RowsOf(v))]

\* ON DELETE CASCADE is a DELETE of the rows that is followed by its triggers,
\* which find no row of the VRF to update: the counters of a new VRF are zero.
Cascade(v) ==
  [StatAfterDelete(RowsOf(v)) EXCEPT !.vrf =
     [a \in VrfAccounts |-> IF a[1] = v THEN NoStat.vrf[a] ELSE @[a]]]

\* list_vrf, and the first of the statements below.
StartRemoval(v) ==
  /\ v \in vrfs \ DOMAIN emptying
  /\ Cardinality(DOMAIN emptying) < MaxRemovals
  /\ emptying' = [w \in DOMAIN emptying \cup {v} |-> IF w = v THEN 0 ELSE emptying[w]]
  /\ UNCHANGED <<vars, vrfs, pools>>

\* remove_prefix(0.0.0.0/0, recursive), then of ::/0: for each its hosts, then
\* whatever is left.
EmptyVrf(v) ==
  /\ v \in DOMAIN emptying
  /\ emptying[v] < 4
  /\ LET family == IF emptying[v] < 2 THEN 4 ELSE 6
         types == IF emptying[v] \in {0, 2} THEN {"host"} ELSE Types
         S == {q \in RowsOf(v) : Family(q) = family /\ plan[q].type \in types}
     IN  DeleteMayPass(S) /\ DeleteRows(S)
  /\ emptying' = [emptying EXCEPT ![v] = @ + 1]
  /\ UNCHANGED <<removing, vrfs, pools>>

Finish(v) == emptying' = [w \in DOMAIN emptying \ {v} |-> emptying[w]]

\* DELETE FROM ip_net_vrf: the foreign key takes the rows that came since.
DeleteVrf(v) ==
  /\ v \in DOMAIN emptying
  /\ emptying[v] = 4
  /\ v # DefaultVrf
  /\ plan' = Keep(plan, rows \ RowsOf(v))
  /\ indent' = Keep(indent, rows \ RowsOf(v))
  /\ display' = Keep(display, rows \ RowsOf(v))
  /\ stat' = Cascade(v)
  /\ vrfs' = vrfs \ {v}
  /\ Finish(v)
  /\ UNCHANGED <<removing, pools>>

\* A statement is refused (hosts have come in between, or v is the default
\* VRF), or the worker is lost: what is removed by then stays removed.
RemovalFails(v) ==
  /\ v \in DOMAIN emptying
  /\ Finish(v)
  /\ UNCHANGED <<vars, vrfs, pools>>

-----------------------------------------------------------------------------
LifeNext ==
  \/ PlanStep
  \/ \E pool \in Pool : AddPool(pool) \/ RemovePool(pool)
  \/ \E v \in VRFs : AddVrf(v) \/ StartRemoval(v) \/ EmptyVrf(v)
                     \/ DeleteVrf(v) \/ RemovalFails(v)

LifeSpec == LifeInit /\ [][LifeNext]_lifeVars

=============================================================================
