------------------------------ MODULE PrefixTree ------------------------------
(***************************************************************************)
(* The order on prefixes that the SQL of NIPAP relies on: the containment  *)
(* operators >> and << of the ip4r type, restricted to one VRF as every    *)
(* query of triggers.plsql and functions.plsql does with its vrf_id =      *)
(* condition.  A member of Prefix stands for a place of the table          *)
(* ip_net_plan, that is for a value of its unique key (vrf_id, prefix).    *)
(***************************************************************************)
EXTENDS Integers, FiniteSets

CONSTANTS
  Prefix,        \* the pairs (vrf_id, prefix) under study
  Covers(_, _),  \* Covers(p, q): same VRF and family, and p >> q
  MaskLen(_),    \* masklen(prefix)
  Family(_),     \* family(prefix), 4 or 6
  Vrf(_),        \* vrf_id
  MaxLen(_)      \* the longest mask of a family: 32 for 4, 128 for 6

ASSUME PrefixAssumption ==
  /\ IsFiniteSet(Prefix)
  /\ \A p \in Prefix : /\ Family(p) \in {4, 6}
                       /\ MaskLen(p) \in 0 .. MaxLen(Family(p))
  /\ \A f \in {4, 6} : MaxLen(f) \in Nat
  /\ MaxLen(4) < MaxLen(6)

\* Containment of prefixes is a strict order, longer masks inside shorter
\* ones, and the prefixes that cover a given one form a chain.
ASSUME CoversAssumption ==
  /\ \A p, q \in Prefix :
        Covers(p, q) => /\ MaskLen(p) < MaskLen(q)
                        /\ Vrf(p) = Vrf(q)
                        /\ Family(p) = Family(q)
  /\ \A p, q, r \in Prefix : Covers(p, q) /\ Covers(q, r) => Covers(p, r)
  /\ \A p, q, r \in Prefix :
        Covers(p, r) /\ Covers(q, r) => p = q \/ Covers(p, q) \/ Covers(q, p)

-----------------------------------------------------------------------------
\* masklen(p) = i_max_pref_len: a prefix of one address, /32 or /128.
IsMaxLen(p) == MaskLen(p) = MaxLen(Family(p))

\* total_addresses of a row.
Total(p) == 2 ^ (MaxLen(Family(p)) - MaskLen(p))

\* That a power of two is a number, which is to be had without its definition.
ASSUME TotalAssumption == \A p \in Prefix : Total(p) \in Nat

\* WHERE vrf_id = ... AND iprange(prefix) >> iprange(p), over the rows R.
Above(R, p) == {q \in R : Covers(q, p)}

\* WHERE vrf_id = ... AND iprange(prefix) << iprange(p), over the rows R.
Inside(R, p) == {q \in R : Covers(p, q)}

\* ... ORDER BY masklen(prefix) DESC LIMIT 1: the set of the one row that the
\* SELECT INTO new_parent (or old_parent) finds, empty when it finds none.
Parent(R, p) ==
  {q \in Above(R, p) : \A r \in Above(R, p) : r = q \/ Covers(r, q)}

ParentsOf(R, S) == UNION {Parent(R, q) : q \in S}

=============================================================================
