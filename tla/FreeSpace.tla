------------------------------- MODULE FreeSpace -------------------------------
(***************************************************************************)
(* How much is free inside the members of a pool: find_free_ranges,        *)
(* iprange2cidr, cidr_count and calc_pool_free_prefixes of                 *)
(* nipap/sql/functions.plsql, which fill the column free_prefixes of a     *)
(* pool, for every table of prefixes within the bounds.  Nothing in the    *)
(* code compares that column with what find_free_prefix can find; here it  *)
(* is compared with what free means.                                       *)
(***************************************************************************)
EXTENDS AddressSpace, Sequences, SequencesExt

CONSTANT MaxRows   \* bound: rows in the table

ASSUME RowsAssumption == MaxRows \in Nat

VARIABLE table   \* the prefixes in ip_net_plan of this VRF and family

-----------------------------------------------------------------------------
(* find_free_ranges of a row of the table.                                 *)

IpRange(lo, hi) == [lo |-> lo, hi |-> hi]

\* The rows one level of indent below.
DirectChildren(T, p) ==
  LET inside == {r \in T : Covers(p, r)}
  IN  InOrder({r \in inside : ~ \E s \in inside : Covers(s, r)})

\* A mutation: last_used is the last used address, as its name says.
AtBroadcast(p, c) == Broadcast(c)

\* last_used after child c: the address that follows, but for a child that
\* ends where p ends, which is not a single address.
LastUsed(p, c) ==
  IF c.len < Width /\ Broadcast(c) = Broadcast(p) THEN Broadcast(c) ELSE Broadcast(c) + 1

\* The range before child c, if last_used leaves one.
Pass(p, acc, c) ==
  [ranges |-> IF acc.last < c.first
              THEN Append(acc.ranges, IpRange(acc.last, c.first - 1))
              ELSE acc.ranges,
   last |-> LastUsed(p, c)]

FindFreeRanges(T, p) ==
  LET done == FoldLeft(LAMBDA acc, c : Pass(p, acc, c),
                       [ranges |-> <<>>, last |-> p.first], DirectChildren(T, p))
  IN  IF done.last < Broadcast(p)
      THEN Append(done.ranges, IpRange(done.last, Broadcast(p)))
      ELSE done.ranges

\* prefix + 1 after a single address at the very end of the address space.
RangesFail(T, p) ==
  \E k \in DOMAIN DirectChildren(T, p) : LastUsed(p, DirectChildren(T, p)[k]) = Beyond

-----------------------------------------------------------------------------
(* iprange2cidr.                                                           *)

FloorLog2(n) == CHOOSE k \in 0 .. Width : 2 ^ k <= n /\ n < 2 ^ (k + 1)

LiesIn(c, lo, hi) == lo <= c.first /\ Broadcast(c) <= hi

\* What the loop tries for one length: the block of the first address, then
\* the one after it, which EXIT WHEN refuses when it ends with the range.
\* The block of the first address is smaller than the range and never ends
\* the address space, so the addition does not overflow.
Blocks(lo, hi, len) ==
  LET b == SetMaskLen(lo, len)
      after == SetMaskLen(Broadcast(b) + 1, len)
  IN  IF LiesIn(b, lo, hi) THEN {b}
      ELSE IF Broadcast(after) < hi THEN {after} ELSE {}

\* big_prefix: the first block that fits, larger ones first.
BigPrefix(lo, hi) ==
  LET fits == {l \in Width - FloorLog2(hi - lo) .. Width : Blocks(lo, hi, l) # {}}
  IN  CHOOSE b \in Blocks(lo, hi, Min(fits)) : TRUE

\* Ranges of addresses, empty ones too.
Ranges == [lo : 0 .. Beyond, hi : -1 .. Beyond - 1]

\* The blocks before, at and after the big one.
IpRange2Cidr(range) ==
  LET cidrs[r \in Ranges] ==
        IF r.lo > r.hi THEN <<>>
        ELSE IF \E c \in Cidr : Addresses(c) = r.lo .. r.hi
        THEN <<CHOOSE c \in Cidr : Addresses(c) = r.lo .. r.hi>>
        ELSE LET big == BigPrefix(r.lo, r.hi)
             IN  cidrs[IpRange(r.lo, big.first - 1)] \o <<big>>
                   \o cidrs[IpRange(Broadcast(big) + 1, r.hi)]
  IN  cidrs[range]

-----------------------------------------------------------------------------
(* cidr_count and calc_pool_free_prefixes.                                 *)

\* A mutation: fractions are cut off.
CutOff(n, c, len) == n + (IF c.len <= len THEN 2 ^ (len - c.len) ELSE 0)

\* num_cidrs + power(2, len - masklen), rounded because num_cidrs is declared
\* numeric(40): a half is rounded up, less than a half is lost.
CountCidr(n, c, len) ==
  n + (IF c.len <= len THEN 2 ^ (len - c.len) ELSE IF c.len = len + 1 THEN 1 ELSE 0)

\* The blocks that the free ranges of the rows members fall into.
FreeCidrs(T, members) ==
  FlattenSeq([k \in DOMAIN members |->
    FlattenSeq([j \in DOMAIN FindFreeRanges(T, members[k]) |->
                  IpRange2Cidr(FindFreeRanges(T, members[k])[j])])])

CalcPoolFreePrefixes(T, members, len) ==
  FoldLeft(LAMBDA n, c : CountCidr(n, c, len), 0, FreeCidrs(T, members))

-----------------------------------------------------------------------------
(* The table changes under the unique index on (vrf_id, prefix).           *)

Insert(c) ==
  /\ Cardinality(table) < MaxRows
  /\ c \notin table
  /\ table' = table \cup {c}

Delete(c) ==
  /\ c \in table
  /\ table' = table \ {c}

Init == table = {}
Next == \E c \in Cidr : Insert(c) \/ Delete(c)
Spec == Init /\ [][Next]_table

-----------------------------------------------------------------------------
(* What free means.                                                        *)

Disjoint(c, d) == Addresses(c) \cap Addresses(d) = {}

\* The prefixes of length len inside search that no row shares an address
\* with, rows around the searched prefix apart.
FreePrefixes(search, len) ==
  {c \in Cidr : /\ c.len = len
                /\ CoversEq(search, c)
                /\ c \notin table
                /\ \A r \in table : Covers(search, r) => Disjoint(c, r)}

\* The addresses of p that none of its sub-prefixes has.
FreeAddresses(p) ==
  Addresses(p) \ UNION {Addresses(r) : r \in {s \in table : Covers(p, s)}}

\* find_free_ranges and iprange2cidr cut the free addresses of a row into
\* prefixes that neither overlap nor leave any out, except for a last address
\* that is free on its own.
FreeCidrsCorrect ==
  \A p \in table : ~ RangesFail(table, p) =>
    LET cidrs == FreeCidrs(table, <<p>>)
        blocks == {Addresses(cidrs[k]) : k \in DOMAIN cidrs}
    IN  /\ FreeAddresses(p) \ {Broadcast(p)} \subseteq UNION blocks
        /\ UNION blocks \subseteq FreeAddresses(p)
        /\ \A j, k \in DOMAIN cidrs : j # k => Disjoint(cidrs[j], cidrs[k])

\* The count kept with a pool is not below what find_free_prefix would find in
\* its one member, single addresses apart.
CountCoversFree ==
  \A p \in table : \A len \in p.len .. Width - 1 :
    ~ RangesFail(table, p) =>
      Cardinality(FreePrefixes(p, len)) <= CalcPoolFreePrefixes(table, <<p>>, len)

\* free_prefixes of a pool, "Number of potentially free IPv4 prefixes of the
\* default assignment size", is what find_free_prefix can find in its member.
\* It does not hold (FreeCount.cfg): smaller fragments are added up.
PoolFreeCorrect ==
  \A p \in table : \A len \in p.len + 1 .. Width - 1 :
    CalcPoolFreePrefixes(table, <<p>>, len) = Cardinality(FreePrefixes(p, len))

=============================================================================
