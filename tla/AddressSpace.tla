----------------------------- MODULE AddressSpace -----------------------------
(***************************************************************************)
(* The arithmetic of prefixes that the functions of                        *)
(* nipap/sql/functions.plsql do: masklen, set_masklen, broadcast, network  *)
(* and the containment operators, for the addresses of one VRF and family. *)
(* An address is a number, a prefix its first address and mask length.     *)
(***************************************************************************)
EXTENDS Integers, FiniteSetsExt

CONSTANT Width   \* max_prefix_len: the bits of an address

\* What the proofs know of powers of two.
ASSUME WidthAssumption ==
  /\ Width \in Nat \ {0}
  /\ 2 ^ 0 = 1
  /\ \A n \in 0 .. Width - 1 : 2 ^ (n + 1) = 2 * 2 ^ n

Addr == 0 .. 2 ^ Width - 1
Beyond == 2 ^ Width   \* "result is out of range": no address follows the last

BlockSize(len) == 2 ^ (Width - len)
Cidr == {c \in [first : Addr, len : 0 .. Width] : c.first % BlockSize(c.len) = 0}

Broadcast(c) == c.first + BlockSize(c.len) - 1
Addresses(c) == c.first .. Broadcast(c)
SetMaskLen(a, len) == [first |-> a - (a % BlockSize(len)), len |-> len]

\* ORDER BY prefix, of prefixes that do not overlap.
InOrder(S) ==
  [k \in 1 .. Cardinality(S) |->
     CHOOSE c \in S : Cardinality({d \in S : d.first < c.first}) = k - 1]

\* iprange(c) >>= iprange(d), and >>.
CoversEq(c, d) == c.len <= d.len /\ d.first \in Addresses(c)
Covers(c, d) == c.len < d.len /\ d.first \in Addresses(c)

Overlap(c, d) == CoversEq(c, d) \/ CoversEq(d, c)

\* The network and broadcast addresses are not handed out as single addresses.
IsEdge(search, c) ==
  /\ search.len < Width - 1
  /\ c.len = Width
  /\ c.first \in {search.first, Broadcast(search)}

=============================================================================
