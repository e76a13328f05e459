--------------------------- MODULE MCPlanLifecycle ---------------------------
(***************************************************************************)
(* VRFs and pools that come and go, over small address plans.              *)
(***************************************************************************)
EXTENDS PlanLifecycle, SequencesExt

Cidr(vrf, family, bits) == [vrf |-> vrf, family |-> family, bits |-> bits]

\* Two levels in the default VRF; in the other VRF an IPv4 network with one address in
\* it, and an IPv6 network.
LifecyclePrefixes ==
  {Cidr("vrf0", 4, b) : b \in {<<>>, <<0>>}}
  \cup {Cidr("vrf1", 4, b) : b \in {<<>>, <<0, 0>>}}
  \cup {Cidr("vrf1", 6, <<>>)}

Covering(p, q) ==
  p.vrf = q.vrf /\ p.family = q.family /\ IsStrictPrefix(p.bits, q.bits)
LenOf(p) == Len(p.bits)
FamilyOf(p) == p.family
VrfOf(p) == p.vrf
Width(f) == IF f = 4 THEN 2 ELSE 3

\* used_addresses and used_prefixes of a pool drift (see PoolUsedCorrect) and no
\* guard reads them: states that differ in nothing else are one state.
PoolUsedAside ==
  <<plan, indent, display, [stat EXCEPT !.pool = [a \in PoolAccounts |->
      [members |-> @[a].members, total |-> @[a].total]]], vrfs, pools, emptying>>

=============================================================================
