---------------------------- MODULE MCAddressPlan ----------------------------
(***************************************************************************)
(* Small address plans for the model checker.  A prefix is the string of   *)
(* its network bits, in a VRF and a family: containment is then the strict *)
(* prefix order on bit strings and the mask length is their length.  The   *)
(* families keep their order but not their widths of 32 and 128 bits.      *)
(***************************************************************************)
EXTENDS AddressPlan, SequencesExt

CONSTANTS Width4, Width6   \* stand for the 32 and 128 bits of an address

Cidr(vrf, family, bits) == [vrf |-> vrf, family |-> family, bits |-> bits]

\* A tree of depth four that branches below its second level.
BranchPrefixes ==
  {Cidr("vrf0", 4, b) : b \in {<<>>, <<0>>, <<0, 0>>, <<0, 0, 0>>, <<0, 1>>}}

\* One path down three bit IPv4 addresses, with neighbours on the way.
PathPrefixes ==
  {Cidr("vrf0", 4, b) :
     b \in {<<>>, <<0>>, <<0, 0>>, <<0, 0, 0>>, <<0, 1>>, <<1>>}}

\* IPv6 prefixes down to single addresses, and two of IPv4 of a shorter width.
TwoFamilyPrefixes ==
  {Cidr("vrf0", 6, b) : b \in {<<>>, <<0>>, <<0, 0>>, <<0, 0, 0>>}}
  \cup {Cidr("vrf0", 4, b) : b \in {<<>>, <<0>>}}

\* Two VRFs side by side.
TwoVrfPrefixes ==
  {Cidr("vrf0", 4, b) : b \in {<<>>, <<0>>, <<0, 0>>}}
  \cup {Cidr("vrf1", 4, b) : b \in {<<>>, <<0>>}}

\* Evaluated once: what lies inside every prefix of the instance.
InsideTable ==
  [p \in Prefix |-> {q \in Prefix : /\ p.vrf = q.vrf
                                    /\ p.family = q.family
                                    /\ IsStrictPrefix(p.bits, q.bits)}]

MCCovers(p, q) == q \in InsideTable[p]
MCMaskLen(p) == Len(p.bits)
MCFamily(p) == p.family
MCVrf(p) == p.vrf
MCMaxLen(f) == IF f = 4 THEN Width4 ELSE Width6

\* used_addresses and used_prefixes of a pool drift (see PoolUsedCorrect), so
\* a run with pools stops where the drift leaves this range.
CONSTANT DriftBound
PoolDriftBounded ==
  \A a \in PoolAccounts : /\ stat.pool[a].used \in -DriftBound .. DriftBound
                          /\ stat.pool[a].usedPrefixes \in -DriftBound .. DriftBound

=============================================================================
