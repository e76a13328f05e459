-------------------------- MODULE AddressSpaceProofs --------------------------
(***************************************************************************)
(* The geometry of prefixes, for addresses of any width: aligned blocks    *)
(* that have an address in common are nested, and a block is cut into      *)
(* smaller ones.  All of it follows from powers of two.                    *)
(***************************************************************************)
EXTENDS AddressSpace, Sequences, WellFoundedInduction, TLAPS

\* What rows and answers are made of, their alignment apart.
IntBlocks == [first : Int, len : 0 .. Width]

-----------------------------------------------------------------------------
\* Every set of numbers has a least one: what the inductions below go by.
LEMMA LeastOf ==
  ASSUME NEW S \in SUBSET Nat, S # {}
  PROVE  \E n \in S : \A k \in S : n <= k
<1>1. PICK n \in S : \A k \in S : ~ (<<k, n>> \in OpToRel(<, Nat))
  BY NatLessThanWellFounded, WFMin
<1> SUFFICES ASSUME NEW k \in S PROVE n <= k
  BY <1>1, Zenon
<1>2. ~ (<<k, n>> \in OpToRel(<, Nat))
  BY <1>1, Zenon
<1>3. ~ (k < n)
  BY <1>2 DEF OpToRel
<1> QED
  BY <1>3

\* Induction up to a number, for a set.
LEMMA UpTo ==
  ASSUME NEW K \in Nat, NEW S, 0 \in S,
         \A n \in 0 .. K : n \in S /\ n < K => n + 1 \in S
  PROVE  0 .. K \subseteq S
<1> DEFINE Others == {n \in 0 .. K : n \notin S}
<1>1. SUFFICES ASSUME Others # {} PROVE FALSE
  OBVIOUS
<1>2. Others \in SUBSET Nat
  OBVIOUS
<1>3. PICK n \in Others : \A k \in Others : n <= k
  <2> HIDE DEF Others
  <2> QED
    BY <1>1, <1>2, LeastOf
<1>4. n \in 0 .. K /\ n \notin S /\ n # 0
  OBVIOUS
<1>5. n - 1 \in 0 .. K /\ n - 1 < K /\ n - 1 \notin Others
  BY <1>3, <1>4
<1> QED
  BY <1>4, <1>5

LEMMA PowersArePositive == \A n \in 0 .. Width : 2 ^ n \in Nat \ {0}
<1> DEFINE Bad == {n \in 0 .. Width : 2 ^ n \notin Nat \ {0}}
<1>1. SUFFICES ASSUME Bad # {} PROVE FALSE
  OBVIOUS
<1>2. PICK n \in Bad : \A k \in Bad : n <= k
  <2>1. Bad \in SUBSET Nat
    BY WidthAssumption
  <2> HIDE DEF Bad
  <2> QED
    BY <1>1, <2>1, LeastOf
<1>4. n # 0
  <2>1. n \in 0 .. Width /\ 2 ^ n \notin Nat \ {0}
    OBVIOUS
  <2>2. 2 ^ 0 \in Nat \ {0}
    BY WidthAssumption
  <2> QED
    BY <2>1, <2>2
<1>5. n - 1 \in 0 .. Width - 1 /\ n - 1 \notin Bad /\ (n - 1) + 1 = n
  BY <1>2, <1>4, WidthAssumption
<1>6. 2 ^ n = 2 * 2 ^ (n - 1) /\ 2 ^ (n - 1) \in Nat \ {0}
  BY <1>5, WidthAssumption
<1> QED
  BY <1>6

\* A larger power of two is a multiple of a smaller one.
LEMMA PowersDivide ==
  ASSUME NEW n \in 0 .. Width
  PROVE  \A m \in n .. Width : \E k \in Nat \ {0} : 2 ^ m = k * 2 ^ n
<1> DEFINE Bad == {m \in n .. Width : ~ \E k \in Nat \ {0} : 2 ^ m = k * 2 ^ n}
<1>1. SUFFICES ASSUME Bad # {} PROVE FALSE
  OBVIOUS
<1>2. PICK m \in Bad : \A k \in Bad : m <= k
  <2>1. Bad \in SUBSET Nat
    BY WidthAssumption
  <2> HIDE DEF Bad
  <2> QED
    BY <1>1, <2>1, LeastOf
<1>4. m # n
  <2>1. 2 ^ n = 1 * 2 ^ n
    BY PowersArePositive
  <2> QED
    BY <2>1
<1>5. m - 1 \in n .. Width /\ m - 1 \in 0 .. Width - 1 /\ m - 1 \notin Bad /\ (m - 1) + 1 = m
  <2>1. Width \in Nat /\ m \in n .. Width
    BY WidthAssumption
  <2>2. m - 1 \in n .. Width /\ m - 1 \in 0 .. Width - 1 /\ (m - 1) + 1 = m /\ ~ (m <= m - 1)
    BY <1>4, <2>1
  <2> HIDE DEF Bad
  <2> QED
    BY <1>2, <2>2
<1>6. PICK k \in Nat \ {0} : 2 ^ (m - 1) = k * 2 ^ n
  BY <1>5
<1>7. 2 ^ m = 2 * (k * 2 ^ n) /\ 2 ^ n \in Nat
  BY <1>5, <1>6, WidthAssumption, PowersArePositive
<1>8. 2 * (k * 2 ^ n) = (2 * k) * 2 ^ n /\ 2 * k \in Nat \ {0}
  BY <1>7
<1> QED
  BY <1>7, <1>8

LEMMA BlockIsNat == \A len \in 0 .. Width : BlockSize(len) \in Nat \ {0}
<1> SUFFICES ASSUME NEW len \in 0 .. Width PROVE BlockSize(len) \in Nat \ {0}
  OBVIOUS
<1>1. Width - len \in 0 .. Width
  BY WidthAssumption
<1> QED
  BY <1>1, PowersArePositive DEF BlockSize

LEMMA CidrIsBlock == Cidr \subseteq IntBlocks
<1> SUFFICES ASSUME NEW c \in Cidr PROVE c \in IntBlocks
  OBVIOUS
<1>1. c \in [first : Addr, len : 0 .. Width]
  BY DEF Cidr
<1>2. Addr \subseteq Int
  BY DEF Addr
<1> QED
  BY <1>1, <1>2 DEF IntBlocks

LEMMA BroadcastIsInt == \A c \in IntBlocks : Broadcast(c) \in Int
<1> SUFFICES ASSUME NEW c \in IntBlocks PROVE Broadcast(c) \in Int
  OBVIOUS
<1>1. c.first \in Int /\ c.len \in 0 .. Width
  BY DEF IntBlocks
<1>2. BlockSize(c.len) \in Nat
  BY <1>1, BlockIsNat
<1> QED
  BY <1>1, <1>2 DEF Broadcast

-----------------------------------------------------------------------------
(* The geometry of aligned blocks.                                         *)

LEMMA TimesKeepsOrder ==
  ASSUME NEW a \in Int, NEW b \in Int, NEW x \in Nat \ {0}
  PROVE  (a <= b <=> a * x <= b * x) /\ (a < b <=> a * x < b * x)
OBVIOUS

LEMMA SizesDivide ==
  ASSUME NEW l \in 0 .. Width, NEW m \in l .. Width
  PROVE  \E k \in Nat \ {0} : BlockSize(l) = k * BlockSize(m)
<1>1. Width - m \in 0 .. Width /\ Width - l \in Width - m .. Width
  BY WidthAssumption
<1>2. \E k \in Nat \ {0} : 2 ^ (Width - l) = k * 2 ^ (Width - m)
  BY <1>1, PowersDivide
<1> QED
  BY <1>2 DEF BlockSize

LEMMA WholeSpace == Beyond = BlockSize(0) /\ Addr = 0 .. Beyond - 1 /\ Beyond \in Nat \ {0}
<1>1. Width - 0 = Width /\ 0 \in 0 .. Width
  BY WidthAssumption
<1> QED
  BY <1>1, BlockIsNat DEF Beyond, BlockSize, Addr

\* a is a multiple of the size of the blocks of length len.
Aligned(a, len) == \E k \in Nat : a = k * BlockSize(len)

LEMMA CidrIsAligned ==
  ASSUME NEW c \in Cidr
  PROVE  /\ c.first \in Nat /\ c.len \in 0 .. Width
         /\ Aligned(c.first, c.len)
<1>1. c.first \in Addr /\ c.len \in 0 .. Width /\ c.first % BlockSize(c.len) = 0
  BY DEF Cidr
<1>2. c.first \in Nat /\ BlockSize(c.len) \in Nat \ {0}
  BY <1>1, BlockIsNat DEF Addr
<1>3. \A a \in Nat, b \in Nat \ {0} : a % b = 0 => \E k \in Nat : a = k * b
  OBVIOUS
<1> QED
  BY <1>1, <1>2, <1>3 DEF Aligned

LEMMA AlignedIsCidr ==
  ASSUME NEW a \in Addr, NEW len \in 0 .. Width, Aligned(a, len)
  PROVE  [first |-> a, len |-> len] \in Cidr
<1>1. PICK k \in Nat : a = k * BlockSize(len)
  BY DEF Aligned
<1>2. \A i \in Nat, b \in Nat \ {0} : (i * b) % b = 0
  OBVIOUS
<1>3. a % BlockSize(len) = 0
  BY <1>1, <1>2, BlockIsNat
<1> QED
  BY <1>3 DEF Cidr

\* What is aligned for large blocks is aligned for smaller ones, and the address
\* after an aligned block is aligned.
LEMMA AlignedFiner ==
  ASSUME NEW a, NEW l \in 0 .. Width, NEW m \in l .. Width, Aligned(a, l)
  PROVE  Aligned(a, m)
<1>1. PICK i \in Nat : a = i * BlockSize(l)
  BY DEF Aligned
<1>2. PICK k \in Nat \ {0} : BlockSize(l) = k * BlockSize(m)
  BY SizesDivide
<1>3. BlockSize(m) \in Nat
  BY BlockIsNat
<1>4. i * (k * BlockSize(m)) = (i * k) * BlockSize(m) /\ i * k \in Nat
  BY <1>3
<1> QED
  BY <1>1, <1>2, <1>4 DEF Aligned

LEMMA AlignedNext ==
  ASSUME NEW a, NEW len \in 0 .. Width, Aligned(a, len)
  PROVE  Aligned(a + BlockSize(len), len)
<1>1. PICK i \in Nat : a = i * BlockSize(len)
  BY DEF Aligned
<1>2. BlockSize(len) \in Nat
  BY BlockIsNat
<1>3. i * BlockSize(len) + BlockSize(len) = (i + 1) * BlockSize(len)
  BY <1>2
<1> QED
  BY <1>1, <1>3 DEF Aligned

\* Of two multiples, the one that is less is less by a block.
LEMMA AlignedApart ==
  ASSUME NEW a \in Int, NEW b \in Int, NEW len \in 0 .. Width,
         Aligned(a, len), Aligned(b, len), a < b
  PROVE  a + BlockSize(len) <= b
<1>1. PICK i \in Nat, j \in Nat : a = i * BlockSize(len) /\ b = j * BlockSize(len)
  BY DEF Aligned
<1>2. BlockSize(len) \in Nat \ {0}
  BY BlockIsNat
<1>3. i < j
  BY <1>1, <1>2, TimesKeepsOrder
<1>4. (i + 1) * BlockSize(len) <= j * BlockSize(len)
  BY <1>2, <1>3, TimesKeepsOrder
<1>5. (i + 1) * BlockSize(len) = i * BlockSize(len) + BlockSize(len)
  BY <1>2
<1> QED
  BY <1>1, <1>4, <1>5

LEMMA BroadcastOf ==
  ASSUME NEW c \in Cidr
  PROVE  /\ Broadcast(c) \in Int /\ c.first <= Broadcast(c)
         /\ Broadcast(c) + 1 = c.first + BlockSize(c.len)
         /\ Broadcast(c) + 1 <= Beyond
         /\ Aligned(Broadcast(c) + 1, c.len)
<1>1. /\ c.first \in Nat /\ c.len \in 0 .. Width /\ Aligned(c.first, c.len)
      /\ BlockSize(c.len) \in Nat \ {0}
  BY CidrIsAligned, BlockIsNat
<1>2. Broadcast(c) + 1 = c.first + BlockSize(c.len)
  BY <1>1 DEF Broadcast
<1>3. Aligned(Broadcast(c) + 1, c.len)
  BY <1>1, <1>2, AlignedNext
<1>4. Aligned(Beyond, c.len)
  <2>1. PICK k \in Nat \ {0} : BlockSize(0) = k * BlockSize(c.len)
    BY <1>1, SizesDivide, WidthAssumption
  <2> QED
    BY <2>1, WholeSpace DEF Aligned
<1>5. c.first < Beyond
  BY WholeSpace DEF Cidr
<1>6. c.first + BlockSize(c.len) <= Beyond
  BY <1>1, <1>4, <1>5, AlignedApart, WholeSpace
<1> QED
  BY <1>1, <1>2, <1>3, <1>6 DEF Broadcast

\* Two prefixes with an address in common: the shorter mask has all of them.
LEMMA OverlapIsNested ==
  ASSUME NEW c \in Cidr, NEW d \in Cidr, c.len <= d.len,
         c.first <= Broadcast(d), d.first <= Broadcast(c)
  PROVE  CoversEq(c, d) /\ c.first <= d.first /\ Broadcast(d) <= Broadcast(c)
<1>1. /\ c.first \in Nat /\ c.len \in 0 .. Width /\ Aligned(c.first, c.len)
      /\ d.first \in Nat /\ d.len \in c.len .. Width /\ Aligned(d.first, d.len)
      /\ BlockSize(d.len) \in Nat \ {0}
  BY CidrIsAligned, BlockIsNat
<1>2. /\ Broadcast(c) \in Int /\ Broadcast(c) + 1 = c.first + BlockSize(c.len)
      /\ Broadcast(d) \in Int /\ Broadcast(d) + 1 = d.first + BlockSize(d.len)
      /\ Aligned(Broadcast(c) + 1, c.len)
  BY BroadcastOf
<1>3. Aligned(c.first, d.len) /\ Aligned(Broadcast(c) + 1, d.len)
  BY <1>1, <1>2, AlignedFiner
<1>4. c.first <= d.first
  <2> SUFFICES ASSUME d.first < c.first PROVE FALSE
    BY <1>1
  <2>1. d.first + BlockSize(d.len) <= c.first
    BY <1>1, <1>3, AlignedApart
  <2> QED
    BY <1>1, <1>2, <2>1
<1>5. d.first + BlockSize(d.len) <= Broadcast(c) + 1
  BY <1>1, <1>2, <1>3, AlignedApart
<1> QED
  BY <1>1, <1>2, <1>4, <1>5 DEF CoversEq, Addresses

LEMMA CoveredIsWithin ==
  ASSUME NEW c \in Cidr, NEW d \in Cidr, CoversEq(c, d)
  PROVE  /\ c.len <= d.len /\ c.first <= d.first /\ d.first <= Broadcast(c)
         /\ Broadcast(d) <= Broadcast(c)
<1>1. c.len <= d.len /\ c.first <= d.first /\ d.first <= Broadcast(c)
  BY BroadcastOf, CidrIsAligned DEF CoversEq, Addresses
<1>2. c.first <= Broadcast(d)
  BY <1>1, BroadcastOf, CidrIsAligned
<1> QED
  BY <1>1, <1>2, OverlapIsNested

LEMMA SameBlock ==
  ASSUME NEW c \in Cidr, NEW d \in Cidr, c.len = d.len, CoversEq(c, d)
  PROVE  c = d
<1>1. /\ c.first <= d.first /\ d.first <= Broadcast(c) /\ c.len <= d.len /\ d.len <= c.len
      /\ Broadcast(d) \in Int /\ Broadcast(c) \in Int /\ d.first <= Broadcast(d)
      /\ c.first \in Nat /\ d.first \in Nat
  BY CoveredIsWithin, CidrIsAligned, BroadcastOf
<1>2. d.first <= c.first
  <2>1. c.first <= Broadcast(d)
    BY <1>1
  <2> QED
    BY <1>1, <2>1, OverlapIsNested
<1>3. c.first = d.first
  BY <1>1, <1>2
<1> QED
  BY <1>3 DEF Cidr

LEMMA ElementOfSeq == ASSUME NEW S, NEW s \in Seq(S), NEW k \in DOMAIN s PROVE s[k] \in S
OBVIOUS

=============================================================================
