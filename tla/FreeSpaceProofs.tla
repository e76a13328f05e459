---------------------------- MODULE FreeSpaceProofs ----------------------------
(***************************************************************************)
(* How much is free in a pool, for addresses of any width and tables of    *)
(* any size: the free ranges of a row are its free addresses, they are cut *)
(* into prefixes that cover them without overlap, and the count that is    *)
(* kept of these is not below what is free.                                *)
(*                                                                         *)
(* The last follows from how large blocks are taken out of a range: every  *)
(* free prefix either lies within one of the blocks or is charged to the   *)
(* block that is its first half (Charged).                                 *)
(***************************************************************************)
EXTENDS FreeSpace, AddressSpaceProofs, FiniteSetTheorems

\* The count has d in what it adds for the block c.
Charged(c, d) == CoversEq(c, d) \/ (c.first = d.first /\ c.len = d.len + 1)

-----------------------------------------------------------------------------
(* The block that iprange2cidr takes out of a range.                       *)

LEMMA FloorLog ==
  ASSUME NEW n \in 1 .. Beyond - 1
  PROVE  /\ FloorLog2(n) \in 0 .. Width - 1
         /\ 2 ^ FloorLog2(n) <= n /\ n < 2 ^ (FloorLog2(n) + 1)
<1> DEFINE S == {k \in 1 .. Width : n < 2 ^ k}
<1>1. Width \in Nat \ {0} /\ Beyond = 2 ^ Width /\ Beyond \in Nat /\ n \in Nat /\ 1 <= n /\ n < Beyond
  BY WidthAssumption, WholeSpace DEF Beyond
<1>2. S \in SUBSET Nat /\ Width \in S
  BY <1>1
<1>3. PICK m \in S : \A k \in S : m <= k
  <2>1. S # {}
    BY <1>2
  <2> HIDE DEF S
  <2> QED
    BY <1>2, <2>1, LeastOf
<1>4. m \in 1 .. Width /\ n < 2 ^ m /\ m - 1 \notin S /\ m - 1 \in 0 .. Width - 1
  BY <1>1, <1>3
<1>5. 2 ^ (m - 1) <= n
  <2>1. CASE m - 1 = 0
    BY <1>1, <2>1, WidthAssumption
  <2>2. CASE m - 1 # 0
    <3>1. m - 1 \in 1 .. Width /\ 2 ^ (m - 1) \in Nat
      BY <1>1, <1>4, <2>2, PowersArePositive
    <3>2. ~ (n < 2 ^ (m - 1))
      BY <1>4, <3>1
    <3> QED
      BY <1>1, <3>1, <3>2
  <2> QED
    BY <2>1, <2>2
<1>6. m - 1 \in 0 .. Width /\ (m - 1) + 1 = m
  BY <1>1, <1>4
<1>7. \E k \in 0 .. Width : 2 ^ k <= n /\ n < 2 ^ (k + 1)
  BY <1>4, <1>5, <1>6
<1>8. /\ FloorLog2(n) \in 0 .. Width
      /\ 2 ^ FloorLog2(n) <= n /\ n < 2 ^ (FloorLog2(n) + 1)
  BY <1>7 DEF FloorLog2
<1>9. FloorLog2(n) # Width
  BY <1>1, <1>8
<1> QED
  BY <1>1, <1>8, <1>9

LEMMA MaskSet ==
  ASSUME NEW a \in Nat, NEW len \in 0 .. Width
  PROVE  /\ SetMaskLen(a, len).len = len
         /\ SetMaskLen(a, len).first \in Nat
         /\ Aligned(SetMaskLen(a, len).first, len)
         /\ SetMaskLen(a, len).first <= a /\ a < SetMaskLen(a, len).first + BlockSize(len)
         /\ \A x \in Nat : Aligned(x, len) /\ x <= a => x <= SetMaskLen(a, len).first
<1>1. BlockSize(len) \in Nat \ {0}
  BY BlockIsNat
<1>2. \A b \in Nat \ {0} : \E k \in Nat : a - (a % b) = k * b /\ k * b <= a /\ a < k * b + b
  <2> SUFFICES ASSUME NEW b \in Nat \ {0}
               PROVE  \E k \in Nat : a - (a % b) = k * b /\ k * b <= a /\ a < k * b + b
    OBVIOUS
  <2>1. a % b \in 0 .. b - 1 /\ a \div b \in Nat
    OBVIOUS
  <2>2. a = b * (a \div b) + (a % b)
    OBVIOUS
  <2>3. PICK k \in Nat, r \in Nat : k = a \div b /\ r = a % b /\ r < b /\ a = b * k + r
    BY <2>1, <2>2
  <2>4. b * k = k * b /\ k * b \in Nat
    BY <2>3
  <2> QED
    BY <2>3, <2>4
<1>3. PICK k \in Nat : /\ a - (a % BlockSize(len)) = k * BlockSize(len)
                       /\ k * BlockSize(len) <= a /\ a < k * BlockSize(len) + BlockSize(len)
  BY <1>1, <1>2
<1>4. SetMaskLen(a, len).len = len /\ SetMaskLen(a, len).first = k * BlockSize(len)
  BY <1>3 DEF SetMaskLen
<1>5. Aligned(SetMaskLen(a, len).first, len) /\ SetMaskLen(a, len).first \in Nat
  BY <1>1, <1>4 DEF Aligned
<1>6. ASSUME NEW x \in Nat, Aligned(x, len), x <= a
      PROVE  x <= SetMaskLen(a, len).first
  <2> DEFINE f == SetMaskLen(a, len).first
  <2>1. f < x => f + BlockSize(len) <= x
    BY <1>5, <1>6, AlignedApart
  <2>2. a < f + BlockSize(len) /\ f \in Nat
    BY <1>3, <1>4, <1>5
  <2> HIDE DEF f
  <2>3. x <= f
    BY <1>1, <1>6, <2>1, <2>2
  <2> QED
    BY <2>3 DEF f
<1> QED
  BY <1>3, <1>4, <1>5, <1>6

\* What one length is tried with lies in the range, and is not behind any block
\* of that length that the range starts with or has before its end.
LEMMA BlocksFit ==
  ASSUME NEW lo \in Nat, NEW hi \in Nat, hi < Beyond, NEW len \in 0 .. Width,
         NEW b \in Blocks(lo, hi, len)
  PROVE  b \in Cidr /\ b.len = len /\ LiesIn(b, lo, hi)
<1> DEFINE c == SetMaskLen(lo, len)
           after == SetMaskLen(Broadcast(c) + 1, len)
           size == BlockSize(len)
<1>1. /\ c.len = len /\ c.first \in Nat /\ Aligned(c.first, len)
      /\ c.first <= lo /\ lo < c.first + size
  BY MaskSet
<1>2. size \in Nat \ {0}
  BY BlockIsNat
<1>3. Broadcast(c) = c.first + size - 1 /\ Broadcast(c) + 1 = c.first + size
  BY <1>1, <1>2 DEF Broadcast
<1>4. Broadcast(c) + 1 \in Nat
  BY <1>1, <1>2, <1>3
<1>5. /\ after.len = len /\ after.first \in Nat /\ Aligned(after.first, len)
      /\ after.first <= Broadcast(c) + 1 /\ Broadcast(c) + 1 < after.first + size
      /\ \A x \in Nat : Aligned(x, len) /\ x <= Broadcast(c) + 1 => x <= after.first
  BY <1>4, MaskSet
<1>6. Aligned(Broadcast(c) + 1, len)
  BY <1>1, <1>3, AlignedNext
<1>7. after.first = c.first + size
  <2>1. Broadcast(c) + 1 <= after.first
    BY <1>4, <1>5, <1>6
  <2> HIDE DEF c, after, size
  <2> QED
    BY <1>3, <1>4, <1>5, <2>1
<1>8. Broadcast(after) = after.first + size - 1
  BY <1>5 DEF Broadcast
<1>9. c = [first |-> c.first, len |-> len] /\ after = [first |-> after.first, len |-> len]
  BY DEF SetMaskLen
<1>10. CASE LiesIn(c, lo, hi)
  <2>1. b = c
    BY <1>10 DEF Blocks
  <2>2. c.first \in Addr
    <3>1. c.first < Beyond
      BY <1>1, <1>2, <1>3, <1>10, WholeSpace DEF LiesIn
    <3> QED
      BY <1>1, <3>1, WholeSpace
  <2>3. c \in Cidr
    BY <1>1, <1>9, <2>2, AlignedIsCidr
  <2> QED
    BY <1>1, <1>10, <2>1, <2>3
<1>11. CASE ~ LiesIn(c, lo, hi)
  <2>1. b = after /\ Broadcast(after) < hi
    BY <1>11 DEF Blocks
  <2>2. after.first \in Addr
    <3>1. after.first < Beyond
      BY <1>2, <1>5, <1>8, <2>1, WholeSpace
    <3> QED
      BY <1>5, <3>1, WholeSpace
  <2>3. after \in Cidr
    BY <1>5, <1>9, <2>2, AlignedIsCidr
  <2>4. LiesIn(after, lo, hi)
    BY <1>1, <1>2, <1>5, <1>7, <1>8, <2>1 DEF LiesIn
  <2> QED
    BY <1>5, <2>1, <2>3, <2>4
<1> QED
  BY <1>10, <1>11

LEMMA BlocksFind ==
  ASSUME NEW lo \in Nat, NEW hi \in Nat, NEW d \in Cidr, LiesIn(d, lo, hi),
         d.first = lo \/ Broadcast(d) < hi
  PROVE  \E b : Blocks(lo, hi, d.len) = {b} /\ b.first <= d.first
<1> DEFINE len == d.len
           c == SetMaskLen(lo, len)
           after == SetMaskLen(Broadcast(c) + 1, len)
           size == BlockSize(len)
<1>1. /\ d.first \in Nat /\ len \in 0 .. Width /\ Aligned(d.first, len)
      /\ size \in Nat \ {0} /\ Broadcast(d) = d.first + size - 1
      /\ lo <= d.first /\ Broadcast(d) <= hi
  BY CidrIsAligned, BlockIsNat DEF LiesIn, Broadcast
<1>2. /\ c.len = len /\ c.first \in Nat /\ Aligned(c.first, len)
      /\ c.first <= lo /\ lo < c.first + size
      /\ \A x \in Nat : Aligned(x, len) /\ x <= lo => x <= c.first
  BY <1>1, MaskSet
<1>3. Broadcast(c) = c.first + size - 1 /\ Broadcast(c) + 1 = c.first + size
  BY <1>1, <1>2 DEF Broadcast
<1>4. CASE LiesIn(c, lo, hi)
  <2>1. Blocks(lo, hi, len) = {c}
    BY <1>4 DEF Blocks
  <2> QED
    BY <1>1, <1>2, <2>1
<1>5. CASE ~ LiesIn(c, lo, hi)
  <2>1. Broadcast(c) + 1 \in Nat
    BY <1>1, <1>2, <1>3
  <2>2. /\ after.len = len /\ after.first \in Nat
        /\ after.first <= Broadcast(c) + 1
    BY <1>1, <2>1, MaskSet
  <2>3. c.first < d.first
    <3>1. CASE c.first = lo
      <4>1. d.first # lo
        <5> SUFFICES ASSUME d.first = lo PROVE FALSE
          OBVIOUS
        <5>1. LiesIn(c, lo, hi)
          BY <1>1, <1>3, <3>1 DEF LiesIn
        <5> QED
          BY <1>5, <5>1
      <4> QED
        BY <1>1, <3>1, <4>1
    <3>2. CASE c.first # lo
      BY <1>1, <1>2, <3>2
    <3> QED
      BY <3>1, <3>2
  <2>4. c.first + size <= d.first
    BY <1>1, <1>2, <2>3, AlignedApart
  <2>5. after.first <= d.first
    BY <1>1, <1>2, <1>3, <2>2, <2>4
  <2>6. Broadcast(d) < hi
    <3>1. d.first # lo
      BY <1>1, <1>2, <2>4
    <3> QED
      BY <3>1
  <2>7. Broadcast(after) < hi
    <3>1. Broadcast(after) = after.first + size - 1
      BY <2>2 DEF Broadcast
    <3> QED
      BY <1>1, <2>2, <2>5, <2>6, <3>1
  <2>8. Blocks(lo, hi, len) = {after}
    BY <1>5, <2>7 DEF Blocks
  <2> QED
    BY <2>5, <2>8
<1> QED
  BY <1>4, <1>5

LEMMA MinOf ==
  ASSUME NEW S \in SUBSET Nat, S # {}
  PROVE  Min(S) \in S /\ \A k \in S : Min(S) <= k
<1>1. PICK n \in S : \A k \in S : n <= k
  BY LeastOf
<1> QED
  BY <1>1 DEF Min

LEMMA FirstHalf ==
  ASSUME NEW d \in Cidr, d.len < Width
  PROVE  /\ [first |-> d.first, len |-> d.len + 1] \in Cidr
         /\ Broadcast([first |-> d.first, len |-> d.len + 1]) < Broadcast(d)
         /\ d.len + 1 \in 0 .. Width
<1>1. d.first \in Addr /\ d.len \in 0 .. Width /\ Aligned(d.first, d.len) /\ d.first \in Nat
  BY CidrIsAligned DEF Cidr
<1>2. Width \in Nat
  BY WidthAssumption
<1>3. d.len + 1 \in d.len .. Width /\ d.len + 1 \in 0 .. Width
  BY <1>1, <1>2
<1>4. [first |-> d.first, len |-> d.len + 1] \in Cidr
  BY <1>1, <1>3, AlignedFiner, AlignedIsCidr
<1>5. Width - (d.len + 1) \in 0 .. Width - 1 /\ Width - d.len = (Width - (d.len + 1)) + 1
  BY <1>1, <1>2, <1>3
<1>6. BlockSize(d.len) = 2 * BlockSize(d.len + 1)
  BY <1>5, WidthAssumption DEF BlockSize
<1>7. BlockSize(d.len + 1) \in Nat \ {0}
  BY <1>3, BlockIsNat
<1>8. Broadcast([first |-> d.first, len |-> d.len + 1]) = d.first + BlockSize(d.len + 1) - 1
  BY DEF Broadcast
<1>9. Broadcast(d) = d.first + BlockSize(d.len) - 1
  BY DEF Broadcast
<1> QED
  BY <1>1, <1>3, <1>4, <1>6, <1>7, <1>8, <1>9

\* The lengths that are searched are those of all blocks of the range.
LEMMA SearchedLengths ==
  ASSUME NEW lo \in Nat, NEW hi \in Nat, lo < hi, hi < Beyond,
         ~ \E c \in Cidr : Addresses(c) = lo .. hi
  PROVE  /\ Width - FloorLog2(hi - lo) \in 1 .. Width
         /\ \A d \in Cidr : LiesIn(d, lo, hi) => d.len \in Width - FloorLog2(hi - lo) .. Width
<1>1. hi - lo \in 1 .. Beyond - 1 /\ Width \in Nat
  BY WholeSpace, WidthAssumption
<1>2. PICK k \in 0 .. Width - 1 : k = FloorLog2(hi - lo) /\ hi - lo < 2 ^ (k + 1)
  BY <1>1, FloorLog
<1>3. Width - k \in 1 .. Width
  BY <1>1, <1>2
<1>4. ASSUME NEW d \in Cidr, LiesIn(d, lo, hi)
      PROVE  d.len \in Width - k .. Width
  <2>1. /\ d.first \in Nat /\ d.len \in 0 .. Width /\ BlockSize(d.len) \in Nat \ {0}
        /\ Broadcast(d) = d.first + BlockSize(d.len) - 1
        /\ lo <= d.first /\ Broadcast(d) <= hi
    BY <1>4, CidrIsAligned, BlockIsNat DEF LiesIn, Broadcast
  <2>2. BlockSize(d.len) <= hi - lo
    <3> SUFFICES ASSUME hi - lo < BlockSize(d.len) PROVE FALSE
      BY <2>1
    <3>1. d.first = lo /\ Broadcast(d) = hi
      BY <2>1
    <3> QED
      BY <3>1 DEF Addresses
  <2>3. d.len >= Width - k
    <3> SUFFICES ASSUME d.len < Width - k PROVE FALSE
      BY <1>3, <2>1
    <3>1. k + 1 \in 0 .. Width /\ Width - d.len \in k + 1 .. Width
      <4>1. k \in 0 .. Width - 1
        OBVIOUS
      <4>2. PICK l \in 0 .. Width : l = d.len
        BY <2>1
      <4>3. l < Width - k
        BY <4>2
      <4>4. k + 1 \in 0 .. Width /\ Width - l \in k + 1 .. Width
        BY <1>1, <4>1, <4>3
      <4> QED
        BY <4>2, <4>4
    <3>2. PICK m \in Nat \ {0} : 2 ^ (Width - d.len) = m * 2 ^ (k + 1)
      BY <3>1, PowersDivide
    <3>3. PICK z \in Nat \ {0} : z = 2 ^ (k + 1)
      BY <3>1, PowersArePositive
    <3>4. BlockSize(d.len) = m * z
      BY <3>2, <3>3 DEF BlockSize
    <3>5. 1 * z <= m * z /\ 1 * z = z
      BY <3>3, TimesKeepsOrder
    <3> QED
      BY <1>2, <2>1, <2>2, <3>3, <3>4, <3>5
  <2> QED
    BY <1>3, <2>1, <2>3
<1> QED
  BY <1>2, <1>3, <1>4

\* It is a block of the range, and no block of the range goes beyond it but
\* one that ends with the range: of this it is the first half.
LEMMA BigPrefixIs ==
  ASSUME NEW lo \in Nat, NEW hi \in Nat, lo < hi, hi < Beyond,
         ~ \E c \in Cidr : Addresses(c) = lo .. hi
  PROVE  /\ BigPrefix(lo, hi) \in Cidr
         /\ LiesIn(BigPrefix(lo, hi), lo, hi)
         /\ \A d \in Cidr : LiesIn(d, lo, hi) /\ Overlap(BigPrefix(lo, hi), d)
                              => Charged(BigPrefix(lo, hi), d)
<1> DEFINE lens == Width - FloorLog2(hi - lo) .. Width
           fits == {l \in lens : Blocks(lo, hi, l) # {}}
           big == BigPrefix(lo, hi)
<1>1. /\ Width \in Nat /\ lens \subseteq 0 .. Width /\ Width \in lens
      /\ \A d \in Cidr : LiesIn(d, lo, hi) => d.len \in lens
  BY SearchedLengths, WidthAssumption
<1>2. Blocks(lo, hi, Width) # {}
  <2> DEFINE e == [first |-> lo, len |-> Width]
  <2>1. 0 \in 0 .. Width /\ Width - Width = 0 /\ Width \in 0 .. Width
    BY <1>1
  <2>2. BlockSize(Width) = 1
    BY <2>1, WidthAssumption DEF BlockSize
  <2>3. Aligned(lo, Width) /\ lo \in Addr
    <3>1. lo = lo * BlockSize(Width)
      BY <2>2
    <3> QED
      BY <3>1, WholeSpace DEF Aligned
  <2>4. e \in Cidr
    BY <2>1, <2>3, AlignedIsCidr
  <2>5. e.first = lo /\ Broadcast(e) = lo /\ e.len = Width
    BY <2>2 DEF Broadcast
  <2>6. LiesIn(e, lo, hi)
    BY <2>5 DEF LiesIn
  <2> QED
    BY <2>4, <2>5, <2>6, BlocksFind
<1>3. fits \in SUBSET Nat /\ fits # {}
  BY <1>1, <1>2
<1>4. PICK l : l = Min(fits) /\ l \in fits /\ \A k \in fits : l <= k
  <2> HIDE DEF fits
  <2> QED
    BY <1>3, MinOf
<1>5. big \in Blocks(lo, hi, l)
  <2>1. Blocks(lo, hi, l) # {}
    BY <1>4
  <2> QED
    BY <1>4, <2>1 DEF BigPrefix
<1>6. l \in 0 .. Width
  BY <1>1, <1>4
<1>7. big \in Cidr /\ big.len = l /\ LiesIn(big, lo, hi)
  BY <1>5, <1>6, BlocksFit
<1>8. ASSUME NEW d \in Cidr, LiesIn(d, lo, hi), Overlap(big, d), ~ CoversEq(big, d)
      PROVE  big.first = d.first /\ l = d.len + 1
  <2>1. CoversEq(d, big)
    BY <1>8 DEF Overlap
  <2>2. d.len <= l /\ d.first <= big.first
    BY <1>7, <2>1, CoveredIsWithin
  <2>3. d.len # l
    <3> SUFFICES ASSUME d.len = l PROVE FALSE
      OBVIOUS
    <3>1. d = big
      BY <1>7, <2>1, SameBlock
    <3> QED
      BY <1>8, <2>1, <3>1
  <2>4. d.len \in lens /\ d.len \in 0 .. Width /\ d.len < l
    BY <1>1, <1>6, <1>8, <2>2, <2>3, CidrIsAligned
  <2>5. Blocks(lo, hi, d.len) = {}
    <3>1. d.len \notin fits
      <4>1. ~ (l <= d.len)
        BY <1>6, <2>4
      <4> HIDE DEF fits
      <4> QED
        BY <1>4, <4>1
    <3> QED
      BY <2>4, <3>1
  <2>6. d.first # lo /\ ~ (Broadcast(d) < hi)
    BY <1>8, <2>5, BlocksFind
  <2> DEFINE e == [first |-> d.first, len |-> d.len + 1]
  <2>7. e \in Cidr /\ Broadcast(e) < Broadcast(d) /\ d.len + 1 \in 0 .. Width
    <3>1. d.len < Width
      BY <1>1, <1>6, <2>4
    <3> QED
      BY <3>1, FirstHalf
  <2>8. LiesIn(e, lo, hi) /\ Broadcast(e) < hi
    BY <1>8, <2>7, BroadcastOf DEF LiesIn
  <2>9. PICK b : Blocks(lo, hi, d.len + 1) = {b} /\ b.first <= d.first
    <3>1. e.len = d.len + 1 /\ e.first = d.first
      OBVIOUS
    <3> HIDE DEF e
    <3>2. \E b : Blocks(lo, hi, e.len) = {b} /\ b.first <= e.first
      BY <2>7, <2>8, BlocksFind
    <3> QED
      BY <3>1, <3>2
  <2>10. d.len + 1 \in fits
    <3>1. d.len + 1 \in lens
      BY <1>1, <2>7, <2>8
    <3> QED
      BY <2>9, <3>1
  <2>11. l = d.len + 1
    <3>1. l <= d.len + 1
      <4> HIDE DEF fits
      <4> QED
        BY <1>4, <2>10
    <3> QED
      BY <1>6, <2>4, <3>1
  <2>12. big = b
    BY <1>5, <2>9, <2>11
  <2>13. big.first <= d.first
    BY <2>9, <2>12
  <2> QED
    BY <1>7, <1>8, <2>2, <2>11, <2>13, CidrIsAligned
<1> QED
  BY <1>7, <1>8 DEF Charged

-----------------------------------------------------------------------------
(* iprange2cidr: what a range is cut into.                                 *)

NextCut(f, r) ==
  IF r.lo > r.hi THEN <<>>
  ELSE IF \E c \in Cidr : Addresses(c) = r.lo .. r.hi
  THEN <<CHOOSE c \in Cidr : Addresses(c) = r.lo .. r.hi>>
  ELSE LET big == BigPrefix(r.lo, r.hi)
       IN  f[IpRange(r.lo, big.first - 1)] \o <<big>> \o f[IpRange(Broadcast(big) + 1, r.hi)]

Cuts(f) == f = [r \in Ranges |-> NextCut(f, r)]

IsBlock(r) == \E c \in Cidr : Addresses(c) = r.lo .. r.hi
Before(r) == IpRange(r.lo, BigPrefix(r.lo, r.hi).first - 1)
After(r) == IpRange(Broadcast(BigPrefix(r.lo, r.hi)) + 1, r.hi)

LEMMA NextCutIs ==
  ASSUME NEW f, NEW r
  PROVE  /\ r.lo > r.hi => NextCut(f, r) = <<>>
         /\ ~ (r.lo > r.hi) /\ IsBlock(r)
              => NextCut(f, r) = <<CHOOSE c \in Cidr : Addresses(c) = r.lo .. r.hi>>
         /\ ~ (r.lo > r.hi) /\ ~ IsBlock(r)
              => NextCut(f, r) = f[Before(r)] \o <<BigPrefix(r.lo, r.hi)>> \o f[After(r)]
BY DEF NextCut, IsBlock, Before, After

LEMMA RangeIs ==
  ASSUME NEW r \in Ranges
  PROVE  /\ r.lo \in Nat /\ r.hi \in Int /\ r.lo <= Beyond /\ r.hi < Beyond /\ -1 <= r.hi
         /\ Beyond \in Nat \ {0}
BY WholeSpace DEF Ranges

LEMMA RangeSplits ==
  ASSUME NEW r \in Ranges, ~ (r.lo > r.hi), ~ IsBlock(r)
  PROVE  LET big == BigPrefix(r.lo, r.hi)
         IN  /\ big \in Cidr /\ LiesIn(big, r.lo, r.hi)
             /\ big.first \in Nat /\ Broadcast(big) \in Int /\ big.first <= Broadcast(big)
             /\ \A d \in Cidr : LiesIn(d, r.lo, r.hi) /\ Overlap(big, d) => Charged(big, d)
             /\ Before(r) \in Ranges /\ Before(r).hi - Before(r).lo < r.hi - r.lo
             /\ Before(r).lo = r.lo /\ Before(r).hi = big.first - 1
             /\ After(r) \in Ranges /\ After(r).hi - After(r).lo < r.hi - r.lo
             /\ After(r).lo = Broadcast(big) + 1 /\ After(r).hi = r.hi
<1> DEFINE big == BigPrefix(r.lo, r.hi)
<1>1. /\ r.lo \in Nat /\ r.hi \in Nat /\ r.lo <= r.hi /\ r.hi < Beyond /\ Beyond \in Nat
      /\ r.lo \in 0 .. Beyond /\ r.hi \in -1 .. Beyond - 1
  BY RangeIs
<1>2. r.lo < r.hi
  <2> SUFFICES ASSUME r.lo = r.hi PROVE FALSE
    BY <1>1
  <2> DEFINE e == [first |-> r.lo, len |-> Width]
  <2>1. 0 \in 0 .. Width /\ Width - Width = 0 /\ Width \in 0 .. Width
    BY WidthAssumption
  <2>2. BlockSize(Width) = 1
    BY <2>1, WidthAssumption DEF BlockSize
  <2>3. Aligned(r.lo, Width) /\ r.lo \in Addr
    <3>1. r.lo = r.lo * BlockSize(Width)
      BY <1>1, <2>2
    <3> QED
      BY <1>1, <3>1, WholeSpace DEF Aligned
  <2>4. e \in Cidr
    BY <2>1, <2>3, AlignedIsCidr
  <2>5. Broadcast(e) = r.lo
    BY <1>1, <2>2 DEF Broadcast
  <2> QED
    BY <2>4, <2>5 DEF IsBlock, Addresses
<1>3. /\ big \in Cidr /\ LiesIn(big, r.lo, r.hi)
      /\ \A d \in Cidr : LiesIn(d, r.lo, r.hi) /\ Overlap(big, d) => Charged(big, d)
  BY <1>1, <1>2, BigPrefixIs DEF IsBlock
<1>4. /\ r.lo <= big.first /\ Broadcast(big) <= r.hi /\ big.first <= Broadcast(big)
      /\ big.first \in Nat /\ Broadcast(big) \in Int
  BY <1>3, BroadcastOf, CidrIsAligned DEF LiesIn
<1>5. big.first - 1 \in -1 .. Beyond - 1 /\ Broadcast(big) + 1 \in 0 .. Beyond
  BY <1>1, <1>4
<1>6. /\ Before(r) \in Ranges /\ Before(r).lo = r.lo /\ Before(r).hi = big.first - 1
      /\ After(r) \in Ranges /\ After(r).lo = Broadcast(big) + 1 /\ After(r).hi = r.hi
  BY <1>1, <1>5 DEF Before, After, IpRange, Ranges
<1>7. Before(r).hi - Before(r).lo < r.hi - r.lo /\ After(r).hi - After(r).lo < r.hi - r.lo
  BY <1>1, <1>4, <1>6
<1> QED
  BY <1>3, <1>4, <1>6, <1>7

LEMMA CutsExist == \E f : Cuts(f)
<1> DEFINE Small(n) == {r \in Ranges : r.hi - r.lo < n}
           N == {n \in 0 .. Beyond : \E f : f = [r \in Small(n) |-> NextCut(f, r)]}
<1>1. Beyond \in Nat
  BY WholeSpace
<1>2. 0 \in N
  <2> DEFINE f == [r \in Small(0) |-> <<>>]
  <2>1. ASSUME NEW r \in Small(0) PROVE NextCut(f, r) = <<>>
    <3>1. r.lo > r.hi
      BY RangeIs
    <3> HIDE DEF f
    <3> QED
      BY <3>1, NextCutIs
  <2>2. f = [r \in Small(0) |-> NextCut(f, r)]
    BY <2>1
  <2> HIDE DEF f, Small
  <2> QED
    BY <1>1, <2>2
<1>3. ASSUME NEW n \in 0 .. Beyond, n \in N, n < Beyond
      PROVE  n + 1 \in N
  <2>1. PICK f : f = [r \in Small(n) |-> NextCut(f, r)]
    BY <1>3
  <2> DEFINE h == [r \in Small(n + 1) |-> NextCut(f, r)]
  <2>2. ASSUME NEW q \in Small(n) PROVE f[q] = h[q]
    <3>1. q \in Small(n + 1)
      BY RangeIs
    <3>2. f[q] = NextCut(f, q)
      <4> HIDE DEF Small, h
      <4> QED
        BY <2>1
    <3>3. h[q] = NextCut(f, q)
      <4> HIDE DEF Small
      <4> QED
        BY <3>1
    <3> QED
      BY <3>2, <3>3
  <2>3. ASSUME NEW r \in Small(n + 1) PROVE NextCut(f, r) = NextCut(h, r)
    <3> HIDE DEF h
    <3>1. CASE r.lo > r.hi
      BY <3>1, NextCutIs
    <3>2. CASE ~ (r.lo > r.hi) /\ IsBlock(r)
      BY <3>2, NextCutIs
    <3>3. CASE ~ (r.lo > r.hi) /\ ~ IsBlock(r)
      <4>1. /\ Before(r) \in Ranges /\ Before(r).hi - Before(r).lo < r.hi - r.lo
            /\ After(r) \in Ranges /\ After(r).hi - After(r).lo < r.hi - r.lo
        BY <3>3, RangeSplits
      <4>2. Before(r) \in Small(n) /\ After(r) \in Small(n)
        <5>1. r.hi - r.lo < n + 1 /\ r.hi - r.lo \in Int
          BY RangeIs
        <5>2. Before(r).hi - Before(r).lo \in Int /\ After(r).hi - After(r).lo \in Int
          BY <4>1, RangeIs
        <5> QED
          BY <4>1, <5>1, <5>2
      <4>3. f[Before(r)] = h[Before(r)] /\ f[After(r)] = h[After(r)]
        BY <2>2, <4>2
      <4>4. /\ NextCut(f, r) = f[Before(r)] \o <<BigPrefix(r.lo, r.hi)>> \o f[After(r)]
            /\ NextCut(h, r) = h[Before(r)] \o <<BigPrefix(r.lo, r.hi)>> \o h[After(r)]
        BY <3>3, NextCutIs
      <4> QED
        BY <4>3, <4>4
    <3> QED
      BY <3>1, <3>2, <3>3
  <2>4. h = [r \in Small(n + 1) |-> NextCut(h, r)]
    <3>1. h = [r \in Small(n + 1) |-> NextCut(f, r)]
      OBVIOUS
    <3> HIDE DEF h, Small
    <3> QED
      BY <2>3, <3>1
  <2>5. n + 1 \in 0 .. Beyond
    BY <1>1, <1>3
  <2> HIDE DEF h, Small
  <2> QED
    BY <2>4, <2>5
<1>4. Beyond \in N
  <2> HIDE DEF N
  <2>1. 0 .. Beyond \subseteq N
    BY <1>1, <1>2, <1>3, UpTo
  <2> QED
    BY <1>1, <2>1
<1>5. Small(Beyond) = Ranges
  BY RangeIs
<1> QED
  BY <1>4, <1>5 DEF Cuts

LEMMA IpRange2CidrIs ==
  \E f : Cuts(f) /\ \A r : IpRange2Cidr(r) = f[r]
<1> DEFINE f == CHOOSE h : Cuts(h)
<1>1. Cuts(f)
  BY CutsExist
<1>2. ASSUME NEW r PROVE IpRange2Cidr(r) = f[r]
  BY DEF IpRange2Cidr, Cuts, NextCut
<1> QED
  BY <1>1, <1>2

\* A range without overlap, all of it, and every block of the range is charged.
Parts(s, lo, hi) ==
  /\ s \in Seq(Cidr)
  /\ \A k \in 1 .. Len(s) : LiesIn(s[k], lo, hi)
  /\ \A x \in lo .. hi : \E k \in 1 .. Len(s) : x \in Addresses(s[k])
  /\ \A j, k \in 1 .. Len(s) : j # k => Disjoint(s[j], s[k])
  /\ \A d \in Cidr : LiesIn(d, lo, hi) => \E k \in 1 .. Len(s) : Charged(s[k], d)

LEMMA DisjointIs ==
  ASSUME NEW c \in Cidr, NEW d \in Cidr, Broadcast(c) < d.first
  PROVE  Disjoint(c, d) /\ Disjoint(d, c)
<1>1. /\ c.first \in Nat /\ d.first \in Nat
      /\ Broadcast(c) \in Int /\ Broadcast(d) \in Int
  BY CidrIsAligned, BroadcastOf
<1> QED
  BY <1>1 DEF Disjoint, Addresses

LEMMA LongerIsLess ==
  ASSUME NEW l \in 0 .. Width, NEW m \in 0 .. Width, l < m
  PROVE  BlockSize(m) < BlockSize(l)
<1>1. Width \in Nat /\ l + 1 \in 0 .. Width /\ m \in l + 1 .. Width
  BY WidthAssumption
<1>2. Width - (l + 1) \in 0 .. Width - 1 /\ Width - l = (Width - (l + 1)) + 1
  BY <1>1
<1>3. BlockSize(l) = 2 * BlockSize(l + 1)
  BY <1>2, WidthAssumption DEF BlockSize
<1>4. PICK k \in Nat \ {0} : BlockSize(l + 1) = k * BlockSize(m)
  BY <1>1, SizesDivide
<1>5. PICK z \in Nat \ {0} : z = BlockSize(m)
  BY BlockIsNat
<1>6. 1 * z <= k * z /\ 1 * z = z /\ k * z \in Nat
  BY <1>5, TimesKeepsOrder
<1> QED
  BY <1>3, <1>4, <1>5, <1>6

\* Of the two prefixes one within the other, or with the same addresses.
LEMMA WithinIsCovered ==
  ASSUME NEW c \in Cidr, NEW d \in Cidr, c.first <= d.first, Broadcast(d) <= Broadcast(c)
  PROVE  CoversEq(c, d)
<1>1. /\ c.first \in Nat /\ d.first \in Nat /\ c.len \in 0 .. Width /\ d.len \in 0 .. Width
      /\ Broadcast(c) \in Int /\ Broadcast(d) \in Int
      /\ Broadcast(c) + 1 = c.first + BlockSize(c.len)
      /\ Broadcast(d) + 1 = d.first + BlockSize(d.len)
      /\ d.first <= Broadcast(d)
      /\ BlockSize(c.len) \in Nat /\ BlockSize(d.len) \in Nat
  BY CidrIsAligned, BroadcastOf, BlockIsNat
<1>2. c.len <= d.len
  <2> SUFFICES ASSUME d.len < c.len PROVE FALSE
    BY <1>1
  <2>1. BlockSize(c.len) < BlockSize(d.len)
    BY <1>1, LongerIsLess
  <2> QED
    BY <1>1, <2>1
<1>3. d.first <= Broadcast(c)
  BY <1>1
<1> QED
  BY <1>1, <1>2, <1>3 DEF CoversEq, Addresses

LEMMA ThreeJoined ==
  ASSUME NEW S, NEW s \in Seq(S), NEW b \in S, NEW t \in Seq(S)
  PROVE  LET u == s \o <<b>> \o t
         IN  /\ u \in Seq(S) /\ Len(s) \in Nat /\ Len(t) \in Nat
             /\ Len(u) = Len(s) + 1 + Len(t)
             /\ \A i \in 1 .. Len(s) : u[i] = s[i]
             /\ u[Len(s) + 1] = b
             /\ \A i \in 1 .. Len(t) : u[Len(s) + 1 + i] = t[i]
             /\ \A k \in 1 .. Len(u) :
                  \/ k \in 1 .. Len(s)
                  \/ k = Len(s) + 1
                  \/ \E i \in 1 .. Len(t) : k = Len(s) + 1 + i
<1> DEFINE u == s \o <<b>> \o t
<1>1. /\ s \o <<b>> \in Seq(S) /\ Len(s) \in Nat /\ Len(s \o <<b>>) = Len(s) + 1
      /\ \A i \in 1 .. Len(s) : (s \o <<b>>)[i] = s[i]
      /\ (s \o <<b>>)[Len(s) + 1] = b
  OBVIOUS
<1>2. PICK v \in Seq(S) : v = s \o <<b>>
  BY <1>1
<1>3. /\ v \o t \in Seq(S) /\ Len(v) \in Nat /\ Len(t) \in Nat /\ Len(v \o t) = Len(v) + Len(t)
      /\ \A i \in 1 .. Len(v) : (v \o t)[i] = v[i]
      /\ \A i \in 1 .. Len(t) : (v \o t)[Len(v) + i] = t[i]
  OBVIOUS
<1>4. u = v \o t
  BY <1>2
<1>5. \A k \in 1 .. Len(u) :
        \/ k \in 1 .. Len(s)
        \/ k = Len(s) + 1
        \/ \E i \in 1 .. Len(t) : k = Len(s) + 1 + i
  <2>2. PICK n \in Nat, m \in Nat : n = Len(s) /\ m = Len(t) /\ Len(u) = n + 1 + m
    BY <1>1, <1>2, <1>3, <1>4
  <2>3. \A k \in 1 .. n + 1 + m :
           k \in 1 .. n \/ k = n + 1 \/ \E i \in 1 .. m : k = n + 1 + i
    <3> SUFFICES ASSUME NEW k \in 1 .. n + 1 + m, k \notin 1 .. n, k # n + 1
                 PROVE  \E i \in 1 .. m : k = n + 1 + i
      OBVIOUS
    <3>1. k - (n + 1) \in 1 .. m /\ k = n + 1 + (k - (n + 1))
      OBVIOUS
    <3> QED
      BY <3>1
  <2> QED
    BY <2>2, <2>3
<1>6. \A i \in 1 .. Len(s) : i \in 1 .. Len(v) /\ u[i] = s[i]
  BY <1>1, <1>2, <1>3, <1>4
<1>7. Len(s) + 1 \in 1 .. Len(v) /\ u[Len(s) + 1] = b
  BY <1>1, <1>2, <1>3, <1>4
<1>8. \A i \in 1 .. Len(t) : u[Len(s) + 1 + i] = t[i]
  BY <1>1, <1>2, <1>3, <1>4
<1>9. u \in Seq(S) /\ Len(u) = Len(s) + 1 + Len(t)
  BY <1>1, <1>2, <1>3, <1>4
<1> QED
  BY <1>1, <1>3, <1>5, <1>6, <1>7, <1>8, <1>9

LEMMA BlockIsParts ==
  ASSUME NEW lo \in Int, NEW hi \in Int, lo <= hi, NEW c \in Cidr, Addresses(c) = lo .. hi
  PROVE  Parts(<<c>>, lo, hi)
<1>1. /\ c.first \in Nat /\ Broadcast(c) \in Int /\ c.first <= Broadcast(c)
  BY CidrIsAligned, BroadcastOf
<1>2. c.first = lo /\ Broadcast(c) = hi
  <2>1. c.first .. Broadcast(c) = lo .. hi
    BY DEF Addresses
  <2>2. c.first \in lo .. hi /\ Broadcast(c) \in lo .. hi /\ lo \in c.first .. Broadcast(c)
        /\ hi \in c.first .. Broadcast(c)
    BY <1>1, <2>1
  <2> QED
    BY <1>1, <2>2
<1>3. <<c>> \in Seq(Cidr) /\ Len(<<c>>) = 1 /\ <<c>>[1] = c
  OBVIOUS
<1>4. LiesIn(c, lo, hi)
  BY <1>1, <1>2 DEF LiesIn
<1>5. ASSUME NEW d \in Cidr, LiesIn(d, lo, hi) PROVE Charged(c, d)
  BY <1>2, <1>5, WithinIsCovered DEF LiesIn, Charged
<1> DEFINE s == <<c>>
<1>6. s \in Seq(Cidr) /\ Len(s) = 1 /\ s[1] = c
  BY <1>3
<1> HIDE DEF s
<1>7. 1 .. Len(s) = {1}
  BY <1>6
<1>8. Parts(s, lo, hi)
  BY <1>4, <1>5, <1>6, <1>7 DEF Parts
<1> QED
  BY <1>8 DEF s

LEMMA JoinedParts ==
  ASSUME NEW lo \in Int, NEW hi \in Int, NEW big \in Cidr, LiesIn(big, lo, hi),
         \A d \in Cidr : LiesIn(d, lo, hi) /\ Overlap(big, d) => Charged(big, d),
         NEW s, Parts(s, lo, big.first - 1),
         NEW t, Parts(t, Broadcast(big) + 1, hi)
  PROVE  Parts(s \o <<big>> \o t, lo, hi)
<1> DEFINE uu == s \o <<big>> \o t
<1>1. s \in Seq(Cidr) /\ t \in Seq(Cidr)
  BY DEF Parts
<1>0. PICK u : u = uu
  OBVIOUS
<1>2. PICK n \in Nat, m \in Nat :
        /\ n = Len(s) /\ m = Len(t) /\ u \in Seq(Cidr) /\ Len(u) = n + 1 + m
        /\ \A i \in 1 .. n : u[i] = s[i]
        /\ u[n + 1] = big
        /\ \A i \in 1 .. m : u[n + 1 + i] = t[i]
        /\ \A k \in 1 .. n + 1 + m :
             k \in 1 .. n \/ k = n + 1 \/ \E i \in 1 .. m : k = n + 1 + i
  <2>1. /\ u \in Seq(Cidr) /\ Len(s) \in Nat /\ Len(t) \in Nat
        /\ Len(u) = Len(s) + 1 + Len(t)
        /\ \A i \in 1 .. Len(s) : u[i] = s[i]
        /\ u[Len(s) + 1] = big
        /\ \A i \in 1 .. Len(t) : u[Len(s) + 1 + i] = t[i]
        /\ \A k \in 1 .. Len(u) :
             \/ k \in 1 .. Len(s)
             \/ k = Len(s) + 1
             \/ \E i \in 1 .. Len(t) : k = Len(s) + 1 + i
    BY <1>0, <1>1, ThreeJoined
  <2> QED
    BY <2>1
<1>3. /\ big.first \in Nat /\ Broadcast(big) \in Int /\ big.first <= Broadcast(big)
      /\ lo <= big.first /\ Broadcast(big) <= hi
  BY CidrIsAligned, BroadcastOf DEF LiesIn
<1>4. ASSUME NEW i \in 1 .. n
      PROVE  /\ s[i] \in Cidr /\ LiesIn(s[i], lo, hi) /\ Broadcast(s[i]) < big.first
             /\ Broadcast(s[i]) \in Int /\ s[i].first \in Nat
  <2>1. s[i] \in Cidr
    BY <1>1, <1>2, ElementOfSeq
  <2>2. LiesIn(s[i], lo, big.first - 1)
    BY <1>2 DEF Parts
  <2>3. Broadcast(s[i]) \in Int /\ s[i].first \in Nat
    BY <2>1, CidrIsAligned, BroadcastOf
  <2> QED
    BY <1>3, <2>1, <2>2, <2>3 DEF LiesIn
<1>5. ASSUME NEW i \in 1 .. m
      PROVE  /\ t[i] \in Cidr /\ LiesIn(t[i], lo, hi) /\ Broadcast(big) < t[i].first
             /\ Broadcast(t[i]) \in Int /\ t[i].first \in Nat
  <2>1. t[i] \in Cidr
    BY <1>1, <1>2, ElementOfSeq
  <2>2. LiesIn(t[i], Broadcast(big) + 1, hi)
    BY <1>2 DEF Parts
  <2>3. Broadcast(t[i]) \in Int /\ t[i].first \in Nat
    BY <2>1, CidrIsAligned, BroadcastOf
  <2> QED
    BY <1>3, <2>1, <2>2, <2>3 DEF LiesIn
<1>6. n + 1 \in 1 .. n + 1 + m
      /\ (\A i \in 1 .. n : i \in 1 .. n + 1 + m)
      /\ (\A i \in 1 .. m : n + 1 + i \in 1 .. n + 1 + m)
  OBVIOUS
<1>7. ASSUME NEW k \in 1 .. n + 1 + m PROVE LiesIn(u[k], lo, hi)
  <2>1. CASE k \in 1 .. n
    BY <1>2, <1>4, <2>1
  <2>2. CASE k = n + 1
    BY <1>2, <2>2
  <2>3. CASE \E i \in 1 .. m : k = n + 1 + i
    BY <1>2, <1>5, <2>3
  <2> QED
    BY <1>2, <2>1, <2>2, <2>3
<1>8. ASSUME NEW x \in lo .. hi
      PROVE  \E k \in 1 .. n + 1 + m : x \in Addresses(u[k])
  <2>1. CASE x < big.first
    <3>1. x \in lo .. big.first - 1
      BY <1>3, <2>1
    <3>2. PICK i \in 1 .. n : x \in Addresses(s[i])
      BY <1>2, <3>1 DEF Parts
    <3> QED
      BY <1>2, <1>6, <3>2
  <2>2. CASE Broadcast(big) < x
    <3>1. x \in Broadcast(big) + 1 .. hi
      BY <1>3, <2>2
    <3>2. PICK i \in 1 .. m : x \in Addresses(t[i])
      BY <1>2, <3>1 DEF Parts
    <3> QED
      BY <1>2, <1>6, <3>2
  <2>3. CASE big.first <= x /\ x <= Broadcast(big)
    <3>1. x \in Addresses(big)
      BY <1>3, <2>3 DEF Addresses
    <3> QED
      BY <1>2, <1>6, <3>1
  <2> QED
    BY <1>3, <2>1, <2>2, <2>3
<1>9. ASSUME NEW j \in 1 .. n + 1 + m, NEW k \in 1 .. n + 1 + m, j # k
      PROVE  Disjoint(u[j], u[k])
  <2>1. \A a, b \in 1 .. n : a # b => Disjoint(s[a], s[b])
    BY <1>2 DEF Parts
  <2>2. \A a, b \in 1 .. m : a # b => Disjoint(t[a], t[b])
    BY <1>2 DEF Parts
  <2>3. \A a \in 1 .. n : Disjoint(s[a], big) /\ Disjoint(big, s[a])
    BY <1>4, DisjointIs
  <2>4. \A a \in 1 .. m : Disjoint(t[a], big) /\ Disjoint(big, t[a])
    BY <1>5, DisjointIs
  <2>5. ASSUME NEW a \in 1 .. n, NEW b \in 1 .. m
        PROVE  Disjoint(s[a], t[b]) /\ Disjoint(t[b], s[a])
    <3>1. Broadcast(s[a]) < t[b].first
      BY <1>3, <1>4, <1>5
    <3> QED
      BY <1>4, <1>5, <3>1, DisjointIs
  <2>6. CASE j \in 1 .. n
    <3>1. CASE k \in 1 .. n
      BY <1>2, <1>9, <2>1, <2>6, <3>1
    <3>2. CASE k = n + 1
      BY <1>2, <2>3, <2>6, <3>2
    <3>3. CASE \E b \in 1 .. m : k = n + 1 + b
      BY <1>2, <2>5, <2>6, <3>3
    <3> QED
      BY <1>2, <3>1, <3>2, <3>3
  <2>7. CASE j = n + 1
    BY <1>2, <2>3, <2>4, <2>7, <1>9
  <2>8. CASE \E a \in 1 .. m : j = n + 1 + a
    <3>1. PICK a \in 1 .. m : j = n + 1 + a
      BY <2>8
    <3>2. CASE k \in 1 .. n
      BY <1>2, <2>5, <3>1, <3>2
    <3>3. CASE k = n + 1
      BY <1>2, <2>4, <3>1, <3>3
    <3>4. CASE \E b \in 1 .. m : k = n + 1 + b
      <4>1. PICK b \in 1 .. m : k = n + 1 + b
        BY <3>4
      <4>2. a # b
        BY <1>9, <3>1, <4>1
      <4> QED
        BY <1>2, <2>2, <3>1, <4>1, <4>2
    <3> QED
      BY <1>2, <3>2, <3>3, <3>4
  <2> QED
    BY <1>2, <2>6, <2>7, <2>8
<1>10. ASSUME NEW d \in Cidr, LiesIn(d, lo, hi)
       PROVE  \E k \in 1 .. n + 1 + m : Charged(u[k], d)
  <2>1. /\ d.first \in Nat /\ Broadcast(d) \in Int /\ d.first <= Broadcast(d)
        /\ lo <= d.first /\ Broadcast(d) <= hi /\ d.len \in 0 .. Width /\ big.len \in 0 .. Width
    BY <1>10, CidrIsAligned, BroadcastOf DEF LiesIn
  <2>2. CASE Broadcast(d) < big.first
    <3>1. LiesIn(d, lo, big.first - 1)
      BY <1>3, <2>1, <2>2 DEF LiesIn
    <3>2. PICK i \in 1 .. n : Charged(s[i], d)
      BY <1>2, <3>1 DEF Parts
    <3> QED
      BY <1>2, <1>6, <3>2
  <2>3. CASE Broadcast(big) < d.first
    <3>1. LiesIn(d, Broadcast(big) + 1, hi)
      BY <1>3, <2>1, <2>3 DEF LiesIn
    <3>2. PICK i \in 1 .. m : Charged(t[i], d)
      BY <1>2, <3>1 DEF Parts
    <3> QED
      BY <1>2, <1>6, <3>2
  <2>4. CASE big.first <= Broadcast(d) /\ d.first <= Broadcast(big)
    <3>1. CoversEq(big, d) \/ CoversEq(d, big)
      <4>1. CASE big.len <= d.len
        BY <2>4, <4>1, OverlapIsNested
      <4>2. CASE d.len <= big.len
        BY <2>4, <4>2, OverlapIsNested
      <4> QED
        BY <2>1, <4>1, <4>2
    <3>2. Charged(big, d)
      BY <1>10, <3>1 DEF Overlap
    <3> QED
      BY <1>2, <1>6, <3>2
  <2> QED
    BY <1>3, <2>1, <2>2, <2>3, <2>4
<1>11. Parts(u, lo, hi)
  BY <1>2, <1>7, <1>8, <1>9, <1>10 DEF Parts
<1> QED
  BY <1>0, <1>11

\* iprange2cidr cuts every range into such parts.
LEMMA RangesAreCut ==
  ASSUME NEW r \in Ranges
  PROVE  Parts(IpRange2Cidr(r), r.lo, r.hi)
<1>1. PICK f : Cuts(f) /\ \A q : IpRange2Cidr(q) = f[q]
  BY IpRange2CidrIs
<1> DEFINE N == {n \in 0 .. Beyond : \A q \in Ranges : q.hi - q.lo < n => Parts(f[q], q.lo, q.hi)}
<1>2. Beyond \in Nat
  BY WholeSpace
<1>3. ASSUME NEW q \in Ranges, q.lo > q.hi PROVE Parts(f[q], q.lo, q.hi)
  <2>1. f[q] = <<>>
    BY <1>1, <1>3, NextCutIs DEF Cuts
  <2>2. \A d \in Cidr : ~ LiesIn(d, q.lo, q.hi)
    <3> SUFFICES ASSUME NEW d \in Cidr, LiesIn(d, q.lo, q.hi) PROVE FALSE
      OBVIOUS
    <3>1. /\ d.first \in Nat /\ Broadcast(d) \in Int /\ d.first <= Broadcast(d)
          /\ q.lo <= d.first /\ Broadcast(d) <= q.hi /\ q.lo \in Int /\ q.hi \in Int
      BY CidrIsAligned, BroadcastOf, RangeIs DEF LiesIn
    <3> QED
      BY <1>3, <3>1
  <2>3. <<>> \in Seq(Cidr) /\ 1 .. Len(<<>>) = {} /\ q.lo .. q.hi = {}
    BY <1>3, RangeIs
  <2>4. Parts(<<>>, q.lo, q.hi)
    BY <2>2, <2>3 DEF Parts
  <2> QED
    BY <2>1, <2>4
<1>4. 0 \in N
  <2>1. ASSUME NEW q \in Ranges, q.hi - q.lo < 0 PROVE Parts(f[q], q.lo, q.hi)
    <3>1. q.lo > q.hi
      BY <2>1, RangeIs
    <3> QED
      BY <1>3, <3>1
  <2> QED
    BY <1>2, <2>1
<1>5. ASSUME NEW n \in 0 .. Beyond, n \in N, n < Beyond PROVE n + 1 \in N
  <2>1. ASSUME NEW q \in Ranges, q.hi - q.lo < n + 1 PROVE Parts(f[q], q.lo, q.hi)
    <3>0. q.lo \in Nat /\ q.hi \in Int
      BY RangeIs
    <3>1. f[q] = NextCut(f, q)
      BY <1>1 DEF Cuts
    <3>2. CASE ~ (q.lo > q.hi) /\ IsBlock(q)
      <4> DEFINE c == CHOOSE c \in Cidr : Addresses(c) = q.lo .. q.hi
      <4>1. f[q] = <<c>>
        BY <3>1, <3>2, NextCutIs
      <4>2. c \in Cidr /\ Addresses(c) = q.lo .. q.hi
        BY <3>2 DEF IsBlock
      <4> HIDE DEF c
      <4>3. Parts(<<c>>, q.lo, q.hi)
        BY <3>0, <3>2, <4>2, BlockIsParts
      <4> QED
        BY <4>1, <4>3
    <3>3. CASE ~ (q.lo > q.hi) /\ ~ IsBlock(q)
      <4>1. PICK big : big = BigPrefix(q.lo, q.hi)
        OBVIOUS
      <4>2. /\ big \in Cidr /\ LiesIn(big, q.lo, q.hi)
            /\ \A d \in Cidr : LiesIn(d, q.lo, q.hi) /\ Overlap(big, d) => Charged(big, d)
            /\ Before(q) \in Ranges /\ Before(q).hi - Before(q).lo < q.hi - q.lo
            /\ Before(q).lo = q.lo /\ Before(q).hi = big.first - 1
            /\ After(q) \in Ranges /\ After(q).hi - After(q).lo < q.hi - q.lo
            /\ After(q).lo = Broadcast(big) + 1 /\ After(q).hi = q.hi
        BY <3>3, <4>1, RangeSplits
      <4>3. f[q] = f[Before(q)] \o <<big>> \o f[After(q)]
        BY <3>1, <3>3, <4>1, NextCutIs
      <4>4. Before(q).hi - Before(q).lo < n /\ After(q).hi - After(q).lo < n
        <5>1. /\ Before(q).lo \in Int /\ Before(q).hi \in Int
              /\ After(q).lo \in Int /\ After(q).hi \in Int
          BY <4>2, RangeIs
        <5> QED
          BY <2>1, <3>0, <4>2, <5>1
      <4>5. /\ Parts(f[Before(q)], Before(q).lo, Before(q).hi)
            /\ Parts(f[After(q)], After(q).lo, After(q).hi)
        BY <1>5, <4>2, <4>4
      <4>6. /\ Parts(f[Before(q)], q.lo, big.first - 1)
            /\ Parts(f[After(q)], Broadcast(big) + 1, q.hi)
        BY <4>2, <4>5
      <4>7. Parts(f[Before(q)] \o <<big>> \o f[After(q)], q.lo, q.hi)
        BY <3>0, <4>2, <4>6, JoinedParts
      <4> QED
        BY <4>3, <4>7
    <3> QED
      BY <1>3, <3>2, <3>3
  <2>2. n + 1 \in 0 .. Beyond
    BY <1>2, <1>5
  <2> QED
    BY <2>1, <2>2
<1>6. Beyond \in N
  <2> HIDE DEF N
  <2>1. 0 .. Beyond \subseteq N
    BY <1>2, <1>4, <1>5, UpTo
  <2> QED
    BY <1>2, <2>1
<1>7. r.hi - r.lo < Beyond
  BY RangeIs
<1>8. Parts(f[r], r.lo, r.hi)
  BY <1>6, <1>7
<1> QED
  BY <1>1, <1>8

-----------------------------------------------------------------------------
(* Folds of sequences, step by step.                                       *)

LEMMA MaxOf ==
  ASSUME NEW n \in Nat, NEW S \in SUBSET (1 .. n), S # {}
  PROVE  Max(S) \in S /\ \A k \in S : k <= Max(S)
<1> DEFINE R == {n - k : k \in S}
<1>1. R \in SUBSET Nat /\ R # {}
  <2>1. ASSUME NEW k \in S PROVE n - k \in Nat
    <3>1. k \in 1 .. n
      OBVIOUS
    <3> QED
      BY <3>1
  <2> QED
    BY <2>1
<1>2. PICK r \in R : \A q \in R : r <= q
  <2> HIDE DEF R
  <2> QED
    BY <1>1, LeastOf
<1>3. PICK m \in S : r = n - m
  OBVIOUS
<1>4. ASSUME NEW k \in S PROVE k <= m
  <2>1. n - k \in R /\ k \in Nat /\ m \in Nat
    OBVIOUS
  <2> HIDE DEF R
  <2>2. n - m <= n - k
    BY <1>2, <1>3, <2>1
  <2> QED
    BY <2>1, <2>2
<1>5. \E m0 \in S : \A k \in S : m0 >= k
  BY <1>4
<1> QED
  BY <1>5 DEF Max

LEMMA MaxOfAll ==
  ASSUME NEW k \in Nat
  PROVE  Max(1 .. k + 1) = k + 1 /\ (1 .. k + 1) \ {k + 1} = 1 .. k /\ 1 .. k + 1 # {}
<1>1. 1 .. k + 1 # {} /\ k + 1 \in 1 .. k + 1 /\ k + 1 \in Nat
  OBVIOUS
<1>2. Max(1 .. k + 1) \in 1 .. k + 1 /\ k + 1 <= Max(1 .. k + 1)
  BY <1>1, MaxOf
<1> QED
  BY <1>1, <1>2

\* What a fold computes of a set of positions, the last position last.
Folds(it, g, base, n) ==
  /\ it[{}] = base
  /\ \A s \in SUBSET (1 .. n) : s # {} => it[s] = g[<<Max(s), it[s \ {Max(s)}]>>]

LEMMA FoldsExist ==
  ASSUME NEW Acc, NEW base \in Acc, NEW n \in Nat, NEW g \in [(1 .. n) \X Acc -> Acc]
  PROVE  \E it \in [SUBSET (1 .. n) -> Acc] : Folds(it, g, base, n)
<1> DEFINE N == {m \in 0 .. n : \E it \in [SUBSET (1 .. m) -> Acc] : Folds(it, g, base, m)}
<1>1. 0 \in N
  <2> DEFINE it == [s \in SUBSET (1 .. 0) |-> base]
  <2>1. it \in [SUBSET (1 .. 0) -> Acc] /\ Folds(it, g, base, 0)
    <3>1. SUBSET (1 .. 0) = {{}}
      OBVIOUS
    <3> QED
      BY <3>1 DEF Folds
  <2> QED
    BY <2>1
<1>2. ASSUME NEW m \in 0 .. n, m \in N, m < n PROVE m + 1 \in N
  <2>1. PICK it \in [SUBSET (1 .. m) -> Acc] : Folds(it, g, base, m)
    BY <1>2
  <2>2. m \in Nat /\ m + 1 \in 1 .. n /\ m + 1 \in 0 .. n
    BY <1>2
  <2> DEFINE h == [s \in SUBSET (1 .. m + 1) |->
                     IF m + 1 \in s THEN g[<<m + 1, it[s \ {m + 1}]>>] ELSE it[s]]
  <2>3. ASSUME NEW s \in SUBSET (1 .. m + 1), m + 1 \in s
        PROVE  /\ s \ {m + 1} \in SUBSET (1 .. m) /\ s \ {m + 1} \in SUBSET (1 .. m + 1)
               /\ h[s] = g[<<m + 1, it[s \ {m + 1}]>>] /\ Max(s) = m + 1
               /\ h[s \ {m + 1}] = it[s \ {m + 1}] /\ h[s] \in Acc
    <3>1. s \ {m + 1} \in SUBSET (1 .. m) /\ s \ {m + 1} \in SUBSET (1 .. m + 1)
      BY <2>2
    <3>2. Max(s) \in s /\ \A k \in s : k <= Max(s)
      <4>1. m + 1 \in Nat /\ s # {}
        BY <2>2, <2>3
      <4> QED
        BY <4>1, MaxOf
    <3>3. Max(s) = m + 1
      <4>1. PICK z \in 1 .. m + 1 : z = Max(s)
        BY <3>2
      <4>2. m + 1 <= z
        BY <2>3, <3>2, <4>1
      <4> QED
        BY <2>2, <4>1, <4>2
    <3>4. it[s \ {m + 1}] \in Acc
      BY <3>1
    <3>5. g[<<m + 1, it[s \ {m + 1}]>>] \in Acc
      BY <2>2, <3>4
    <3> QED
      BY <2>3, <3>1, <3>3, <3>5
  <2>4. ASSUME NEW s \in SUBSET (1 .. m + 1), m + 1 \notin s
        PROVE  s \in SUBSET (1 .. m) /\ h[s] = it[s] /\ h[s] \in Acc
    <3>1. s \in SUBSET (1 .. m)
      BY <2>2, <2>4
    <3> QED
      BY <2>4, <3>1
  <2>5. h \in [SUBSET (1 .. m + 1) -> Acc]
    <3>1. h = [s \in SUBSET (1 .. m + 1) |-> h[s]]
      OBVIOUS
    <3> HIDE DEF h
    <3>2. \A s \in SUBSET (1 .. m + 1) : h[s] \in Acc
      BY <2>3, <2>4
    <3> QED
      BY <3>1, <3>2
  <2>6. Folds(h, g, base, m + 1)
    <3> HIDE DEF h
    <3>1. h[{}] = base
      <4>1. {} \in SUBSET (1 .. m + 1) /\ m + 1 \notin {}
        OBVIOUS
      <4>2. h[{}] = it[{}]
        BY <2>4, <4>1
      <4> QED
        BY <2>1, <4>2 DEF Folds
    <3>2. ASSUME NEW s \in SUBSET (1 .. m + 1), s # {}
          PROVE  h[s] = g[<<Max(s), h[s \ {Max(s)}]>>]
      <4>1. CASE m + 1 \in s
        BY <2>3, <4>1
      <4>2. CASE m + 1 \notin s
        <5>1. s \in SUBSET (1 .. m) /\ h[s] = it[s]
          BY <2>4, <4>2
        <5>2. it[s] = g[<<Max(s), it[s \ {Max(s)}]>>]
          BY <2>1, <3>2, <5>1 DEF Folds
        <5>3. s \ {Max(s)} \in SUBSET (1 .. m + 1) /\ m + 1 \notin s \ {Max(s)}
          BY <4>2
        <5>4. h[s \ {Max(s)}] = it[s \ {Max(s)}]
          BY <2>4, <5>3
        <5> QED
          BY <5>1, <5>2, <5>4
      <4> QED
        BY <4>1, <4>2
    <3> QED
      BY <3>1, <3>2 DEF Folds
  <2> HIDE DEF h
  <2> QED
    BY <2>2, <2>5, <2>6
<1>3. n \in N
  <2> HIDE DEF N
  <2>1. 0 .. n \subseteq N
    BY <1>1, <1>2, UpTo
  <2> QED
    BY <2>1
<1> QED
  BY <1>3

IntRange == [lo : Int, hi : Int]
PassState == [ranges : Seq(IntRange), last : Int]

LEMMA PassIsOne ==
  ASSUME NEW p \in Cidr, NEW acc \in PassState, NEW c \in Cidr
  PROVE  Pass(p, acc, c) \in PassState
<1>1. /\ acc.ranges \in Seq(IntRange) /\ acc.last \in Int /\ c.first \in Int
      /\ Broadcast(c) \in Int
  BY CidrIsAligned, BroadcastOf DEF PassState
<1>2. LastUsed(p, c) \in Int
  BY <1>1 DEF LastUsed
<1>3. IpRange(acc.last, c.first - 1) \in IntRange
  BY <1>1 DEF IpRange, IntRange
<1>4. Append(acc.ranges, IpRange(acc.last, c.first - 1)) \in Seq(IntRange)
  BY <1>1, <1>3
<1> QED
  BY <1>1, <1>2, <1>4 DEF Pass, PassState

\* find_free_ranges goes through the children one by one.
LEMMA ChildrenFolded ==
  ASSUME NEW p \in Cidr, NEW seq \in Seq(Cidr)
  PROVE  \E h : /\ h[0] = [ranges |-> <<>>, last |-> p.first]
                /\ \A k \in 0 .. Len(seq) - 1 : h[k + 1] = Pass(p, h[k], seq[k + 1])
                /\ FoldLeft(LAMBDA acc, c : Pass(p, acc, c),
                            [ranges |-> <<>>, last |-> p.first], seq) = h[Len(seq)]
<1> DEFINE n == Len(seq)
           base == [ranges |-> <<>>, last |-> p.first]
           g == [x \in (1 .. n) \X PassState |-> Pass(p, x[2], seq[x[1]])]
           IsFold(f) == f = [s \in SUBSET (1 .. n) |->
                               IF s = {} THEN base
                               ELSE Pass(p, f[s \ {Max(s)}], seq[Max(s)])]
           fold == CHOOSE f : IsFold(f)
<1>1. n \in Nat /\ DOMAIN seq = 1 .. n /\ \A k \in 1 .. n : seq[k] \in Cidr
  OBVIOUS
<1>2. base \in PassState
  BY CidrIsAligned DEF PassState
<1>3. g \in [(1 .. n) \X PassState -> PassState]
  BY <1>1, PassIsOne
<1>4. \E f : IsFold(f)
  <2>1. PICK it \in [SUBSET (1 .. n) -> PassState] : Folds(it, g, base, n)
    <3> HIDE DEF g, base, n
    <3> QED
      BY <1>1, <1>2, <1>3, FoldsExist
  <2>2. ASSUME NEW s \in SUBSET (1 .. n), s # {}
        PROVE  it[s] = Pass(p, it[s \ {Max(s)}], seq[Max(s)])
    <3>1. Max(s) \in 1 .. n
      BY <1>1, <2>2, MaxOf
    <3>2. it[s \ {Max(s)}] \in PassState
      OBVIOUS
    <3>3. it[s] = g[<<Max(s), it[s \ {Max(s)}]>>]
      BY <2>1, <2>2 DEF Folds
    <3> QED
      BY <3>1, <3>2, <3>3
  <2>3. it[{}] = base
    BY <2>1 DEF Folds
  <2> HIDE DEF base, n
  <2>4. it = [s \in SUBSET (1 .. n) |->
                IF s = {} THEN base ELSE Pass(p, it[s \ {Max(s)}], seq[Max(s)])]
    BY <2>2, <2>3
  <2> QED
    BY <2>4
<1>5. IsFold(fold)
  <2> HIDE DEF IsFold
  <2> QED
    BY <1>4
<1>6. FoldLeft(LAMBDA acc, c : Pass(p, acc, c), base, seq) = fold[1 .. n]
  BY <1>1 DEF FoldLeft, MapThenFoldSet
<1> DEFINE h == [k \in 0 .. n |-> fold[1 .. k]]
<1>7. h[0] = base
  <2>1. 0 \in 0 .. n /\ 1 .. 0 = {} /\ {} \in SUBSET (1 .. n)
    BY <1>1
  <2> HIDE DEF fold, base, n
  <2>2. fold[{}] = base
    BY <1>5, <2>1
  <2> QED
    BY <2>1, <2>2
<1>8. ASSUME NEW k \in 0 .. n - 1 PROVE h[k + 1] = Pass(p, h[k], seq[k + 1])
  <2>1. k \in Nat /\ k \in 0 .. n /\ k + 1 \in 0 .. n /\ 1 .. k + 1 \in SUBSET (1 .. n)
    BY <1>1
  <2>2. Max(1 .. k + 1) = k + 1 /\ (1 .. k + 1) \ {k + 1} = 1 .. k /\ 1 .. k + 1 # {}
    BY <2>1, MaxOfAll
  <2> HIDE DEF fold, base, n
  <2>3. fold[1 .. k + 1] = Pass(p, fold[1 .. k], seq[k + 1])
    BY <1>5, <2>1, <2>2
  <2> QED
    BY <2>1, <2>3
<1>9. h[n] = fold[1 .. n]
  BY <1>1
<1> HIDE DEF h, fold
<1> QED
  BY <1>6, <1>7, <1>8, <1>9

\* cidr_count is added up block by block.
LEMMA CountFolded ==
  ASSUME NEW len \in 0 .. Width, NEW seq \in Seq(Cidr)
  PROVE  \E h : /\ h \in [0 .. Len(seq) -> Nat]
                /\ h[0] = 0
                /\ \A k \in 0 .. Len(seq) - 1 : h[k + 1] = CountCidr(h[k], seq[k + 1], len)
                /\ FoldLeft(LAMBDA n, c : CountCidr(n, c, len), 0, seq) = h[Len(seq)]
<1> DEFINE n == Len(seq)
           g == [x \in (1 .. n) \X Nat |-> CountCidr(x[2], seq[x[1]], len)]
           IsFold(f) == f = [s \in SUBSET (1 .. n) |->
                               IF s = {} THEN 0
                               ELSE CountCidr(f[s \ {Max(s)}], seq[Max(s)], len)]
           fold == CHOOSE f : IsFold(f)
<1>1. n \in Nat /\ DOMAIN seq = 1 .. n /\ \A k \in 1 .. n : seq[k] \in Cidr
  OBVIOUS
<1>2. ASSUME NEW m \in Nat, NEW c \in Cidr PROVE CountCidr(m, c, len) \in Nat
  <2>1. c.len \in 0 .. Width
    BY CidrIsAligned
  <2>2. CASE c.len <= len
    <3>1. len - c.len \in 0 .. Width
      BY <2>1, <2>2, WidthAssumption
    <3>2. 2 ^ (len - c.len) \in Nat
      BY <3>1, PowersArePositive
    <3> QED
      BY <2>2, <3>2 DEF CountCidr
  <2>3. CASE ~ (c.len <= len)
    BY <2>3 DEF CountCidr
  <2> QED
    BY <2>2, <2>3
<1>3. g \in [(1 .. n) \X Nat -> Nat]
  BY <1>1, <1>2
<1>4. \E f : IsFold(f)
  <2>1. PICK it \in [SUBSET (1 .. n) -> Nat] : Folds(it, g, 0, n)
    <3> HIDE DEF g, n
    <3> QED
      BY <1>1, <1>3, FoldsExist
  <2>2. ASSUME NEW s \in SUBSET (1 .. n), s # {}
        PROVE  it[s] = CountCidr(it[s \ {Max(s)}], seq[Max(s)], len)
    <3>1. Max(s) \in 1 .. n
      BY <1>1, <2>2, MaxOf
    <3>2. it[s \ {Max(s)}] \in Nat
      OBVIOUS
    <3>3. it[s] = g[<<Max(s), it[s \ {Max(s)}]>>]
      BY <2>1, <2>2 DEF Folds
    <3> QED
      BY <3>1, <3>2, <3>3
  <2>3. it[{}] = 0
    BY <2>1 DEF Folds
  <2> HIDE DEF n
  <2>4. it = [s \in SUBSET (1 .. n) |->
                IF s = {} THEN 0 ELSE CountCidr(it[s \ {Max(s)}], seq[Max(s)], len)]
    BY <2>2, <2>3
  <2> QED
    BY <2>4
<1>5. IsFold(fold)
  <2> HIDE DEF IsFold
  <2> QED
    BY <1>4
<1>6. FoldLeft(LAMBDA m, c : CountCidr(m, c, len), 0, seq) = fold[1 .. n]
  BY <1>1 DEF FoldLeft, MapThenFoldSet
<1> DEFINE h == [k \in 0 .. n |-> fold[1 .. k]]
<1>7. h[0] = 0
  <2>1. 0 \in 0 .. n /\ 1 .. 0 = {} /\ {} \in SUBSET (1 .. n)
    BY <1>1
  <2> HIDE DEF fold, n
  <2>2. fold[{}] = 0
    BY <1>5, <2>1
  <2> QED
    BY <2>1, <2>2
<1>8. ASSUME NEW k \in 0 .. n - 1 PROVE h[k + 1] = CountCidr(h[k], seq[k + 1], len)
  <2>1. k \in Nat /\ k \in 0 .. n /\ k + 1 \in 0 .. n /\ 1 .. k + 1 \in SUBSET (1 .. n)
    BY <1>1
  <2>2. Max(1 .. k + 1) = k + 1 /\ (1 .. k + 1) \ {k + 1} = 1 .. k /\ 1 .. k + 1 # {}
    BY <2>1, MaxOfAll
  <2> HIDE DEF fold, n
  <2>3. fold[1 .. k + 1] = CountCidr(fold[1 .. k], seq[k + 1], len)
    BY <1>5, <2>1, <2>2
  <2> QED
    BY <2>1, <2>3
<1>9. h[n] = fold[1 .. n]
  BY <1>1
<1>10. h \in [0 .. n -> Nat]
  <2>1. DOMAIN h = 0 .. n /\ h = [k \in 0 .. n |-> h[k]]
    OBVIOUS
  <2> DEFINE N == {k \in 0 .. n : h[k] \in Nat}
  <2>2. 0 \in N
    BY <1>1, <1>7
  <2>3. ASSUME NEW k \in 0 .. n, k \in N, k < n PROVE k + 1 \in N
    <3>1. k \in 0 .. n - 1 /\ k + 1 \in 1 .. n /\ k + 1 \in 0 .. n
      BY <1>1, <2>3
    <3>2. h[k] \in Nat /\ seq[k + 1] \in Cidr
      BY <1>1, <2>3, <3>1
    <3> HIDE DEF h
    <3>3. h[k + 1] = CountCidr(h[k], seq[k + 1], len)
      BY <1>8, <3>1
    <3>4. h[k + 1] \in Nat
      BY <1>2, <3>2, <3>3
    <3> QED
      BY <3>1, <3>4
  <2>4. 0 .. n \subseteq N
    <3> HIDE DEF N
    <3> QED
      BY <1>1, <2>2, <2>3, UpTo
  <2> HIDE DEF h
  <2> QED
    BY <2>1, <2>4
<1> HIDE DEF h, fold
<1> QED
  BY <1>6, <1>7, <1>8, <1>9, <1>10

\* F has the elements of the first m of seqs, each at a position of its own:
\* F[k] is element v[k] of the sequence u[k].
Flat(F, seqs, m, u, v) ==
  /\ \A k \in 1 .. Len(F) : /\ u[k] \in 1 .. m /\ v[k] \in 1 .. Len(seqs[u[k]])
                            /\ F[k] = seqs[u[k]][v[k]]
  /\ \A k, l \in 1 .. Len(F) : u[k] = u[l] /\ v[k] = v[l] => k = l
  /\ \A j \in 1 .. m : \A i \in 1 .. Len(seqs[j]) : \E k \in 1 .. Len(F) : u[k] = j /\ v[k] = i

LEMMA FlatStep ==
  ASSUME NEW S, NEW seqs \in Seq(Seq(S)), NEW m \in 1 .. Len(seqs) - 1,
         NEW F \in Seq(S), NEW u, NEW v, Flat(F, seqs, m, u, v)
  PROVE  /\ F \o seqs[m + 1] \in Seq(S)
         /\ \E u2, v2 : Flat(F \o seqs[m + 1], seqs, m + 1, u2, v2)
<1>1. m \in Nat /\ m + 1 \in 1 .. Len(seqs) /\ seqs[m + 1] \in Seq(S)
  <2>1. Len(seqs) \in Nat
    OBVIOUS
  <2>2. m \in Nat /\ m + 1 \in 1 .. Len(seqs)
    BY <2>1
  <2> QED
    BY <2>2
<1>2. PICK t \in Seq(S) : t = seqs[m + 1]
  BY <1>1
<1>3. PICK a \in Nat, b \in Nat : a = Len(F) /\ b = Len(t)
  OBVIOUS
<1>4. PICK G \in Seq(S) : G = F \o t
  <2>1. F \o t \in Seq(S)
    OBVIOUS
  <2> QED
    BY <2>1
<1>5. /\ Len(G) = a + b
      /\ \A k \in 1 .. a : G[k] = F[k]
      /\ \A i \in 1 .. b : G[a + i] = t[i]
  BY <1>3, <1>4
<1> DEFINE u2 == [k \in 1 .. a + b |-> IF k <= a THEN u[k] ELSE m + 1]
           v2 == [k \in 1 .. a + b |-> IF k <= a THEN v[k] ELSE k - a]
<1>6. /\ \A k \in 1 .. a : u2[k] = u[k] /\ v2[k] = v[k] /\ k \in 1 .. a + b
      /\ \A i \in 1 .. b : u2[a + i] = m + 1 /\ v2[a + i] = i /\ a + i \in 1 .. a + b
  OBVIOUS
<1>7. \A k \in 1 .. a + b : k \in 1 .. a \/ \E i \in 1 .. b : k = a + i
  <2> SUFFICES ASSUME NEW k \in 1 .. a + b, k \notin 1 .. a PROVE \E i \in 1 .. b : k = a + i
    OBVIOUS
  <2>1. k - a \in 1 .. b /\ k = a + (k - a)
    OBVIOUS
  <2> QED
    BY <2>1
<1>8. ASSUME NEW k \in 1 .. a
      PROVE  /\ u[k] \in 1 .. m /\ v[k] \in 1 .. Len(seqs[u[k]])
             /\ F[k] = seqs[u[k]][v[k]]
  BY <1>3 DEF Flat
<1>9. ASSUME NEW k \in 1 .. a, NEW l \in 1 .. a, u[k] = u[l], v[k] = v[l] PROVE k = l
  BY <1>3, <1>9 DEF Flat
<1>10. ASSUME NEW j \in 1 .. m, NEW i \in 1 .. Len(seqs[j])
       PROVE  \E k \in 1 .. a : u[k] = j /\ v[k] = i
  BY <1>3 DEF Flat
<1> HIDE DEF u2, v2
<1>11. ASSUME NEW k \in 1 .. a + b
       PROVE  /\ u2[k] \in 1 .. m + 1 /\ v2[k] \in 1 .. Len(seqs[u2[k]])
              /\ G[k] = seqs[u2[k]][v2[k]]
  <2>1. CASE k \in 1 .. a
    <3>1. u2[k] = u[k] /\ v2[k] = v[k] /\ G[k] = F[k]
      BY <1>5, <1>6, <2>1
    <3>2. u[k] \in 1 .. m + 1
      BY <1>1, <1>8, <2>1
    <3> QED
      BY <1>8, <2>1, <3>1, <3>2
  <2>2. CASE \E i \in 1 .. b : k = a + i
    <3>1. PICK i \in 1 .. b : k = a + i
      BY <2>2
    <3>2. u2[k] = m + 1 /\ v2[k] = i /\ G[k] = t[i]
      BY <1>5, <1>6, <3>1
    <3> QED
      BY <1>1, <1>2, <1>3, <3>2
  <2> QED
    BY <1>7, <2>1, <2>2
<1>12. ASSUME NEW k \in 1 .. a + b, NEW l \in 1 .. a + b, u2[k] = u2[l], v2[k] = v2[l]
       PROVE  k = l
  <2>1. ASSUME NEW z \in 1 .. a PROVE u2[z] # m + 1
    <3>1. u2[z] = u[z] /\ u[z] \in 1 .. m
      BY <1>6, <1>8
    <3> QED
      BY <1>1, <3>1
  <2>2. CASE k \in 1 .. a
    <3>1. l \in 1 .. a
      <4>1. u2[l] # m + 1
        BY <1>12, <2>1, <2>2
      <4>2. ~ \E i \in 1 .. b : l = a + i
        BY <1>6, <4>1
      <4> QED
        BY <1>7, <4>2
    <3> QED
      BY <1>6, <1>9, <1>12, <2>2, <3>1
  <2>3. CASE k \notin 1 .. a
    <3>1. PICK i \in 1 .. b : k = a + i
      BY <1>7, <2>3
    <3>2. l \notin 1 .. a
      BY <1>6, <1>12, <2>1, <3>1
    <3>3. PICK i2 \in 1 .. b : l = a + i2
      BY <1>7, <3>2
    <3> QED
      BY <1>6, <1>12, <3>1, <3>3
  <2> QED
    BY <2>2, <2>3
<1>13. ASSUME NEW j \in 1 .. m + 1, NEW i \in 1 .. Len(seqs[j])
       PROVE  \E k \in 1 .. a + b : u2[k] = j /\ v2[k] = i
  <2>1. CASE j \in 1 .. m
    <3>1. PICK k \in 1 .. a : u[k] = j /\ v[k] = i
      BY <1>10, <2>1
    <3> QED
      BY <1>6, <3>1
  <2>2. CASE j = m + 1
    <3>1. i \in 1 .. b
      BY <1>2, <1>3, <2>2
    <3> QED
      BY <1>6, <2>2, <3>1
  <2> QED
    BY <1>1, <2>1, <2>2
<1>14. Flat(G, seqs, m + 1, u2, v2)
  BY <1>5, <1>11, <1>12, <1>13 DEF Flat
<1> QED
  BY <1>2, <1>4, <1>14

LEMMA FlattenIs ==
  ASSUME NEW S, NEW seqs \in Seq(Seq(S))
  PROVE  /\ FlattenSeq(seqs) \in Seq(S)
         /\ \E u, v : Flat(FlattenSeq(seqs), seqs, Len(seqs), u, v)
<1> DEFINE n == Len(seqs)
           g == [x \in (1 .. n) \X Seq(S) |-> IF x[1] = 1 THEN seqs[x[1]] ELSE x[2] \o seqs[x[1]]]
           IsFlat(f) == f = [i \in 1 .. n |-> IF i = 1 THEN seqs[i] ELSE f[i - 1] \o seqs[i]]
           flatten == CHOOSE f : IsFlat(f)
<1>1. n \in Nat /\ \A k \in 1 .. n : seqs[k] \in Seq(S)
  OBVIOUS
<1>2. g \in [(1 .. n) \X Seq(S) -> Seq(S)]
  <2>1. ASSUME NEW k \in 1 .. n, NEW a \in Seq(S)
        PROVE  (IF k = 1 THEN seqs[k] ELSE a \o seqs[k]) \in Seq(S)
    <3>1. PICK t \in Seq(S) : t = seqs[k]
      BY <1>1
    <3>2. a \o t \in Seq(S)
      OBVIOUS
    <3> QED
      BY <3>1, <3>2
  <2> HIDE DEF n
  <2> QED
    BY <2>1
<1>3. \E f : IsFlat(f)
  <2>0. <<>> \in Seq(S)
    OBVIOUS
  <2>1. PICK it \in [SUBSET (1 .. n) -> Seq(S)] : Folds(it, g, <<>>, n)
    <3> HIDE DEF g, n
    <3> QED
      BY <1>1, <1>2, <2>0, FoldsExist
  <2> DEFINE f == [i \in 1 .. n |-> it[1 .. i]]
  <2>2. ASSUME NEW i \in 1 .. n
        PROVE  f[i] = IF i = 1 THEN seqs[i] ELSE f[i - 1] \o seqs[i]
    <3>1. PICK k \in Nat : i = k + 1
      <4>1. i - 1 \in Nat /\ i = (i - 1) + 1
        BY <1>1
      <4> QED
        BY <4>1
    <3>2. Max(1 .. i) = i /\ (1 .. i) \ {i} = 1 .. k /\ 1 .. i # {}
      BY <3>1, MaxOfAll
    <3>3. 1 .. i \in SUBSET (1 .. n) /\ 1 .. k \in SUBSET (1 .. n)
      BY <1>1, <3>1
    <3>4. it[1 .. i] = g[<<i, it[1 .. k]>>]
      BY <2>1, <3>2, <3>3 DEF Folds
    <3>5. it[1 .. k] \in Seq(S)
      BY <3>3
    <3>6. g[<<i, it[1 .. k]>>] = IF i = 1 THEN seqs[i] ELSE it[1 .. k] \o seqs[i]
      BY <3>5
    <3>7. i # 1 => i - 1 \in 1 .. n /\ i - 1 = k
      BY <1>1, <3>1
    <3> QED
      BY <3>4, <3>6, <3>7
  <2>3. f = [i \in 1 .. n |-> IF i = 1 THEN seqs[i] ELSE f[i - 1] \o seqs[i]]
    <3>1. f = [i \in 1 .. n |-> f[i]]
      OBVIOUS
    <3> HIDE DEF f, n
    <3> QED
      BY <2>2, <3>1
  <2> HIDE DEF f, n
  <2> QED
    BY <2>3
<1>4. IsFlat(flatten)
  <2> HIDE DEF IsFlat
  <2> QED
    BY <1>3
<1>5. CASE n = 0
  <2>1. FlattenSeq(seqs) = <<>>
    BY <1>5 DEF FlattenSeq
  <2>2. <<>> \in Seq(S) /\ Len(<<>>) = 0
    OBVIOUS
  <2>3. \A F, u, v : Len(F) = 0 => Flat(F, seqs, 0, u, v)
    BY DEF Flat
  <2> QED
    BY <1>5, <2>1, <2>2, <2>3
<1>6. CASE n # 0
  <2>1. FlattenSeq(seqs) = flatten[n]
    BY <1>6 DEF FlattenSeq
  <2> DEFINE N == {m \in 0 .. n : m # 0 => /\ flatten[m] \in Seq(S)
                                           /\ \E u, v : Flat(flatten[m], seqs, m, u, v)}
  <2>2. 0 \in N
    BY <1>1
  <2>3. ASSUME NEW m \in 0 .. n, m \in N, m < n PROVE m + 1 \in N
    <3>1. m \in Nat /\ m + 1 \in 1 .. n /\ m + 1 \in 0 .. n
      BY <1>1, <2>3
    <3>2. CASE m = 0
      <4>1. flatten[1] = seqs[1]
        <5>1. 1 \in 1 .. n
          BY <3>1, <3>2
        <5> HIDE DEF flatten, n
        <5> QED
          BY <1>4, <5>1
      <4>2. PICK t \in Seq(S) : t = seqs[1]
        BY <1>1, <3>1, <3>2
      <4> DEFINE u == [k \in 1 .. Len(t) |-> 1]
                 v == [k \in 1 .. Len(t) |-> k]
      <4>3. \A k \in 1 .. Len(t) : u[k] = 1 /\ v[k] = k
        OBVIOUS
      <4>4. 1 .. 1 = {1}
        OBVIOUS
      <4>5. Flat(t, seqs, 1, u, v)
        <5> HIDE DEF u, v
        <5> QED
          BY <4>2, <4>3, <4>4 DEF Flat
      <4> HIDE DEF flatten, n, u, v
      <4> QED
        BY <3>1, <3>2, <4>1, <4>2, <4>5
    <3>3. CASE m # 0
      <4>1. m \in 1 .. n - 1
        BY <1>1, <2>3, <3>3
      <4>2. flatten[m + 1] = flatten[m] \o seqs[m + 1]
        <5>1. m + 1 \in 1 .. n /\ m + 1 # 1 /\ (m + 1) - 1 = m
          BY <3>1, <3>3
        <5> HIDE DEF flatten, n
        <5> QED
          BY <1>4, <5>1
      <4>3. PICK F \in Seq(S) : F = flatten[m]
        BY <2>3, <3>3
      <4>4. PICK u, v : Flat(F, seqs, m, u, v)
        BY <2>3, <3>3, <4>3
      <4>5. /\ F \o seqs[m + 1] \in Seq(S)
            /\ \E u2, v2 : Flat(F \o seqs[m + 1], seqs, m + 1, u2, v2)
        BY <4>1, <4>4, FlatStep
      <4> HIDE DEF flatten, n
      <4> QED
        BY <3>1, <4>2, <4>3, <4>5
    <3> QED
      BY <3>2, <3>3
  <2>4. 0 .. n \subseteq N
    <3> HIDE DEF N
    <3> QED
      BY <1>1, <2>2, <2>3, UpTo
  <2>5. n \in N
    <3> HIDE DEF N
    <3> QED
      BY <1>1, <2>4
  <2> QED
    BY <1>6, <2>1, <2>5
<1> QED
  BY <1>5, <1>6

-----------------------------------------------------------------------------
(* The direct children of a row, in order.                                 *)

\* ORDER BY prefix of prefixes that start at different addresses.
LEMMA InOrderIs ==
  ASSUME NEW S \in SUBSET Cidr, IsFiniteSet(S),
         \A c, d \in S : c.first = d.first => c = d
  PROVE  /\ InOrder(S) \in Seq(S)
         /\ \A c \in S : \E k \in 1 .. Len(InOrder(S)) : InOrder(S)[k] = c
         /\ \A j, k \in 1 .. Len(InOrder(S)) :
              j < k => InOrder(S)[j].first < InOrder(S)[k].first
<1> DEFINE n == Cardinality(S)
           below(c) == {d \in S : d.first < c.first}
           rank == [c \in S |-> Cardinality(below(c))]
           s == InOrder(S)
<1>1. n \in Nat
  BY FS_CardinalityType
<1>2. \A c \in S : c.first \in Nat
  BY CidrIsAligned
<1>3. ASSUME NEW c \in S
      PROVE  IsFiniteSet(below(c)) /\ rank[c] \in 0 .. n - 1 /\ rank[c] \in Int
  <2>1. below(c) \in SUBSET S /\ c \notin below(c)
    BY <1>2
  <2>2. below(c) # S
    BY <2>1
  <2> DEFINE B == below(c)
  <2>3. IsFiniteSet(B) /\ Cardinality(B) <= n /\ Cardinality(B) # n
    <3> HIDE DEF B
    <3> QED
      BY <2>1, <2>2, FS_Subset DEF B
  <2>4. Cardinality(B) \in Nat
    BY <2>3, FS_CardinalityType
  <2>5. rank[c] = Cardinality(B)
    OBVIOUS
  <2> HIDE DEF B, n, rank
  <2>6. rank[c] \in 0 .. n - 1 /\ rank[c] \in Int
    BY <1>1, <2>3, <2>4, <2>5
  <2> QED
    BY <2>3, <2>6 DEF B
<1>4. ASSUME NEW c \in S, NEW d \in S, c.first < d.first
      PROVE  rank[c] < rank[d]
  <2>1. below(c) \in SUBSET below(d) /\ c \in below(d) /\ c \notin below(c)
    BY <1>2, <1>4
  <2> DEFINE B == below(c)
             D == below(d)
  <2>2. B \in SUBSET D /\ B # D
    BY <2>1
  <2>3. IsFiniteSet(D)
    BY <1>3
  <2>4. rank[c] = Cardinality(B) /\ rank[d] = Cardinality(D)
    OBVIOUS
  <2>5. rank[c] \in Int /\ rank[d] \in Int
    BY <1>3
  <2> HIDE DEF B, D, rank
  <2>6. Cardinality(B) <= Cardinality(D) /\ Cardinality(D) # Cardinality(B)
    BY <2>2, <2>3, FS_Subset
  <2> QED
    BY <2>4, <2>5, <2>6
<1> HIDE DEF below
<1>5. \A c, d \in S : rank[c] = rank[d] => c = d
  <2> SUFFICES ASSUME NEW c \in S, NEW d \in S, rank[c] = rank[d] PROVE c = d
    OBVIOUS
  <2>1. rank[c] \in Int /\ rank[d] \in Int
    BY <1>1, <1>3
  <2>2. ~ (c.first < d.first) /\ ~ (d.first < c.first)
    <3> HIDE DEF rank
    <3> QED
      BY <1>4, <2>1
  <2> QED
    BY <1>2, <2>2
<1>6. rank \in Surjection(S, 0 .. n - 1)
  <2>1. rank \in [S -> 0 .. n - 1]
    BY <1>3
  <2>2. rank \in Injection(S, 0 .. n - 1)
    <3> HIDE DEF rank, n
    <3> QED
      BY <1>5, <2>1 DEF Injection, IsInjective
  <2>3. IsFiniteSet(0 .. n - 1) /\ Cardinality(0 .. n - 1) = n
    <3>1. /\ IsFiniteSet(0 .. n - 1)
          /\ Cardinality(0 .. n - 1) = IF 0 > n - 1 THEN 0 ELSE (n - 1) - 0 + 1
      BY <1>1, FS_Interval
    <3> QED
      BY <1>1, <3>1
  <2> DEFINE R == 0 .. n - 1
  <2>4. Cardinality(S) = Cardinality(R) <=> rank \in Surjection(S, R)
    <3>1. rank \in Injection(S, R) /\ IsFiniteSet(R)
      BY <2>2, <2>3
    <3> HIDE DEF R, rank
    <3> QED
      BY <3>1, FS_Injection
  <2> QED
    BY <2>3, <2>4
<1>7. ASSUME NEW k \in 1 .. n
      PROVE  s[k] \in S /\ rank[s[k]] = k - 1
  <2>1. k - 1 \in 0 .. n - 1
    BY <1>1
  <2>2. PICK c \in S : rank[c] = k - 1
    <3> HIDE DEF rank, n
    <3> QED
      BY <1>6, <2>1 DEF Surjection
  <2>3. \E d \in S : Cardinality({e \in S : e.first < d.first}) = k - 1
    BY <2>2 DEF below
  <2>4. s[k] = CHOOSE d \in S : Cardinality({e \in S : e.first < d.first}) = k - 1
    BY DEF InOrder
  <2>5. s[k] \in S /\ Cardinality({e \in S : e.first < s[k].first}) = k - 1
    <3> HIDE DEF s
    <3> QED
      BY <2>3, <2>4
  <2> HIDE DEF s
  <2> QED
    BY <2>5 DEF below
<1>8. s = [k \in 1 .. n |-> s[k]] /\ DOMAIN s = 1 .. n
  <2>1. \E f : s = [k \in 1 .. n |-> f[k]]
    <3> DEFINE at(k) == CHOOSE c \in S : Cardinality({d \in S : d.first < c.first}) = k - 1
               f == [k \in 1 .. n |-> at(k)]
    <3>1. s = f
      BY DEF InOrder
    <3> HIDE DEF at
    <3>2. f = [k \in 1 .. n |-> f[k]]
      OBVIOUS
    <3> HIDE DEF s, f
    <3> QED
      BY <3>1, <3>2
  <2> HIDE DEF s, n
  <2> QED
    BY <2>1
<1> HIDE DEF s, rank, n
<1>9. s \in Seq(S) /\ Len(s) = n
  BY <1>1, <1>7, <1>8
<1>10. ASSUME NEW c \in S PROVE \E k \in 1 .. n : s[k] = c
  <2>1. PICK k \in 1 .. n : rank[c] = k - 1
    <3>1. rank[c] + 1 \in 1 .. n /\ rank[c] = (rank[c] + 1) - 1
      BY <1>1, <1>3
    <3> QED
      BY <3>1
  <2> QED
    BY <1>5, <1>7, <2>1
<1>11. ASSUME NEW j \in 1 .. n, NEW k \in 1 .. n, j < k
       PROVE  s[j].first < s[k].first
  <2>1. s[j] \in S /\ s[k] \in S /\ rank[s[j]] = j - 1 /\ rank[s[k]] = k - 1
    BY <1>7
  <2>2. ~ (s[k].first < s[j].first)
    <3> SUFFICES ASSUME s[k].first < s[j].first PROVE FALSE
      OBVIOUS
    <3>1. rank[s[k]] < rank[s[j]]
      BY <1>4, <2>1
    <3> QED
      BY <1>11, <2>1, <3>1
  <2>3. s[k].first # s[j].first
    <3> SUFFICES ASSUME s[k].first = s[j].first PROVE FALSE
      OBVIOUS
    <3>1. s[k] = s[j]
      BY <2>1
    <3> QED
      BY <1>11, <2>1, <3>1
  <2> QED
    BY <1>2, <2>1, <2>2, <2>3
<1> QED
  BY <1>9, <1>10, <1>11 DEF s

LEMMA ChildrenAre ==
  ASSUME NEW T \in SUBSET Cidr, IsFiniteSet(T), NEW p \in Cidr
  PROVE  \E s : /\ s = DirectChildren(T, p) /\ s \in Seq(Cidr)
                /\ \A k \in 1 .. Len(s) : s[k] \in T /\ Covers(p, s[k])
                /\ \A j, k \in 1 .. Len(s) : j < k => Broadcast(s[j]) < s[k].first
                /\ \A r \in T : Covers(p, r) => \E k \in 1 .. Len(s) : CoversEq(s[k], r)
<1> DEFINE inside == {r \in T : Covers(p, r)}
           S == {r \in inside : ~ \E s \in inside : Covers(s, r)}
           s == InOrder(S)
<1>1. s = DirectChildren(T, p)
  BY DEF DirectChildren
<1>2. S \in SUBSET Cidr /\ S \in SUBSET T
  OBVIOUS
<1>3. IsFiniteSet(S)
  <2> HIDE DEF S
  <2> QED
    BY <1>2, FS_Subset
<1>4. ASSUME NEW c \in S, NEW d \in S, c.first <= Broadcast(d), d.first <= Broadcast(c)
      PROVE  c = d
  <2>1. c \in Cidr /\ d \in Cidr /\ c \in inside /\ d \in inside /\ ~ Covers(c, d) /\ ~ Covers(d, c)
    OBVIOUS
  <2>2. c.len \in Int /\ d.len \in Int
    BY <2>1, CidrIsAligned
  <2>3. CASE c.len <= d.len
    <3>1. CoversEq(c, d)
      BY <1>4, <2>1, <2>3, OverlapIsNested
    <3>2. c.len = d.len
      BY <2>1, <2>2, <2>3, <3>1 DEF Covers, CoversEq
    <3> QED
      BY <2>1, <3>1, <3>2, SameBlock
  <2>4. CASE d.len <= c.len
    <3>1. CoversEq(d, c)
      BY <1>4, <2>1, <2>4, OverlapIsNested
    <3>2. c.len = d.len
      BY <2>1, <2>2, <2>4, <3>1 DEF Covers, CoversEq
    <3> QED
      BY <2>1, <3>1, <3>2, SameBlock
  <2> QED
    BY <2>2, <2>3, <2>4
<1>5. \A c, d \in S : c.first = d.first => c = d
  <2> SUFFICES ASSUME NEW c \in S, NEW d \in S, c.first = d.first PROVE c = d
    OBVIOUS
  <2>1. c \in Cidr /\ d \in Cidr
    OBVIOUS
  <2>2. c.first <= Broadcast(d) /\ d.first <= Broadcast(c)
    BY <2>1, BroadcastOf
  <2> QED
    BY <1>4, <2>2
<1>6. /\ s \in Seq(S)
      /\ \A c \in S : \E k \in 1 .. Len(s) : s[k] = c
      /\ \A j, k \in 1 .. Len(s) : j < k => s[j].first < s[k].first
  <2> HIDE DEF S
  <2> QED
    BY <1>2, <1>3, <1>5, InOrderIs
<1>7. \A c \in S : c \in T /\ c \in Cidr /\ Covers(p, c)
  OBVIOUS
<1> HIDE DEF s
<1>8. /\ s \in Seq(Cidr)
      /\ \A k \in 1 .. Len(s) : s[k] \in S
  <2> HIDE DEF S
  <2>1. DOMAIN s = 1 .. Len(s)
    BY <1>6
  <2>2. \A k \in 1 .. Len(s) : s[k] \in S
    BY <1>6, <2>1, ElementOfSeq
  <2> QED
    BY <1>2, <1>6, <2>2
<1>9. ASSUME NEW j \in 1 .. Len(s), NEW k \in 1 .. Len(s), j < k
      PROVE  Broadcast(s[j]) < s[k].first
  <2>1. s[j] \in S /\ s[k] \in S /\ s[j].first < s[k].first
    BY <1>6, <1>8, <1>9
  <2>2. s[j] \in Cidr /\ s[k] \in Cidr
    BY <1>7, <2>1
  <2>3. /\ s[j].first \in Nat /\ s[k].first \in Nat /\ Broadcast(s[j]) \in Int
        /\ Broadcast(s[k]) \in Int /\ s[k].first <= Broadcast(s[k])
    BY <2>2, CidrIsAligned, BroadcastOf
  <2>4. ~ (s[k].first <= Broadcast(s[j]))
    <3> SUFFICES ASSUME s[k].first <= Broadcast(s[j]) PROVE FALSE
      OBVIOUS
    <3>1. s[j].first <= Broadcast(s[k])
      BY <2>1, <2>3
    <3>2. s[j] = s[k]
      <4> HIDE DEF S
      <4> QED
        BY <1>4, <2>1, <3>1
    <3> QED
      BY <2>1, <2>3, <3>2
  <2> QED
    BY <2>3, <2>4
<1>10. ASSUME NEW r \in T, Covers(p, r)
       PROVE  \E k \in 1 .. Len(s) : CoversEq(s[k], r)
  <2> DEFINE lens == {q.len : q \in {q \in inside : CoversEq(q, r)}}
  <2>1. r \in inside /\ CoversEq(r, r)
    <3>1. r \in Cidr
      OBVIOUS
    <3>2. r.first <= Broadcast(r) /\ r.first \in Int /\ Broadcast(r) \in Int /\ r.len \in Int
      BY <3>1, BroadcastOf, CidrIsAligned
    <3> QED
      BY <1>10, <3>2 DEF CoversEq, Addresses
  <2>2. lens \in SUBSET Nat /\ lens # {}
    <3>1. \A q \in Cidr : q.len \in Nat
      BY CidrIsAligned, WidthAssumption
    <3> QED
      BY <2>1, <3>1
  <2>3. PICK l \in lens : \A k \in lens : l <= k
    <3> HIDE DEF lens
    <3> QED
      BY <2>2, LeastOf
  <2>4. PICK c \in inside : CoversEq(c, r) /\ c.len = l
    OBVIOUS
  <2>5. c \in S
    <3> SUFFICES ASSUME NEW q \in inside, Covers(q, c) PROVE FALSE
      OBVIOUS
    <3>1. q \in Cidr /\ c \in Cidr /\ r \in Cidr
      OBVIOUS
    <3>2. CoversEq(q, c) /\ q.len < c.len /\ q.len \in Int /\ c.len \in Int
      <4>1. q.len \in Int /\ c.len \in Int
        BY <3>1, CidrIsAligned
      <4> QED
        BY <4>1 DEF Covers, CoversEq
    <3>3. /\ q.first <= c.first /\ c.first <= r.first
          /\ Broadcast(r) <= Broadcast(c) /\ Broadcast(c) <= Broadcast(q)
      BY <2>4, <3>1, <3>2, CoveredIsWithin
    <3>4. /\ q.first \in Int /\ c.first \in Int /\ r.first \in Int
          /\ Broadcast(r) \in Int /\ Broadcast(c) \in Int /\ Broadcast(q) \in Int
      BY <3>1, CidrIsAligned, BroadcastOf
    <3>5. q.first <= r.first /\ Broadcast(r) <= Broadcast(q)
      BY <3>3, <3>4
    <3>6. CoversEq(q, r)
      BY <3>1, <3>5, WithinIsCovered
    <3>7. q.len \in lens
      BY <3>6
    <3> HIDE DEF lens
    <3>8. l <= q.len
      BY <2>3, <3>7
    <3> QED
      BY <2>4, <3>2, <3>8
  <2>6. PICK k \in 1 .. Len(s) : s[k] = c
    <3> HIDE DEF S
    <3> QED
      BY <1>6, <2>5
  <2> QED
    BY <2>4, <2>6
<1>11. \A k \in 1 .. Len(s) : s[k] \in T /\ Covers(p, s[k])
  BY <1>7, <1>8
<1> HIDE DEF S
<1> QED
  BY <1>1, <1>8, <1>9, <1>10, <1>11

-----------------------------------------------------------------------------
(* find_free_ranges: the gaps between the children.                        *)

\* The addresses of p that no row of T within p has.
FreeOf(T, p) == Addresses(p) \ UNION {Addresses(r) : r \in {s \in T : Covers(p, s)}}

\* The ranges R are the addresses of F below e, each as large as can be: it
\* ends with b or before an address that is not one of F.
Gaps(R, F, b, e) ==
  /\ R \in Seq(IntRange)
  /\ \A i \in 1 .. Len(R) :
       /\ R[i].lo <= R[i].hi /\ R[i].hi < e
       /\ R[i].lo .. R[i].hi \subseteq F
       /\ R[i].hi = b \/ R[i].hi + 1 \notin F
  /\ \A i, j \in 1 .. Len(R) : i < j => R[i].hi < R[j].lo
  /\ \A x \in F : x < e => \E i \in 1 .. Len(R) : x \in R[i].lo .. R[i].hi

LEMMA GapsStay ==
  ASSUME NEW F \in SUBSET Int, NEW R, NEW b, NEW e \in Int, Gaps(R, F, b, e),
         NEW e2 \in Int, e <= e2, \A x \in F : ~ (e <= x /\ x < e2)
  PROVE  Gaps(R, F, b, e2)
<1>1. ASSUME NEW i \in 1 .. Len(R) PROVE R[i].hi < e2
  <2>1. R \in Seq(IntRange) /\ R[i].hi < e
    BY DEF Gaps
  <2>2. R[i] \in IntRange
    BY <2>1, ElementOfSeq
  <2>3. R[i].hi \in Int
    BY <2>2 DEF IntRange
  <2> QED
    BY <2>1, <2>3
<1>2. ASSUME NEW x \in F, x < e2 PROVE \E i \in 1 .. Len(R) : x \in R[i].lo .. R[i].hi
  <2>1. x < e
    BY <1>2
  <2> QED
    BY <2>1 DEF Gaps
<1> QED
  BY <1>1, <1>2 DEF Gaps

LEMMA GapsGrow ==
  ASSUME NEW F \in SUBSET Int, NEW R, NEW b, NEW e \in Int, Gaps(R, F, b, e),
         NEW r \in IntRange, r.lo = e, r.lo <= r.hi, r.lo .. r.hi \subseteq F,
         r.hi = b \/ r.hi + 1 \notin F,
         NEW e2 \in Int, r.hi < e2, \A x \in F : e <= x /\ x < e2 => x <= r.hi
  PROVE  Gaps(Append(R, r), F, b, e2)
<1>1. PICK n \in Nat : R \in Seq(IntRange) /\ n = Len(R)
  BY DEF Gaps
<1>2. PICK Q : Q = Append(R, r)
  OBVIOUS
<1>3. /\ Q \in Seq(IntRange) /\ Len(Q) = n + 1 /\ Q[n + 1] = r
      /\ \A i \in 1 .. n : Q[i] = R[i]
  BY <1>1, <1>2
<1>4. \A i \in 1 .. n + 1 : i \in 1 .. n \/ i = n + 1
  OBVIOUS
<1>5. \A i \in 1 .. n : i \in 1 .. n + 1
  OBVIOUS
<1>6. n + 1 \in 1 .. n + 1
  OBVIOUS
<1>7. r.lo \in Int /\ r.hi \in Int
  BY DEF IntRange
<1>8. ASSUME NEW i \in 1 .. n
      PROVE  /\ R[i].lo \in Int /\ R[i].hi \in Int
             /\ R[i].lo <= R[i].hi /\ R[i].hi < e
             /\ R[i].lo .. R[i].hi \subseteq F
             /\ R[i].hi = b \/ R[i].hi + 1 \notin F
  <2>1. R[i] \in IntRange
    BY <1>1, ElementOfSeq
  <2> QED
    BY <1>1, <2>1 DEF Gaps, IntRange
<1>9. ASSUME NEW i \in 1 .. n + 1
      PROVE  /\ Q[i].lo <= Q[i].hi /\ Q[i].hi < e2
             /\ Q[i].lo .. Q[i].hi \subseteq F
             /\ Q[i].hi = b \/ Q[i].hi + 1 \notin F
  <2>1. CASE i \in 1 .. n
    <3>1. Q[i] = R[i]
      BY <1>3, <2>1
    <3>2. R[i].hi < e2
      BY <1>7, <1>8, <2>1
    <3> QED
      BY <1>8, <2>1, <3>1, <3>2
  <2>2. CASE i = n + 1
    BY <1>3, <2>2
  <2> QED
    BY <1>4, <2>1, <2>2
<1>10. ASSUME NEW i \in 1 .. n + 1, NEW j \in 1 .. n + 1, i < j
       PROVE  Q[i].hi < Q[j].lo
  <2>1. i \in 1 .. n
    BY <1>10
  <2>2. CASE j \in 1 .. n
    <3>1. R[i].hi < R[j].lo
      BY <1>1, <1>10, <2>1, <2>2 DEF Gaps
    <3> QED
      BY <1>3, <2>1, <2>2, <3>1
  <2>3. CASE j = n + 1
    BY <1>3, <1>8, <2>1, <2>3
  <2> QED
    BY <1>4, <2>2, <2>3
<1>11. ASSUME NEW x \in F, x < e2
       PROVE  \E i \in 1 .. n + 1 : x \in Q[i].lo .. Q[i].hi
  <2>1. CASE x < e
    <3>1. PICK i \in 1 .. n : x \in R[i].lo .. R[i].hi
      BY <1>1, <2>1 DEF Gaps
    <3> QED
      BY <1>3, <1>5, <3>1
  <2>2. CASE e <= x
    <3>1. x \in r.lo .. r.hi
      BY <1>7, <1>11, <2>2
    <3> QED
      BY <1>3, <1>6, <3>1
  <2>3. x \in Int
    OBVIOUS
  <2> QED
    BY <2>1, <2>2, <2>3
<1>12. Gaps(Q, F, b, e2)
  BY <1>3, <1>9, <1>10, <1>11 DEF Gaps
<1> QED
  BY <1>2, <1>12

\* What is free between two children, and after the last one.
LEMMA FreeBetween ==
  ASSUME NEW T \in SUBSET Cidr, NEW p \in Cidr, NEW s \in Seq(Cidr),
         \A k \in 1 .. Len(s) : s[k] \in T /\ Covers(p, s[k]),
         \A r \in T : Covers(p, r) => \E k \in 1 .. Len(s) : CoversEq(s[k], r),
         NEW x \in Int
  PROVE  x \in FreeOf(T, p) <=>
           /\ p.first <= x /\ x <= Broadcast(p)
           /\ \A k \in 1 .. Len(s) : x < s[k].first \/ Broadcast(s[k]) < x
<1>1. p.first \in Int /\ Broadcast(p) \in Int
  BY CidrIsAligned, BroadcastOf
<1>2. ASSUME NEW k \in 1 .. Len(s)
      PROVE  s[k] \in Cidr /\ s[k].first \in Int /\ Broadcast(s[k]) \in Int
  <2>1. s[k] \in Cidr
    BY ElementOfSeq
  <2> QED
    BY <2>1, CidrIsAligned, BroadcastOf
<1>3. ASSUME x \in FreeOf(T, p)
      PROVE  /\ p.first <= x /\ x <= Broadcast(p)
             /\ \A k \in 1 .. Len(s) : x < s[k].first \/ Broadcast(s[k]) < x
  <2>1. p.first <= x /\ x <= Broadcast(p)
    BY <1>1, <1>3 DEF FreeOf, Addresses
  <2>2. ASSUME NEW k \in 1 .. Len(s) PROVE x < s[k].first \/ Broadcast(s[k]) < x
    <3>1. x \notin Addresses(s[k])
      BY <1>3 DEF FreeOf
    <3> QED
      BY <1>2, <3>1 DEF Addresses
  <2> QED
    BY <2>1, <2>2
<1>4. ASSUME p.first <= x, x <= Broadcast(p),
             \A k \in 1 .. Len(s) : x < s[k].first \/ Broadcast(s[k]) < x
      PROVE  x \in FreeOf(T, p)
  <2>1. x \in Addresses(p)
    BY <1>1, <1>4 DEF Addresses
  <2>2. ASSUME NEW r \in T, Covers(p, r), x \in Addresses(r) PROVE FALSE
    <3>1. PICK k \in 1 .. Len(s) : CoversEq(s[k], r)
      BY <2>2
    <3>2. s[k].first <= r.first /\ Broadcast(r) <= Broadcast(s[k])
      BY <1>2, <3>1, CoveredIsWithin
    <3>3. r.first \in Int /\ Broadcast(r) \in Int
      BY CidrIsAligned, BroadcastOf
    <3>4. r.first <= x /\ x <= Broadcast(r)
      BY <2>2, <3>3 DEF Addresses
    <3>5. ~ (x < s[k].first) /\ ~ (Broadcast(s[k]) < x)
      BY <1>2, <3>2, <3>3, <3>4
    <3> QED
      BY <1>4, <3>5
  <2> QED
    BY <2>1, <2>2 DEF FreeOf
<1> QED
  BY <1>3, <1>4

\* find_free_ranges of a row finds its free addresses, but for its last one
\* when that is free on its own.
LEMMA FreeRangesAre ==
  ASSUME NEW T \in SUBSET Cidr, IsFiniteSet(T), NEW p \in Cidr
  PROVE  LET R == FindFreeRanges(T, p)
         IN  Gaps(R, FreeOf(T, p), Broadcast(p), Broadcast(p) + 1)
             \/ Gaps(R, FreeOf(T, p), Broadcast(p), Broadcast(p))
<1> DEFINE F == FreeOf(T, p)
           base == [ranges |-> <<>>, last |-> p.first]
           b == Broadcast(p)
<1>1. PICK s : /\ s = DirectChildren(T, p) /\ s \in Seq(Cidr)
               /\ \A k \in 1 .. Len(s) : s[k] \in T /\ Covers(p, s[k])
               /\ \A j, k \in 1 .. Len(s) : j < k => Broadcast(s[j]) < s[k].first
               /\ \A r \in T : Covers(p, r) => \E k \in 1 .. Len(s) : CoversEq(s[k], r)
  BY ChildrenAre
<1>2. PICK h : /\ h[0] = base
               /\ \A k \in 0 .. Len(s) - 1 : h[k + 1] = Pass(p, h[k], s[k + 1])
               /\ FoldLeft(LAMBDA acc, c : Pass(p, acc, c), base, s) = h[Len(s)]
  BY <1>1, ChildrenFolded
<1>3. PICK n \in Nat : n = Len(s)
  BY <1>1
<1>4. p.first \in Int /\ b \in Int /\ p.first <= b
  BY CidrIsAligned, BroadcastOf
<1>5. ASSUME NEW k \in 1 .. n
      PROVE  /\ s[k] \in Cidr /\ s[k].first \in Int /\ Broadcast(s[k]) \in Int
             /\ s[k].first <= Broadcast(s[k])
             /\ p.first <= s[k].first /\ Broadcast(s[k]) <= b
  <2>1. s[k] \in Cidr /\ Covers(p, s[k])
    BY <1>1, <1>3, ElementOfSeq
  <2>2. p.len \in Int /\ s[k].len \in Int
    BY <2>1, CidrIsAligned
  <2>3. CoversEq(p, s[k])
    BY <2>1, <2>2 DEF Covers, CoversEq
  <2>4. p.first <= s[k].first /\ Broadcast(s[k]) <= b
    BY <2>1, <2>3, CoveredIsWithin
  <2> QED
    BY <2>1, <2>4, CidrIsAligned, BroadcastOf
<1>6. ASSUME NEW x \in Int
      PROVE  x \in F <=>
               /\ p.first <= x /\ x <= b
               /\ \A k \in 1 .. n : x < s[k].first \/ Broadcast(s[k]) < x
  BY <1>1, <1>3, FreeBetween
<1>7. F \in SUBSET Int
  BY <1>4 DEF FreeOf, Addresses
<1>8. \A j, k \in 1 .. n : j < k => Broadcast(s[j]) < s[k].first
  BY <1>1, <1>3
<1> DEFINE E == [k \in 0 .. n |-> IF k = 0 THEN p.first ELSE Broadcast(s[k]) + 1]
<1>9. /\ E[0] = p.first
      /\ \A k \in 1 .. n : E[k] = Broadcast(s[k]) + 1
      /\ \A k \in 0 .. n : E[k] \in Int /\ p.first <= E[k] /\ E[k] <= b + 1
  <2>1. E[0] = p.first
    OBVIOUS
  <2>2. ASSUME NEW k \in 1 .. n PROVE E[k] = Broadcast(s[k]) + 1
    OBVIOUS
  <2> HIDE DEF E
  <2>3. ASSUME NEW k \in 1 .. n PROVE E[k] \in Int /\ p.first <= E[k] /\ E[k] <= b + 1
    BY <1>4, <1>5, <2>2
  <2>4. \A k \in 0 .. n : k = 0 \/ k \in 1 .. n
    OBVIOUS
  <2>5. E[0] \in Int /\ p.first <= E[0] /\ E[0] <= b + 1
    BY <1>4, <2>1
  <2> QED
    BY <2>1, <2>2, <2>3, <2>4, <2>5
<1> HIDE DEF E, F, b
\* What the pass for the next child starts with.
<1>10. ASSUME NEW k \in 0 .. n - 1
       PROVE  /\ k \in 0 .. n /\ k + 1 \in 1 .. n /\ k + 1 \in 0 .. n
              /\ E[k] <= s[k + 1].first
              /\ \A i \in 1 .. n : i <= k => Broadcast(s[i]) < E[k]
              /\ \A i \in 1 .. n : i >= k + 1 => s[k + 1].first <= s[i].first
  <2>1. k \in 0 .. n /\ k + 1 \in 1 .. n /\ k + 1 \in 0 .. n /\ k \in Nat
    OBVIOUS
  <2>2. E[k] <= s[k + 1].first
    <3>1. CASE k = 0
      BY <1>5, <1>9, <2>1, <3>1
    <3>2. CASE k # 0
      <4>1. k \in 1 .. n /\ k < k + 1
        BY <3>2
      <4>2. Broadcast(s[k]) < s[k + 1].first
        BY <1>8, <2>1, <4>1
      <4> QED
        BY <1>5, <1>9, <2>1, <4>1, <4>2
    <3> QED
      BY <3>1, <3>2
  <2>3. ASSUME NEW i \in 1 .. n, i <= k PROVE Broadcast(s[i]) < E[k]
    <3>1. k \in 1 .. n
      BY <2>3
    <3>2. CASE i = k
      BY <1>5, <1>9, <3>1, <3>2
    <3>3. CASE i < k
      <4>1. Broadcast(s[i]) < s[k].first
        BY <1>8, <3>1, <3>3
      <4> QED
        BY <1>5, <1>9, <3>1, <4>1
    <3> QED
      BY <2>3, <3>2, <3>3
  <2>4. ASSUME NEW i \in 1 .. n, i >= k + 1 PROVE s[k + 1].first <= s[i].first
    <3>1. CASE i = k + 1
      BY <1>5, <3>1
    <3>2. CASE k + 1 < i
      <4>1. Broadcast(s[k + 1]) < s[i].first
        BY <1>8, <2>1, <3>2
      <4> QED
        BY <1>5, <2>1, <4>1
    <3> QED
      BY <2>4, <3>1, <3>2
  <2> QED
    BY <2>1, <2>2, <2>3, <2>4
\* last_used, but for a child that ends where p does.
<1>11. ASSUME NEW k \in 1 .. n
       PROVE  /\ LastUsed(p, s[k]) \in Int
              /\ Broadcast(s[k]) # b => LastUsed(p, s[k]) = E[k]
              /\ LastUsed(p, s[k]) < b => LastUsed(p, s[k]) = E[k]
              /\ LastUsed(p, s[k]) <= E[k]
  BY <1>5, <1>9 DEF LastUsed, b
<1> DEFINE Fits(k) == /\ Gaps(h[k].ranges, F, b, E[k])
                      /\ h[k].last = IF k = 0 THEN p.first ELSE LastUsed(p, s[k])
<1>12. Fits(0)
  <2>0. h[0] = base
    BY <1>2
  <2>1. h[0].ranges = <<>> /\ h[0].last = p.first
    BY <2>0
  <2>2. <<>> \in Seq(IntRange) /\ 1 .. Len(<<>>) = {}
    OBVIOUS
  <2>3. \A x \in F : ~ (x < E[0])
    BY <1>4, <1>6, <1>7, <1>9
  <2>4. Gaps(<<>>, F, b, E[0])
    BY <2>2, <2>3 DEF Gaps
  <2> QED
    BY <2>1, <2>4
<1>13. ASSUME NEW k \in 0 .. n - 1, Fits(k) PROVE Fits(k + 1)
  <2>1. PICK c : c = s[k + 1]
    OBVIOUS
  <2>2. /\ k \in 0 .. n /\ k + 1 \in 1 .. n /\ k + 1 \in 0 .. n /\ E[k] <= c.first
        /\ \A i \in 1 .. n : i <= k => Broadcast(s[i]) < E[k]
        /\ \A i \in 1 .. n : i >= k + 1 => c.first <= s[i].first
    BY <1>10, <2>1
  <2>3. /\ c.first \in Int /\ Broadcast(c) \in Int /\ c.first <= Broadcast(c)
        /\ Broadcast(c) <= b /\ p.first <= c.first
    BY <1>5, <2>1, <2>2
  <2>4. PICK e \in Int : e = E[k] /\ p.first <= e
    BY <1>9, <2>2
  <2>5. PICK e2 \in Int : e2 = E[k + 1] /\ e2 = Broadcast(c) + 1
    BY <1>9, <2>1, <2>2
  <2>6. h[k].last = e
    <3>1. CASE k = 0
      BY <1>9, <1>13, <2>4, <3>1
    <3>2. CASE k # 0
      <4>1. k \in 1 .. n
        BY <3>2
      <4>2. Broadcast(s[k]) < E[k]
        BY <2>2, <4>1
      <4>3. Broadcast(s[k]) # b
        BY <1>4, <1>5, <2>2, <2>3, <2>4, <4>1, <4>2
      <4>4. h[k].last = LastUsed(p, s[k])
        BY <1>13, <3>2
      <4> QED
        BY <1>11, <2>4, <4>1, <4>3, <4>4
    <3> QED
      BY <3>1, <3>2
  <2>7. h[k + 1] = Pass(p, h[k], c)
    BY <1>2, <1>3, <2>1
  <2>8. h[k + 1].last = IF k + 1 = 0 THEN p.first ELSE LastUsed(p, s[k + 1])
    BY <2>1, <2>2, <2>7 DEF Pass
  <2>9. ASSUME NEW x \in Int, e <= x, x < c.first PROVE x \in F
    <3>1. ASSUME NEW i \in 1 .. n PROVE x < s[i].first \/ Broadcast(s[i]) < x
      <4>1. CASE i <= k
        <5>1. Broadcast(s[i]) < e
          BY <2>2, <2>4, <4>1
        <5> QED
          BY <1>5, <2>9, <5>1
      <4>2. CASE i >= k + 1
        <5>1. c.first <= s[i].first
          BY <2>2, <4>2
        <5> QED
          BY <1>5, <2>3, <2>9, <5>1
      <4> QED
        BY <4>1, <4>2
    <3>2. p.first <= x /\ x <= b
      BY <1>4, <2>3, <2>4, <2>9
    <3> QED
      BY <1>6, <3>1, <3>2
  <2>10. \A x \in Int : c.first <= x /\ x <= Broadcast(c) => x \notin F
    <3> SUFFICES ASSUME NEW x \in Int, c.first <= x, x <= Broadcast(c) PROVE x \notin F
      OBVIOUS
    <3>1. ~ (x < c.first) /\ ~ (Broadcast(c) < x)
      BY <2>3
    <3> QED
      BY <1>6, <2>1, <2>2, <3>1
  <2>11. Gaps(h[k].ranges, F, b, e)
    BY <1>13, <2>4
  <2>12. CASE h[k].last < c.first
    <3> DEFINE r == IpRange(h[k].last, c.first - 1)
    <3>1. r \in IntRange /\ r.lo = e /\ r.hi = c.first - 1
      BY <2>3, <2>6 DEF IpRange, IntRange
    <3>2. h[k + 1].ranges = Append(h[k].ranges, r)
      BY <2>7, <2>12 DEF Pass
    <3> HIDE DEF r
    <3>3. r.lo <= r.hi /\ r.hi < e2 /\ r.hi + 1 = c.first /\ r.hi \in Int /\ r.lo \in Int
      BY <2>3, <2>5, <2>6, <2>12, <3>1
    <3>4. r.lo .. r.hi \subseteq F
      <4> SUFFICES ASSUME NEW x \in r.lo .. r.hi PROVE x \in F
        OBVIOUS
      <4>1. x \in Int /\ e <= x /\ x < c.first
        BY <2>3, <3>1, <3>3
      <4> QED
        BY <2>9, <4>1
    <3>5. r.hi + 1 \notin F
      BY <2>3, <2>10, <3>3
    <3>6. \A x \in F : e <= x /\ x < e2 => x <= r.hi
      <4> SUFFICES ASSUME NEW x \in F, e <= x, x < e2, ~ (x <= r.hi) PROVE FALSE
        OBVIOUS
      <4>1. x \in Int
        BY <1>7
      <4>2. c.first <= x /\ x <= Broadcast(c)
        BY <2>3, <2>5, <3>3, <4>1
      <4> QED
        BY <2>10, <4>1, <4>2
    <3>7. Gaps(Append(h[k].ranges, r), F, b, e2)
      BY <1>7, <2>11, <3>1, <3>3, <3>4, <3>5, <3>6, GapsGrow
    <3> QED
      BY <2>5, <2>8, <3>2, <3>7
  <2>13. CASE ~ (h[k].last < c.first)
    <3>1. h[k + 1].ranges = h[k].ranges
      BY <2>7, <2>13 DEF Pass
    <3>2. e = c.first
      BY <2>2, <2>3, <2>4, <2>6, <2>13
    <3>3. \A x \in F : ~ (e <= x /\ x < e2)
      <4> SUFFICES ASSUME NEW x \in F, e <= x, x < e2 PROVE FALSE
        OBVIOUS
      <4>1. x \in Int
        BY <1>7
      <4>2. c.first <= x /\ x <= Broadcast(c)
        BY <2>3, <2>5, <3>2, <4>1
      <4> QED
        BY <2>10, <4>1, <4>2
    <3>4. e <= e2
      BY <2>3, <2>5, <3>2
    <3>5. Gaps(h[k].ranges, F, b, e2)
      BY <1>7, <2>11, <3>3, <3>4, GapsStay
    <3> QED
      BY <2>5, <2>8, <3>1, <3>5
  <2> QED
    BY <2>12, <2>13
<1>14. Fits(n)
  <2> DEFINE N == {k \in 0 .. n : Fits(k)}
  <2>1. 0 \in N
    BY <1>12
  <2>2. ASSUME NEW k \in 0 .. n, k \in N, k < n PROVE k + 1 \in N
    <3>1. k \in 0 .. n - 1 /\ k + 1 \in 0 .. n
      BY <2>2
    <3> HIDE DEF Fits
    <3> QED
      BY <1>13, <2>2, <3>1
  <2>3. 0 .. n \subseteq N
    <3> HIDE DEF N
    <3> QED
      BY <2>1, <2>2, UpTo
  <2>4. n \in N
    <3> HIDE DEF N
    <3> QED
      BY <2>3
  <2> QED
    BY <2>4
<1>15. /\ E[n] \in Int /\ p.first <= E[n] /\ E[n] <= b + 1
       /\ h[n].last \in Int /\ h[n].last <= E[n] /\ (h[n].last < b => h[n].last = E[n])
       /\ \A i \in 1 .. n : Broadcast(s[i]) < E[n]
       /\ Gaps(h[n].ranges, F, b, E[n])
  <2>1. n \in 0 .. n /\ (n = 0 \/ n \in 1 .. n)
    OBVIOUS
  <2>2. E[n] \in Int /\ p.first <= E[n] /\ E[n] <= b + 1
    BY <1>9, <2>1
  <2>3. h[n].last \in Int /\ h[n].last <= E[n] /\ (h[n].last < b => h[n].last = E[n])
    <3>1. CASE n = 0
      BY <1>4, <1>9, <1>14, <3>1
    <3>2. CASE n # 0
      <4>1. h[n].last = LastUsed(p, s[n]) /\ n \in 1 .. n
        BY <1>14, <2>1, <3>2
      <4> QED
        BY <1>11, <4>1
    <3> QED
      BY <3>1, <3>2
  <2>4. ASSUME NEW i \in 1 .. n PROVE Broadcast(s[i]) < E[n]
    <3>1. n \in 1 .. n
      BY <2>1
    <3>2. CASE i = n
      BY <1>5, <1>9, <3>1, <3>2
    <3>3. CASE i # n
      <4>1. i < n
        BY <3>3
      <4>2. Broadcast(s[i]) < s[n].first
        BY <1>8, <3>1, <4>1
      <4> QED
        BY <1>5, <1>9, <3>1, <4>2
    <3> QED
      BY <3>2, <3>3
  <2> QED
    BY <1>14, <2>2, <2>3, <2>4
<1> DEFINE done == FoldLeft(LAMBDA acc, c : Pass(p, acc, c), base, s)
<1>16. done = h[n]
  BY <1>2, <1>3
<1>17. FindFreeRanges(T, p) = IF done.last < Broadcast(p)
                             THEN Append(done.ranges, IpRange(done.last, Broadcast(p)))
                             ELSE done.ranges
  BY <1>1 DEF FindFreeRanges
<1> HIDE DEF done
<1>18. FindFreeRanges(T, p) = IF h[n].last < b THEN Append(h[n].ranges, IpRange(h[n].last, b))
                             ELSE h[n].ranges
  BY <1>16, <1>17 DEF b
<1>19. CASE h[n].last < b
  <2> DEFINE r == IpRange(h[n].last, b)
  <2>1. r \in IntRange /\ r.lo = E[n] /\ r.hi = b
    BY <1>4, <1>15, <1>19 DEF IpRange, IntRange
  <2>2. FindFreeRanges(T, p) = Append(h[n].ranges, r)
    BY <1>18, <1>19
  <2> HIDE DEF r
  <2>3. r.lo .. r.hi \subseteq F
    <3> SUFFICES ASSUME NEW x \in r.lo .. r.hi PROVE x \in F
      OBVIOUS
    <3>1. x \in Int /\ E[n] <= x /\ x <= b
      BY <1>4, <1>15, <2>1
    <3>2. \A i \in 1 .. n : Broadcast(s[i]) < x
      BY <1>5, <1>15, <3>1
    <3>3. p.first <= x
      BY <1>4, <1>15, <3>1
    <3> QED
      BY <1>6, <3>1, <3>2, <3>3
  <2>4. r.lo <= r.hi /\ b + 1 \in Int /\ r.hi < b + 1
    BY <1>4, <1>15, <1>19, <2>1
  <2>5. \A x \in F : E[n] <= x /\ x < b + 1 => x <= r.hi
    BY <1>4, <1>7, <2>1
  <2>6. Gaps(Append(h[n].ranges, r), F, b, b + 1)
    BY <1>7, <1>15, <2>1, <2>3, <2>4, <2>5, GapsGrow
  <2> QED
    BY <2>2, <2>6 DEF F, b
<1>20. CASE ~ (h[n].last < b)
  <2>1. E[n] = b \/ E[n] = b + 1
    BY <1>4, <1>15, <1>20
  <2>2. FindFreeRanges(T, p) = h[n].ranges
    BY <1>18, <1>20
  <2> QED
    BY <1>15, <2>1, <2>2 DEF F, b
<1> QED
  BY <1>19, <1>20

-----------------------------------------------------------------------------
(* The blocks of the free ranges of a row.                                 *)

\* The prefixes s are the addresses F without overlap, b perhaps left out, and
\* every prefix of more than one address within F is charged.
Covering(s, F, b) ==
  /\ s \in Seq(Cidr)
  /\ \A k \in 1 .. Len(s) : Addresses(s[k]) \subseteq F
  /\ \A x \in F : x # b => \E k \in 1 .. Len(s) : x \in Addresses(s[k])
  /\ \A j, k \in 1 .. Len(s) : j # k => Disjoint(s[j], s[k])
  /\ \A d \in Cidr : d.len < Width /\ Addresses(d) \subseteq F
                       => \E k \in 1 .. Len(s) : Charged(s[k], d)

LEMMA GapsAreCovered ==
  ASSUME NEW F \in SUBSET Addr, NEW b \in Int, \A x \in F : x <= b,
         NEW e \in {b, b + 1}, NEW R, Gaps(R, F, b, e)
  PROVE  Covering(FlattenSeq([j \in DOMAIN R |-> IpRange2Cidr(R[j])]), F, b)
<1> DEFINE seqs == [j \in DOMAIN R |-> IpRange2Cidr(R[j])]
<1>1. PICK n \in Nat : n = Len(R) /\ DOMAIN R = 1 .. n /\ R \in Seq(IntRange)
  BY DEF Gaps
<1>2. F \in SUBSET Int /\ \A x \in F : 0 <= x /\ x < Beyond
  BY WholeSpace
<1>3. ASSUME NEW j \in 1 .. n
      PROVE  /\ R[j] \in Ranges /\ R[j].lo \in Int /\ R[j].hi \in Int
             /\ R[j].lo <= R[j].hi /\ R[j].hi < e
             /\ R[j].lo .. R[j].hi \subseteq F
             /\ R[j].hi = b \/ R[j].hi + 1 \notin F
             /\ Parts(IpRange2Cidr(R[j]), R[j].lo, R[j].hi)
             /\ seqs[j] = IpRange2Cidr(R[j]) /\ seqs[j] \in Seq(Cidr)
  <2>1. R[j] \in IntRange
    BY <1>1, ElementOfSeq
  <2>2. /\ R[j].lo <= R[j].hi /\ R[j].hi < e
        /\ R[j].lo .. R[j].hi \subseteq F
        /\ R[j].hi = b \/ R[j].hi + 1 \notin F
    BY <1>1 DEF Gaps
  <2>3. PICK lo \in Int, hi \in Int : lo = R[j].lo /\ hi = R[j].hi /\ R[j] = [lo |-> lo, hi |-> hi]
    BY <2>1 DEF IntRange
  <2>4. lo \in F /\ hi \in F
    BY <2>2, <2>3
  <2>5. lo \in 0 .. Beyond /\ hi \in -1 .. Beyond - 1
    BY <1>2, <2>4, WholeSpace
  <2>6. R[j] \in Ranges
    BY <2>3, <2>5 DEF Ranges
  <2>7. Parts(IpRange2Cidr(R[j]), R[j].lo, R[j].hi)
    BY <2>6, RangesAreCut
  <2>8. seqs[j] = IpRange2Cidr(R[j])
    BY <1>1
  <2>9. IpRange2Cidr(R[j]) \in Seq(Cidr)
    BY <2>7 DEF Parts
  <2> QED
    BY <2>2, <2>3, <2>6, <2>7, <2>8, <2>9
<1>4. seqs \in Seq(Seq(Cidr)) /\ Len(seqs) = n
  <2>1. DOMAIN seqs = 1 .. n /\ seqs = [j \in 1 .. n |-> seqs[j]]
    BY <1>1
  <2> HIDE DEF seqs
  <2> QED
    BY <1>3, <2>1
<1> HIDE DEF seqs
<1>5. PICK s : s = FlattenSeq(seqs)
  OBVIOUS
<1>6. s \in Seq(Cidr) /\ \E u, v : Flat(s, seqs, n, u, v)
  BY <1>4, <1>5, FlattenIs
<1>7. PICK u, v : Flat(s, seqs, n, u, v)
  BY <1>6
<1>8. PICK m \in Nat : m = Len(s)
  BY <1>6
<1>9. ASSUME NEW k \in 1 .. m
      PROVE  /\ u[k] \in 1 .. n /\ v[k] \in 1 .. Len(seqs[u[k]])
             /\ s[k] = seqs[u[k]][v[k]] /\ s[k] \in Cidr
             /\ LiesIn(s[k], R[u[k]].lo, R[u[k]].hi)
  <2>1. u[k] \in 1 .. n /\ v[k] \in 1 .. Len(seqs[u[k]]) /\ s[k] = seqs[u[k]][v[k]]
    BY <1>7, <1>8 DEF Flat
  <2>2. s[k] \in Cidr
    BY <1>6, <1>8, ElementOfSeq
  <2>3. PICK j \in 1 .. n : j = u[k]
    BY <2>1
  <2>4. Parts(seqs[j], R[j].lo, R[j].hi)
    BY <1>3
  <2>5. LiesIn(seqs[j][v[k]], R[j].lo, R[j].hi)
    BY <2>1, <2>3, <2>4 DEF Parts
  <2> QED
    BY <2>1, <2>2, <2>3, <2>5
<1>10. ASSUME NEW j \in 1 .. n, NEW i \in 1 .. Len(seqs[j])
       PROVE  \E k \in 1 .. m : s[k] = seqs[j][i]
  <2>1. PICK k \in 1 .. m : u[k] = j /\ v[k] = i
    BY <1>7, <1>8 DEF Flat
  <2> QED
    BY <1>9, <2>1
<1>11. ASSUME NEW k \in 1 .. m PROVE Addresses(s[k]) \subseteq F
  <2>1. PICK j \in 1 .. n : j = u[k] /\ LiesIn(s[k], R[j].lo, R[j].hi)
    BY <1>9
  <2>2. s[k].first \in Int /\ Broadcast(s[k]) \in Int
    BY <1>9, CidrIsAligned, BroadcastOf
  <2>3. Addresses(s[k]) \subseteq R[j].lo .. R[j].hi
    <3> SUFFICES ASSUME NEW x \in Addresses(s[k]) PROVE x \in R[j].lo .. R[j].hi
      OBVIOUS
    <3>1. x \in Int /\ s[k].first <= x /\ x <= Broadcast(s[k])
      BY <2>2 DEF Addresses
    <3>2. R[j].lo <= s[k].first /\ Broadcast(s[k]) <= R[j].hi
      BY <2>1 DEF LiesIn
    <3> QED
      BY <1>3, <2>2, <3>1, <3>2
  <2> QED
    BY <1>3, <2>3
<1>12. ASSUME NEW x \in F, x # b
       PROVE  \E j \in 1 .. n : x \in R[j].lo .. R[j].hi
  <2>1. x < e
    BY <1>2, <1>12
  <2> QED
    BY <1>1, <2>1 DEF Gaps
<1>13. ASSUME NEW x \in F, x # b PROVE \E k \in 1 .. m : x \in Addresses(s[k])
  <2>1. PICK j \in 1 .. n : x \in R[j].lo .. R[j].hi
    BY <1>12, <1>13
  <2>2. PICK i \in 1 .. Len(seqs[j]) : x \in Addresses(seqs[j][i])
    <3>1. Parts(seqs[j], R[j].lo, R[j].hi)
      BY <1>3
    <3> QED
      BY <2>1, <3>1 DEF Parts
  <2> QED
    BY <1>10, <2>2
<1>14. ASSUME NEW k \in 1 .. m, NEW l \in 1 .. m, k # l PROVE Disjoint(s[k], s[l])
  <2>1. ASSUME NEW y \in 1 .. m, NEW z \in 1 .. m, u[y] < u[z]
        PROVE  Disjoint(s[y], s[z]) /\ Disjoint(s[z], s[y])
    <3>1. PICK i \in 1 .. n, j \in 1 .. n : i = u[y] /\ j = u[z] /\ i < j
      BY <1>9, <2>1
    <3>2. R[i].hi < R[j].lo
      BY <1>1, <3>1 DEF Gaps
    <3>3. Broadcast(s[y]) <= R[i].hi /\ R[j].lo <= s[z].first
      BY <1>9, <3>1 DEF LiesIn
    <3>4. Broadcast(s[y]) \in Int /\ s[z].first \in Int /\ R[i].hi \in Int /\ R[j].lo \in Int
      <4>1. s[y] \in Cidr /\ s[z] \in Cidr
        BY <1>9
      <4>2. Broadcast(s[y]) \in Int /\ s[z].first \in Int
        BY <4>1, CidrIsAligned, BroadcastOf
      <4> QED
        BY <1>3, <4>2
    <3>5. Broadcast(s[y]) < s[z].first
      BY <3>2, <3>3, <3>4
    <3> QED
      BY <1>9, <3>5, DisjointIs
  <2>2. CASE u[k] = u[l]
    <3>1. v[k] # v[l]
      BY <1>7, <1>8, <1>14, <2>2 DEF Flat
    <3>2. PICK j \in 1 .. n : j = u[k]
      BY <1>9
    <3>3. Parts(seqs[j], R[j].lo, R[j].hi)
      BY <1>3
    <3>4. /\ v[k] \in 1 .. Len(seqs[j]) /\ v[l] \in 1 .. Len(seqs[j])
          /\ s[k] = seqs[j][v[k]] /\ s[l] = seqs[j][v[l]]
      BY <1>9, <2>2, <3>2
    <3>5. Disjoint(seqs[j][v[k]], seqs[j][v[l]])
      BY <3>1, <3>3, <3>4 DEF Parts
    <3> QED
      BY <3>4, <3>5
  <2>3. CASE u[k] # u[l]
    <3>1. u[k] \in Int /\ u[l] \in Int
      BY <1>9
    <3> QED
      BY <2>1, <2>3, <3>1
  <2> QED
    BY <2>2, <2>3
<1>15. ASSUME NEW d \in Cidr, d.len < Width, Addresses(d) \subseteq F
       PROVE  \E k \in 1 .. m : Charged(s[k], d)
  <2>1. d.first \in Int /\ Broadcast(d) \in Int /\ d.first < Broadcast(d)
    <3>1. d.len \in 0 .. Width /\ Width \in Nat
      BY CidrIsAligned, WidthAssumption
    <3>2. Width \in 0 .. Width /\ BlockSize(Width) \in Nat \ {0} /\ BlockSize(d.len) \in Nat
      BY <3>1, BlockIsNat
    <3>3. BlockSize(Width) < BlockSize(d.len)
      BY <1>15, <3>1, <3>2, LongerIsLess
    <3> QED
      BY <3>2, <3>3, CidrIsAligned, BroadcastOf
  <2>2. d.first \in F /\ Broadcast(d) \in F
    BY <1>15, <2>1 DEF Addresses
  <2>3. d.first # b
    BY <2>1, <2>2
  <2>4. PICK j \in 1 .. n : d.first \in R[j].lo .. R[j].hi
    BY <1>12, <2>2, <2>3
  <2>5. Broadcast(d) <= R[j].hi
    <3> SUFFICES ASSUME R[j].hi < Broadcast(d) PROVE FALSE
      BY <1>3, <2>1
    <3>1. R[j].hi \in Int /\ R[j].lo \in Int
      BY <1>3
    <3>2. R[j].hi + 1 \in Addresses(d)
      BY <2>1, <2>4, <3>1 DEF Addresses
    <3>3. R[j].hi # b
      BY <2>1, <2>2, <3>1
    <3> QED
      BY <1>3, <1>15, <3>2, <3>3
  <2>6. LiesIn(d, R[j].lo, R[j].hi)
    BY <1>3, <2>4, <2>5 DEF LiesIn
  <2>7. PICK i \in 1 .. Len(seqs[j]) : Charged(seqs[j][i], d)
    <3>1. Parts(seqs[j], R[j].lo, R[j].hi)
      BY <1>3
    <3> QED
      BY <2>6, <3>1 DEF Parts
  <2> QED
    BY <1>10, <2>7
<1>16. Covering(s, F, b)
  BY <1>6, <1>8, <1>11, <1>13, <1>14, <1>15 DEF Covering
<1> QED
  BY <1>5, <1>16 DEF seqs

\* The blocks that are counted for a row are its free addresses.
LEMMA FreeCidrsCover ==
  ASSUME NEW T \in SUBSET Cidr, IsFiniteSet(T), NEW p \in Cidr
  PROVE  Covering(FreeCidrs(T, <<p>>), FreeOf(T, p), Broadcast(p))
<1> DEFINE F == FreeOf(T, p)
           b == Broadcast(p)
           R == FindFreeRanges(T, p)
           s == FlattenSeq([j \in DOMAIN R |-> IpRange2Cidr(R[j])])
           members == <<p>>
           blocks(k) == FlattenSeq([j \in DOMAIN FindFreeRanges(T, members[k]) |->
                                      IpRange2Cidr(FindFreeRanges(T, members[k])[j])])
           seqs == [k \in DOMAIN members |-> blocks(k)]
<1>1. b \in Int /\ b < Beyond /\ p.first \in Nat
  <2>1. b + 1 <= Beyond /\ b \in Int /\ p.first \in Nat
    BY BroadcastOf, CidrIsAligned
  <2> QED
    BY <2>1, WholeSpace
<1>2. F \in SUBSET Addr /\ \A x \in F : x <= b
  <2> SUFFICES ASSUME NEW x \in F PROVE x \in Addr /\ x <= b
    OBVIOUS
  <2>1. x \in Int /\ p.first <= x /\ x <= b
    BY <1>1 DEF FreeOf, Addresses
  <2> QED
    BY <1>1, <2>1, WholeSpace
<1>3. \E e \in {b, b + 1} : Gaps(R, F, b, e)
  <2> HIDE DEF R
  <2> QED
    BY FreeRangesAre DEF R
<1>4. Covering(s, F, b)
  <2> HIDE DEF R, F, b
  <2> QED
    BY <1>1, <1>2, <1>3, GapsAreCovered
<1>5. seqs[1] = s /\ DOMAIN seqs = {1}
  <2>1. DOMAIN members = {1} /\ members[1] = p
    OBVIOUS
  <2> HIDE DEF members
  <2> QED
    BY <2>1
<1>6. FreeCidrs(T, members) = FlattenSeq(seqs)
  BY DEF FreeCidrs
<1> HIDE DEF seqs, s, F, b
<1>7. s \in Seq(Cidr)
  BY <1>4 DEF Covering
<1>8. seqs \in Seq(Seq(Cidr)) /\ Len(seqs) = 1
  <2>1. DOMAIN seqs = DOMAIN members
    BY DEF seqs
  <2>2. seqs = [k \in DOMAIN members |-> seqs[k]]
    <3> HIDE DEF blocks, members
    <3> QED
      BY DEF seqs
  <2>3. seqs = [k \in 1 .. 1 |-> seqs[k]]
    <3>1. DOMAIN members = 1 .. 1
      OBVIOUS
    <3> HIDE DEF members
    <3> QED
      BY <2>2, <3>1
  <2> HIDE DEF members
  <2>4. seqs[1] \in Seq(Cidr)
    BY <1>5, <1>7
  <2> QED
    BY <2>3, <2>4
<1>9. PICK t : t = FlattenSeq(seqs)
  OBVIOUS
<1>10. t \in Seq(Cidr) /\ \E u, v : Flat(t, seqs, 1, u, v)
  BY <1>8, <1>9, FlattenIs
<1>11. PICK u, v : Flat(t, seqs, 1, u, v)
  BY <1>10
<1>12. /\ \A k \in 1 .. Len(t) : v[k] \in 1 .. Len(s) /\ t[k] = s[v[k]]
       /\ \A k, l \in 1 .. Len(t) : v[k] = v[l] => k = l
       /\ \A i \in 1 .. Len(s) : \E k \in 1 .. Len(t) : t[k] = s[i]
  <2>1. 1 .. 1 = {1}
    OBVIOUS
  <2>2. \A k \in 1 .. Len(t) : u[k] = 1 /\ v[k] \in 1 .. Len(s) /\ t[k] = s[v[k]]
    BY <1>5, <1>11, <2>1 DEF Flat
  <2>3. \A k, l \in 1 .. Len(t) : v[k] = v[l] => k = l
    BY <1>11, <2>2 DEF Flat
  <2>4. \A i \in 1 .. Len(s) : \E k \in 1 .. Len(t) : v[k] = i
    BY <1>5, <1>11, <2>1 DEF Flat
  <2> QED
    BY <2>2, <2>3, <2>4
<1>13. Covering(t, F, b)
  <2>1. \A k \in 1 .. Len(t) : Addresses(t[k]) \subseteq F
    BY <1>4, <1>12 DEF Covering
  <2>2. \A x \in F : x # b => \E k \in 1 .. Len(t) : x \in Addresses(t[k])
    <3> SUFFICES ASSUME NEW x \in F, x # b PROVE \E k \in 1 .. Len(t) : x \in Addresses(t[k])
      OBVIOUS
    <3>1. PICK i \in 1 .. Len(s) : x \in Addresses(s[i])
      BY <1>4 DEF Covering
    <3> QED
      BY <1>12, <3>1
  <2>3. ASSUME NEW j \in 1 .. Len(t), NEW k \in 1 .. Len(t), j # k
        PROVE  Disjoint(t[j], t[k])
    <3>1. v[j] # v[k]
      BY <1>12, <2>3
    <3>2. v[j] \in 1 .. Len(s) /\ v[k] \in 1 .. Len(s) /\ t[j] = s[v[j]] /\ t[k] = s[v[k]]
      BY <1>12
    <3>3. Disjoint(s[v[j]], s[v[k]])
      BY <1>4, <3>1, <3>2 DEF Covering
    <3> QED
      BY <3>2, <3>3
  <2>4. \A d \in Cidr : d.len < Width /\ Addresses(d) \subseteq F
                          => \E k \in 1 .. Len(t) : Charged(t[k], d)
    <3> SUFFICES ASSUME NEW d \in Cidr, d.len < Width, Addresses(d) \subseteq F
                 PROVE  \E k \in 1 .. Len(t) : Charged(t[k], d)
      OBVIOUS
    <3>1. PICK i \in 1 .. Len(s) : Charged(s[i], d)
      BY <1>4 DEF Covering
    <3> QED
      BY <1>12, <3>1
  <2> QED
    BY <1>10, <2>1, <2>2, <2>3, <2>4 DEF Covering
<1> QED
  BY <1>6, <1>9, <1>13 DEF F, b

-----------------------------------------------------------------------------
(* Every table.                                                            *)

TableOK == table \subseteq Cidr /\ IsFiniteSet(table)

LEMMA TableStays == Spec => []TableOK
<1>1. Init => TableOK
  BY FS_EmptySet DEF Init, TableOK
<1>2. TableOK /\ [Next]_table => TableOK'
  <2> SUFFICES ASSUME TableOK, [Next]_table PROVE TableOK'
    OBVIOUS
  <2>1. ASSUME NEW c \in Cidr, Insert(c) PROVE TableOK'
    <3>1. table' = table \cup {c}
      BY <2>1 DEF Insert
    <3>2. IsFiniteSet(table \cup {c})
      BY FS_AddElement DEF TableOK
    <3> QED
      BY <3>1, <3>2 DEF TableOK
  <2>2. ASSUME NEW c \in Cidr, Delete(c) PROVE TableOK'
    <3>1. table' = table \ {c}
      BY <2>2 DEF Delete
    <3>2. IsFiniteSet(table \ {c})
      BY FS_RemoveElement DEF TableOK
    <3> QED
      BY <3>1, <3>2 DEF TableOK
  <2>3. CASE UNCHANGED table
    BY <2>3 DEF TableOK
  <2> QED
    BY <2>1, <2>2, <2>3 DEF Next
<1> QED
  BY <1>1, <1>2, PTL DEF Spec

LEMMA FreeCidrsAreCorrect == TableOK => FreeCidrsCorrect
<1> SUFFICES ASSUME TableOK, NEW p \in table
             PROVE  LET cidrs == FreeCidrs(table, <<p>>)
                        blocks == {Addresses(cidrs[k]) : k \in DOMAIN cidrs}
                    IN  /\ FreeAddresses(p) \ {Broadcast(p)} \subseteq UNION blocks
                        /\ UNION blocks \subseteq FreeAddresses(p)
                        /\ \A j, k \in DOMAIN cidrs : j # k => Disjoint(cidrs[j], cidrs[k])
  BY DEF FreeCidrsCorrect
<1>1. PICK s : s = FreeCidrs(table, <<p>>)
  OBVIOUS
<1>2. Covering(s, FreeAddresses(p), Broadcast(p))
  <2>1. Covering(s, FreeOf(table, p), Broadcast(p))
    BY <1>1, FreeCidrsCover DEF TableOK
  <2> QED
    BY <2>1 DEF FreeOf, FreeAddresses
<1>3. DOMAIN s = 1 .. Len(s)
  BY <1>2 DEF Covering
<1>4. FreeAddresses(p) \ {Broadcast(p)} \subseteq UNION {Addresses(s[k]) : k \in 1 .. Len(s)}
  <2> SUFFICES ASSUME NEW x \in FreeAddresses(p), x # Broadcast(p)
               PROVE  \E k \in 1 .. Len(s) : x \in Addresses(s[k])
    OBVIOUS
  <2> QED
    BY <1>2 DEF Covering
<1>5. UNION {Addresses(s[k]) : k \in 1 .. Len(s)} \subseteq FreeAddresses(p)
  BY <1>2 DEF Covering
<1>6. \A j, k \in 1 .. Len(s) : j # k => Disjoint(s[j], s[k])
  BY <1>2 DEF Covering
<1> QED
  BY <1>1, <1>3, <1>4, <1>5, <1>6

\* find_free_ranges and iprange2cidr cut the free addresses of every row into
\* prefixes that neither overlap nor leave any out, but for a last address that
\* is free on its own.
THEOREM FreeSpaceIsCut == Spec => []FreeCidrsCorrect
BY TableStays, FreeCidrsAreCorrect, PTL

-----------------------------------------------------------------------------
(* cidr_count: what one block is counted for.                              *)

LEMMA SizeTimes ==
  ASSUME NEW l \in 0 .. Width, NEW m \in l .. Width
  PROVE  BlockSize(l) = 2 ^ (m - l) * BlockSize(m)
<1> DEFINE N == {j \in 0 .. m - l : BlockSize(l) = 2 ^ j * BlockSize(l + j)}
<1>1. Width \in Nat /\ l \in Nat /\ m \in Nat /\ m - l \in Nat /\ m - l <= Width /\ m <= Width
  BY WidthAssumption
<1>2. 0 \in N
  <2>1. l + 0 = l /\ 2 ^ 0 = 1 /\ BlockSize(l) \in Nat
    BY <1>1, WidthAssumption, BlockIsNat
  <2>2. 1 * BlockSize(l) = BlockSize(l)
    BY <2>1
  <2> QED
    BY <1>1, <2>1, <2>2
<1>3. ASSUME NEW j \in 0 .. m - l, j \in N, j < m - l PROVE j + 1 \in N
  <2>1. /\ j + 1 \in 0 .. m - l /\ j \in 0 .. Width - 1 /\ j \in 0 .. Width
        /\ l + j \in 0 .. Width /\ l + (j + 1) \in 0 .. Width
        /\ Width - (l + (j + 1)) \in 0 .. Width - 1
        /\ Width - (l + j) = (Width - (l + (j + 1))) + 1
    BY <1>1, <1>3
  <2>2. 2 ^ (j + 1) = 2 * 2 ^ j /\ BlockSize(l + j) = 2 * BlockSize(l + (j + 1))
    BY <2>1, WidthAssumption DEF BlockSize
  <2>3. PICK a \in Nat, z \in Nat : a = 2 ^ j /\ z = BlockSize(l + (j + 1))
    BY <2>1, PowersArePositive, BlockIsNat
  <2>4. a * (2 * z) = (2 * a) * z
    BY <2>3
  <2>5. BlockSize(l) = a * (2 * z)
    BY <1>3, <2>2, <2>3
  <2> QED
    BY <2>1, <2>2, <2>3, <2>4, <2>5
<1>4. m - l \in N
  <2>1. 0 .. m - l \subseteq N
    <3> HIDE DEF N
    <3> QED
      BY <1>1, <1>2, <1>3, UpTo
  <2> HIDE DEF N
  <2> QED
    BY <1>1, <2>1
<1>5. l + (m - l) = m
  BY <1>1
<1> QED
  BY <1>4, <1>5

\* A prefix has no more prefixes of a length than power(2, ...).
LEMMA CoveredCount ==
  ASSUME NEW c \in Cidr, NEW len \in 0 .. Width, c.len <= len,
         NEW D, D = {d \in Cidr : d.len = len /\ CoversEq(c, d)}
  PROVE  IsFiniteSet(D) /\ Cardinality(D) <= 2 ^ (len - c.len)
<1>1. /\ c.first \in Nat /\ c.len \in 0 .. Width /\ len \in c.len .. Width
      /\ Aligned(c.first, c.len) /\ len - c.len \in 0 .. Width
  BY CidrIsAligned, WidthAssumption
<1>2. PICK K \in Nat \ {0}, B \in Nat \ {0} : K = 2 ^ (len - c.len) /\ B = BlockSize(len)
  BY <1>1, PowersArePositive, BlockIsNat
<1>3. BlockSize(c.len) = K * B
  BY <1>1, <1>2, SizeTimes
<1>4. PICK a \in Nat : c.first = a * B
  BY <1>1, <1>2, AlignedFiner DEF Aligned
<1> DEFINE f == [i \in 0 .. K - 1 |-> [first |-> c.first + i * B, len |-> len]]
           I == {f[i] : i \in 0 .. K - 1}
<1>5. D \subseteq I
  <2> SUFFICES ASSUME NEW d \in Cidr, d.len = len, CoversEq(c, d) PROVE d \in I
    OBVIOUS
  <2>1. d.first \in Nat /\ Aligned(d.first, len)
    BY CidrIsAligned
  <2>2. PICK j \in Nat : d.first = j * B
    BY <1>2, <2>1 DEF Aligned
  <2>3. c.first <= d.first /\ Broadcast(d) <= Broadcast(c)
    BY CoveredIsWithin
  <2>4. Broadcast(d) + 1 = d.first + B /\ Broadcast(c) + 1 = c.first + K * B
        /\ Broadcast(d) \in Int /\ Broadcast(c) \in Int
    BY <1>2, <1>3, BroadcastOf
  <2>5. a * B <= j * B
    BY <1>4, <2>2, <2>3
  <2>6. a <= j
    BY <1>2, <2>5, TimesKeepsOrder
  <2>7. (j + 1) * B <= (a + K) * B
    <3>1. (j + 1) * B = j * B + B /\ (a + K) * B = a * B + K * B
      BY <1>2
    <3>2. j * B + B <= a * B + K * B
      <4>1. PICK x \in Int, y \in Int, z \in Int : x = j * B /\ y = a * B /\ z = K * B
        BY <1>2
      <4> QED
        BY <1>2, <1>4, <2>2, <2>3, <2>4, <4>1
    <3> QED
      BY <3>1, <3>2
  <2>8. j + 1 <= a + K
    BY <1>2, <2>7, TimesKeepsOrder
  <2>9. j - a \in 0 .. K - 1
    BY <1>2, <2>6, <2>8
  <2>10. c.first + (j - a) * B = d.first
    <3>1. (j - a) * B = j * B - a * B
      BY <1>2
    <3>2. PICK x \in Int, y \in Int : x = j * B /\ y = a * B
      BY <1>2
    <3> QED
      BY <1>4, <2>2, <3>1, <3>2
  <2>11. d = [first |-> d.first, len |-> d.len]
    BY DEF Cidr
  <2>12. f[j - a] = d
    BY <2>9, <2>10, <2>11
  <2> QED
    BY <2>9, <2>12
<1>6. f \in Surjection(0 .. K - 1, I)
  <2>1. f \in [0 .. K - 1 -> I]
    OBVIOUS
  <2>2. \A t \in I : \E i \in 0 .. K - 1 : f[i] = t
    OBVIOUS
  <2> HIDE DEF f, I
  <2> QED
    BY <2>1, <2>2 DEF Surjection
<1> HIDE DEF f, I
<1>7. IsFiniteSet(0 .. K - 1) /\ Cardinality(0 .. K - 1) = K
  <2>1. PICK z \in Int, u \in Int : z = K - 1 /\ u = 0 /\ ~ (u > z) /\ z - u + 1 = K
    BY <1>2
  <2>2. IsFiniteSet(u .. z) /\ Cardinality(u .. z) = IF u > z THEN 0 ELSE z - u + 1
    BY FS_Interval
  <2>3. Cardinality(u .. z) = K
    BY <2>1, <2>2
  <2> QED
    BY <2>1, <2>2, <2>3
<1>8. IsFiniteSet(I) /\ Cardinality(I) <= K
  <2> DEFINE Z == 0 .. K - 1
  <2>1. f \in Surjection(Z, I) /\ IsFiniteSet(Z) /\ Cardinality(Z) = K
    BY <1>6, <1>7
  <2> HIDE DEF Z
  <2> QED
    BY <2>1, FS_Surjection
<1>9. IsFiniteSet(D) /\ Cardinality(D) <= Cardinality(I)
  BY <1>5, <1>8, FS_Subset
<1>10. Cardinality(D) \in Nat /\ Cardinality(I) \in Nat
  BY <1>8, <1>9, FS_CardinalityType
<1> QED
  BY <1>2, <1>8, <1>9, <1>10

\* No more prefixes are charged to a block than it is counted for.
LEMMA ChargedCount ==
  ASSUME NEW c \in Cidr, NEW len \in 0 .. Width,
         NEW C, C = {d \in Cidr : d.len = len /\ Charged(c, d)}, NEW n \in Nat
  PROVE  IsFiniteSet(C) /\ Cardinality(C) \in Nat /\ n + Cardinality(C) <= CountCidr(n, c, len)
<1>1. c.len \in 0 .. Width
  BY CidrIsAligned
<1>2. CASE c.len <= len
  <2>1. PICK D : D = {d \in Cidr : d.len = len /\ CoversEq(c, d)}
    OBVIOUS
  <2>2. C = D
    <3>1. c.len # len + 1
      BY <1>1, <1>2
    <3> QED
      BY <2>1, <3>1 DEF Charged
  <2>3. IsFiniteSet(D) /\ Cardinality(D) <= 2 ^ (len - c.len)
    BY <1>2, <2>1, CoveredCount
  <2>4. Cardinality(C) \in Nat /\ IsFiniteSet(C) /\ Cardinality(C) <= 2 ^ (len - c.len)
    BY <2>2, <2>3, FS_CardinalityType
  <2>5. CountCidr(n, c, len) = n + 2 ^ (len - c.len)
    BY <1>2 DEF CountCidr
  <2>6. len - c.len \in 0 .. Width
    BY <1>1, <1>2, WidthAssumption
  <2>7. PICK K \in Nat : K = 2 ^ (len - c.len)
    BY <2>6, PowersArePositive
  <2> QED
    BY <2>4, <2>5, <2>7
<1>3. CASE ~ (c.len <= len)
  <2>1. \A d \in C : c.first = d.first /\ c.len = len + 1
    BY <1>3 DEF Charged, CoversEq
  <2>2. CASE c.len = len + 1
    <3> DEFINE one == {[first |-> c.first, len |-> len]}
    <3>1. C \in SUBSET one
      <4> SUFFICES ASSUME NEW d \in C PROVE d = [first |-> c.first, len |-> len]
        OBVIOUS
      <4>1. d \in Cidr /\ d.len = len /\ d.first = c.first
        BY <2>1
      <4>2. d = [first |-> d.first, len |-> d.len]
        BY <4>1 DEF Cidr
      <4> QED
        BY <4>1, <4>2
    <3>2. IsFiniteSet(one) /\ Cardinality(one) = 1
      BY FS_Singleton
    <3> HIDE DEF one
    <3>3. IsFiniteSet(C) /\ Cardinality(C) <= 1
      BY <3>1, <3>2, FS_Subset
    <3>4. Cardinality(C) \in Nat
      BY <3>3, FS_CardinalityType
    <3>5. CountCidr(n, c, len) = n + 1
      BY <1>3, <2>2 DEF CountCidr
    <3> QED
      BY <3>3, <3>4, <3>5
  <2>3. CASE c.len # len + 1
    <3>1. C = {}
      BY <2>1, <2>3
    <3>2. IsFiniteSet(C) /\ Cardinality(C) = 0
      BY <3>1, FS_EmptySet
    <3>3. CountCidr(n, c, len) = n + 0
      BY <1>3, <2>3 DEF CountCidr
    <3> QED
      BY <3>2, <3>3
  <2> QED
    BY <2>2, <2>3
<1> QED
  BY <1>2, <1>3

\* The prefixes of length len that the first k blocks of s are charged with.
Claimed(s, len, k) ==
  {d \in Cidr : d.len = len /\ \E i \in 1 .. k : Charged(s[i], d)}

\* Counted block by block, they are never more than cidr_count has come to.
LEMMA ClaimedCount ==
  ASSUME NEW len \in 0 .. Width, NEW s \in Seq(Cidr), NEW h \in [0 .. Len(s) -> Nat],
         h[0] = 0, \A k \in 0 .. Len(s) - 1 : h[k + 1] = CountCidr(h[k], s[k + 1], len)
  PROVE  /\ IsFiniteSet(Claimed(s, len, Len(s)))
         /\ Cardinality(Claimed(s, len, Len(s))) <= h[Len(s)]
<1>1. PICK n \in Nat : n = Len(s) /\ \A k \in 1 .. n : s[k] \in Cidr
  OBVIOUS
<1> DEFINE N == {k \in 0 .. n : /\ IsFiniteSet(Claimed(s, len, k))
                                /\ Cardinality(Claimed(s, len, k)) <= h[k]}
<1>2. 0 \in N
  <2>1. Claimed(s, len, 0) = {}
    BY DEF Claimed
  <2>2. IsFiniteSet(Claimed(s, len, 0)) /\ Cardinality(Claimed(s, len, 0)) = 0
    BY <2>1, FS_EmptySet
  <2>3. Cardinality(Claimed(s, len, 0)) <= h[0]
    BY <2>2
  <2> QED
    BY <1>1, <2>2, <2>3
<1>3. ASSUME NEW k \in 0 .. n, k \in N, k < n PROVE k + 1 \in N
  <2>1. k + 1 \in 1 .. n /\ k + 1 \in 0 .. n /\ k \in 0 .. Len(s) - 1 /\ h[k] \in Nat
        /\ s[k + 1] \in Cidr /\ h[k + 1] = CountCidr(h[k], s[k + 1], len)
    BY <1>1, <1>3
  <2>2. PICK c, m, A, B, C :
          /\ c \in Cidr /\ m \in Nat
          /\ c = s[k + 1] /\ m = h[k]
          /\ A = Claimed(s, len, k) /\ B = Claimed(s, len, k + 1)
          /\ C = {d \in Cidr : d.len = len /\ Charged(c, d)}
    BY <2>1
  <2>3. B = A \cup C
    <3>1. 1 .. k + 1 = 1 .. k \cup {k + 1}
      BY <2>1
    <3>2. \A d : d \in B <=> d \in A \/ d \in C
      BY <2>2, <3>1 DEF Claimed
    <3> QED
      BY <3>2
  <2>4. IsFiniteSet(A) /\ Cardinality(A) <= m
    BY <1>3, <2>2
  <2>5. IsFiniteSet(C) /\ Cardinality(C) \in Nat /\ m + Cardinality(C) <= CountCidr(m, c, len)
    BY <2>2, ChargedCount
  <2>6. IsFiniteSet(B) /\ Cardinality(B) = Cardinality(A) + Cardinality(C) - Cardinality(A \cap C)
    BY <2>3, <2>4, <2>5, FS_Union
  <2>7. A \cap C \in SUBSET A
    OBVIOUS
  <2>8. Cardinality(A \cap C) \in Nat /\ Cardinality(A) \in Nat
    BY <2>4, <2>7, FS_Subset, FS_CardinalityType
  <2>9. h[k + 1] \in Nat
    BY <1>1, <2>1
  <2>10. Cardinality(B) <= h[k + 1]
    BY <2>1, <2>2, <2>4, <2>5, <2>6, <2>8, <2>9
  <2> QED
    BY <2>1, <2>2, <2>6, <2>10
<1>4. n \in N
  <2> HIDE DEF N
  <2>1. 0 .. n \subseteq N
    BY <1>1, <1>2, <1>3, UpTo
  <2> QED
    BY <1>1, <2>1
<1> QED
  BY <1>1, <1>4

\* What find_free_prefix would find lies in the free addresses of the row.
LEMMA FreePrefixIsFree ==
  ASSUME TableOK, NEW p \in table, NEW len \in 0 .. Width, NEW d \in FreePrefixes(p, len)
  PROVE  d \in Cidr /\ d.len = len /\ Addresses(d) \subseteq FreeAddresses(p)
<1>1. d \in Cidr /\ d.len = len /\ CoversEq(p, d) /\ p \in Cidr
      /\ \A r \in table : Covers(p, r) => Disjoint(d, r)
  BY DEF FreePrefixes, TableOK
<1>2. p.first <= d.first /\ Broadcast(d) <= Broadcast(p)
  BY <1>1, CoveredIsWithin
<1>3. p.first \in Nat /\ d.first \in Nat /\ Broadcast(d) \in Int /\ Broadcast(p) \in Int
  BY <1>1, CidrIsAligned, BroadcastOf
<1>4. Addresses(d) \subseteq Addresses(p)
  BY <1>2, <1>3 DEF Addresses
<1>5. ASSUME NEW x \in Addresses(d), NEW r \in table, Covers(p, r) PROVE x \notin Addresses(r)
  BY <1>1, <1>5 DEF Disjoint
<1> QED
  BY <1>1, <1>4, <1>5 DEF FreeAddresses

LEMMA CountIsEnough == TableOK => CountCoversFree
<1> SUFFICES ASSUME TableOK, NEW p \in table, NEW len \in p.len .. Width - 1
             PROVE  Cardinality(FreePrefixes(p, len)) <= CalcPoolFreePrefixes(table, <<p>>, len)
  BY DEF CountCoversFree
<1>1. p \in Cidr /\ len \in 0 .. Width /\ len < Width
  <2>1. p \in Cidr
    BY DEF TableOK
  <2> QED
    BY <2>1, CidrIsAligned, WidthAssumption
<1>2. PICK s : s = FreeCidrs(table, <<p>>)
  OBVIOUS
<1>3. Covering(s, FreeAddresses(p), Broadcast(p))
  <2>1. Covering(s, FreeOf(table, p), Broadcast(p))
    BY <1>1, <1>2, FreeCidrsCover DEF TableOK
  <2> QED
    BY <2>1 DEF FreeOf, FreeAddresses
<1>4. s \in Seq(Cidr)
  BY <1>3 DEF Covering
<1>5. PICK h : /\ h \in [0 .. Len(s) -> Nat]
               /\ h[0] = 0
               /\ \A k \in 0 .. Len(s) - 1 : h[k + 1] = CountCidr(h[k], s[k + 1], len)
               /\ FoldLeft(LAMBDA n, c : CountCidr(n, c, len), 0, s) = h[Len(s)]
  BY <1>1, <1>4, CountFolded
<1>6. CalcPoolFreePrefixes(table, <<p>>, len) = h[Len(s)]
  BY <1>2, <1>5 DEF CalcPoolFreePrefixes
<1>7. PICK C : C = Claimed(s, len, Len(s))
  OBVIOUS
<1>8. IsFiniteSet(C) /\ Cardinality(C) <= h[Len(s)]
  BY <1>1, <1>4, <1>5, <1>7, ClaimedCount
<1>9. FreePrefixes(p, len) \in SUBSET C
  <2> SUFFICES ASSUME NEW d \in FreePrefixes(p, len) PROVE d \in C
    OBVIOUS
  <2>1. d \in Cidr /\ d.len = len /\ Addresses(d) \subseteq FreeAddresses(p)
    BY <1>1, FreePrefixIsFree
  <2>2. PICK k \in 1 .. Len(s) : Charged(s[k], d)
    BY <1>1, <1>3, <2>1 DEF Covering
  <2> QED
    BY <1>7, <2>1, <2>2 DEF Claimed
<1>10. IsFiniteSet(FreePrefixes(p, len)) /\ Cardinality(FreePrefixes(p, len)) <= Cardinality(C)
  BY <1>8, <1>9, FS_Subset
<1>11. Cardinality(C) \in Nat /\ Cardinality(FreePrefixes(p, len)) \in Nat /\ h[Len(s)] \in Nat
  <2>1. Len(s) \in 0 .. Len(s)
    BY <1>4
  <2> QED
    BY <1>5, <1>8, <1>10, <2>1, FS_CardinalityType
<1> QED
  BY <1>6, <1>8, <1>10, <1>11

\* The count that calc_pool_free_prefixes keeps with a pool of one member is never
\* below the number of prefixes that find_free_prefix would find in it.
THEOREM CountCoversWhatIsFree == Spec => []CountCoversFree
BY TableStays, CountIsEnough, PTL

=============================================================================
