--------------------------- MODULE PlanTriggersProofs ---------------------------
(***************************************************************************)
(* What one statement on ip_net_plan leaves in the columns the triggers    *)
(* maintain, for every set of prefixes and every table: the containment    *)
(* order; CascadeTags, whose rounds end with every row counted and every   *)
(* row holding the tags of the rows above it; the statements that fire it; *)
(* and the AFTER triggers of INSERT, DELETE and UPDATE.                    *)
(*                                                                         *)
(* A row p is counted when its column children is the number of rows whose *)
(* innermost covering row it is, and settled when its inherited_tags are   *)
(* what its parent hands on.  Each lemma about an operator says which rows *)
(* are counted and which are unsettled after it, given those before.       *)
(***************************************************************************)
EXTENDS PlanTriggers, FiniteSetTheorems, TLAPS

-----------------------------------------------------------------------------
(* The containment order.                                                  *)

\* Nothing covers itself, and two prefixes do not cover each other.
LEMMA CoversStrict ==
  ASSUME NEW p \in Prefix, NEW q \in Prefix, Covers(p, q)
  PROVE  p # q /\ ~ Covers(q, p)
<1>1. MaskLen(p) < MaskLen(q) /\ MaskLen(p) \in Int /\ MaskLen(q) \in Int
  BY CoversAssumption, PrefixAssumption
<1>2. Covers(q, p) => MaskLen(q) < MaskLen(p)
  BY CoversAssumption
<1>3. QED
  BY <1>1, <1>2

\* A prefix of one address has nothing inside.
LEMMA NothingInsideMaxLen ==
  ASSUME NEW p \in Prefix, NEW q \in Prefix, IsMaxLen(p)
  PROVE  ~ Covers(p, q)
<1> SUFFICES ASSUME Covers(p, q) PROVE FALSE
  OBVIOUS
<1>1. MaskLen(p) < MaskLen(q) /\ Family(p) = Family(q)
  BY CoversAssumption
<1>2. MaskLen(q) \in 0 .. MaxLen(Family(q)) /\ MaskLen(p) = MaxLen(Family(p))
  BY PrefixAssumption DEF IsMaxLen
<1>3. MaxLen(Family(p)) \in Nat
  BY PrefixAssumption
<1>4. QED
  BY <1>1, <1>2, <1>3

\* The SELECT of the parent returns a row that covers the prefix.
LEMMA ParentAbove ==
  ASSUME NEW R, NEW p, NEW q \in Parent(R, p)
  PROVE  /\ q \in R
         /\ Covers(q, p)
         /\ \A r \in R : Covers(r, p) => r = q \/ Covers(r, q)
BY DEF Parent, Above

\* There is at most one innermost covering row ...
LEMMA ParentUnique ==
  ASSUME NEW R \in SUBSET Prefix, NEW p \in Prefix,
         NEW q \in Parent(R, p), NEW r \in Parent(R, p)
  PROVE  q = r
<1>1. q \in R /\ r \in R /\ Covers(q, p) /\ Covers(r, p)
  BY ParentAbove
<1>2. r = q \/ Covers(r, q)
  BY <1>1, ParentAbove
<1>3. q = r \/ Covers(q, r)
  BY <1>1, ParentAbove
<1>4. QED
  BY <1>1, <1>2, <1>3, CoversStrict

\* ... and there is one as soon as any row covers the prefix: the one with the
\* longest mask, the covering rows being a chain.
LEMMA ParentExists ==
  ASSUME NEW R \in SUBSET Prefix, NEW p \in Prefix, Above(R, p) # {}
  PROVE  Parent(R, p) # {}
<1> DEFINE M == MaxLen(Family(p))
           Slack == {M - MaskLen(q) : q \in Above(R, p)}
<1>1. M \in Nat
  BY PrefixAssumption
<1>2. \A q \in Above(R, p) : MaskLen(q) \in Int /\ M - MaskLen(q) \in Nat
  <2>1. TAKE q \in Above(R, p)
  <2>2. q \in Prefix /\ Covers(q, p)
    BY DEF Above
  <2>3. Family(q) = Family(p)
    BY <2>2, CoversAssumption
  <2>4. MaskLen(q) \in 0 .. M
    BY <2>2, <2>3, PrefixAssumption
  <2>5. QED
    BY <1>1, <2>4
<1>3. Slack \subseteq Nat /\ Slack # {}
  BY <1>2
<1>4. PICK x \in Slack : \A y \in Slack : ~ (<<y, x>> \in OpToRel(<, Nat))
  BY <1>3, NatLessThanWellFounded, WFMin
<1>5. \A y \in Slack : ~ (y < x)
  BY <1>3, <1>4 DEF OpToRel
<1>6. PICK q \in Above(R, p) : x = M - MaskLen(q)
  BY <1>4
<1>7. ASSUME NEW r \in Above(R, p), r # q PROVE Covers(r, q)
  <2>1. q \in Prefix /\ r \in Prefix /\ Covers(q, p) /\ Covers(r, p)
    BY DEF Above
  <2>2. Covers(r, q) \/ Covers(q, r)
    BY <1>7, <2>1, CoversAssumption
  <2>3. Covers(q, r) => MaskLen(q) < MaskLen(r)
    BY <2>1, CoversAssumption
  <2>4. ~ (M - MaskLen(r) < M - MaskLen(q))
    BY <1>5, <1>6
  <2>5. QED
    BY <1>1, <1>2, <2>2, <2>3, <2>4
<1>8. QED
  BY <1>7 DEF Parent

\* The rows above a prefix are its parent and the rows above its parent.
LEMMA AboveOfParent ==
  ASSUME NEW R \in SUBSET Prefix, NEW p \in Prefix, NEW q \in Parent(R, p)
  PROVE  Above(R, p) = Above(R, q) \cup {q}
<1>1. q \in R /\ Covers(q, p) /\ \A r \in R : Covers(r, p) => r = q \/ Covers(r, q)
  BY ParentAbove
<1>2. \A r \in R : Covers(r, q) => Covers(r, p)
  BY <1>1, CoversAssumption
<1>3. QED
  BY <1>1, <1>2 DEF Above

\* The sets the triggers count are finite.
LEMMA AboveFinite ==
  ASSUME NEW R \in SUBSET Prefix, NEW p
  PROVE  IsFiniteSet(Above(R, p)) /\ Cardinality(Above(R, p)) \in Nat
<1>1. Above(R, p) \in SUBSET Prefix
  BY DEF Above
<1>2. QED
  BY <1>1, PrefixAssumption, FS_Subset, FS_CardinalityType

\* What an INSERT of p adds to the depth of a row.
LEMMA AboveAfterInsert ==
  ASSUME NEW R \in SUBSET Prefix, NEW p \in Prefix, p \notin R, NEW q
  PROVE  Cardinality(Above(R \cup {p}, q)) =
           IF Covers(p, q) THEN Cardinality(Above(R, q)) + 1
                           ELSE Cardinality(Above(R, q))
<1>1. CASE Covers(p, q)
  <2>1. Above(R \cup {p}, q) = Above(R, q) \cup {p} /\ p \notin Above(R, q)
    BY <1>1 DEF Above
  <2>2. QED
    BY <1>1, <2>1, AboveFinite, FS_AddElement
<1>2. CASE ~ Covers(p, q)
  <2>1. Above(R \cup {p}, q) = Above(R, q)
    BY <1>2 DEF Above
  <2>2. QED
    BY <1>2, <2>1
<1>3. QED
  BY <1>1, <1>2

\* What a DELETE of the rows S takes from the depth of a row.
LEMMA AboveAfterDelete ==
  ASSUME NEW R \in SUBSET Prefix, NEW S \in SUBSET R, NEW q
  PROVE  Cardinality(Above(R \ S, q)) =
           Cardinality(Above(R, q)) - Cardinality(Above(S, q))
<1>1. /\ Above(R \ S, q) = Above(R, q) \ Above(S, q)
      /\ Above(R, q) \cap Above(S, q) = Above(S, q)
  BY DEF Above
<1>2. IsFiniteSet(Above(R, q))
  BY AboveFinite
<1>3. Cardinality(Above(R, q) \ Above(S, q)) =
        Cardinality(Above(R, q)) - Cardinality(Above(R, q) \cap Above(S, q))
  BY <1>2, FS_Difference
<1>4. QED
  BY <1>1, <1>3

-----------------------------------------------------------------------------
(* Levels.  The triggers find the rows right below a row by their indent.   *)
(* T is the table the indents are depths in: while a DELETE works through   *)
(* its rows, that is the table with the rows whose trigger has not run yet. *)

\* The rows of R whose innermost covering row in T is p.
Kids(R, T, p) == {q \in R : Parent(T, q) = {p}}

\* A row is one level below a row around it just when that is its parent.
LEMMA OneLevelBelow ==
  ASSUME NEW T \in SUBSET Prefix, NEW p \in T, NEW q \in Prefix, Covers(p, q)
  PROVE  Cardinality(Above(T, q)) = Cardinality(Above(T, p)) + 1 <=> Parent(T, q) = {p}
<1> DEFINE around == Above(T, p) \cup {p}
<1>1. around \subseteq Above(T, q)
  BY CoversAssumption DEF Above
<1>2. Cardinality(around) = Cardinality(Above(T, p)) + 1
  <2>1. p \notin Above(T, p)
    BY CoversStrict DEF Above
  <2> QED
    BY <2>1, AboveFinite, FS_AddElement
<1>3. IsFiniteSet(Above(T, q))
  BY AboveFinite
<1>4. ASSUME Cardinality(Above(T, q)) = Cardinality(Above(T, p)) + 1
      PROVE  Parent(T, q) = {p}
  <2>1. Above(T, q) = around
    BY <1>1, <1>2, <1>3, <1>4, FS_Subset
  <2>2. p \in Parent(T, q)
    BY <2>1 DEF Parent, Above
  <2> QED
    BY <2>2, ParentUnique
<1>5. ASSUME Parent(T, q) = {p}
      PROVE  Cardinality(Above(T, q)) = Cardinality(Above(T, p)) + 1
  BY <1>2, <1>5, AboveOfParent
<1> QED
  BY <1>4, <1>5

\* A row is at level 0 just when it has no parent.
LEMMA LevelZero ==
  ASSUME NEW T \in SUBSET Prefix, NEW q \in Prefix
  PROVE  Cardinality(Above(T, q)) = 0 <=> Parent(T, q) = {}
<1>1. Above(T, q) = {} => Parent(T, q) = {}
  BY DEF Parent
<1> QED
  BY <1>1, AboveFinite, FS_EmptySet, ParentExists

\* A parent that is among fewer rows is the parent among these.
LEMMA ParentInFewer ==
  ASSUME NEW T \in SUBSET Prefix, NEW R \in SUBSET T, NEW q \in Prefix,
         Parent(T, q) \subseteq R
  PROVE  Parent(R, q) = Parent(T, q)
<1>1. CASE Parent(T, q) = {}
  <2>1. Above(T, q) = {}
    BY <1>1, ParentExists
  <2> QED
    BY <1>1, <2>1 DEF Parent, Above
<1>2. CASE Parent(T, q) # {}
  <2>1. PICK p \in Parent(T, q) : TRUE
    BY <1>2
  <2>2. p \in R /\ p \in Parent(R, q)
    BY <2>1 DEF Parent, Above
  <2> QED
    BY <2>1, <2>2, ParentUnique
<1> QED
  BY <1>1, <1>2

LEMMA KidsAreInside ==
  ASSUME NEW R, NEW T, NEW p, NEW q \in Kids(R, T, p)
  PROVE  q \in Inside(R, p) /\ p \in T /\ Parent(T, q) = {p}
BY DEF Kids, Inside, Parent, Above

-----------------------------------------------------------------------------
(* Databases.                                                              *)

StatFields == {"children", "used", "inherited", "vrf", "pool"}
IsStat(R, s) ==
  /\ s = [children |-> s.children, used |-> s.used, inherited |-> s.inherited,
          vrf |-> s.vrf, pool |-> s.pool]
  /\ s.children = [q \in R |-> s.children[q]]
  /\ s.used = [q \in R |-> s.used[q]]
  /\ s.inherited = [q \in R |-> s.inherited[q]]

IsDatabase(db) ==
  /\ db = [plan |-> db.plan, indent |-> db.indent, stat |-> db.stat]
  /\ db.indent = [q \in Rows(db) |-> db.indent[q]]
  /\ IsStat(Rows(db), db.stat)

\* What the triggers never write, and what they write of the pools only in Book.
SameRows(db, d) ==
  /\ IsDatabase(d)
  /\ d.plan = db.plan /\ d.indent = db.indent
  /\ d.stat.used = db.stat.used /\ d.stat.pool = db.stat.pool

LEMMA RecountIs ==
  ASSUME NEW db, NEW P, NEW fetched, IsDatabase(db)
  PROVE  LET d == Recount(db, P, fetched)
         IN  /\ SameRows(db, d)
             /\ d.stat.inherited = db.stat.inherited /\ d.stat.vrf = db.stat.vrf
             /\ \A q \in Rows(db) :
                  d.stat.children[q] = IF q \in P THEN ChildrenAt(db, q, fetched[q] + 1)
                                                  ELSE db.stat.children[q]
<1> DEFINE d == Recount(db, P, fetched)
           children == [q \in Rows(db) |-> IF q \in P THEN ChildrenAt(db, q, fetched[q] + 1)
                                                      ELSE db.stat.children[q]]
<1>1. d = [plan |-> db.plan, indent |-> db.indent,
           stat |-> [children |-> children, used |-> db.stat.used,
                     inherited |-> db.stat.inherited, vrf |-> db.stat.vrf,
                     pool |-> db.stat.pool]]
  BY DEF Recount, IsDatabase, IsStat
<1>2. children = [q \in Rows(db) |-> children[q]]
  OBVIOUS
<1> HIDE DEF children, d
<1>3. Rows(d) = Rows(db)
  BY <1>1 DEF Rows
<1>4. SameRows(db, d) /\ d.stat.inherited = db.stat.inherited /\ d.stat.vrf = db.stat.vrf
  BY <1>1, <1>2, <1>3 DEF IsDatabase, IsStat, SameRows
<1>5. \A q \in Rows(db) :
        d.stat.children[q] = IF q \in P THEN ChildrenAt(db, q, fetched[q] + 1)
                                        ELSE db.stat.children[q]
  BY <1>1 DEF children
<1> QED
  BY <1>4, <1>5 DEF d

LEMMA PushIs ==
  ASSUME NEW db, NEW P, IsDatabase(db)
  PROVE  LET d == PushRound(db, P)
         IN  /\ SameRows(db, d)
             /\ d.stat.children = db.stat.children /\ d.stat.vrf = db.stat.vrf
             /\ \A q \in Rows(db) :
                  \/ \E p \in P : q \in Heirs(db, p) /\ d.stat.inherited[q] = Legacy(db, p)
                  \/ /\ \A p \in P : q \notin Heirs(db, p)
                     /\ d.stat.inherited[q] = db.stat.inherited[q]
<1> DEFINE d == PushRound(db, P)
           Givers(q) == {p \in P : q \in Heirs(db, p)}
           inherited == [q \in Rows(db) |->
              IF Givers(q) = {} THEN db.stat.inherited[q]
              ELSE Legacy(db, CHOOSE p \in Givers(q) : TRUE)]
<1>1. d = [plan |-> db.plan, indent |-> db.indent,
           stat |-> [children |-> db.stat.children, used |-> db.stat.used,
                     inherited |-> inherited, vrf |-> db.stat.vrf,
                     pool |-> db.stat.pool]]
  <2>1. PushRound(db, P) = [db EXCEPT !.stat.inherited = inherited]
    BY DEF PushRound, IsDatabase, IsStat
  <2> HIDE DEF inherited
  <2> QED
    BY <2>1 DEF IsDatabase, IsStat
<1>2. inherited = [q \in Rows(db) |-> inherited[q]]
  OBVIOUS
<1>3. ASSUME NEW q \in Rows(db)
      PROVE  \/ \E p \in P : q \in Heirs(db, p) /\ inherited[q] = Legacy(db, p)
             \/ /\ \A p \in P : q \notin Heirs(db, p)
                /\ inherited[q] = db.stat.inherited[q]
  <2>1. CASE Givers(q) = {}
    BY <2>1
  <2>2. CASE Givers(q) # {}
    <3>1. PICK p : p = CHOOSE x \in Givers(q) : TRUE
      OBVIOUS
    <3>2. p \in Givers(q)
      BY <2>2, <3>1
    <3>3. inherited[q] = Legacy(db, p)
      BY <2>2, <3>1
    <3> QED
      BY <3>2, <3>3
  <2> QED
    BY <2>1, <2>2
<1> HIDE DEF inherited, d
<1>4. Rows(d) = Rows(db)
  BY <1>1 DEF Rows
<1>5. SameRows(db, d) /\ d.stat.children = db.stat.children /\ d.stat.vrf = db.stat.vrf
  BY <1>1, <1>2, <1>4 DEF IsDatabase, IsStat, SameRows
<1>6. d.stat.inherited = inherited
  BY <1>1
<1> QED
  BY <1>3, <1>5, <1>6 DEF d

-----------------------------------------------------------------------------
(* Counting and recursion over natural numbers.                            *)

LEMMA LeastOf ==
  ASSUME NEW S \in SUBSET Nat, S # {}
  PROVE  \E n \in S : \A k \in S : n <= k
<1>1. PICK n \in S : \A k \in S : ~ (<<k, n>> \in OpToRel(<, Nat))
  BY NatLessThanWellFounded, WFMin
<1> SUFFICES ASSUME NEW k \in S PROVE n <= k
  BY <1>1, Zenon
<1>2. ~ (<<k, n>> \in OpToRel(<, Nat))
  BY <1>1, Zenon
<1>3. ~ (k < n)
  BY <1>2 DEF OpToRel
<1> QED
  BY <1>3

\* What holds of 0, and of a number with its predecessor, holds up to K.
LEMMA UpTo ==
  ASSUME NEW K \in Nat, NEW S, 0 \in S,
         \A n \in 0 .. K : n \in S /\ n < K => n + 1 \in S
  PROVE  0 .. K \subseteq S
<1> DEFINE Others == {n \in 0 .. K : n \notin S}
<1>1. SUFFICES ASSUME Others # {} PROVE FALSE
  OBVIOUS
<1>2. Others \in SUBSET Nat
  OBVIOUS
<1>3. PICK n \in Others : \A k \in Others : n <= k
  <2> HIDE DEF Others
  <2> QED
    BY <1>1, <1>2, LeastOf
<1>4. n \in 0 .. K /\ n \notin S /\ n # 0
  OBVIOUS
<1>5. n - 1 \in 0 .. K /\ n - 1 < K /\ n - 1 \notin Others
  BY <1>3, <1>4
<1> QED
  BY <1>4, <1>5

\* One round of calc_tags and of the triggers it fires.
Changed(db, s) ==
  {q \in Rows(db) : s.db.stat.inherited[q] # PushRound(s.db, s.from).stat.inherited[q]}
NextRound(db, s) ==
  [db |-> Recount(PushRound(s.db, s.from), ParentsOf(Rows(db), Changed(db, s)), db.indent),
   from |-> Changed(db, s)]

\* The rounds up to the K-th.
Rounds(db, P, K, f) ==
  f = [n \in 0 .. K |-> IF n = 0 THEN [db |-> db, from |-> P] ELSE NextRound(db, f[n - 1])]

LEMMA RoundsExist ==
  ASSUME NEW db, NEW P, NEW K \in Nat
  PROVE  \E f : Rounds(db, P, K, f)
<1> DEFINE S == {n \in 0 .. K : \E f : Rounds(db, P, n, f)}
<1>1. 0 \in S
  <2>1. Rounds(db, P, 0, [n \in 0 .. 0 |-> [db |-> db, from |-> P]])
    BY DEF Rounds
  <2> QED
    BY <2>1
<1>2. ASSUME NEW n \in 0 .. K, n \in S, n < K PROVE n + 1 \in S
  <2>1. PICK f : Rounds(db, P, n, f)
    BY <1>2
  <2> DEFINE g == [i \in 0 .. n + 1 |-> IF i = n + 1 THEN NextRound(db, f[n]) ELSE f[i]]
  <2>2. ASSUME NEW i \in 0 .. n + 1
        PROVE  g[i] = IF i = 0 THEN [db |-> db, from |-> P] ELSE NextRound(db, g[i - 1])
    <3>1. CASE i = n + 1
      BY <3>1
    <3>2. CASE i # n + 1
      <4>1. i \in 0 .. n /\ g[i] = f[i] /\ (i # 0 => i - 1 \in 0 .. n /\ g[i - 1] = f[i - 1])
        BY <3>2
      <4> QED
        BY <2>1, <4>1 DEF Rounds
    <3> QED
      BY <3>1, <3>2
  <2>3. Rounds(db, P, n + 1, g)
    <3>1. g = [i \in 0 .. n + 1 |-> g[i]]
      OBVIOUS
    <3> HIDE DEF g
    <3> QED
      BY <2>2, <3>1 DEF Rounds
  <2> QED
    BY <1>2, <2>3
<1> HIDE DEF S
<1>3. 0 .. K \subseteq S
  BY <1>1, <1>2, UpTo
<1> QED
  BY <1>3 DEF S

LEMMA CascadeIsRounds ==
  ASSUME NEW db, NEW P, Cardinality(Rows(db)) \in Nat
  PROVE  \E f : /\ Rounds(db, P, Cardinality(Rows(db)) + 1, f)
                /\ CascadeTags(db, P) = f[Cardinality(Rows(db)) + 1].db
<1> DEFINE K == Cardinality(Rows(db)) + 1
           f == CHOOSE round : Rounds(db, P, K, round)
<1>1. Rounds(db, P, K, f)
  <2>1. K \in Nat
    OBVIOUS
  <2> HIDE DEF K
  <2>2. \E round : Rounds(db, P, K, round)
    BY <2>1, RoundsExist
  <2> QED
    BY <2>2
<1>2. CascadeTags(db, P) = f[K].db
  BY DEF CascadeTags, Rounds, NextRound, Changed
<1> QED
  BY <1>1, <1>2

-----------------------------------------------------------------------------
(* The column children, and the tags.                                      *)

Depths(db, T) == \A q \in Rows(db) : db.indent[q] = Cardinality(Above(T, q))

\* The rows whose column children is right, by the rows of the table T.
Counted(db, T) ==
  {p \in Rows(db) : db.stat.children[p] = Cardinality(Kids(Rows(db), T, p))}

\* The rows that have not inherited what their parent has to give.  Those
\* right below a row whose trigger is still to come are not spoken of.
Settled(db, q) ==
  db.stat.inherited[q] = UNION {Legacy(db, p) : p \in Parent(Rows(db), q)}
Unsettled(db, T) ==
  {q \in Rows(db) : Parent(T, q) \subseteq Rows(db) /\ ~ Settled(db, q)}

LEMMA RowsBelow ==
  ASSUME NEW db, NEW T \in SUBSET Prefix, Rows(db) \subseteq T, Depths(db, T),
         NEW p \in Rows(db)
  PROVE  {q \in Inside(Rows(db), p) : db.indent[q] = db.indent[p] + 1} = Kids(Rows(db), T, p)
<1>1. ASSUME NEW q \in Rows(db)
      PROVE  Covers(p, q) /\ db.indent[q] = db.indent[p] + 1 <=> Parent(T, q) = {p}
  <2>1. /\ db.indent[q] = Cardinality(Above(T, q)) /\ db.indent[p] = Cardinality(Above(T, p))
        /\ p \in T /\ q \in Prefix
    BY DEF Depths
  <2>2. Parent(T, q) = {p} => Covers(p, q)
    BY ParentAbove
  <2> QED
    BY <2>1, <2>2, OneLevelBelow
<1> QED
  BY <1>1 DEF Inside, Kids

LEMMA RecountCounts ==
  ASSUME NEW db, IsDatabase(db), NEW T \in SUBSET Prefix, Rows(db) \subseteq T, Depths(db, T),
         NEW P, NEW fetched, \A q \in P \cap Rows(db) : fetched[q] = db.indent[q]
  PROVE  Counted(db, T) \cup (P \cap Rows(db)) \subseteq Counted(Recount(db, P, fetched), T)
<1> DEFINE d == Recount(db, P, fetched)
<1>1. /\ Rows(d) = Rows(db)
      /\ \A q \in Rows(db) :
           d.stat.children[q] = IF q \in P THEN ChildrenAt(db, q, fetched[q] + 1)
                                           ELSE db.stat.children[q]
  BY RecountIs DEF SameRows, Rows
<1>2. ASSUME NEW p \in P \cap Rows(db)
      PROVE  d.stat.children[p] = Cardinality(Kids(Rows(db), T, p))
  <2>1. ChildrenAt(db, p, fetched[p] + 1) = Cardinality(Kids(Rows(db), T, p))
    BY RowsBelow DEF ChildrenAt
  <2> QED
    BY <1>1, <2>1
<1> HIDE DEF d
<1>3. Counted(db, T) \cup (P \cap Rows(db)) \subseteq Counted(d, T)
  <2>1. ASSUME NEW p \in Counted(db, T), p \notin P PROVE p \in Counted(d, T)
    BY <1>1, <2>1 DEF Counted
  <2>2. ASSUME NEW p \in P \cap Rows(db) PROVE p \in Counted(d, T)
    BY <1>1, <1>2 DEF Counted
  <2>3. Counted(db, T) \subseteq Rows(db)
    BY DEF Counted
  <2> QED
    BY <2>1, <2>2, <2>3
<1> QED
  BY <1>3 DEF d

\* Whose tags a row takes over: those of its parent, or nobody's at level 0.
LEMMA HeirsAre ==
  ASSUME NEW db, NEW T \in SUBSET Prefix, Rows(db) \subseteq T, Depths(db, T),
         NEW p, NEW q \in Heirs(db, p)
  PROVE  /\ q \in Rows(db) /\ Parent(T, q) \subseteq Rows(db)
         /\ Parent(Rows(db), q) = Parent(T, q)
         /\ Legacy(db, p) = UNION {Legacy(db, y) : y \in Parent(T, q)}
         /\ p \in Rows(db) => p \in Parent(T, q)
<1>1. q \in Rows(db) /\ Covers(p, q)
  BY DEF Heirs, Inside
<1>2. CASE p \in Rows(db)
  <2>1. q \in Kids(Rows(db), T, p)
    BY <1>2, RowsBelow DEF Heirs
  <2>2. Parent(T, q) = {p}
    BY <2>1 DEF Kids
  <2>3. Parent(Rows(db), q) = Parent(T, q)
    BY <1>1, <1>2, <2>2, ParentInFewer
  <2> QED
    BY <1>1, <1>2, <2>2, <2>3
<1>3. CASE p \notin Rows(db)
  <2>1. db.indent[q] = 0
    BY <1>3 DEF Heirs
  <2>2. Parent(T, q) = {}
    BY <1>1, <2>1, LevelZero DEF Depths
  <2>3. Parent(Rows(db), q) = Parent(T, q)
    BY <1>1, <2>2, ParentInFewer
  <2>4. Legacy(db, p) = {}
    BY <1>3 DEF Legacy
  <2> QED
    BY <1>1, <1>3, <2>2, <2>3, <2>4
<1> QED
  BY <1>2, <1>3

-----------------------------------------------------------------------------
(* A round.                                                                *)

LEMMA RoundFrame ==
  ASSUME NEW db, NEW s, IsDatabase(s.db), SameRows(db, s.db), s.db.stat.vrf = db.stat.vrf
  PROVE  LET n == NextRound(db, s)
         IN  /\ SameRows(db, n.db) /\ n.db.stat.vrf = db.stat.vrf
             /\ n.from = Changed(db, s)
             /\ n.db.stat.inherited = PushRound(s.db, s.from).stat.inherited
<1> DEFINE d == PushRound(s.db, s.from)
           r == Recount(d, ParentsOf(Rows(db), Changed(db, s)), db.indent)
<1>1. SameRows(s.db, d) /\ d.stat.vrf = s.db.stat.vrf
  BY PushIs
<1>2. SameRows(d, r) /\ r.stat.vrf = d.stat.vrf /\ r.stat.inherited = d.stat.inherited
  <2>1. IsDatabase(d)
    BY <1>1 DEF SameRows
  <2> HIDE DEF d
  <2> QED
    BY <2>1, RecountIs
<1> HIDE DEF d, r
<1>3. SameRows(db, r) /\ r.stat.vrf = db.stat.vrf
  BY <1>1, <1>2 DEF SameRows
<1> QED
  BY <1>2, <1>3 DEF NextRound, d, r

LEMMA CascadeFrame ==
  ASSUME NEW db, IsDatabase(db), Cardinality(Rows(db)) \in Nat, NEW P
  PROVE  SameRows(db, CascadeTags(db, P)) /\ CascadeTags(db, P).stat.vrf = db.stat.vrf
<1> DEFINE K == Cardinality(Rows(db)) + 1
<1>1. PICK f : Rounds(db, P, K, f) /\ CascadeTags(db, P) = f[K].db
  BY CascadeIsRounds
<1> DEFINE S == {n \in 0 .. K : SameRows(db, f[n].db) /\ f[n].db.stat.vrf = db.stat.vrf}
<1>2. K \in Nat
  OBVIOUS
<1> HIDE DEF K
<1>3. 0 \in S
  BY <1>1, <1>2 DEF Rounds, SameRows
<1>4. ASSUME NEW n \in 0 .. K, n \in S, n < K PROVE n + 1 \in S
  <2>1. n + 1 \in 0 .. K /\ f[n + 1] = NextRound(db, f[n])
    BY <1>1, <1>2, <1>4 DEF Rounds
  <2>2. SameRows(db, f[n].db) /\ f[n].db.stat.vrf = db.stat.vrf /\ IsDatabase(f[n].db)
    BY <1>4 DEF SameRows
  <2>3. SameRows(db, f[n + 1].db) /\ f[n + 1].db.stat.vrf = db.stat.vrf
    BY <2>1, <2>2, RoundFrame
  <2> QED
    BY <2>1, <2>3
<1> HIDE DEF S
<1>5. K \in S
  BY <1>2, <1>3, <1>4, UpTo
<1> QED
  BY <1>1, <1>5 DEF S

\* The rows a round still owes something are those around which tags changed in
\* the round before.
Owed(db, from, E) == E \cup {q \in Rows(db) : \E p \in from : q \in Heirs(db, p)}

LEMMA RoundSettles ==
  ASSUME NEW db, NEW T \in SUBSET Prefix, Rows(db) \subseteq T, Depths(db, T),
         NEW s, IsDatabase(s.db), SameRows(db, s.db), s.db.stat.vrf = db.stat.vrf,
         NEW E, Unsettled(s.db, T) \subseteq Owed(db, s.from, E)
  PROVE  LET n == NextRound(db, s)
         IN  /\ Unsettled(n.db, T) \subseteq Owed(db, n.from, E)
             /\ Counted(s.db, T) \subseteq Counted(n.db, T)
             /\ \A q \in n.from : q \in Rows(db) /\ \E p \in s.from : q \in Heirs(db, p)
<1> DEFINE d == PushRound(s.db, s.from)
           n == NextRound(db, s)
           R == Rows(db)
<1>1. /\ SameRows(db, n.db) /\ n.from = Changed(db, s)
      /\ n.db.stat.inherited = d.stat.inherited
  BY RoundFrame
<1>2. /\ Rows(s.db) = R /\ Rows(n.db) = R
      /\ s.db.plan = db.plan /\ n.db.plan = db.plan /\ s.db.indent = db.indent
  BY <1>1 DEF SameRows, Rows
<1>3. \A x : Heirs(s.db, x) = Heirs(db, x)
  BY <1>2 DEF Heirs
<1>4. Depths(s.db, T)
  BY <1>2 DEF Depths
<1>5. /\ SameRows(s.db, d) /\ d.stat.children = s.db.stat.children
      /\ \A q \in R :
           \/ \E p \in s.from : q \in Heirs(db, p) /\ d.stat.inherited[q] = Legacy(s.db, p)
           \/ /\ \A p \in s.from : q \notin Heirs(db, p)
              /\ d.stat.inherited[q] = s.db.stat.inherited[q]
  BY <1>2, <1>3, PushIs
<1>6. Changed(db, s) = {q \in R : s.db.stat.inherited[q] # d.stat.inherited[q]}
  BY DEF Changed
<1>7. ASSUME NEW q \in n.from
      PROVE  q \in R /\ \E p \in s.from : q \in Heirs(db, p)
  BY <1>1, <1>5, <1>6, <1>7
<1>8. ASSUME NEW q \in Unsettled(n.db, T), q \notin Owed(db, n.from, E)
      PROVE  FALSE
  <2>1. q \in R /\ Parent(T, q) \subseteq R /\ q \notin E /\ \A x \in n.from : q \notin Heirs(db, x)
    BY <1>2, <1>8 DEF Unsettled, Owed
  <2>2. Parent(R, q) = Parent(T, q)
    BY <2>1, ParentInFewer
  <2>3. ASSUME NEW y \in Parent(T, q) PROVE Legacy(n.db, y) = Legacy(s.db, y)
    <3>1. y \in R /\ q \in Kids(R, T, y)
      BY <2>1, <2>3, ParentUnique DEF Kids
    <3>2. q \in Heirs(db, y)
      BY <3>1, RowsBelow DEF Heirs
    <3>3. y \notin n.from
      BY <2>1, <3>2
    <3>4. n.db.stat.inherited[y] = s.db.stat.inherited[y]
      BY <1>1, <1>6, <3>1, <3>3
    <3> QED
      BY <1>2, <3>1, <3>4 DEF Legacy
  <2>4. UNION {Legacy(n.db, y) : y \in Parent(T, q)} = UNION {Legacy(s.db, y) : y \in Parent(T, q)}
    BY <2>3
  <2>5. n.db.stat.inherited[q] # UNION {Legacy(s.db, y) : y \in Parent(T, q)}
    BY <1>2, <1>8, <2>2, <2>4 DEF Unsettled, Settled
  <2>6. ASSUME NEW p \in s.from, q \in Heirs(db, p), d.stat.inherited[q] = Legacy(s.db, p)
        PROVE  FALSE
    <3>1. Legacy(s.db, p) = UNION {Legacy(s.db, y) : y \in Parent(T, q)}
      BY <1>2, <1>3, <1>4, <2>6, HeirsAre
    <3> QED
      BY <1>1, <2>5, <2>6, <3>1
  <2>7. /\ \A p \in s.from : q \notin Heirs(db, p)
        /\ d.stat.inherited[q] = s.db.stat.inherited[q]
    BY <1>5, <2>1, <2>6
  <2>8. q \notin Unsettled(s.db, T)
    BY <2>1, <2>7 DEF Owed
  <2>9. s.db.stat.inherited[q] = UNION {Legacy(s.db, y) : y \in Parent(T, q)}
    BY <1>2, <2>1, <2>2, <2>8 DEF Unsettled, Settled
  <2> QED
    BY <1>1, <2>5, <2>7, <2>9
<1>9. Counted(s.db, T) \subseteq Counted(n.db, T)
  <2>1. IsDatabase(d) /\ d.plan = db.plan /\ d.indent = db.indent /\ Rows(d) = R
    BY <1>2, <1>5 DEF SameRows, Rows
  <2>2. Counted(d, T) = Counted(s.db, T)
    BY <1>2, <1>5, <2>1 DEF Counted
  <2>3. Depths(d, T)
    BY <2>1 DEF Depths
  <2> HIDE DEF d
  <2>4. Counted(d, T) \subseteq Counted(Recount(d, ParentsOf(R, Changed(db, s)), db.indent), T)
    BY <2>1, <2>3, RecountCounts
  <2> QED
    BY <2>2, <2>4 DEF NextRound, d
<1> HIDE DEF n, d, R
<1> QED
  BY <1>7, <1>8, <1>9 DEF n, R

\* No round changes a row less deep in the table than its number says.
LEMMA HeirsAreDeeper ==
  ASSUME NEW db, NEW T \in SUBSET Prefix, Rows(db) \subseteq T, Depths(db, T),
         NEW p \in Rows(db), NEW q \in Heirs(db, p)
  PROVE  Cardinality(Above(Rows(db), q)) = Cardinality(Above(Rows(db), p)) + 1
<1>1. /\ q \in Rows(db) /\ p \in Parent(Rows(db), q) /\ Covers(p, q)
  BY HeirsAre, ParentAbove
<1>2. Parent(Rows(db), q) = {p}
  BY <1>1, ParentUnique
<1> QED
  BY <1>1, <1>2, OneLevelBelow

LEMMA DepthIsBounded ==
  ASSUME NEW R \in SUBSET Prefix, NEW q \in R
  PROVE  Cardinality(Above(R, q)) < Cardinality(R)
<1>1. q \notin Above(R, q) /\ Above(R, q) \cup {q} \subseteq R
  BY CoversStrict DEF Above
<1>2. IsFiniteSet(Above(R, q)) /\ IsFiniteSet(R)
  BY AboveFinite, PrefixAssumption, FS_Subset
<1>3. Cardinality(Above(R, q) \cup {q}) = Cardinality(Above(R, q)) + 1
  BY <1>1, <1>2, FS_AddElement
<1>4. Cardinality(Above(R, q) \cup {q}) <= Cardinality(R)
  BY <1>1, <1>2, FS_Subset
<1> QED
  BY <1>2, <1>3, <1>4, FS_CardinalityType

LEMMA CascadeSettles ==
  ASSUME NEW db, IsDatabase(db), NEW T \in SUBSET Prefix, Rows(db) \subseteq T, Depths(db, T),
         NEW P, NEW E, Unsettled(db, T) \subseteq Owed(db, P, E)
  PROVE  LET d == CascadeTags(db, P)
         IN  Unsettled(d, T) \subseteq E /\ Counted(db, T) \subseteq Counted(d, T)
<1> DEFINE K == Cardinality(Rows(db)) + 1
<1>1. Rows(db) \in SUBSET Prefix /\ IsFiniteSet(Rows(db)) /\ Cardinality(Rows(db)) \in Nat
  <2>1. Rows(db) \in SUBSET Prefix
    OBVIOUS
  <2> QED
    BY <2>1, PrefixAssumption, FS_Subset, FS_CardinalityType
<1>2. PICK f : Rounds(db, P, K, f) /\ CascadeTags(db, P) = f[K].db
  BY <1>1, CascadeIsRounds
<1> DEFINE Good(s) == /\ SameRows(db, s.db) /\ s.db.stat.vrf = db.stat.vrf
                      /\ Unsettled(s.db, T) \subseteq Owed(db, s.from, E)
                      /\ Counted(db, T) \subseteq Counted(s.db, T)
           Deep(n, s) == \A q \in s.from :
                           q \in Rows(db) /\ Cardinality(Above(Rows(db), q)) >= n - 1
           S == {n \in 0 .. K : Good(f[n]) /\ (n > 0 => Deep(n, f[n]))}
<1>3. K \in Nat /\ K > 0 /\ K = Cardinality(Rows(db)) + 1
  BY <1>1
<1> HIDE DEF K
<1>4. 0 \in S
  BY <1>2, <1>3 DEF Rounds, SameRows
<1>5. ASSUME NEW n \in 0 .. K, n \in S, n < K PROVE n + 1 \in S
  <2>1. n + 1 \in 0 .. K /\ f[n + 1] = NextRound(db, f[n])
    BY <1>2, <1>3, <1>5 DEF Rounds
  <2>2. Good(f[n]) /\ (n > 0 => Deep(n, f[n])) /\ IsDatabase(f[n].db)
    BY <1>5 DEF SameRows
  <2>3. SameRows(db, f[n + 1].db) /\ f[n + 1].db.stat.vrf = db.stat.vrf
    BY <2>1, <2>2, RoundFrame
  <2>4. /\ Unsettled(f[n + 1].db, T) \subseteq Owed(db, f[n + 1].from, E)
        /\ Counted(f[n].db, T) \subseteq Counted(f[n + 1].db, T)
        /\ \A q \in f[n + 1].from : q \in Rows(db) /\ \E p \in f[n].from : q \in Heirs(db, p)
    BY <2>1, <2>2, RoundSettles
  <2>5. Deep(n + 1, f[n + 1])
    <3> SUFFICES ASSUME NEW q \in f[n + 1].from
                 PROVE  q \in Rows(db) /\ Cardinality(Above(Rows(db), q)) >= n
      BY <2>4
    <3>1. q \in Rows(db) /\ Cardinality(Above(Rows(db), q)) \in Nat
      BY <1>1, <2>4, AboveFinite
    <3>2. CASE n > 0
      <4>1. PICK p \in f[n].from : q \in Heirs(db, p)
        BY <2>4
      <4>2. p \in Rows(db) /\ Cardinality(Above(Rows(db), p)) >= n - 1
        BY <2>2, <3>2
      <4>3. Cardinality(Above(Rows(db), q)) = Cardinality(Above(Rows(db), p)) + 1
        BY <4>1, <4>2, HeirsAreDeeper
      <4>4. Cardinality(Above(Rows(db), p)) \in Nat
        BY <1>1, AboveFinite
      <4> QED
        BY <3>1, <4>2, <4>3, <4>4
    <3> QED
      BY <3>1, <3>2
  <2> QED
    BY <2>1, <2>2, <2>3, <2>4, <2>5
<1> HIDE DEF S
<1>6. K \in S
  BY <1>3, <1>4, <1>5, UpTo
<1>7. Good(f[K]) /\ Deep(K, f[K])
  BY <1>3, <1>6 DEF S
<1>8. f[K].from = {}
  <2> SUFFICES ASSUME NEW q \in f[K].from PROVE FALSE
    OBVIOUS
  <2>1. q \in Rows(db) /\ Cardinality(Above(Rows(db), q)) >= Cardinality(Rows(db))
    BY <1>1, <1>3, <1>7
  <2>2. Cardinality(Above(Rows(db), q)) \in Nat
    BY <1>1, AboveFinite
  <2> QED
    BY <1>1, <2>1, <2>2, DepthIsBounded
<1> QED
  BY <1>2, <1>7, <1>8 DEF Owed

\* Nothing happens when nobody has anything to hand on.
SameColumns(db, d) ==
  d.stat.children = db.stat.children /\ d.stat.inherited = db.stat.inherited

LEMMA SameOnRows ==
  ASSUME NEW R, NEW s, NEW t, IsStat(R, s), IsStat(R, t)
  PROVE  /\ (\A q \in R : s.children[q] = t.children[q]) => s.children = t.children
         /\ (\A q \in R : s.inherited[q] = t.inherited[q]) => s.inherited = t.inherited
BY DEF IsStat

LEMMA RecountOfNothing ==
  ASSUME NEW db, NEW fetched, IsDatabase(db)
  PROVE  SameColumns(db, Recount(db, {}, fetched))
<1> DEFINE d == Recount(db, {}, fetched)
<1>1. /\ SameRows(db, d) /\ d.stat.inherited = db.stat.inherited
      /\ \A q \in Rows(db) : d.stat.children[q] = db.stat.children[q]
  BY RecountIs
<1>2. IsStat(Rows(db), d.stat) /\ IsStat(Rows(db), db.stat)
  BY <1>1 DEF SameRows, IsDatabase, Rows
<1> HIDE DEF d
<1>3. SameColumns(db, d)
  BY <1>1, <1>2, SameOnRows DEF SameColumns
<1> QED
  BY <1>3 DEF d

LEMMA PushOfNothing ==
  ASSUME NEW db, IsDatabase(db)
  PROVE  SameColumns(db, PushRound(db, {}))
<1> DEFINE d == PushRound(db, {})
<1>1. /\ SameRows(db, d) /\ d.stat.children = db.stat.children
      /\ \A q \in Rows(db) : d.stat.inherited[q] = db.stat.inherited[q]
  BY PushIs
<1>2. IsStat(Rows(db), d.stat) /\ IsStat(Rows(db), db.stat)
  BY <1>1 DEF SameRows, IsDatabase, Rows
<1> HIDE DEF d
<1>3. SameColumns(db, d)
  BY <1>1, <1>2, SameOnRows DEF SameColumns
<1> QED
  BY <1>3 DEF d

LEMMA CascadeOfNothing ==
  ASSUME NEW db, IsDatabase(db), Cardinality(Rows(db)) \in Nat
  PROVE  SameColumns(db, CascadeTags(db, {}))
<1> DEFINE K == Cardinality(Rows(db)) + 1
<1>1. PICK f : Rounds(db, {}, K, f) /\ CascadeTags(db, {}) = f[K].db
  BY CascadeIsRounds
<1> DEFINE Good(s) == /\ SameRows(db, s.db) /\ s.db.stat.vrf = db.stat.vrf
                      /\ SameColumns(db, s.db) /\ s.from = {}
           S == {n \in 0 .. K : Good(f[n])}
<1>2. K \in Nat
  OBVIOUS
<1> HIDE DEF K
<1>3. 0 \in S
  BY <1>1, <1>2 DEF Rounds, SameRows, SameColumns
<1>4. ASSUME NEW n \in 0 .. K, n \in S, n < K PROVE n + 1 \in S
  <2>1. n + 1 \in 0 .. K /\ f[n + 1] = NextRound(db, f[n])
    <3>1. n + 1 \in 0 .. K /\ n + 1 # 0 /\ (n + 1) - 1 = n
      BY <1>2, <1>4
    <3> HIDE DEF S
    <3> QED
      BY <1>1, <3>1 DEF Rounds
  <2> DEFINE s == f[n]
             d == PushRound(s.db, {})
  <2>2. Good(s) /\ IsDatabase(s.db)
    BY <1>4 DEF SameRows
  <2>3. SameRows(db, f[n + 1].db) /\ f[n + 1].db.stat.vrf = db.stat.vrf
    BY <2>1, <2>2, RoundFrame
  <2> HIDE DEF s
  <2>4. SameRows(s.db, d) /\ SameColumns(s.db, d) /\ IsDatabase(d)
    BY <2>2, PushIs, PushOfNothing DEF SameRows
  <2>5. Changed(db, s) = {}
    BY <2>2, <2>4 DEF Changed, SameColumns
  <2>6. ParentsOf(Rows(db), {}) = {}
    BY DEF ParentsOf
  <2>7. f[n + 1] = [db |-> Recount(d, {}, db.indent), from |-> {}]
    BY <2>1, <2>2, <2>5, <2>6 DEF NextRound, s
  <2> HIDE DEF d
  <2>8. SameColumns(d, Recount(d, {}, db.indent))
    BY <2>4, RecountOfNothing
  <2>9. SameColumns(db, f[n + 1].db) /\ f[n + 1].from = {}
    BY <2>2, <2>4, <2>7, <2>8 DEF SameColumns
  <2> QED
    BY <2>1, <2>3, <2>9
<1> HIDE DEF S
<1>5. K \in S
  BY <1>2, <1>3, <1>4, UpTo
<1> QED
  BY <1>1, <1>5 DEF S

-----------------------------------------------------------------------------
(* Triggers inside triggers.                                               *)

Fired(before, after) ==
  {q \in Rows(after) : \/ before.indent[q] # after.indent[q]
                       \/ before.stat.used[q] # after.stat.used[q]}

\* Only the VRF statistics depend on what the rows were before.
LEMMA NestedIs ==
  ASSUME NEW before, NEW after, IsDatabase(after), Cardinality(Rows(after)) \in Nat
  PROVE  \E m : /\ SameRows(after, m) /\ SameColumns(after, m)
                /\ NestedTriggers(before, after) =
                     CascadeTags(Recount(m, ParentsOf(Rows(after), Fired(before, after)),
                                         after.indent),
                                 Fired(before, after))
<1>1. \E v : NestedTriggers(before, after) =
               CascadeTags(Recount([after EXCEPT !.stat.vrf = v],
                                   ParentsOf(Rows(after), Fired(before, after)),
                                   after.indent),
                           Fired(before, after))
  BY DEF NestedTriggers, Fired
<1>2. ASSUME NEW v
      PROVE  LET m == [after EXCEPT !.stat.vrf = v]
             IN  SameRows(after, m) /\ SameColumns(after, m)
  <2> DEFINE m == [after EXCEPT !.stat.vrf = v]
  <2>1. m = [plan |-> after.plan, indent |-> after.indent,
             stat |-> [children |-> after.stat.children, used |-> after.stat.used,
                       inherited |-> after.stat.inherited, vrf |-> v,
                       pool |-> after.stat.pool]]
    BY DEF IsDatabase, IsStat
  <2> HIDE DEF m
  <2>2. SameRows(after, m) /\ SameColumns(after, m)
    BY <2>1 DEF SameRows, SameColumns, IsDatabase, IsStat, Rows
  <2> QED
    BY <2>2 DEF m
<1> QED
  BY <1>1, <1>2

LEMMA NestedFrame ==
  ASSUME NEW before, NEW after, IsDatabase(after), Cardinality(Rows(after)) \in Nat
  PROVE  SameRows(after, NestedTriggers(before, after))
<1> DEFINE fired == Fired(before, after)
           P == ParentsOf(Rows(after), fired)
<1> HIDE DEF fired, P
<1>1. PICK m : /\ SameRows(after, m)
               /\ NestedTriggers(before, after) = CascadeTags(Recount(m, P, after.indent), fired)
  BY NestedIs DEF fired, P
<1>2. PICK r : r = Recount(m, P, after.indent)
  OBVIOUS
<1>3. SameRows(m, r)
  BY <1>1, <1>2, RecountIs DEF SameRows
<1>4. SameRows(after, r) /\ IsDatabase(r) /\ Rows(r) = Rows(after)
  BY <1>1, <1>3 DEF SameRows, Rows
<1>5. SameRows(r, CascadeTags(r, fired))
  BY <1>4, CascadeFrame
<1> QED
  BY <1>1, <1>2, <1>4, <1>5 DEF SameRows

LEMMA NestedSettles ==
  ASSUME NEW before, NEW after, IsDatabase(after), NEW T \in SUBSET Prefix,
         Rows(after) \subseteq T, Depths(after, T), NEW E, Unsettled(after, T) \subseteq E
  PROVE  LET d == NestedTriggers(before, after)
         IN  Unsettled(d, T) \subseteq E /\ Counted(after, T) \subseteq Counted(d, T)
<1> DEFINE fired == Fired(before, after)
           P == ParentsOf(Rows(after), fired)
<1> HIDE DEF fired, P
<1>1. Cardinality(Rows(after)) \in Nat
  BY PrefixAssumption, FS_Subset, FS_CardinalityType
<1>2. PICK m : /\ SameRows(after, m) /\ SameColumns(after, m)
               /\ NestedTriggers(before, after) = CascadeTags(Recount(m, P, after.indent), fired)
  BY <1>1, NestedIs DEF fired, P
<1>3. /\ IsDatabase(m) /\ Rows(m) = Rows(after) /\ Depths(m, T)
      /\ Counted(m, T) = Counted(after, T) /\ Unsettled(m, T) = Unsettled(after, T)
  BY <1>2 DEF SameRows, SameColumns, Rows, Depths, Counted, Unsettled, Settled, Legacy
<1>4. PICK r : r = Recount(m, P, after.indent)
  OBVIOUS
<1>5. SameRows(m, r) /\ r.stat.inherited = m.stat.inherited
  BY <1>3, <1>4, RecountIs
<1>6. /\ IsDatabase(r) /\ Rows(r) = Rows(after) /\ Depths(r, T)
      /\ Unsettled(r, T) = Unsettled(after, T)
  BY <1>3, <1>5 DEF SameRows, Rows, Depths, Unsettled, Settled, Legacy
<1>7. Counted(after, T) \subseteq Counted(r, T)
  <2>1. m.indent = after.indent
    BY <1>2 DEF SameRows
  <2> QED
    BY <1>3, <1>4, <2>1, RecountCounts
<1>8. /\ Unsettled(CascadeTags(r, fired), T) \subseteq E
      /\ Counted(r, T) \subseteq Counted(CascadeTags(r, fired), T)
  <2>1. Unsettled(r, T) \subseteq Owed(r, fired, E)
    BY <1>6 DEF Owed
  <2> QED
    BY <1>6, <2>1, CascadeSettles
<1> QED
  BY <1>2, <1>4, <1>7, <1>8

LEMMA NestedOfNothing ==
  ASSUME NEW before, NEW after, IsDatabase(after), Cardinality(Rows(after)) \in Nat,
         before.indent = after.indent, before.stat.used = after.stat.used
  PROVE  SameColumns(after, NestedTriggers(before, after))
<1>1. Fired(before, after) = {} /\ ParentsOf(Rows(after), {}) = {}
  BY DEF Fired, ParentsOf
<1>2. PICK m : /\ SameRows(after, m) /\ SameColumns(after, m)
               /\ NestedTriggers(before, after) = CascadeTags(Recount(m, {}, after.indent), {})
  BY <1>1, NestedIs
<1>3. PICK r : r = Recount(m, {}, after.indent)
  OBVIOUS
<1>4. SameRows(m, r) /\ SameColumns(m, r)
  BY <1>2, <1>3, RecountIs, RecountOfNothing DEF SameRows
<1>5. IsDatabase(r) /\ Rows(r) = Rows(after)
  BY <1>2, <1>4 DEF SameRows, Rows
<1>6. SameColumns(r, CascadeTags(r, {}))
  BY <1>5, CascadeOfNothing
<1> QED
  BY <1>2, <1>3, <1>4, <1>6 DEF SameColumns

\* The statements of the trigger functions write neither rows nor pools.
SameTable(db, d) == IsDatabase(d) /\ d.plan = db.plan /\ d.stat.pool = db.stat.pool

LEMMA SetIndentFrame ==
  ASSUME NEW db, IsDatabase(db), Cardinality(Rows(db)) \in Nat,
         NEW indent, indent = [q \in Rows(db) |-> indent[q]]
  PROVE  LET d == SetIndent(db, indent)
         IN  SameTable(db, d) /\ d.indent = indent /\ d.stat.used = db.stat.used
<1> DEFINE a == [db EXCEPT !.indent = indent]
<1>1. a = [plan |-> db.plan, indent |-> indent, stat |-> db.stat]
  BY DEF IsDatabase
<1> HIDE DEF a
<1>2. IsDatabase(a) /\ Rows(a) = Rows(db)
  BY <1>1 DEF IsDatabase, Rows
<1>3. SameRows(a, NestedTriggers(db, a))
  BY <1>2, NestedFrame
<1> QED
  BY <1>1, <1>3 DEF SetIndent, SameRows, SameTable, a

LEMMA SetIndentSettles ==
  ASSUME NEW db, IsDatabase(db), NEW T \in SUBSET Prefix, Rows(db) \subseteq T,
         NEW indent, indent = [q \in Rows(db) |-> indent[q]],
         \A q \in Rows(db) : indent[q] = Cardinality(Above(T, q)),
         NEW E, Unsettled(db, T) \subseteq E
  PROVE  LET d == SetIndent(db, indent)
         IN  Unsettled(d, T) \subseteq E /\ Counted(db, T) \subseteq Counted(d, T)
<1> DEFINE a == [db EXCEPT !.indent = indent]
<1>1. a = [plan |-> db.plan, indent |-> indent, stat |-> db.stat]
  BY DEF IsDatabase
<1> HIDE DEF a
<1>2. IsDatabase(a) /\ Rows(a) = Rows(db)
  BY <1>1 DEF IsDatabase, Rows
<1>3. /\ Depths(a, T) /\ Unsettled(a, T) = Unsettled(db, T)
      /\ Counted(a, T) = Counted(db, T)
  BY <1>1, <1>2 DEF Depths, Unsettled, Settled, Legacy, Counted
<1> QED
  BY <1>2, <1>3, NestedSettles DEF SetIndent, a

LEMMA SetUsedFrame ==
  ASSUME NEW db, IsDatabase(db), Cardinality(Rows(db)) \in Nat, NEW P, NEW value
  PROVE  LET d == SetUsed(db, P, value)
         IN  SameTable(db, d) /\ d.indent = db.indent
<1> DEFINE used == [q \in Rows(db) |-> IF q \in P THEN value ELSE db.stat.used[q]]
           a == [db EXCEPT !.stat.used = used]
<1>1. used = [q \in Rows(db) |-> used[q]]
  OBVIOUS
<1>2. SetUsed(db, P, value) = NestedTriggers(db, a)
  BY DEF SetUsed, IsDatabase, IsStat
<1> HIDE DEF used
<1>3. a = [plan |-> db.plan, indent |-> db.indent,
           stat |-> [children |-> db.stat.children, used |-> used,
                     inherited |-> db.stat.inherited, vrf |-> db.stat.vrf,
                     pool |-> db.stat.pool]]
  BY DEF IsDatabase, IsStat
<1> HIDE DEF a
<1>4. IsDatabase(a) /\ Rows(a) = Rows(db)
  BY <1>1, <1>3 DEF IsDatabase, IsStat, Rows
<1>5. SameRows(a, NestedTriggers(db, a))
  BY <1>4, NestedFrame
<1> QED
  BY <1>2, <1>3, <1>5 DEF SameRows, SameTable

LEMMA SetUsedSettles ==
  ASSUME NEW db, IsDatabase(db), NEW T \in SUBSET Prefix, Rows(db) \subseteq T, Depths(db, T),
         NEW E, Unsettled(db, T) \subseteq E, NEW P, NEW value
  PROVE  LET d == SetUsed(db, P, value)
         IN  Unsettled(d, T) \subseteq E /\ Counted(db, T) \subseteq Counted(d, T)
<1> DEFINE used == [q \in Rows(db) |-> IF q \in P THEN value ELSE db.stat.used[q]]
           a == [db EXCEPT !.stat.used = used]
<1>1. used = [q \in Rows(db) |-> used[q]]
  OBVIOUS
<1>2. SetUsed(db, P, value) = NestedTriggers(db, a)
  BY DEF SetUsed, IsDatabase, IsStat
<1> HIDE DEF used
<1>3. a = [plan |-> db.plan, indent |-> db.indent,
           stat |-> [children |-> db.stat.children, used |-> used,
                     inherited |-> db.stat.inherited, vrf |-> db.stat.vrf,
                     pool |-> db.stat.pool]]
  BY DEF IsDatabase, IsStat
<1> HIDE DEF a
<1>4. IsDatabase(a) /\ Rows(a) = Rows(db)
  BY <1>1, <1>3 DEF IsDatabase, IsStat, Rows
<1>5. /\ Depths(a, T) /\ Unsettled(a, T) = Unsettled(db, T)
      /\ Counted(a, T) = Counted(db, T)
  BY <1>3, <1>4 DEF Depths, Unsettled, Settled, Legacy, Counted
<1> QED
  BY <1>2, <1>4, <1>5, NestedSettles

\* calc_indent moves no tags and no pools.
LEMMA CalcIndentFrame ==
  ASSUME NEW db, IsDatabase(db), Cardinality(Rows(db)) \in Nat, NEW p, NEW delta
  PROVE  LET d == CalcIndent(db, p, delta)
         IN  /\ SameTable(db, d) /\ d.stat.used = db.stat.used
             /\ d.indent = ShiftIndent(Rows(db), CountIndent(Rows(db), db.indent, p), p, delta)
<1> DEFINE counted == CountIndent(Rows(db), db.indent, p)
           c == CalcIndentAt(db, p)
           shifted == ShiftIndent(Rows(c), c.indent, p, delta)
<1>1. counted = [q \in Rows(db) |-> counted[q]]
  BY DEF CountIndent
<1>2. shifted = [q \in Rows(c) |-> shifted[q]]
  BY DEF ShiftIndent
<1>3. c = SetIndent(db, counted) /\ CalcIndent(db, p, delta) = SetIndent(c, shifted)
  BY DEF CalcIndentAt, CalcIndent, CalcIndentInside
<1> HIDE DEF counted, c, shifted
<1>4. SameTable(db, c) /\ c.indent = counted /\ c.stat.used = db.stat.used
  BY <1>1, <1>3, SetIndentFrame
<1>5. IsDatabase(c) /\ Rows(c) = Rows(db)
  BY <1>4 DEF SameTable, Rows
<1>6. LET d == SetIndent(c, shifted)
      IN  SameTable(c, d) /\ d.indent = shifted /\ d.stat.used = c.stat.used
  BY <1>2, <1>5, SetIndentFrame
<1>7. shifted = ShiftIndent(Rows(db), counted, p, delta)
  BY <1>4, <1>5 DEF shifted
<1> QED
  BY <1>3, <1>4, <1>6, <1>7 DEF SameTable, counted

\* When it finds the row of p, if there is one, at its depth, and moves the rows
\* inside to theirs, then it counts rightly and hands on tags rightly.
LEMMA CalcIndentSettles ==
  ASSUME NEW db, IsDatabase(db), NEW T \in SUBSET Prefix, Rows(db) \subseteq T,
         NEW p, NEW delta,
         p \in Rows(db) => db.indent[p] = Cardinality(Above(Rows(db), p)),
         \A q \in Rows(db) : (IF Covers(p, q) THEN db.indent[q] + delta ELSE db.indent[q])
                               = Cardinality(Above(T, q)),
         NEW E, Unsettled(db, T) \subseteq E
  PROVE  LET d == CalcIndent(db, p, delta)
         IN  /\ Depths(d, T) /\ Unsettled(d, T) \subseteq E
             /\ Counted(db, T) \subseteq Counted(d, T)
<1> DEFINE R == Rows(db)
           c == CalcIndentAt(db, p)
           shifted == ShiftIndent(R, db.indent, p, delta)
<1>1. Cardinality(R) \in Nat
  BY PrefixAssumption, FS_Subset, FS_CardinalityType
<1>2. CountIndent(R, db.indent, p) = db.indent
  BY DEF CountIndent, IsDatabase
<1>3. c = NestedTriggers(db, [db EXCEPT !.indent = db.indent])
  BY <1>2 DEF CalcIndentAt, SetIndent
<1>4. [db EXCEPT !.indent = db.indent] = db
  BY DEF IsDatabase
<1> HIDE DEF c
<1>5. SameRows(db, c) /\ SameColumns(db, c)
  BY <1>1, <1>3, <1>4, NestedFrame, NestedOfNothing
<1>6. /\ IsDatabase(c) /\ Rows(c) = R /\ c.indent = db.indent
      /\ Unsettled(c, T) = Unsettled(db, T) /\ Counted(c, T) = Counted(db, T)
  BY <1>5 DEF SameRows, SameColumns, Rows, Unsettled, Settled, Legacy, Counted
<1>7. CalcIndent(db, p, delta) = SetIndent(c, shifted)
  BY <1>6 DEF CalcIndent, CalcIndentInside, c
<1>8. /\ shifted = [q \in R |-> shifted[q]]
      /\ \A q \in R : shifted[q] = Cardinality(Above(T, q))
  BY DEF ShiftIndent
<1> HIDE DEF shifted
<1>9. LET d == SetIndent(c, shifted)
      IN  /\ Unsettled(d, T) \subseteq E /\ Counted(db, T) \subseteq Counted(d, T)
          /\ SameTable(c, d) /\ d.indent = shifted
  BY <1>1, <1>6, <1>8, SetIndentFrame, SetIndentSettles
<1>10. Depths(CalcIndent(db, p, delta), T)
  BY <1>6, <1>7, <1>8, <1>9 DEF Depths, SameTable, Rows
<1> QED
  BY <1>7, <1>9, <1>10

-----------------------------------------------------------------------------
(* The AFTER trigger of the table.                                         *)

RowsAreFinite(db) == IsDatabase(db) /\ Cardinality(Rows(db)) \in Nat

LEMMA RecountKeepsTable ==
  ASSUME NEW db, RowsAreFinite(db), NEW P, NEW fetched
  PROVE  LET d == Recount(db, P, fetched)
         IN  /\ RowsAreFinite(d) /\ SameTable(db, d) /\ d.indent = db.indent
             /\ Rows(d) = Rows(db)
             /\ \A T : Unsettled(d, T) = Unsettled(db, T)
<1> DEFINE d == Recount(db, P, fetched)
<1>1. SameRows(db, d) /\ d.stat.inherited = db.stat.inherited
  BY RecountIs DEF RowsAreFinite
<1> HIDE DEF d
<1>2. Rows(d) = Rows(db)
  BY <1>1 DEF SameRows, Rows
<1>3. \A T : Unsettled(d, T) = Unsettled(db, T)
  BY <1>1, <1>2 DEF SameRows, Unsettled, Settled, Legacy
<1> QED
  BY <1>1, <1>2, <1>3 DEF SameRows, SameTable, RowsAreFinite, d

LEMMA CalcIndentKeepsTable ==
  ASSUME NEW db, RowsAreFinite(db), NEW p, NEW delta
  PROVE  LET d == CalcIndent(db, p, delta)
         IN  /\ RowsAreFinite(d) /\ SameTable(db, d) /\ Rows(d) = Rows(db)
             /\ \A q \in Rows(db) : q # p /\ ~ Covers(p, q) => d.indent[q] = db.indent[q]
<1> DEFINE d == CalcIndent(db, p, delta)
<1>1. /\ SameTable(db, d)
      /\ d.indent = ShiftIndent(Rows(db), CountIndent(Rows(db), db.indent, p), p, delta)
  BY CalcIndentFrame DEF RowsAreFinite
<1> HIDE DEF d
<1>2. Rows(d) = Rows(db)
  BY <1>1 DEF SameTable, Rows
<1>3. \A q \in Rows(db) : q # p /\ ~ Covers(p, q) => d.indent[q] = db.indent[q]
  BY <1>1 DEF ShiftIndent, CountIndent
<1> QED
  BY <1>1, <1>2, <1>3 DEF SameTable, RowsAreFinite, d

LEMMA SetUsedKeepsTable ==
  ASSUME NEW db, RowsAreFinite(db), NEW P, NEW value
  PROVE  LET d == SetUsed(db, P, value)
         IN  /\ RowsAreFinite(d) /\ SameTable(db, d) /\ d.indent = db.indent
             /\ Rows(d) = Rows(db)
BY SetUsedFrame DEF SameTable, RowsAreFinite, Rows

LEMMA BookIs ==
  ASSUME NEW db, RowsAreFinite(db), NEW row, NEW parentPool, NEW sign
  PROVE  LET d == Book(db, row, parentPool, sign)
         IN  /\ RowsAreFinite(d) /\ d.plan = db.plan /\ d.indent = db.indent
             /\ Rows(d) = Rows(db) /\ SameColumns(db, d)
             /\ d.stat.pool = MoveChild(MoveMember(db.stat.pool, row, sign), parentPool,
                                        row.prefix, sign)
<1> DEFINE d == Book(db, row, parentPool, sign)
           vrf == CountInVrf(db.stat.vrf, row, sign)
           pool == MoveChild(MoveMember(db.stat.pool, row, sign), parentPool, row.prefix, sign)
<1>0. d = [db EXCEPT !.stat.vrf = vrf, !.stat.pool = pool]
  BY DEF Book, RowsAreFinite, IsDatabase, IsStat
<1> HIDE DEF vrf, pool
<1>1. d = [plan |-> db.plan, indent |-> db.indent,
           stat |-> [children |-> db.stat.children, used |-> db.stat.used,
                     inherited |-> db.stat.inherited, vrf |-> vrf, pool |-> pool]]
  <2> HIDE DEF d
  <2> QED
    BY <1>0 DEF RowsAreFinite, IsDatabase, IsStat
<1> HIDE DEF d
<1> QED
  BY <1>1, SMTT(30) DEF RowsAreFinite, IsDatabase, IsStat, Rows, SameColumns, d, pool

LEMMA CascadeKeepsTable ==
  ASSUME NEW db, RowsAreFinite(db), NEW P
  PROVE  LET d == CascadeTags(db, P)
         IN  /\ RowsAreFinite(d) /\ SameTable(db, d) /\ d.indent = db.indent
             /\ Rows(d) = Rows(db)
<1>1. SameRows(db, CascadeTags(db, P))
  BY CascadeFrame DEF RowsAreFinite
<1> QED
  BY <1>1 DEF SameRows, SameTable, RowsAreFinite, Rows

\* Recount, charge and book, as the INSERT and the DELETE branch do after calc_indent.
LEMMA ChargedAndBooked ==
  ASSUME NEW c, RowsAreFinite(c), NEW parent, NEW fetched, NEW value,
         NEW row, NEW parentPool, NEW sign
  PROVE  LET b == Book(SetUsed(Recount(c, parent, fetched), parent, value),
                       row, parentPool, sign)
         IN  /\ RowsAreFinite(b) /\ b.plan = c.plan /\ b.indent = c.indent
             /\ Rows(b) = Rows(c)
             /\ b.stat.pool = MoveChild(MoveMember(c.stat.pool, row, sign), parentPool,
                                        row.prefix, sign)
<1> DEFINE r == Recount(c, parent, fetched)
           u == SetUsed(r, parent, value)
           b == Book(u, row, parentPool, sign)
<1>1. RowsAreFinite(r) /\ SameTable(c, r) /\ r.indent = c.indent /\ Rows(r) = Rows(c)
  BY RecountKeepsTable
<1> HIDE DEF r
<1>2. RowsAreFinite(u) /\ SameTable(r, u) /\ u.indent = r.indent /\ Rows(u) = Rows(r)
  BY <1>1, SetUsedKeepsTable
<1> HIDE DEF u
<1>3. /\ RowsAreFinite(b) /\ b.plan = u.plan /\ b.indent = u.indent /\ Rows(b) = Rows(u)
      /\ b.stat.pool = MoveChild(MoveMember(u.stat.pool, row, sign), parentPool,
                                 row.prefix, sign)
  BY <1>2, BookIs
<1> HIDE DEF b
<1> QED
  BY <1>1, <1>2, <1>3 DEF SameTable, b, u, r

\* None of it unsettles tags, and the parent is counted.
LEMMA ChargedSettles ==
  ASSUME NEW c, RowsAreFinite(c), NEW T \in SUBSET Prefix, Rows(c) \subseteq T, Depths(c, T),
         NEW E, Unsettled(c, T) \subseteq E,
         NEW parent \in SUBSET Rows(c),
         NEW fetched, \A q \in parent : fetched[q] = c.indent[q],
         NEW value, NEW row, NEW parentPool, NEW sign
  PROVE  LET b == Book(SetUsed(Recount(c, parent, fetched), parent, value),
                       row, parentPool, sign)
         IN  /\ Depths(b, T) /\ Unsettled(b, T) \subseteq E
             /\ Counted(c, T) \cup parent \subseteq Counted(b, T)
<1> DEFINE r == Recount(c, parent, fetched)
           u == SetUsed(r, parent, value)
           b == Book(u, row, parentPool, sign)
<1>1. /\ RowsAreFinite(r) /\ SameTable(c, r) /\ r.indent = c.indent /\ Rows(r) = Rows(c)
      /\ Unsettled(r, T) \subseteq E
  BY RecountKeepsTable
<1>2. Counted(c, T) \cup parent \subseteq Counted(r, T)
  <2>1. Counted(c, T) \cup (parent \cap Rows(c)) \subseteq Counted(r, T)
    <3>1. \A q \in parent \cap Rows(c) : fetched[q] = c.indent[q]
      OBVIOUS
    <3> QED
      BY <3>1, RecountCounts DEF RowsAreFinite
  <2> QED
    BY <2>1
<1> HIDE DEF r
<1>3. Depths(r, T)
  BY <1>1 DEF Depths
<1>4. /\ RowsAreFinite(u) /\ SameTable(r, u) /\ u.indent = r.indent /\ Rows(u) = Rows(r)
      /\ Unsettled(u, T) \subseteq E /\ Counted(r, T) \subseteq Counted(u, T)
  BY <1>1, <1>3, SetUsedKeepsTable, SetUsedSettles DEF RowsAreFinite
<1> HIDE DEF u
<1>5. /\ b.plan = u.plan /\ b.indent = u.indent /\ Rows(b) = Rows(u) /\ SameColumns(u, b)
  BY <1>4, BookIs
<1> HIDE DEF b
<1>6. /\ Unsettled(b, T) = Unsettled(u, T) /\ Counted(b, T) = Counted(u, T)
      /\ Depths(b, T)
  BY <1>1, <1>3, <1>4, <1>5
     DEF SameColumns, Unsettled, Settled, Legacy, Counted, Depths
<1> QED
  BY <1>2, <1>4, <1>6 DEF b, u, r

LEMMA AfterInsertIs ==
  ASSUME NEW db, RowsAreFinite(db), NEW p
  PROVE  LET d == AfterInsert(db, p)
         IN  /\ RowsAreFinite(d) /\ d.plan = db.plan /\ Rows(d) = Rows(db)
             /\ d.stat.pool = MoveChild(MoveMember(db.stat.pool, RowRecord(db, p), 1),
                                        PoolOf(db.plan, Parent(Rows(db), p)), p, 1)
<1> DEFINE new == RowRecord(db, p)
           parent == Parent(Rows(db), p)
           pool == PoolOf(db.plan, parent)
           value == UsedOf(db, parent) + Charge(new, MaxLen(Family(p)))
           c == CalcIndent(db, p, 1)
           b == Book(SetUsed(Recount(c, parent, db.indent), parent, value), new, pool, 1)
<1>1. AfterInsert(db, p) = CascadeTags(b, {p}) /\ new.prefix = p
  BY DEF AfterInsert, RowRecord
<1>2. RowsAreFinite(c) /\ SameTable(db, c) /\ Rows(c) = Rows(db)
  BY CalcIndentKeepsTable
<1> HIDE DEF c, new, parent, pool, value
<1>3. /\ RowsAreFinite(b) /\ b.plan = c.plan /\ Rows(b) = Rows(c)
      /\ b.stat.pool = MoveChild(MoveMember(c.stat.pool, new, 1), pool, new.prefix, 1)
  BY <1>2, ChargedAndBooked
<1> HIDE DEF b
<1>4. LET d == CascadeTags(b, {p})
      IN  RowsAreFinite(d) /\ SameTable(b, d) /\ Rows(d) = Rows(b)
  BY <1>3, CascadeKeepsTable
<1> QED
  BY <1>1, <1>2, <1>3, <1>4 DEF SameTable, new, pool, parent

\* The row p comes with its level; the rows right below it have not inherited its tags
\* yet, and its parent has not been counted again.
LEMMA AfterInsertSettles ==
  ASSUME NEW db, IsDatabase(db), NEW R \in SUBSET Prefix, R = Rows(db), NEW p \in R,
         db.indent[p] = Cardinality(Above(R, p)),
         \A q \in R : (IF Covers(p, q) THEN db.indent[q] + 1 ELSE db.indent[q])
                        = Cardinality(Above(R, q)),
         Unsettled(db, R) \subseteq Kids(R, R, p),
         R \ Parent(R, p) \subseteq Counted(db, R)
  PROVE  LET d == AfterInsert(db, p)
         IN  Unsettled(d, R) = {} /\ R \subseteq Counted(d, R)
<1> DEFINE new == RowRecord(db, p)
           parent == Parent(R, p)
           pool == PoolOf(db.plan, parent)
           value == UsedOf(db, parent) + Charge(new, MaxLen(Family(p)))
           E == Kids(R, R, p)
           c == CalcIndent(db, p, 1)
           b == Book(SetUsed(Recount(c, parent, db.indent), parent, value), new, pool, 1)
<1>1. AfterInsert(db, p) = CascadeTags(b, {p})
  BY DEF AfterInsert
<1>2. RowsAreFinite(db)
  BY PrefixAssumption, FS_Subset, FS_CardinalityType DEF RowsAreFinite
<1>3. /\ Depths(c, R) /\ Unsettled(c, R) \subseteq E /\ Counted(db, R) \subseteq Counted(c, R)
  BY CalcIndentSettles
<1>4. /\ RowsAreFinite(c) /\ Rows(c) = R
      /\ \A q \in R : q # p /\ ~ Covers(p, q) => c.indent[q] = db.indent[q]
  BY <1>2, CalcIndentKeepsTable
<1>5. parent \in SUBSET R /\ \A q \in parent : db.indent[q] = c.indent[q]
  <2>1. \A q \in parent : q \in R /\ q # p /\ ~ Covers(p, q)
    BY ParentAbove, CoversStrict
  <2> QED
    BY <1>4, <2>1
<1> HIDE DEF c, new, parent, pool, value, E
<1>6. /\ RowsAreFinite(b) /\ Rows(b) = R
      /\ Depths(b, R) /\ Unsettled(b, R) \subseteq E
      /\ Counted(c, R) \cup parent \subseteq Counted(b, R)
  <2>1. RowsAreFinite(b) /\ Rows(b) = Rows(c)
    BY <1>4, ChargedAndBooked
  <2>2. parent \in SUBSET Rows(c) /\ Rows(c) \subseteq R
    BY <1>4, <1>5
  <2>3. /\ Depths(b, R) /\ Unsettled(b, R) \subseteq E
        /\ Counted(c, R) \cup parent \subseteq Counted(b, R)
    BY <1>3, <1>4, <1>5, <2>2, ChargedSettles
  <2> QED
    BY <1>4, <2>1, <2>3
<1> HIDE DEF b
<1>7. E \subseteq Owed(b, {p}, {})
  <2>1. Heirs(b, p) = E
    BY <1>6, RowsBelow DEF Heirs, E
  <2> QED
    BY <1>6, <2>1 DEF Owed, E, Kids
<1>8. LET d == CascadeTags(b, {p})
      IN  Unsettled(d, R) \subseteq {} /\ Counted(b, R) \subseteq Counted(d, R)
  BY <1>6, <1>7, CascadeSettles DEF RowsAreFinite
<1> QED
  BY <1>1, <1>3, <1>6, <1>8 DEF parent

-----------------------------------------------------------------------------
(* A row has gone: T is the table without it, and with the rows whose       *)
(* trigger is still to come.                                               *)

\* The row that goes was the parent, or the parent stays.
LEMMA ParentWithout ==
  ASSUME NEW T \in SUBSET Prefix, NEW p \in Prefix, p \notin T, NEW q \in Prefix
  PROVE  \/ Parent(T \cup {p}, q) = {p} /\ Parent(T, q) = Parent(T, p)
         \/ p \notin Parent(T \cup {p}, q) /\ Parent(T \cup {p}, q) = Parent(T, q)
<1>1. T \cup {p} \in SUBSET Prefix
  OBVIOUS
<1>2. CASE p \in Parent(T \cup {p}, q)
  <2>1. Parent(T \cup {p}, q) = {p}
    BY <1>1, <1>2, ParentUnique
  <2>2. Covers(p, q) /\ \A r \in T : Covers(r, q) => Covers(r, p)
    BY <1>2, ParentAbove
  <2>3. Above(T, q) = Above(T, p)
    BY <2>2, CoversAssumption DEF Above
  <2> QED
    BY <2>1, <2>3 DEF Parent
<1>3. CASE p \notin Parent(T \cup {p}, q)
  <2>1. Parent(T \cup {p}, q) \subseteq T
    BY <1>3, ParentAbove
  <2> QED
    BY <1>1, <1>3, <2>1, ParentInFewer
<1> QED
  BY <1>2, <1>3

LEMMA AfterDeleteIs ==
  ASSUME NEW db, RowsAreFinite(db), NEW old
  PROVE  LET d == AfterDelete(db, old)
         IN  /\ RowsAreFinite(d) /\ d.plan = db.plan /\ Rows(d) = Rows(db)
             /\ d.indent = CalcIndent(db, old.prefix, -1).indent
             /\ d.stat.pool = MoveChild(MoveMember(db.stat.pool, old, -1),
                                        PoolOf(db.plan, Parent(Rows(db), old.prefix)),
                                        old.prefix, -1)
<1> DEFINE p == old.prefix
           parent == Parent(Rows(db), p)
           pool == PoolOf(db.plan, parent)
           value == UsedOf(db, parent) - Charge(old, MaxLen(4))
           c == CalcIndent(db, p, -1)
           b == Book(SetUsed(Recount(c, parent, db.indent), parent, value), old, pool, -1)
           P == IF parent = {} THEN {p} ELSE parent
<1>1. AfterDelete(db, old) = CascadeTags(b, P)
  BY DEF AfterDelete
<1>2. RowsAreFinite(c) /\ SameTable(db, c) /\ Rows(c) = Rows(db)
  BY CalcIndentKeepsTable
<1> HIDE DEF c, parent, pool, value, P
<1>3. /\ RowsAreFinite(b) /\ b.plan = c.plan /\ Rows(b) = Rows(c) /\ b.indent = c.indent
      /\ b.stat.pool = MoveChild(MoveMember(c.stat.pool, old, -1), pool, p, -1)
  BY <1>2, ChargedAndBooked
<1> HIDE DEF b
<1>4. LET d == CascadeTags(b, P)
      IN  RowsAreFinite(d) /\ SameTable(b, d) /\ Rows(d) = Rows(b) /\ d.indent = b.indent
  BY <1>3, CascadeKeepsTable
<1> QED
  BY <1>1, <1>2, <1>3, <1>4 DEF SameTable, pool, parent, c

LEMMA AfterDeleteSettles ==
  ASSUME NEW db, IsDatabase(db), NEW old, NEW p \in Prefix, old.prefix = p,
         NEW T \in SUBSET Prefix, Rows(db) \subseteq T, p \notin T,
         Depths(db, T \cup {p}), Unsettled(db, T \cup {p}) = {}
  PROVE  LET d == AfterDelete(db, old)
         IN  /\ Depths(d, T) /\ Unsettled(d, T) = {}
             /\ Counted(db, T \cup {p}) \cup Parent(Rows(db), p) \subseteq Counted(d, T)
<1> DEFINE R == Rows(db)
           parent == Parent(R, p)
           pool == PoolOf(db.plan, parent)
           value == UsedOf(db, parent) - Charge(old, MaxLen(4))
           c == CalcIndent(db, p, -1)
           b == Book(SetUsed(Recount(c, parent, db.indent), parent, value), old, pool, -1)
           P == IF parent = {} THEN {p} ELSE parent
           E == Kids(R, T \cup {p}, p)
<1>1. AfterDelete(db, old) = CascadeTags(b, P)
  BY DEF AfterDelete
<1>2. RowsAreFinite(db) /\ R \in SUBSET Prefix /\ p \notin R
  <2>1. R \in SUBSET Prefix /\ p \notin R
    OBVIOUS
  <2> QED
    BY <2>1, PrefixAssumption, FS_Subset, FS_CardinalityType DEF RowsAreFinite
<1>3. \A q \in R : (IF Covers(p, q) THEN db.indent[q] + (-1) ELSE db.indent[q])
                     = Cardinality(Above(T, q))
  <2> TAKE q \in R
  <2>1. db.indent[q] = Cardinality(Above(T \cup {p}, q))
    BY DEF Depths
  <2>2. Cardinality(Above(T, q)) \in Nat
    BY AboveFinite
  <2> QED
    BY <2>1, <2>2, AboveAfterInsert
<1> HIDE DEF c, b, parent, pool, value, P
<1>4. Unsettled(db, T) \subseteq E
  <2> SUFFICES ASSUME NEW q \in Unsettled(db, T), q \notin E PROVE FALSE
    OBVIOUS
  <2>1. q \in R /\ q \in Prefix /\ Parent(T, q) \subseteq R /\ ~ Settled(db, q)
    BY DEF Unsettled
  <2>2. Parent(T \cup {p}, q) # {p}
    BY <2>1 DEF Kids
  <2>3. Parent(T \cup {p}, q) = Parent(T, q)
    <3> HIDE DEF R, E
    <3> QED
      BY <2>1, <2>2, ParentWithout, ZenonT(60)
  <2> QED
    BY <2>1, <2>3 DEF Unsettled
<1>5. Counted(db, T \cup {p}) \ parent \subseteq Counted(db, T)
  <2> SUFFICES ASSUME NEW x \in Counted(db, T \cup {p}), x \notin parent
               PROVE  x \in Counted(db, T)
    OBVIOUS
  <2>1. x \in R /\ x \in T /\ x # p
    BY DEF Counted
  <2>2. ASSUME NEW q \in R PROVE Parent(T \cup {p}, q) = {x} <=> Parent(T, q) = {x}
    <3>1. Parent(T, p) = {x} => x \in parent
      BY <1>2, <2>1, ParentInFewer DEF parent
    <3> QED
      BY <2>1, <2>2, <3>1, ParentWithout
  <2>3. Kids(R, T \cup {p}, x) = Kids(R, T, x)
    BY <2>2 DEF Kids
  <2> QED
    BY <2>3 DEF Counted
<1>6. Depths(c, T) /\ Unsettled(c, T) \subseteq E /\ Counted(db, T) \subseteq Counted(c, T)
  BY <1>2, <1>3, <1>4, CalcIndentSettles DEF c
<1>7. /\ RowsAreFinite(c) /\ Rows(c) = R
      /\ \A q \in R : q # p /\ ~ Covers(p, q) => c.indent[q] = db.indent[q]
  BY <1>2, CalcIndentKeepsTable DEF c
<1>8. parent \in SUBSET R /\ \A q \in parent : db.indent[q] = c.indent[q]
  <2>1. \A q \in parent : q \in R /\ q # p /\ ~ Covers(p, q)
    BY <1>2, ParentAbove, CoversStrict DEF parent
  <2> QED
    BY <1>7, <2>1
<1> HIDE DEF E
<1>9. /\ RowsAreFinite(b) /\ Rows(b) = R
      /\ Depths(b, T) /\ Unsettled(b, T) \subseteq E
      /\ Counted(c, T) \cup parent \subseteq Counted(b, T)
  <2>1. RowsAreFinite(b) /\ Rows(b) = Rows(c)
    BY <1>7, ChargedAndBooked DEF b
  <2>2. parent \in SUBSET Rows(c) /\ Rows(c) \subseteq T
    BY <1>7, <1>8
  <2>3. /\ Depths(b, T) /\ Unsettled(b, T) \subseteq E
        /\ Counted(c, T) \cup parent \subseteq Counted(b, T)
    BY <1>6, <1>7, <1>8, <2>2, ChargedSettles DEF b
  <2> QED
    BY <1>7, <2>1, <2>3
<1>10. Unsettled(b, T) \subseteq Owed(b, P, {})
  <2> SUFFICES ASSUME NEW q \in Unsettled(b, T) PROVE \E x \in P : q \in Heirs(b, x)
    BY <1>9 DEF Owed, Unsettled
  <2>1. q \in R /\ q \in Prefix /\ Parent(T, q) \subseteq R /\ Parent(T \cup {p}, q) = {p}
    BY <1>9 DEF Unsettled, E, Kids
  <2>2. Parent(T, q) = Parent(T, p) /\ Covers(p, q)
    BY <2>1, ParentWithout, ParentAbove
  <2>3. parent = Parent(T, q)
    BY <1>2, <2>1, <2>2, ParentInFewer DEF parent
  <2>4. CASE parent = {}
    <3>1. b.indent[q] = Cardinality(Above(T, q)) /\ Parent(T, q) = {}
      BY <1>9, <2>1, <2>3, <2>4 DEF Depths
    <3>2. q \in Heirs(b, p)
      BY <1>2, <1>9, <2>1, <2>2, <3>1, LevelZero DEF Heirs, Inside
    <3> QED
      BY <2>4, <3>2 DEF P
  <2>5. CASE parent # {}
    <3>1. PICK x \in parent : TRUE
      BY <2>5
    <3>2. Parent(T, q) = {x} /\ x \in R
      BY <2>1, <2>3, <3>1, ParentUnique
    <3>3. q \in Heirs(b, x)
      BY <1>9, <2>1, <3>2, RowsBelow DEF Heirs, Kids
    <3> QED
      BY <2>5, <3>1, <3>3 DEF P
  <2> QED
    BY <2>4, <2>5
<1>11. LET d == CascadeTags(b, P)
       IN  /\ Unsettled(d, T) \subseteq {} /\ Counted(b, T) \subseteq Counted(d, T)
           /\ d.indent = b.indent /\ Rows(d) = Rows(b)
  BY <1>9, <1>10, CascadeSettles, CascadeKeepsTable DEF RowsAreFinite
<1>12. Depths(CascadeTags(b, P), T)
  BY <1>9, <1>11 DEF Depths
<1>13. Counted(db, T \cup {p}) \cup parent \subseteq Counted(CascadeTags(b, P), T)
  BY <1>5, <1>6, <1>9, <1>11
<1> QED
  BY <1>1, <1>11, <1>12, <1>13 DEF parent

-----------------------------------------------------------------------------
(* An UPDATE.                                                              *)

Booked(x, old, new, oldPool, newPool) ==
  [x EXCEPT !.stat.vrf = MoveVrfShare(@, old, new),
            !.stat.pool = MovePools(@, old, new, oldPool, newPool)]

LEMMA BookedIs ==
  ASSUME NEW db, RowsAreFinite(db), NEW old, NEW new, NEW oldPool, NEW newPool
  PROVE  LET d == Booked(db, old, new, oldPool, newPool)
         IN  /\ RowsAreFinite(d) /\ d.plan = db.plan /\ d.indent = db.indent
             /\ Rows(d) = Rows(db) /\ SameColumns(db, d)
             /\ d.stat.pool = MovePools(db.stat.pool, old, new, oldPool, newPool)
<1> DEFINE d == Booked(db, old, new, oldPool, newPool)
           vrf == MoveVrfShare(db.stat.vrf, old, new)
           pool == MovePools(db.stat.pool, old, new, oldPool, newPool)
<1>1. d = [db EXCEPT !.stat.vrf = vrf, !.stat.pool = pool]
  BY DEF Booked, RowsAreFinite, IsDatabase, IsStat
<1> HIDE DEF vrf, pool
<1>2. d = [plan |-> db.plan, indent |-> db.indent,
           stat |-> [children |-> db.stat.children, used |-> db.stat.used,
                     inherited |-> db.stat.inherited, vrf |-> vrf, pool |-> pool]]
  <2> HIDE DEF d
  <2> QED
    BY <1>1 DEF RowsAreFinite, IsDatabase, IsStat
<1> HIDE DEF d
<1> QED
  BY <1>2 DEF RowsAreFinite, IsDatabase, IsStat, Rows, SameColumns, d, pool

LEMMA MoveChargeKeepsTable ==
  ASSUME NEW db, RowsAreFinite(db), NEW o, NEW n, NEW refunded, NEW charged, NEW cost
  PROVE  LET d == MoveCharge(db, o, n, refunded, charged, cost)
         IN  RowsAreFinite(d) /\ SameTable(db, d) /\ Rows(d) = Rows(db)
<1>1. CASE o = n
  BY <1>1, SetUsedKeepsTable DEF MoveCharge
<1>2. CASE o # n
  <2>1. PICK u : u = SetUsed(db, o, refunded)
    OBVIOUS
  <2>2. RowsAreFinite(u) /\ SameTable(db, u) /\ Rows(u) = Rows(db)
    BY <2>1, SetUsedKeepsTable
  <2>3. LET d == SetUsed(u, n, charged)
        IN  RowsAreFinite(d) /\ SameTable(u, d) /\ Rows(d) = Rows(u)
    BY <2>2, SetUsedKeepsTable
  <2> QED
    BY <1>2, <2>1, <2>2, <2>3 DEF MoveCharge, SameTable
<1> QED
  BY <1>1, <1>2

\* The members of pools move in the last step only, whatever the trigger does before.
LEMMA AfterUpdateIs ==
  ASSUME NEW db, RowsAreFinite(db), NEW old, NEW n
  PROVE  LET d == AfterUpdate(db, old, n)
         IN  /\ RowsAreFinite(d) /\ d.plan = db.plan /\ Rows(d) = Rows(db)
             /\ \E oldPool, newPool :
                  d.stat.pool = MovePools(db.stat.pool, old, RowRecord(db, n), oldPool, newPool)
<1> DEFINE new == RowRecord(db, n)
           o == old.prefix
           moved == o # n
           oldParent == Parent(Rows(db) \ {n}, o)
           newParent == Parent(Rows(db), n)
           cost == Charge(new, MaxLen(Family(n)))
           refunded == UsedOf(db, oldParent) - Charge(old, MaxLen(Family(n)))
           taken == UsedOf(db, newParent) + cost
           left == CalcIndent(db, o, -1)
           calculated == IF moved THEN CalcIndent(left, n, 1) ELSE db
           given == Recount(calculated, oldParent, db.indent)
           recounted == Recount(given, newParent, db.indent)
           charged == IF moved
                      THEN MoveCharge(recounted, oldParent, newParent, refunded, taken, cost)
                      ELSE recounted
           oldPool == PoolOf(db.plan, oldParent)
           newPool == PoolOf(db.plan, newParent)
           booked == Booked(charged, old, new, oldPool, newPool)
           first == CascadeTags(booked, {o})
<1>1. AfterUpdate(db, old, n) = CascadeTags(first, {n})
  BY DEF AfterUpdate, Booked
<1> HIDE DEF new, moved, oldParent, newParent, cost, refunded, taken, oldPool, newPool
<1>2. RowsAreFinite(left) /\ SameTable(db, left) /\ Rows(left) = Rows(db)
  BY CalcIndentKeepsTable
<1> HIDE DEF left
<1>3. RowsAreFinite(calculated) /\ SameTable(db, calculated) /\ Rows(calculated) = Rows(db)
  <2>1. LET d == CalcIndent(left, n, 1)
        IN  RowsAreFinite(d) /\ SameTable(left, d) /\ Rows(d) = Rows(left)
    BY <1>2, CalcIndentKeepsTable
  <2> QED
    BY <1>2, <2>1 DEF SameTable, RowsAreFinite
<1> HIDE DEF calculated
<1>4. RowsAreFinite(given) /\ SameTable(calculated, given) /\ Rows(given) = Rows(calculated)
  BY <1>3, RecountKeepsTable
<1> HIDE DEF given
<1>5. RowsAreFinite(recounted) /\ SameTable(given, recounted) /\ Rows(recounted) = Rows(given)
  BY <1>4, RecountKeepsTable
<1> HIDE DEF recounted
<1>6. RowsAreFinite(charged) /\ SameTable(recounted, charged) /\ Rows(charged) = Rows(recounted)
  <2>1. LET d == MoveCharge(recounted, oldParent, newParent, refunded, taken, cost)
        IN  RowsAreFinite(d) /\ SameTable(recounted, d) /\ Rows(d) = Rows(recounted)
    BY <1>5, MoveChargeKeepsTable
  <2> QED
    BY <1>5, <2>1 DEF SameTable, RowsAreFinite
<1> HIDE DEF charged
<1>7. /\ RowsAreFinite(booked) /\ booked.plan = charged.plan /\ Rows(booked) = Rows(charged)
      /\ booked.stat.pool = MovePools(charged.stat.pool, old, new, oldPool, newPool)
  BY <1>6, BookedIs
<1> HIDE DEF booked
<1>8. RowsAreFinite(first) /\ SameTable(booked, first) /\ Rows(first) = Rows(booked)
  BY <1>7, CascadeKeepsTable
<1> HIDE DEF first
<1>9. LET d == CascadeTags(first, {n})
      IN  RowsAreFinite(d) /\ SameTable(first, d) /\ Rows(d) = Rows(first)
  BY <1>8, CascadeKeepsTable
<1> QED
  BY <1>1, <1>3, <1>4, <1>5, <1>6, <1>7, <1>8, <1>9 DEF SameTable, new

\* A row whose attributes are edited: the rows right below it have not inherited its new
\* tags yet.
LEMMA AfterUpdateSettles ==
  ASSUME NEW db, IsDatabase(db), NEW R \in SUBSET Prefix, R = Rows(db), Depths(db, R),
         NEW n \in R, NEW old, old.prefix = n, Unsettled(db, R) \subseteq Kids(R, R, n)
  PROVE  LET d == AfterUpdate(db, old, n)
         IN  Unsettled(d, R) = {} /\ Counted(db, R) \subseteq Counted(d, R)
<1> DEFINE new == RowRecord(db, n)
           oldParent == Parent(R \ {n}, n)
           newParent == Parent(R, n)
           given == Recount(db, oldParent, db.indent)
           recounted == Recount(given, newParent, db.indent)
           oldPool == PoolOf(db.plan, oldParent)
           newPool == PoolOf(db.plan, newParent)
           booked == Booked(recounted, old, new, oldPool, newPool)
           first == CascadeTags(booked, {n})
           E == Kids(R, R, n)
<1>1. AfterUpdate(db, old, n) = CascadeTags(first, {n})
  BY DEF AfterUpdate, Booked
<1>2. RowsAreFinite(db)
  BY PrefixAssumption, FS_Subset, FS_CardinalityType DEF RowsAreFinite
<1> HIDE DEF new, oldParent, newParent, oldPool, newPool, E
<1>3. /\ RowsAreFinite(given) /\ Rows(given) = R /\ given.indent = db.indent
      /\ Unsettled(given, R) = Unsettled(db, R) /\ Counted(db, R) \subseteq Counted(given, R)
  <2>1. Counted(db, R) \cup (oldParent \cap Rows(db)) \subseteq Counted(given, R)
    BY RecountCounts
  <2> QED
    BY <1>2, <2>1, RecountKeepsTable
<1> HIDE DEF given
<1>4. /\ RowsAreFinite(recounted) /\ Rows(recounted) = R /\ recounted.indent = db.indent
      /\ Unsettled(recounted, R) = Unsettled(db, R)
      /\ Counted(db, R) \subseteq Counted(recounted, R)
  <2>1. Depths(given, R) /\ IsDatabase(given) /\ Rows(given) \subseteq R
    BY <1>3 DEF Depths, RowsAreFinite
  <2>2. Counted(given, R) \cup (newParent \cap Rows(given)) \subseteq Counted(recounted, R)
    BY <1>3, <2>1, RecountCounts
  <2>3. /\ RowsAreFinite(recounted) /\ Rows(recounted) = R /\ recounted.indent = given.indent
        /\ Unsettled(recounted, R) = Unsettled(given, R)
    BY <1>3, RecountKeepsTable
  <2> QED
    BY <1>3, <2>2, <2>3
<1> HIDE DEF recounted
<1>5. /\ RowsAreFinite(booked) /\ Rows(booked) = R /\ Depths(booked, R)
      /\ Unsettled(booked, R) \subseteq E /\ Counted(db, R) \subseteq Counted(booked, R)
  <2>1. /\ RowsAreFinite(booked) /\ booked.plan = recounted.plan
        /\ booked.indent = recounted.indent /\ Rows(booked) = R
        /\ SameColumns(recounted, booked)
    BY <1>4, BookedIs
  <2> HIDE DEF booked
  <2>2. /\ Unsettled(booked, R) = Unsettled(recounted, R)
        /\ Counted(booked, R) = Counted(recounted, R)
    BY <1>4, <2>1 DEF SameColumns, Unsettled, Settled, Legacy, Counted
  <2>3. Depths(booked, R)
    BY <1>4, <2>1 DEF Depths
  <2> QED
    BY <1>4, <2>1, <2>2, <2>3 DEF E
<1> HIDE DEF booked
<1>6. E \subseteq Owed(booked, {n}, {})
  <2>1. Heirs(booked, n) = E
    BY <1>5, RowsBelow DEF Heirs, E
  <2> QED
    BY <1>5, <2>1 DEF Owed, E, Kids
<1>7. /\ Unsettled(first, R) = {} /\ Counted(booked, R) \subseteq Counted(first, R)
      /\ RowsAreFinite(first) /\ Rows(first) = R /\ first.indent = booked.indent
  <2>1. Unsettled(booked, R) \subseteq Owed(booked, {n}, {})
    BY <1>5, <1>6
  <2>2. IsDatabase(booked) /\ Rows(booked) \subseteq R
    BY <1>5 DEF RowsAreFinite
  <2> QED
    BY <1>5, <2>1, <2>2, CascadeSettles, CascadeKeepsTable
<1> HIDE DEF first
<1>8. LET d == CascadeTags(first, {n})
      IN  Unsettled(d, R) \subseteq {} /\ Counted(first, R) \subseteq Counted(d, R)
  <2>1. Depths(first, R) /\ IsDatabase(first) /\ Rows(first) \subseteq R
    BY <1>5, <1>7 DEF Depths, RowsAreFinite
  <2>2. Unsettled(first, R) \subseteq Owed(first, {n}, {})
    BY <1>7
  <2> QED
    BY <2>1, <2>2, CascadeSettles, ZenonT(60)
<1> QED
  BY <1>1, <1>5, <1>7, <1>8

-----------------------------------------------------------------------------
(* Tags handed on from parent to child are the tags of all the rows above. *)

TagsFromAbove(db) ==
  \A q \in Rows(db) :
    db.stat.inherited[q] = UNION {db.plan[p].tags : p \in Above(Rows(db), q)}

LEMMA LegacyIsAbove ==
  ASSUME NEW db, NEW R \in SUBSET Prefix, R = Rows(db), NEW q \in R, NEW p \in Parent(R, q),
         db.stat.inherited[p] = UNION {db.plan[x].tags : x \in Above(R, p)}
  PROVE  UNION {Legacy(db, y) : y \in Parent(R, q)}
           = UNION {db.plan[x].tags : x \in Above(R, q)}
<1>1. p \in R /\ Parent(R, q) = {p}
  BY ParentAbove, ParentUnique
<1>2. Above(R, q) = Above(R, p) \cup {p}
  BY AboveOfParent
<1>3. Legacy(db, p) = db.stat.inherited[p] \cup db.plan[p].tags
  BY <1>1 DEF Legacy
<1>4. UNION {Legacy(db, y) : y \in Parent(R, q)} = Legacy(db, p)
  BY <1>1
<1> DEFINE A == Above(R, p)
           U(S) == UNION {db.plan[x].tags : x \in S}
<1>5. U(A \cup {p}) = U(A) \cup db.plan[p].tags
  <2> HIDE DEF A
  <2>1. \A t : t \in U(A \cup {p}) <=> t \in U(A) \cup db.plan[p].tags
    OBVIOUS
  <2> QED
    BY <2>1
<1>6. U(Above(R, q)) = U(A \cup {p}) /\ db.stat.inherited[p] = U(A)
  BY <1>2
<1> HIDE DEF A, U
<1>7. UNION {Legacy(db, y) : y \in Parent(R, q)} = U(Above(R, q))
  BY <1>3, <1>4, <1>5, <1>6
<1> QED
  BY <1>7 DEF U

LEMMA TagsAreSettled ==
  ASSUME NEW db, Rows(db) \in SUBSET Prefix, TagsFromAbove(db), NEW q \in Rows(db)
  PROVE  Settled(db, q)
<1>1. CASE Parent(Rows(db), q) = {}
  <2>1. Above(Rows(db), q) = {}
    BY <1>1, ParentExists
  <2> QED
    BY <1>1, <2>1 DEF Settled, TagsFromAbove
<1>2. CASE Parent(Rows(db), q) # {}
  <2>1. PICK p \in Parent(Rows(db), q) : TRUE
    BY <1>2
  <2>2. p \in Rows(db)
    BY <2>1, ParentAbove
  <2> QED
    BY <2>1, <2>2, LegacyIsAbove DEF Settled, TagsFromAbove
<1> QED
  BY <1>1, <1>2

LEMMA SettledTags ==
  ASSUME NEW db, Rows(db) \in SUBSET Prefix, \A q \in Rows(db) : Settled(db, q)
  PROVE  TagsFromAbove(db)
<1> DEFINE R == Rows(db)
           Fine(q) == db.stat.inherited[q] = UNION {db.plan[p].tags : p \in Above(R, q)}
           Wrong == {q \in R : ~ Fine(q)}
           Levels == {Cardinality(Above(R, q)) : q \in Wrong}
<1>1. SUFFICES ASSUME Wrong # {} PROVE FALSE
  BY DEF TagsFromAbove
<1>2. \A q \in R : Cardinality(Above(R, q)) \in Nat
  BY AboveFinite
<1>3. Levels \in SUBSET Nat /\ Levels # {}
  BY <1>1, <1>2
<1>4. PICK n \in Levels : \A k \in Levels : n <= k
  <2> HIDE DEF Levels
  <2> QED
    BY <1>3, LeastOf
<1>5. PICK q \in Wrong : n = Cardinality(Above(R, q))
  OBVIOUS
<1>6. q \in R /\ ~ Fine(q) /\ db.stat.inherited[q] = UNION {Legacy(db, y) : y \in Parent(R, q)}
  BY DEF Settled
<1>7. CASE Parent(R, q) = {}
  <2>1. Above(R, q) = {}
    BY <1>6, <1>7, ParentExists
  <2> QED
    BY <1>6, <1>7, <2>1
<1>8. CASE Parent(R, q) # {}
  <2>1. PICK p \in Parent(R, q) : TRUE
    BY <1>8
  <2>2. p \in R /\ Covers(p, q) /\ Parent(R, q) = {p}
    BY <1>6, <2>1, ParentAbove, ParentUnique
  <2>3. Cardinality(Above(R, q)) = Cardinality(Above(R, p)) + 1
    BY <1>6, <2>2, OneLevelBelow
  <2>4. p \notin Wrong
    BY <1>2, <1>4, <1>5, <2>2, <2>3
  <2>5. Fine(p)
    BY <2>2, <2>4
  <2> QED
    BY <1>6, <2>1, <2>5, LegacyIsAbove
<1> QED
  BY <1>7, <1>8

-----------------------------------------------------------------------------
(* Recursion over finite sets.                                             *)

\* The element the folds of FiniteSetsExt take from a set.
Last(s) == CHOOSE x \in s : TRUE

LEMMA WithoutLast ==
  ASSUME NEW s, IsFiniteSet(s), s # {}
  PROVE  /\ Last(s) \in s /\ IsFiniteSet(s \ {Last(s)})
         /\ Cardinality(s) \in Nat
         /\ Cardinality(s \ {Last(s)}) = Cardinality(s) - 1
BY FS_RemoveElement, FS_CardinalityType DEF Last

\* What holds of a set when it holds of what is left without any one element, holds of S.
LEMMA BySubsets ==
  ASSUME NEW S, IsFiniteSet(S), NEW G, {} \in G,
         \A s \in SUBSET S : s # {} /\ (\A x \in s : s \ {x} \in G) => s \in G
  PROVE  S \in G
<1> DEFINE Small(n) == {s \in SUBSET S : Cardinality(s) <= n}
           N == {n \in 0 .. Cardinality(S) : Small(n) \subseteq G}
<1>1. Cardinality(S) \in Nat
  BY FS_CardinalityType
<1>2. \A s \in SUBSET S : IsFiniteSet(s) /\ Cardinality(s) \in Nat
  BY FS_Subset, FS_CardinalityType
<1>3. 0 \in N
  <2>1. Small(0) \subseteq G
    <3>1. \A s \in SUBSET S : Cardinality(s) <= 0 => Cardinality(s) = 0
      BY <1>2
    <3>2. \A s \in SUBSET S : Cardinality(s) = 0 => s = {}
      BY <1>2, FS_EmptySet
    <3> QED
      BY <3>1, <3>2
  <2> HIDE DEF Small
  <2> QED
    BY <1>1, <2>1
<1>4. ASSUME NEW n \in 0 .. Cardinality(S), n \in N, n < Cardinality(S)
      PROVE  n + 1 \in N
  <2>1. ASSUME NEW s \in Small(n + 1) PROVE s \in G
    <3>1. CASE s = {}
      BY <3>1
    <3>2. CASE s # {}
      <4>1. \A x \in s : s \ {x} \in Small(n)
        BY <1>2, FS_RemoveElement
      <4> QED
        BY <1>4, <3>2, <4>1
    <3> QED
      BY <3>1, <3>2
  <2>2. Small(n + 1) \subseteq G
    BY <2>1
  <2> HIDE DEF Small
  <2> QED
    BY <1>1, <1>4, <2>2
<1>5. Cardinality(S) \in N
  <2> HIDE DEF N
  <2>1. 0 .. Cardinality(S) \subseteq N
    BY <1>1, <1>3, <1>4, UpTo
  <2> QED
    BY <1>1, <2>1
<1> QED
  BY <1>1, <1>5

-----------------------------------------------------------------------------
(* Sums over finite sets, the recursion FiniteSetsExt makes of them.        *)

\* The sum of the numbers g has for the members of S.
SumOver(g, S) == MapThenSumSet(LAMBDA q : g[q], S)

Sums(g, S, f) ==
  f = [s \in SUBSET S |-> IF s = {} THEN 0 ELSE g[Last(s)] + f[s \ {Last(s)}]]

LEMMA SumsExist ==
  ASSUME NEW g, NEW S, IsFiniteSet(S)
  PROVE  \E f : Sums(g, S, f)
<1> DEFINE Small(n) == {s \in SUBSET S : Cardinality(s) <= n}
           Next1(f, s) == IF s = {} THEN 0 ELSE g[Last(s)] + f[s \ {Last(s)}]
           N == {n \in 0 .. Cardinality(S) : \E f : f = [s \in Small(n) |-> Next1(f, s)]}
<1>1. Cardinality(S) \in Nat
  BY FS_CardinalityType
<1>2. \A s \in SUBSET S : IsFiniteSet(s) /\ Cardinality(s) \in Nat
  BY FS_Subset, FS_CardinalityType
<1>3. 0 \in N
  <2> DEFINE f == [s \in Small(0) |-> 0]
  <2>1. \A s \in Small(0) : s = {}
    BY <1>2, FS_EmptySet
  <2>2. f = [s \in Small(0) |-> Next1(f, s)]
    BY <2>1
  <2> HIDE DEF f, Next1, Small
  <2> QED
    BY <1>1, <2>2
<1>4. ASSUME NEW n \in 0 .. Cardinality(S), n \in N, n < Cardinality(S)
      PROVE  n + 1 \in N
  <2>1. PICK f : f = [s \in Small(n) |-> Next1(f, s)]
    BY <1>4
  <2> DEFINE h == [s \in Small(n + 1) |-> Next1(f, s)]
  <2>2. ASSUME NEW s \in Small(n + 1) PROVE Next1(f, s) = Next1(h, s)
    <3>1. CASE s = {}
      BY <3>1
    <3>2. CASE s # {}
      <4>1. s \ {Last(s)} \in Small(n)
        BY <1>2, <3>2, WithoutLast
      <4>2. s \ {Last(s)} \in Small(n + 1)
        BY <1>2, <4>1
      <4>3. f[s \ {Last(s)}] = Next1(f, s \ {Last(s)})
        BY <2>1, <4>1
      <4>4. h[s \ {Last(s)}] = Next1(f, s \ {Last(s)})
        BY <4>2
      <4> QED
        BY <3>2, <4>3, <4>4
    <3> QED
      BY <3>1, <3>2
  <2>3. h = [s \in Small(n + 1) |-> Next1(h, s)]
    <3>1. h = [s \in Small(n + 1) |-> Next1(f, s)]
      OBVIOUS
    <3> HIDE DEF h, Next1, Small
    <3> QED
      BY <2>2, <3>1
  <2> HIDE DEF h, Next1, Small
  <2> QED
    BY <1>1, <1>4, <2>3
<1>5. Cardinality(S) \in N
  <2> HIDE DEF N
  <2>1. 0 .. Cardinality(S) \subseteq N
    BY <1>1, <1>3, <1>4, UpTo
  <2> QED
    BY <1>1, <2>1
<1>6. Small(Cardinality(S)) = SUBSET S
  BY <1>1, <1>2, FS_Subset
<1> QED
  BY <1>5, <1>6 DEF Sums

LEMMA SumIs ==
  ASSUME NEW g, NEW S, IsFiniteSet(S)
  PROVE  \E f : Sums(g, S, f) /\ SumOver(g, S) = f[S]
<1> DEFINE f == CHOOSE h : Sums(g, S, h)
<1>1. Sums(g, S, f)
  BY SumsExist
<1>2. SumOver(g, S) = f[S]
  BY DEF SumOver, MapThenSumSet, MapThenFoldSet, Sums, Last
<1> QED
  BY <1>1, <1>2

\* The sum of the sizes of rows is such a sum.
LEMMA TotalsAreSums ==
  ASSUME NEW g, NEW S, IsFiniteSet(S), \A x \in S : g[x] = Total(x)
  PROVE  SumOfTotals(S) = SumOver(g, S)
<1> DEFINE IsSum(h) == h = [s \in SUBSET S |-> IF s = {} THEN 0
                                              ELSE Total(Last(s)) + h[s \ {Last(s)}]]
           f == CHOOSE h : IsSum(h)
<1>1. SumOfTotals(S) = f[S]
  BY DEF SumOfTotals, MapThenSumSet, MapThenFoldSet, Last
<1>2. PICK h : Sums(g, S, h) /\ SumOver(g, S) = h[S]
  BY SumIs
<1>3. \A s \in SUBSET S : s # {} => g[Last(s)] = Total(Last(s))
  BY DEF Last
<1>4. IsSum(h)
  BY <1>2, <1>3 DEF Sums
<1>5. IsSum(f)
  BY <1>4
<1> DEFINE G == {s \in SUBSET S : f[s] = h[s]}
<1>6. {} \in G
  <2> HIDE DEF f
  <2> QED
    BY <1>4, <1>5
<1>7. ASSUME NEW s \in SUBSET S, s # {}, \A x \in s : s \ {x} \in G
      PROVE  s \in G
  <2>1. Last(s) \in s
    BY <1>7 DEF Last
  <2> HIDE DEF f
  <2>2. /\ f[s] = Total(Last(s)) + f[s \ {Last(s)}]
        /\ h[s] = Total(Last(s)) + h[s \ {Last(s)}]
    BY <1>4, <1>5, <1>7
  <2> QED
    BY <1>7, <2>1, <2>2
<1> HIDE DEF G
<1>8. S \in G
  BY <1>6, <1>7, BySubsets
<1> QED
  BY <1>1, <1>2, <1>8 DEF G

LEMMA SumsAreInts ==
  ASSUME NEW g, NEW S, IsFiniteSet(S), \A x \in S : g[x] \in Int,
         NEW f, Sums(g, S, f), NEW s \in SUBSET S
  PROVE  f[s] \in Int
<1> DEFINE G == {t \in SUBSET S : f[t] \in Int}
<1>1. {} \in G
  BY DEF Sums
<1>2. ASSUME NEW t \in SUBSET S, t # {}, \A x \in t : t \ {x} \in G
      PROVE  t \in G
  <2>1. Last(t) \in t
    BY <1>2 DEF Last
  <2>2. f[t] = g[Last(t)] + f[t \ {Last(t)}]
    BY <1>2 DEF Sums
  <2>3. f[t \ {Last(t)}] \in Int /\ g[Last(t)] \in Int
    BY <1>2, <2>1
  <2> QED
    BY <2>2, <2>3
<1> HIDE DEF G
<1>3. IsFiniteSet(s)
  BY FS_Subset
<1>4. \A t \in SUBSET s : t # {} /\ (\A x \in t : t \ {x} \in G) => t \in G
  BY <1>2
<1>5. s \in G
  BY <1>1, <1>3, <1>4, BySubsets
<1> QED
  BY <1>5 DEF G

\* The order in which the members are added does not matter.
Takes(g, f, u, z) == f[u] = g[z] + f[u \ {z}]

LEMMA SumTakes ==
  ASSUME NEW g, NEW S, IsFiniteSet(S), \A x \in S : g[x] \in Int,
         NEW f, Sums(g, S, f), NEW u \in SUBSET S, NEW z \in u
  PROVE  Takes(g, f, u, z)
<1> DEFINE G == {s \in SUBSET S : /\ f[s] \in Int
                                  /\ \A x \in s : f[s] = g[x] + f[s \ {x}]}
<1>1. {} \in G
  BY DEF Sums
<1>2. ASSUME NEW s \in SUBSET S, s # {}, \A x \in s : s \ {x} \in G
      PROVE  s \in G
  <2> DEFINE y == Last(s)
  <2>1. y \in s
    BY <1>2 DEF Last
  <2>2. f[s] = g[y] + f[s \ {y}]
    BY <1>2 DEF Sums
  <2> HIDE DEF y
  <2>3. f[s] \in Int
    BY SumsAreInts
  <2>4. ASSUME NEW x \in s PROVE f[s] = g[x] + f[s \ {x}]
    <3>1. CASE x = y
      BY <2>2, <3>1
    <3>2. CASE x # y
      <4>1. f[s \ {y}] = g[x] + f[(s \ {y}) \ {x}]
        BY <1>2, <2>1, <3>2
      <4>2. f[s \ {x}] = g[y] + f[(s \ {x}) \ {y}]
        BY <1>2, <2>1, <3>2
      <4>3. (s \ {y}) \ {x} = (s \ {x}) \ {y}
        OBVIOUS
      <4>4. (s \ {x}) \ {y} \in SUBSET S /\ x \in S /\ y \in S
        BY <2>1
      <4>5. PICK w : w = f[(s \ {x}) \ {y}]
        OBVIOUS
      <4>6. w \in Int
        BY SumsAreInts, <4>4, <4>5
      <4>7. f[s \ {y}] = g[x] + w /\ f[s \ {x}] = g[y] + w
        BY <4>1, <4>2, <4>3, <4>5
      <4>8. PICK i, j : i = g[x] /\ j = g[y]
        OBVIOUS
      <4>9. i \in Int /\ j \in Int
        BY <4>4, <4>8
      <4>10. j + (i + w) = i + (j + w)
        BY <4>6, <4>9
      <4> QED
        BY <2>2, <4>7, <4>8, <4>10
    <3> QED
      BY <3>1, <3>2
  <2> QED
    BY <2>3, <2>4
<1> HIDE DEF G
<1>3. u \in G
  <2>1. IsFiniteSet(u)
    BY FS_Subset
  <2>2. \A t \in SUBSET u : t # {} /\ (\A x \in t : t \ {x} \in G) => t \in G
    BY <1>2
  <2> QED
    BY <1>1, <2>1, <2>2, BySubsets
<1> QED
  BY <1>3 DEF G, Takes

\* Two recursions agree on a set on which their numbers do.
LEMMA SumsAgree ==
  ASSUME NEW g, NEW S, NEW f, Sums(g, S, f),
         NEW h, NEW T \in SUBSET S, IsFiniteSet(T), NEW e, Sums(h, T, e),
         \A x \in T : g[x] = h[x]
  PROVE  f[T] = e[T]
<1> DEFINE G == {s \in SUBSET T : f[s] = e[s]}
<1>1. {} \in G
  BY DEF Sums
<1>2. ASSUME NEW s \in SUBSET T, s # {}, \A x \in s : s \ {x} \in G
      PROVE  s \in G
  <2>1. Last(s) \in s
    BY <1>2 DEF Last
  <2>2. /\ f[s] = g[Last(s)] + f[s \ {Last(s)}]
        /\ e[s] = h[Last(s)] + e[s \ {Last(s)}]
    BY <1>2 DEF Sums
  <2> QED
    BY <1>2, <2>1, <2>2
<1> HIDE DEF G
<1>3. T \in G
  BY <1>1, <1>2, BySubsets
<1> QED
  BY <1>3 DEF G

LEMMA SumOverNothing ==
  ASSUME NEW g
  PROVE  SumOver(g, {}) = 0
<1>1. IsFiniteSet({})
  BY FS_EmptySet
<1>2. PICK f : Sums(g, {}, f) /\ SumOver(g, {}) = f[{}]
  BY <1>1, SumIs
<1> QED
  BY <1>2 DEF Sums

LEMMA SumOverSame ==
  ASSUME NEW g, NEW h, NEW S, IsFiniteSet(S), \A x \in S : g[x] = h[x]
  PROVE  SumOver(g, S) = SumOver(h, S)
<1>1. PICK f : Sums(g, S, f) /\ SumOver(g, S) = f[S]
  BY SumIs
<1>2. PICK e : Sums(h, S, e) /\ SumOver(h, S) = e[S]
  BY SumIs
<1> QED
  BY <1>1, <1>2, SumsAgree

LEMMA SumOverOneMore ==
  ASSUME NEW g, NEW S, IsFiniteSet(S), NEW x, x \notin S,
         g[x] \in Int, \A y \in S : g[y] \in Int
  PROVE  /\ SumOver(g, S) \in Int
         /\ SumOver(g, S \cup {x}) = SumOver(g, S) + g[x]
<1> DEFINE T == S \cup {x}
<1>1. IsFiniteSet(T) /\ \A y \in T : g[y] \in Int
  BY FS_AddElement
<1>2. PICK f : Sums(g, T, f) /\ SumOver(g, T) = f[T]
  BY <1>1, SumIs
<1>3. PICK e : Sums(g, S, e) /\ SumOver(g, S) = e[S]
  BY SumIs
<1>4. f[S] = e[S]
  BY <1>2, <1>3, SumsAgree
<1>5. x \in T /\ T \ {x} = S /\ S \in SUBSET T /\ T \in SUBSET T
  OBVIOUS
<1> HIDE DEF T
<1>6. f[T] = g[x] + f[S]
  <2>1. Takes(g, f, T, x)
    BY <1>1, <1>2, <1>5, SumTakes
  <2> QED
    BY <1>5, <2>1 DEF Takes
<1>7. f[S] \in Int
  BY <1>1, <1>2, <1>5, SumsAreInts
<1>8. SumOver(g, S) \in Int /\ SumOver(g, T) = g[x] + SumOver(g, S)
  BY <1>2, <1>3, <1>4, <1>6, <1>7
<1> QED
  BY <1>8 DEF T

LEMMA SumOverIsInt ==
  ASSUME NEW g, NEW S, IsFiniteSet(S), \A x \in S : g[x] \in Int
  PROVE  SumOver(g, S) \in Int
<1>1. PICK f : Sums(g, S, f) /\ SumOver(g, S) = f[S]
  BY SumIs
<1> QED
  BY <1>1, SumsAreInts

\* What is added up in two parts ...
LEMMA SumOverUnion ==
  ASSUME NEW g, NEW S, NEW T, IsFiniteSet(S), IsFiniteSet(T), S \cap T = {},
         \A x \in S \cup T : g[x] \in Int
  PROVE  SumOver(g, S \cup T) = SumOver(g, S) + SumOver(g, T)
<1> DEFINE G == {t \in SUBSET T : SumOver(g, S \cup t) = SumOver(g, S) + SumOver(g, t)}
<1>1. SumOver(g, S) \in Int
  BY SumOverIsInt
<1>2. {} \in G
  <2>1. S \cup {} = S
    OBVIOUS
  <2> QED
    BY <1>1, <2>1, SumOverNothing
<1>3. ASSUME NEW t \in SUBSET T, t # {}, \A x \in t : t \ {x} \in G
      PROVE  t \in G
  <2>1. PICK x \in t : TRUE
    BY <1>3
  <2>2. PICK u : u = t \ {x}
    OBVIOUS
  <2>3. IsFiniteSet(u) /\ IsFiniteSet(S \cup u) /\ x \notin u /\ x \notin S \cup u
    BY <2>1, <2>2, FS_Subset, FS_Union
  <2>4. u \cup {x} = t /\ (S \cup u) \cup {x} = S \cup t
    BY <2>1, <2>2
  <2>5. SumOver(g, S \cup u) = SumOver(g, S) + SumOver(g, u)
    BY <1>3, <2>1, <2>2
  <2>6. g[x] \in Int /\ \A y \in S \cup u : g[y] \in Int
    BY <2>1, <2>2
  <2>7. SumOver(g, u) \in Int /\ SumOver(g, t) = SumOver(g, u) + g[x]
    <3>1. \A y \in u : g[y] \in Int
      BY <2>6
    <3> QED
      BY <2>3, <2>4, <2>6, <3>1, SumOverOneMore
  <2>8. SumOver(g, S \cup t) = SumOver(g, S \cup u) + g[x]
    BY <2>3, <2>4, <2>6, SumOverOneMore
  <2>9. PICK i, j, k : i = SumOver(g, S) /\ j = SumOver(g, u) /\ k = g[x]
    OBVIOUS
  <2>10. (i + j) + k = i + (j + k)
    BY <1>1, <2>6, <2>7, <2>9
  <2> QED
    BY <2>5, <2>7, <2>8, <2>9, <2>10
<1> HIDE DEF G
<1>4. T \in G
  BY <1>2, <1>3, BySubsets
<1> QED
  BY <1>4 DEF G

\* ... and what changes when one number does.
LEMMA SumOverChange ==
  ASSUME NEW g, NEW h, NEW S, IsFiniteSet(S), NEW x \in S,
         \A y \in S : g[y] \in Int /\ h[y] \in Int,
         \A y \in S \ {x} : g[y] = h[y]
  PROVE  SumOver(h, S) = SumOver(g, S) - g[x] + h[x]
<1>1. PICK T : T = S \ {x}
  OBVIOUS
<1>2. IsFiniteSet(T) /\ x \notin T /\ T \cup {x} = S
  BY <1>1, FS_Subset
<1>3. SumOver(g, T) \in Int /\ SumOver(g, S) = SumOver(g, T) + g[x]
  <2>1. \A y \in T : g[y] \in Int
    BY <1>1
  <2> QED
    BY <1>2, <2>1, SumOverOneMore
<1>4. SumOver(h, S) = SumOver(h, T) + h[x]
  <2>1. \A y \in T : h[y] \in Int
    BY <1>1
  <2> QED
    BY <1>2, <2>1, SumOverOneMore
<1>5. SumOver(g, T) = SumOver(h, T)
  BY <1>1, <1>2, SumOverSame
<1>6. PICK i, j, k : i = SumOver(g, T) /\ j = g[x] /\ k = h[x]
  OBVIOUS
<1>7. i + k = (i + j) - j + k
  BY <1>3, <1>6
<1> QED
  BY <1>3, <1>4, <1>5, <1>6, <1>7

LEMMA SumOverZeros ==
  ASSUME NEW g, NEW S, IsFiniteSet(S), \A x \in S : g[x] = 0
  PROVE  SumOver(g, S) = 0
<1> DEFINE G == {t \in SUBSET S : SumOver(g, t) = 0}
<1>1. {} \in G
  BY SumOverNothing
<1>2. ASSUME NEW t \in SUBSET S, t # {}, \A x \in t : t \ {x} \in G
      PROVE  t \in G
  <2>1. PICK x \in t : TRUE
    BY <1>2
  <2>2. PICK u : u = t \ {x}
    OBVIOUS
  <2>3. IsFiniteSet(u) /\ x \notin u /\ u \cup {x} = t /\ SumOver(g, u) = 0
    BY <1>2, <2>1, <2>2, FS_Subset
  <2>4. g[x] = 0 /\ g[x] \in Int /\ \A y \in u : g[y] \in Int
    BY <2>1, <2>2
  <2>5. SumOver(g, t) = SumOver(g, u) + g[x]
    BY <2>3, <2>4, SumOverOneMore
  <2> QED
    BY <2>3, <2>4, <2>5
<1> HIDE DEF G
<1>3. S \in G
  BY <1>1, <1>2, BySubsets
<1> QED
  BY <1>3 DEF G

LEMMA SumOfNothing == SumOfTotals({}) = 0
<1>1. IsFiniteSet({})
  BY FS_EmptySet
<1>2. SumOfTotals({}) = SumOver(<<>>, {})
  BY <1>1, TotalsAreSums
<1> QED
  BY <1>2, SumOverNothing

TotalOf == [p \in Prefix |-> Total(p)]

LEMMA SumOfRows ==
  ASSUME NEW S \in SUBSET Prefix
  PROVE  /\ IsFiniteSet(S) /\ \A x \in S : TotalOf[x] \in Int /\ TotalOf[x] = Total(x)
         /\ SumOfTotals(S) = SumOver(TotalOf, S) /\ SumOfTotals(S) \in Int
<1>1. IsFiniteSet(S)
  BY PrefixAssumption, FS_Subset
<1>2. \A x \in S : TotalOf[x] = Total(x) /\ TotalOf[x] \in Int
  BY TotalAssumption DEF TotalOf
<1>3. SumOfTotals(S) = SumOver(TotalOf, S)
  BY <1>1, <1>2, TotalsAreSums
<1>4. SumOver(TotalOf, S) \in Int
  BY <1>1, <1>2, SumOverIsInt
<1> QED
  BY <1>1, <1>2, <1>3, <1>4

LEMMA SumOfOneMore ==
  ASSUME NEW S \in SUBSET Prefix, NEW x \in Prefix, x \notin S
  PROVE  /\ SumOfTotals(S) \in Int /\ Total(x) \in Nat
         /\ SumOfTotals(S \cup {x}) = SumOfTotals(S) + Total(x)
<1>1. S \cup {x} \in SUBSET Prefix
  OBVIOUS
<1>2. SumOfTotals(S) = SumOver(TotalOf, S) /\ SumOfTotals(S) \in Int
      /\ SumOfTotals(S \cup {x}) = SumOver(TotalOf, S \cup {x})
  BY <1>1, SumOfRows
<1>3. TotalOf[x] = Total(x) /\ Total(x) \in Nat
  BY TotalAssumption DEF TotalOf
<1>4. SumOver(TotalOf, S \cup {x}) = SumOver(TotalOf, S) + TotalOf[x]
  <2>1. IsFiniteSet(S) /\ \A y \in S : TotalOf[y] \in Int
    BY SumOfRows
  <2> QED
    BY <1>3, <2>1, SumOverOneMore
<1> QED
  BY <1>2, <1>3, <1>4

-----------------------------------------------------------------------------
(* Tables whose columns are correct.                                      *)

\* Every row is counted and has the tags of all the rows above it.
CorrectColumns(db) ==
  /\ IsDatabase(db)
  /\ TagsFromAbove(db)
  /\ Rows(db) \subseteq Counted(db, Rows(db))

\* The rows right below a row, when a row p comes that is not right below it.
LEMMA KidsAfterInsert ==
  ASSUME NEW T \in SUBSET Prefix, NEW p \in Prefix, p \notin T,
         NEW R \in SUBSET Prefix, R = T \cup {p}, NEW q \in T, q \notin Parent(R, p)
  PROVE  Kids(R, R, q) = Kids(T, T, q)
<1>1. Parent(R, p) = Parent(T, p)
  BY CoversStrict DEF Parent, Above
<1>2. ASSUME NEW x \in T PROVE Parent(R, x) = {q} <=> Parent(T, x) = {q}
  BY <1>1, ParentWithout
<1>3. Parent(R, p) # {q}
  OBVIOUS
<1> QED
  BY <1>2, <1>3 DEF Kids

\* Those right below the row p are on the level p comes with.
LEMMA KidsOfInserted ==
  ASSUME NEW T \in SUBSET Prefix, NEW p \in Prefix, p \notin T,
         NEW R \in SUBSET Prefix, R = T \cup {p}
  PROVE  Kids(R, R, p) = {q \in Inside(T, p) :
                            Cardinality(Above(T, q)) = Cardinality(Above(R, p))}
<1>1. ASSUME NEW q \in T, Covers(p, q)
      PROVE  Cardinality(Above(T, q)) = Cardinality(Above(R, p)) <=> Parent(R, q) = {p}
  <2>1. Cardinality(Above(R, q)) = Cardinality(Above(T, q)) + 1
    BY <1>1, AboveAfterInsert
  <2>2. Cardinality(Above(R, q)) = Cardinality(Above(R, p)) + 1 <=> Parent(R, q) = {p}
    BY <1>1, OneLevelBelow
  <2>3. Cardinality(Above(T, q)) \in Nat /\ Cardinality(Above(R, p)) \in Nat
    BY AboveFinite
  <2>4. Cardinality(Above(T, q)) = Cardinality(Above(R, p))
          <=> Cardinality(Above(R, q)) = Cardinality(Above(R, p)) + 1
    BY <2>1, <2>3
  <2> QED
    BY <2>2, <2>4
<1>2. ASSUME NEW q \in Kids(R, R, p) PROVE q \in Inside(T, p)
  <2>1. q \in R /\ Covers(p, q)
    BY <1>2, KidsAreInside DEF Inside
  <2>2. q # p
    BY <2>1, CoversStrict
  <2> QED
    BY <2>1, <2>2 DEF Inside
<1> QED
  BY <1>1, <1>2 DEF Kids, Inside

-----------------------------------------------------------------------------
(* A statement on several rows: the AFTER trigger runs for one after the other. *)

\* The AFTER trigger of the row p, deleted or edited by a statement that found the table D.
RowTrigger(command, D, db, p) ==
  IF command = "DELETE" THEN AfterDelete(db, RowRecord(D, p))
                        ELSE AfterUpdate(db, RowRecord(D, p), p)

\* What the triggers of any of the rows S make of the table base.
Triggered(command, D, base, S, f) ==
  f = [s \in SUBSET S |->
         IF s = {} THEN base ELSE RowTrigger(command, D, f[s \ {Last(s)}], Last(s))]

LEMMA TriggersExist ==
  ASSUME NEW command, NEW D, NEW base, NEW S, IsFiniteSet(S)
  PROVE  \E f : Triggered(command, D, base, S, f)
<1> DEFINE Small(n) == {s \in SUBSET S : Cardinality(s) <= n}
           Next1(f, s) == IF s = {} THEN base
                          ELSE RowTrigger(command, D, f[s \ {Last(s)}], Last(s))
           N == {n \in 0 .. Cardinality(S) : \E f : f = [s \in Small(n) |-> Next1(f, s)]}
<1>1. Cardinality(S) \in Nat
  BY FS_CardinalityType
<1>2. \A s \in SUBSET S : IsFiniteSet(s) /\ Cardinality(s) \in Nat
  BY FS_Subset, FS_CardinalityType
<1>3. 0 \in N
  <2> DEFINE f == [s \in Small(0) |-> base]
  <2>1. \A s \in Small(0) : s = {}
    BY <1>2, FS_EmptySet
  <2>2. f = [s \in Small(0) |-> Next1(f, s)]
    BY <2>1
  <2> HIDE DEF f, Next1, Small
  <2> QED
    BY <1>1, <2>2
<1>4. ASSUME NEW n \in 0 .. Cardinality(S), n \in N, n < Cardinality(S)
      PROVE  n + 1 \in N
  <2>1. PICK f : f = [s \in Small(n) |-> Next1(f, s)]
    BY <1>4
  <2> DEFINE g == [s \in Small(n + 1) |-> Next1(f, s)]
  <2>2. ASSUME NEW s \in Small(n + 1) PROVE Next1(f, s) = Next1(g, s)
    <3>1. CASE s = {}
      BY <3>1
    <3>2. CASE s # {}
      <4>1. s \ {Last(s)} \in Small(n)
        BY <1>2, <3>2, WithoutLast
      <4>2. s \ {Last(s)} \in Small(n + 1)
        BY <1>2, <4>1
      <4>3. f[s \ {Last(s)}] = Next1(f, s \ {Last(s)})
        BY <2>1, <4>1
      <4>4. g[s \ {Last(s)}] = Next1(f, s \ {Last(s)})
        BY <4>2
      <4> QED
        BY <3>2, <4>3, <4>4
    <3> QED
      BY <3>1, <3>2
  <2>3. g = [s \in Small(n + 1) |-> Next1(g, s)]
    <3>1. g = [s \in Small(n + 1) |-> Next1(f, s)]
      OBVIOUS
    <3> HIDE DEF g, Next1, Small
    <3> QED
      BY <2>2, <3>1
  <2> HIDE DEF g, Next1, Small
  <2> QED
    BY <1>1, <1>4, <2>3
<1>5. Cardinality(S) \in N
  <2> HIDE DEF N
  <2>1. 0 .. Cardinality(S) \subseteq N
    BY <1>1, <1>3, <1>4, UpTo
  <2> QED
    BY <1>1, <2>1
<1>6. Small(Cardinality(S)) = SUBSET S
  BY <1>1, <1>2, FS_Subset
<1> QED
  BY <1>5, <1>6 DEF Triggered

\* The triggers of s have run for a DELETE that leaves the rows R of T: a row is counted
\* again when the trigger of the last of the rows right below it has run.
Halfway(T, R, s, d) ==
  /\ RowsAreFinite(d)
  /\ Rows(d) = R
  /\ Depths(d, T \ s)
  /\ Unsettled(d, T \ s) = {}
  /\ {x \in R : \A y \in T \ R : Parent(T, y) = {x} => y \in s} \subseteq Counted(d, T \ s)

LEMMA DeleteBegins ==
  ASSUME NEW D, CorrectColumns(D), NEW T \in SUBSET Prefix, T = Rows(D), Depths(D, T),
         NEW R \in SUBSET T, NEW base, RowsAreFinite(base), Rows(base) = R,
         \A q \in R : /\ base.plan[q] = D.plan[q] /\ base.indent[q] = D.indent[q]
                      /\ base.stat.children[q] = D.stat.children[q]
                      /\ base.stat.inherited[q] = D.stat.inherited[q]
  PROVE  Halfway(T, R, {}, base)
<1>1. T \ {} = T
  OBVIOUS
<1>2. Depths(base, T)
  BY DEF Depths
<1>3. ASSUME NEW q \in R, Parent(T, q) \subseteq R PROVE Settled(base, q)
  <2>1. Parent(R, q) = Parent(T, q)
    BY <1>3, ParentInFewer
  <2>2. \A y \in Parent(T, q) : Legacy(base, y) = Legacy(D, y)
    BY <1>3 DEF Legacy
  <2>3. Settled(D, q)
    BY TagsAreSettled DEF CorrectColumns
  <2>4. {Legacy(base, y) : y \in Parent(T, q)} = {Legacy(D, y) : y \in Parent(T, q)}
    BY <2>2
  <2> QED
    BY <2>1, <2>3, <2>4 DEF Settled
<1>4. ASSUME NEW x \in R, \A y \in T \ R : Parent(T, y) # {x} PROVE x \in Counted(base, T)
  <2>1. Kids(T, T, x) = Kids(R, T, x)
    BY <1>4 DEF Kids
  <2>2. D.stat.children[x] = Cardinality(Kids(T, T, x))
    BY DEF CorrectColumns, Counted
  <2> QED
    BY <2>1, <2>2 DEF Counted
<1> QED
  BY <1>1, <1>2, <1>3, <1>4 DEF Halfway, Unsettled

LEMMA DeleteGoesOn ==
  ASSUME NEW T \in SUBSET Prefix, NEW R \in SUBSET T, NEW s \in SUBSET (T \ R),
         NEW p \in s, NEW d, Halfway(T, R, s \ {p}, d), NEW old, old.prefix = p
  PROVE  Halfway(T, R, s, AfterDelete(d, old))
<1> DEFINE U == T \ s
           e == AfterDelete(d, old)
<1>1. /\ U \in SUBSET Prefix /\ p \in Prefix /\ p \notin U /\ R \subseteq U
      /\ U \cup {p} = T \ (s \ {p})
  OBVIOUS
<1> HIDE DEF U
<1>2. /\ RowsAreFinite(d) /\ IsDatabase(d) /\ Rows(d) = R /\ Depths(d, U \cup {p})
      /\ Unsettled(d, U \cup {p}) = {}
  BY <1>1 DEF Halfway, RowsAreFinite
<1>3. /\ Depths(e, U) /\ Unsettled(e, U) = {}
      /\ Counted(d, U \cup {p}) \cup Parent(R, p) \subseteq Counted(e, U)
  BY <1>1, <1>2, AfterDeleteSettles
<1>4. RowsAreFinite(e) /\ Rows(e) = R
  BY <1>2, AfterDeleteIs
<1>5. ASSUME NEW x \in R, \A y \in T \ R : Parent(T, y) = {x} => y \in s
      PROVE  x \in Counted(e, U)
  <2>1. CASE Parent(T, p) = {x}
    <3>1. Parent(R, p) = {x}
      BY <1>1, <2>1, ParentInFewer
    <3> QED
      BY <1>3, <3>1
  <2>2. CASE Parent(T, p) # {x}
    <3>1. x \in Counted(d, U \cup {p})
      BY <1>1, <1>5, <2>2 DEF Halfway
    <3> QED
      BY <1>3, <3>1
  <2> QED
    BY <2>1, <2>2
<1> QED
  BY <1>3, <1>4, <1>5 DEF Halfway, U

LEMMA DeletesSettle ==
  ASSUME NEW D, NEW T \in SUBSET Prefix, NEW S \in SUBSET T, NEW base,
         Halfway(T, T \ S, {}, base), NEW f, Triggered("DELETE", D, base, S, f)
  PROVE  Halfway(T, T \ S, S, f[S])
<1> DEFINE R == T \ S
           G == {s \in SUBSET S : Halfway(T, R, s, f[s])}
<1>1. IsFiniteSet(S)
  BY PrefixAssumption, FS_Subset
<1>2. {} \in G
  BY DEF Triggered
<1>3. ASSUME NEW s \in SUBSET S, s # {}, \A x \in s : s \ {x} \in G PROVE s \in G
  <2>1. Last(s) \in s
    BY <1>3 DEF Last
  <2>2. f[s] = AfterDelete(f[s \ {Last(s)}], RowRecord(D, Last(s)))
    BY <1>3 DEF Triggered, RowTrigger
  <2>3. RowRecord(D, Last(s)).prefix = Last(s)
    BY DEF RowRecord
  <2>4. s \in SUBSET (T \ R)
    OBVIOUS
  <2> HIDE DEF R
  <2>5. R \in SUBSET T
    BY DEF R
  <2>6. Halfway(T, R, s \ {Last(s)}, f[s \ {Last(s)}])
    BY <1>3, <2>1
  <2>7. Halfway(T, R, s, f[s])
    BY <2>1, <2>2, <2>3, <2>4, <2>5, <2>6, DeleteGoesOn
  <2> QED
    BY <2>7
<1> HIDE DEF G
<1>4. S \in G
  BY <1>1, <1>2, <1>3, BySubsets
<1> QED
  BY <1>4 DEF G

-----------------------------------------------------------------------------
(* The statistics of VRFs.  Over says by how much a counter of ip_net_vrf   *)
(* exceeds what its rows come to: no UPDATE that fires triggers changes it, *)
(* a row that is booked does.                                               *)

Accounts == {VrfAccount(p) : p \in Prefix}
Kinds == {"total", "used"}

\* What a row contributes to one of the two counters.
Part(kind, q, indent, used) ==
  IF indent # 0 THEN 0 ELSE IF kind = "total" THEN Total(q) ELSE used
PartOf(kind, row) == Part(kind, row.prefix, row.indent, row.used)

VrfEntry(n, t, u) == [num |-> n, total |-> t, used |-> u]
IsVrf(vrf) ==
  /\ vrf = [a \in Accounts |-> VrfEntry(vrf[a].num, vrf[a].total, vrf[a].used)]
  /\ \A a \in Accounts : vrf[a].total \in Int /\ vrf[a].used \in Int
CounterOf(vrf, a, kind) == IF kind = "total" THEN vrf[a].total ELSE vrf[a].used

\* The counters of the account c have changed by what before and after say.
Counters(vrf, v, c, came, gone) ==
  /\ IsVrf(v)
  /\ \A a \in Accounts, kind \in Kinds :
       CounterOf(v, a, kind) = CounterOf(vrf, a, kind)
                                 + (IF a = c THEN came[kind] - gone[kind] ELSE 0)

\* What an UPDATE of the columns of an entry makes of it.
Changed3(e, n, t, u) == [e EXCEPT !.num = n, !.total = t, !.used = u]
ChangedTU(e, t, u) == [e EXCEPT !.total = t, !.used = u]

LEMMA VrfEntryIs ==
  ASSUME NEW e, e = VrfEntry(e.num, e.total, e.used), NEW n, NEW t, NEW u
  PROVE  /\ Changed3(e, n, t, u) = VrfEntry(n, t, u)
         /\ ChangedTU(e, t, u) = VrfEntry(e.num, t, u)
<1> DEFINE all == [e |-> Changed3(e, n, t, u)]
           two == [e |-> ChangedTU(e, t, u)]
<1>1. PICK en, et, eu : e = VrfEntry(en, et, eu)
  OBVIOUS
<1>2. all.e = VrfEntry(n, t, u)
  BY <1>1 DEF VrfEntry, Changed3
<1>3. two.e = VrfEntry(e.num, t, u)
  BY <1>1 DEF VrfEntry, ChangedTU
<1> QED
  BY <1>2, <1>3

\* An entry is written.
LEMMA VrfWritten ==
  ASSUME NEW vrf, IsVrf(vrf), NEW c \in Accounts, NEW v, NEW n, NEW t, NEW u,
         v = [a \in Accounts |-> IF a = c THEN VrfEntry(n, t, u) ELSE vrf[a]],
         NEW came, NEW gone,
         \A kind \in Kinds : came[kind] \in Int /\ gone[kind] \in Int,
         t = vrf[c].total + came["total"] - gone["total"],
         u = vrf[c].used + came["used"] - gone["used"]
  PROVE  Counters(vrf, v, c, came, gone)
<1>1. \A a \in Accounts : vrf[a].total \in Int /\ vrf[a].used \in Int
  BY DEF IsVrf
<1>2. PICK ct, cu, gt, gu : /\ ct = came["total"] /\ cu = came["used"]
                            /\ gt = gone["total"] /\ gu = gone["used"]
  OBVIOUS
<1>3. ct \in Int /\ cu \in Int /\ gt \in Int /\ gu \in Int
  BY <1>2 DEF Kinds
<1>4. t \in Int /\ u \in Int
  BY <1>1, <1>2, <1>3
<1>5. \A a \in Accounts : a # c => v[a] = vrf[a]
  OBVIOUS
<1>6. v[c].num = n /\ v[c].total = t /\ v[c].used = u
  BY DEF VrfEntry
<1>7. \A a \in Accounts : v[a] = VrfEntry(v[a].num, v[a].total, v[a].used)
  BY <1>5, <1>6 DEF IsVrf
<1>8. IsVrf(v)
  BY <1>1, <1>4, <1>5, <1>6, <1>7 DEF IsVrf
<1>9. ASSUME NEW a \in Accounts, NEW kind \in Kinds
      PROVE  CounterOf(v, a, kind) = CounterOf(vrf, a, kind)
                                       + (IF a = c THEN came[kind] - gone[kind] ELSE 0)
  <2>1. CASE a # c
    BY <1>1, <1>5, <2>1 DEF CounterOf
  <2>2. CASE a = c /\ kind = "total"
    BY <1>1, <1>2, <1>3, <1>6, <2>2 DEF CounterOf
  <2>3. CASE a = c /\ kind = "used"
    BY <1>1, <1>2, <1>3, <1>6, <2>3 DEF CounterOf
  <2> QED
    BY <2>1, <2>2, <2>3 DEF Kinds
<1> QED
  BY <1>8, <1>9 DEF Counters

\* A row in numbers.
PartsOf(row) == [kind \in Kinds |-> PartOf(kind, row)]
Nothing == [kind \in Kinds |-> 0]

LEMMA PartsAreInts ==
  ASSUME NEW row, row.prefix \in Prefix, row.used \in Int
  PROVE  /\ \A kind \in Kinds : PartsOf(row)[kind] \in Int
         /\ PartsOf(row)["total"] = ShareTotal(row.prefix, row.indent)
         /\ PartsOf(row)["used"] = ShareUsed(row.indent, row.used)
         /\ ShareTotal(row.prefix, row.indent) \in Int /\ ShareUsed(row.indent, row.used) \in Int
<1>1. Total(row.prefix) \in Nat
  BY TotalAssumption
<1> QED
  BY <1>1 DEF PartsOf, PartOf, Part, Kinds, ShareTotal, ShareUsed

LEMMA MoveVrfShareIs ==
  ASSUME NEW vrf, IsVrf(vrf), NEW old, NEW new, old.prefix \in Prefix, new.prefix \in Prefix,
         VrfAccount(old.prefix) = VrfAccount(new.prefix),
         old.used \in Int, new.used \in Int
  PROVE  Counters(vrf, MoveVrfShare(vrf, old, new), VrfAccount(new.prefix),
                  PartsOf(new), PartsOf(old))
<1> DEFINE c == VrfAccount(new.prefix)
           t == vrf[c].total - ShareTotal(old.prefix, old.indent)
                             + ShareTotal(new.prefix, new.indent)
           u == vrf[c].used - ShareUsed(old.indent, old.used) + ShareUsed(new.indent, new.used)
           v == MoveVrfShare(vrf, old, new)
<1>1. c \in Accounts
  BY DEF Accounts
<1> HIDE DEF c
<1>2. v = [a \in Accounts |-> IF a = c THEN ChangedTU(vrf[a], t, u) ELSE vrf[a]]
  <2>1. vrf = [a \in Accounts |-> vrf[a]]
    BY DEF IsVrf
  <2>2. v = [vrf EXCEPT ![c].total = @ - ShareTotal(old.prefix, old.indent)
                                       + ShareTotal(new.prefix, new.indent),
                        ![c].used = @ - ShareUsed(old.indent, old.used)
                                      + ShareUsed(new.indent, new.used)]
    BY DEF MoveVrfShare, c
  <2> HIDE DEF v
  <2> QED
    BY <2>1, <2>2 DEF ChangedTU
<1>3. vrf[c] = VrfEntry(vrf[c].num, vrf[c].total, vrf[c].used)
  BY <1>1 DEF IsVrf
<1> HIDE DEF v
<1>4. v = [a \in Accounts |-> IF a = c THEN VrfEntry(vrf[c].num, t, u) ELSE vrf[a]]
  BY <1>2, <1>3, VrfEntryIs
<1>5. PICK came, gone : came = PartsOf(new) /\ gone = PartsOf(old)
  OBVIOUS
<1>6. /\ \A kind \in Kinds : came[kind] \in Int /\ gone[kind] \in Int
      /\ came["total"] = ShareTotal(new.prefix, new.indent)
      /\ came["used"] = ShareUsed(new.indent, new.used)
      /\ gone["total"] = ShareTotal(old.prefix, old.indent)
      /\ gone["used"] = ShareUsed(old.indent, old.used)
      /\ ShareTotal(old.prefix, old.indent) \in Int /\ ShareUsed(old.indent, old.used) \in Int
      /\ ShareTotal(new.prefix, new.indent) \in Int /\ ShareUsed(new.indent, new.used) \in Int
  BY <1>5, PartsAreInts
<1>7. vrf[c].total \in Int /\ vrf[c].used \in Int
  BY <1>1 DEF IsVrf
<1>8. /\ t = vrf[c].total + came["total"] - gone["total"]
      /\ u = vrf[c].used + came["used"] - gone["used"]
  <2>1. PICK i, j, k, l : /\ i = ShareTotal(old.prefix, old.indent)
                          /\ j = ShareTotal(new.prefix, new.indent)
                          /\ k = ShareUsed(old.indent, old.used)
                          /\ l = ShareUsed(new.indent, new.used)
    OBVIOUS
  <2>2. i \in Int /\ j \in Int /\ k \in Int /\ l \in Int
    BY <1>6, <2>1
  <2>3. /\ vrf[c].total - i + j = vrf[c].total + j - i
        /\ vrf[c].used - k + l = vrf[c].used + l - k
    BY <1>7, <2>2
  <2> QED
    BY <1>6, <2>1, <2>3
<1> HIDE DEF t, u
<1>9. Counters(vrf, v, c, came, gone)
  BY <1>1, <1>4, <1>6, <1>8, VrfWritten
<1> QED
  BY <1>5, <1>9 DEF v, c

LEMMA CountInVrfIs ==
  ASSUME NEW vrf, IsVrf(vrf), NEW row, row.prefix \in Prefix, row.used \in Int
  PROVE  /\ Counters(vrf, CountInVrf(vrf, row, 1), VrfAccount(row.prefix),
                     PartsOf(row), Nothing)
         /\ Counters(vrf, CountInVrf(vrf, row, -1), VrfAccount(row.prefix),
                     Nothing, PartsOf(row))
<1> DEFINE c == VrfAccount(row.prefix)
           t(sign) == vrf[c].total + sign * ShareTotal(row.prefix, row.indent)
           u(sign) == vrf[c].used + sign * ShareUsed(row.indent, row.used)
<1>1. c \in Accounts
  BY DEF Accounts
<1> HIDE DEF c
<1>2. ASSUME NEW sign
      PROVE  CountInVrf(vrf, row, sign)
               = [a \in Accounts |-> IF a = c THEN VrfEntry(vrf[c].num + sign, t(sign), u(sign))
                                              ELSE vrf[a]]
  <2> DEFINE v == CountInVrf(vrf, row, sign)
  <2>1. vrf = [a \in Accounts |-> vrf[a]]
    BY DEF IsVrf
  <2>2. v = [vrf EXCEPT ![c].num = @ + sign,
                        ![c].total = @ + sign * ShareTotal(row.prefix, row.indent),
                        ![c].used = @ + sign * ShareUsed(row.indent, row.used)]
    BY DEF CountInVrf, c
  <2> HIDE DEF v
  <2>3. v = [a \in Accounts |-> IF a = c THEN Changed3(vrf[a], vrf[c].num + sign, t(sign), u(sign))
                                         ELSE vrf[a]]
    BY <2>1, <2>2 DEF Changed3
  <2>4. vrf[c] = VrfEntry(vrf[c].num, vrf[c].total, vrf[c].used)
    BY <1>1 DEF IsVrf
  <2> HIDE DEF t, u
  <2>5. v = [a \in Accounts |-> IF a = c THEN VrfEntry(vrf[c].num + sign, t(sign), u(sign))
                                         ELSE vrf[a]]
    BY <2>3, <2>4, VrfEntryIs
  <2> QED
    BY <2>5 DEF v
<1>3. PICK row1, nothing : row1 = PartsOf(row) /\ nothing = Nothing
  OBVIOUS
<1>4. /\ \A kind \in Kinds : row1[kind] \in Int /\ nothing[kind] = 0 /\ nothing[kind] \in Int
      /\ row1["total"] = ShareTotal(row.prefix, row.indent)
      /\ row1["used"] = ShareUsed(row.indent, row.used)
      /\ nothing["total"] = 0 /\ nothing["used"] = 0
      /\ ShareTotal(row.prefix, row.indent) \in Int /\ ShareUsed(row.indent, row.used) \in Int
  BY <1>3, PartsAreInts DEF Nothing, Kinds
<1>5. vrf[c].total \in Int /\ vrf[c].used \in Int
  BY <1>1 DEF IsVrf
<1>6. /\ t(1) = vrf[c].total + row1["total"] - nothing["total"]
      /\ u(1) = vrf[c].used + row1["used"] - nothing["used"]
      /\ t(-1) = vrf[c].total + nothing["total"] - row1["total"]
      /\ u(-1) = vrf[c].used + nothing["used"] - row1["used"]
  <2>1. PICK i, j : i = ShareTotal(row.prefix, row.indent) /\ j = ShareUsed(row.indent, row.used)
    OBVIOUS
  <2>2. i \in Int /\ j \in Int
    BY <1>4, <2>1
  <2>3. /\ vrf[c].total + 1 * i = vrf[c].total + i - 0
        /\ vrf[c].used + 1 * j = vrf[c].used + j - 0
        /\ vrf[c].total + (-1) * i = vrf[c].total + 0 - i
        /\ vrf[c].used + (-1) * j = vrf[c].used + 0 - j
    BY <1>5, <2>2
  <2> QED
    BY <1>4, <2>1, <2>3
<1> HIDE DEF t, u
<1>7. Counters(vrf, CountInVrf(vrf, row, 1), c, row1, nothing)
  <2>1. PICK v : v = CountInVrf(vrf, row, 1)
    OBVIOUS
  <2>2. v = [a \in Accounts |-> IF a = c THEN VrfEntry(vrf[c].num + 1, t(1), u(1)) ELSE vrf[a]]
    BY <1>2, <2>1
  <2>3. Counters(vrf, v, c, row1, nothing)
    BY <1>1, <1>4, <1>6, <2>2, VrfWritten
  <2> QED
    BY <2>1, <2>3
<1>8. Counters(vrf, CountInVrf(vrf, row, -1), c, nothing, row1)
  <2>1. PICK v : v = CountInVrf(vrf, row, -1)
    OBVIOUS
  <2>2. v = [a \in Accounts |-> IF a = c THEN VrfEntry(vrf[c].num + (-1), t(-1), u(-1))
                                         ELSE vrf[a]]
    BY <1>2, <2>1
  <2>3. Counters(vrf, v, c, nothing, row1)
    BY <1>1, <1>4, <1>6, <2>2, VrfWritten
  <2> QED
    BY <2>1, <2>3
<1> QED
  BY <1>3, <1>7, <1>8 DEF c

-----------------------------------------------------------------------------
(* What the triggers keep of it.                                           *)

Sound(db) ==
  /\ RowsAreFinite(db) /\ Rows(db) \subseteq Prefix /\ IsVrf(db.stat.vrf)
  /\ \A q \in Rows(db) : db.stat.used[q] \in Int

Parts(db, kind) == [q \in Rows(db) |-> Part(kind, q, db.indent[q], db.stat.used[q])]
Within(R, a) == {q \in R : VrfAccount(q) = a}
Over(db, a, kind) ==
  CounterOf(db.stat.vrf, a, kind) - SumOver(Parts(db, kind), Within(Rows(db), a))

SameBooks(db, d) ==
  /\ Sound(d) /\ Rows(d) = Rows(db)
  /\ \A a \in Accounts, kind \in Kinds : Over(d, a, kind) = Over(db, a, kind)

LEMMA PartsAreSummed ==
  ASSUME NEW R \in SUBSET Prefix, NEW a, NEW kind \in Kinds, NEW g,
         \A q \in R : \E i, u : u \in Int /\ g[q] = Part(kind, q, i, u)
  PROVE  /\ IsFiniteSet(Within(R, a)) /\ \A q \in R : g[q] \in Int
         /\ SumOver(g, Within(R, a)) \in Int
<1>1. Within(R, a) \in SUBSET Prefix
  BY DEF Within
<1>2. IsFiniteSet(Within(R, a))
  BY <1>1, PrefixAssumption, FS_Subset
<1>3. ASSUME NEW q \in R PROVE g[q] \in Int
  <2>1. PICK i, u : u \in Int /\ g[q] = Part(kind, q, i, u)
    OBVIOUS
  <2>2. Total(q) \in Nat
    BY TotalAssumption
  <2> QED
    BY <2>1, <2>2 DEF Part
<1>4. \A q \in Within(R, a) : g[q] \in Int
  BY <1>3 DEF Within
<1>5. SumOver(g, Within(R, a)) \in Int
  BY <1>2, <1>4, SumOverIsInt
<1> QED
  BY <1>2, <1>3, <1>5

LEMMA SoundParts ==
  ASSUME NEW db, Sound(db), NEW a \in Accounts, NEW kind \in Kinds
  PROVE  /\ Within(Rows(db), a) \subseteq Rows(db) /\ IsFiniteSet(Within(Rows(db), a))
         /\ \A q \in Rows(db) : Parts(db, kind)[q] \in Int
         /\ SumOver(Parts(db, kind), Within(Rows(db), a)) \in Int
         /\ CounterOf(db.stat.vrf, a, kind) \in Int /\ Over(db, a, kind) \in Int
<1>1. \A q \in Rows(db) : \E i, u : u \in Int /\ Parts(db, kind)[q] = Part(kind, q, i, u)
  BY DEF Sound, Parts
<1>2. CounterOf(db.stat.vrf, a, kind) \in Int
  BY DEF Sound, IsVrf, CounterOf
<1>3. Rows(db) \in SUBSET Prefix
  BY DEF Sound
<1>4. PICK g : g = Parts(db, kind)
  OBVIOUS
<1>5. /\ IsFiniteSet(Within(Rows(db), a)) /\ \A q \in Rows(db) : g[q] \in Int
      /\ SumOver(g, Within(Rows(db), a)) \in Int
  BY <1>1, <1>3, <1>4, PartsAreSummed
<1> QED
  BY <1>2, <1>4, <1>5 DEF Over, Within

\* The columns in question are not written.
LEMMA SameColumnsSameBooks ==
  ASSUME NEW db, Sound(db), NEW d, RowsAreFinite(d), Rows(d) = Rows(db),
         d.indent = db.indent, d.stat.used = db.stat.used, d.stat.vrf = db.stat.vrf
  PROVE  SameBooks(db, d)
BY DEF SameBooks, Sound, Over, Parts

LEMMA BooksOnBooks ==
  ASSUME NEW db, NEW c, NEW d, SameBooks(db, c), SameBooks(c, d)
  PROVE  SameBooks(db, d)
BY DEF SameBooks

\* What the trigger of the row q reads of it, before and after the UPDATE that fired it.
ShareOf(db, q) == [prefix |-> q, indent |-> db.indent[q], used |-> db.stat.used[q]]

Moving(before, after, S, f) ==
  f = [s \in SUBSET S |->
         IF s = {} THEN after.stat.vrf
         ELSE MoveVrfShare(f[s \ {Last(s)}], ShareOf(before, Last(s)), ShareOf(after, Last(s)))]

LEMMA MovingExists ==
  ASSUME NEW before, NEW after, NEW S, IsFiniteSet(S)
  PROVE  \E f : Moving(before, after, S, f)
<1> DEFINE Small(n) == {s \in SUBSET S : Cardinality(s) <= n}
           Next1(f, s) == IF s = {} THEN after.stat.vrf
                          ELSE MoveVrfShare(f[s \ {Last(s)}], ShareOf(before, Last(s)),
                                            ShareOf(after, Last(s)))
           N == {n \in 0 .. Cardinality(S) : \E f : f = [s \in Small(n) |-> Next1(f, s)]}
<1>1. Cardinality(S) \in Nat
  BY FS_CardinalityType
<1>2. \A s \in SUBSET S : IsFiniteSet(s) /\ Cardinality(s) \in Nat
  BY FS_Subset, FS_CardinalityType
<1>3. 0 \in N
  <2> DEFINE f == [s \in Small(0) |-> after.stat.vrf]
  <2>1. \A s \in Small(0) : s = {}
    BY <1>2, FS_EmptySet
  <2>2. f = [s \in Small(0) |-> Next1(f, s)]
    BY <2>1
  <2> HIDE DEF f, Next1, Small
  <2> QED
    BY <1>1, <2>2
<1>4. ASSUME NEW n \in 0 .. Cardinality(S), n \in N, n < Cardinality(S)
      PROVE  n + 1 \in N
  <2>1. PICK f : f = [s \in Small(n) |-> Next1(f, s)]
    BY <1>4
  <2> DEFINE g == [s \in Small(n + 1) |-> Next1(f, s)]
  <2>2. ASSUME NEW s \in Small(n + 1) PROVE Next1(f, s) = Next1(g, s)
    <3>1. CASE s = {}
      BY <3>1
    <3>2. CASE s # {}
      <4>1. s \ {Last(s)} \in Small(n)
        BY <1>2, <3>2, WithoutLast
      <4>2. s \ {Last(s)} \in Small(n + 1)
        BY <1>2, <4>1
      <4>3. f[s \ {Last(s)}] = Next1(f, s \ {Last(s)})
        BY <2>1, <4>1
      <4>4. g[s \ {Last(s)}] = Next1(f, s \ {Last(s)})
        BY <4>2
      <4> QED
        BY <3>2, <4>3, <4>4
    <3> QED
      BY <3>1, <3>2
  <2>3. g = [s \in Small(n + 1) |-> Next1(g, s)]
    <3>1. g = [s \in Small(n + 1) |-> Next1(f, s)]
      OBVIOUS
    <3> HIDE DEF g, Next1, Small
    <3> QED
      BY <2>2, <3>1
  <2> HIDE DEF g, Next1, Small
  <2> QED
    BY <1>1, <1>4, <2>3
<1>5. Cardinality(S) \in N
  <2> HIDE DEF N
  <2>1. 0 .. Cardinality(S) \subseteq N
    BY <1>1, <1>3, <1>4, UpTo
  <2> QED
    BY <1>1, <2>1
<1>6. Small(Cardinality(S)) = SUBSET S
  BY <1>1, <1>2, FS_Subset
<1> QED
  BY <1>5, <1>6 DEF Moving

\* The parts of the rows while the triggers of the rows s have run.
Between(before, after, s, kind) ==
  [q \in Rows(after) |-> IF q \in s THEN Parts(after, kind)[q] ELSE Parts(before, kind)[q]]

LEMMA MovingBalances ==
  ASSUME NEW before, NEW after, Sound(before), Sound(after), Rows(after) = Rows(before),
         NEW S \in SUBSET Rows(after), NEW f, Moving(before, after, S, f), NEW s \in SUBSET S
  PROVE  /\ IsVrf(f[s])
         /\ \A a \in Accounts, kind \in Kinds :
              CounterOf(f[s], a, kind)
                - SumOver(Between(before, after, s, kind), Within(Rows(after), a))
              = CounterOf(after.stat.vrf, a, kind)
                - SumOver(Parts(before, kind), Within(Rows(after), a))
<1> DEFINE R == Rows(after)
           Left(t, a, kind) == CounterOf(f[t], a, kind)
                                 - SumOver(Between(before, after, t, kind), Within(R, a))
           Start(a, kind) == CounterOf(after.stat.vrf, a, kind)
                               - SumOver(Parts(before, kind), Within(R, a))
           G == {t \in SUBSET S : /\ IsVrf(f[t])
                                  /\ \A a \in Accounts, kind \in Kinds :
                                       Left(t, a, kind) = Start(a, kind)}
<1>1. R \in SUBSET Prefix /\ IsFiniteSet(S)
  <2>1. R \in SUBSET Prefix
    BY DEF Sound
  <2> QED
    BY <2>1, PrefixAssumption, FS_Subset
<1>2. ASSUME NEW a \in Accounts, NEW kind \in Kinds
      PROVE  /\ IsFiniteSet(Within(R, a)) /\ Within(R, a) \subseteq R
             /\ \A q \in R : Parts(before, kind)[q] \in Int /\ Parts(after, kind)[q] \in Int
  BY SoundParts
<1>3. {} \in G
  <2>1. f[{}] = after.stat.vrf
    BY DEF Moving
  <2>2. ASSUME NEW a \in Accounts, NEW kind \in Kinds
        PROVE  SumOver(Between(before, after, {}, kind), Within(R, a))
                 = SumOver(Parts(before, kind), Within(R, a))
    <3>1. \A q \in Within(R, a) :
            Between(before, after, {}, kind)[q] = Parts(before, kind)[q]
      BY <1>2 DEF Between
    <3> QED
      BY <1>2, <3>1, SumOverSame
  <2> QED
    BY <2>1, <2>2 DEF Sound
<1>4. ASSUME NEW t \in SUBSET S, t # {}, \A x \in t : t \ {x} \in G
      PROVE  t \in G
  <2> DEFINE p == Last(t)
             u == t \ {p}
             old == ShareOf(before, p)
             new == ShareOf(after, p)
  <2>1. p \in t /\ p \in R /\ p \in Prefix
    BY <1>1, <1>4 DEF Last
  <2>2. u \in G /\ IsVrf(f[u])
    BY <1>4, <2>1
  <2>3. f[t] = MoveVrfShare(f[u], old, new)
    BY <1>4 DEF Moving
  <2>4. /\ old.prefix = p /\ new.prefix = p
        /\ old.used \in Int /\ new.used \in Int
        /\ \A kind \in Kinds : /\ PartsOf(old)[kind] = Parts(before, kind)[p]
                               /\ PartsOf(new)[kind] = Parts(after, kind)[p]
    BY <2>1 DEF ShareOf, PartsOf, PartOf, Parts, Sound
  <2> HIDE DEF p, old, new
  <2>5. Counters(f[u], f[t], VrfAccount(p), PartsOf(new), PartsOf(old))
    BY <2>1, <2>2, <2>3, <2>4, MoveVrfShareIs
  <2>6. ASSUME NEW a \in Accounts, NEW kind \in Kinds
        PROVE  Left(t, a, kind) = Start(a, kind)
    <3> DEFINE g == Between(before, after, u, kind)
               h == Between(before, after, t, kind)
               W == Within(R, a)
    <3>1. \A q \in R : g[q] \in Int /\ h[q] \in Int
      BY <1>2 DEF Between
    <3>2. \A q \in R : q # p => g[q] = h[q]
      BY DEF Between
    <3>3. g[p] = PartsOf(old)[kind] /\ h[p] = PartsOf(new)[kind]
      BY <2>1, <2>4 DEF Between
    <3>4. CounterOf(f[t], a, kind)
            = CounterOf(f[u], a, kind)
                + (IF a = VrfAccount(p) THEN PartsOf(new)[kind] - PartsOf(old)[kind] ELSE 0)
      BY <2>5 DEF Counters
    <3>5. CounterOf(f[u], a, kind) \in Int
      BY <2>2 DEF IsVrf, CounterOf
    <3>6. Left(u, a, kind) = Start(a, kind)
      BY <2>2
    <3>7. IsFiniteSet(W) /\ W \subseteq R
      BY <1>2
    <3>8. p \in W <=> a = VrfAccount(p)
      BY <2>1 DEF Within
    <3> HIDE DEF g, h, W
    <3>9. \A q \in W : g[q] \in Int /\ h[q] \in Int
      BY <3>1, <3>7
    <3>10. SumOver(g, W) \in Int
      BY <3>7, <3>9, SumOverIsInt
    <3>11. CASE a = VrfAccount(p)
      <4>1. SumOver(h, W) = SumOver(g, W) - g[p] + h[p]
        <5>1. \A y \in W \ {p} : g[y] = h[y]
          BY <3>2, <3>7
        <5> QED
          BY <3>7, <3>8, <3>9, <3>11, <5>1, SumOverChange
      <4>2. PICK i, j, k, l : /\ i = g[p] /\ j = h[p] /\ k = SumOver(g, W)
                              /\ l = CounterOf(f[u], a, kind)
        OBVIOUS
      <4>3. i \in Int /\ j \in Int /\ k \in Int /\ l \in Int
        BY <2>1, <3>1, <3>5, <3>10, <4>2
      <4>4. (l + (j - i)) - (k - i + j) = l - k
        BY <4>3
      <4> QED
        BY <3>3, <3>4, <3>6, <3>11, <4>1, <4>2, <4>4 DEF g, h, W
    <3>12. CASE a # VrfAccount(p)
      <4>1. SumOver(h, W) = SumOver(g, W)
        <5>1. \A y \in W : h[y] = g[y]
          BY <3>2, <3>7, <3>8, <3>12
        <5> QED
          BY <3>7, <5>1, SumOverSame
      <4>2. CounterOf(f[t], a, kind) = CounterOf(f[u], a, kind)
        BY <3>4, <3>5, <3>12
      <4> QED
        BY <3>6, <4>1, <4>2 DEF g, h, W
    <3> QED
      BY <3>11, <3>12
  <2> HIDE DEF Left, Start
  <2> QED
    BY <2>5, <2>6 DEF Counters
<1> HIDE DEF G
<1>5. s \in G
  <2>1. IsFiniteSet(s)
    BY <1>1, FS_Subset
  <2>2. \A t \in SUBSET s : t # {} /\ (\A x \in t : t \ {x} \in G) => t \in G
    BY <1>4
  <2> QED
    BY <1>3, <2>1, <2>2, BySubsets
<1> QED
  BY <1>5 DEF G


LEMMA NestedMoves ==
  ASSUME NEW before, NEW after, IsFiniteSet(Fired(before, after))
  PROVE  \E f : /\ Moving(before, after, Fired(before, after), f)
                /\ NestedTriggers(before, after) =
                     CascadeTags(Recount([after EXCEPT !.stat.vrf = f[Fired(before, after)]],
                                         ParentsOf(Rows(after), Fired(before, after)),
                                         after.indent),
                                 Fired(before, after))
<1> DEFINE f == CHOOSE g : Moving(before, after, Fired(before, after), g)
<1>1. Moving(before, after, Fired(before, after), f)
  BY MovingExists
<1>2. NestedTriggers(before, after) =
        CascadeTags(Recount([after EXCEPT !.stat.vrf = f[Fired(before, after)]],
                            ParentsOf(Rows(after), Fired(before, after)), after.indent),
                    Fired(before, after))
  BY DEF NestedTriggers, FoldSet, MapThenFoldSet, Moving, Last, ShareOf, Fired
<1> QED
  BY <1>1, <1>2

\* The rows an UPDATE changes move their shares, the others have not changed theirs.
LEMMA NestedBooks ==
  ASSUME NEW db, Sound(db), NEW a, RowsAreFinite(a), Rows(a) = Rows(db),
         a.stat.vrf = db.stat.vrf, \A q \in Rows(a) : a.stat.used[q] \in Int
  PROVE  LET d == NestedTriggers(db, a)
         IN  SameBooks(db, d) /\ d.indent = a.indent /\ d.stat.used = a.stat.used
<1> DEFINE S == Fired(db, a)
           P == ParentsOf(Rows(a), S)
<1>1. Sound(a) /\ S \in SUBSET Rows(a) /\ IsFiniteSet(S)
  <2>1. Sound(a)
    BY DEF Sound
  <2>2. S \in SUBSET Rows(a)
    BY DEF Fired
  <2> QED
    BY <2>1, <2>2, PrefixAssumption, FS_Subset DEF Sound
<1>2. PICK f : /\ Moving(db, a, S, f)
               /\ NestedTriggers(db, a)
                    = CascadeTags(Recount([a EXCEPT !.stat.vrf = f[S]], P, a.indent), S)
  BY <1>1, NestedMoves
<1>3. /\ IsVrf(f[S])
      /\ \A c \in Accounts, kind \in Kinds :
           CounterOf(f[S], c, kind) - SumOver(Between(db, a, S, kind), Within(Rows(a), c))
             = CounterOf(a.stat.vrf, c, kind) - SumOver(Parts(db, kind), Within(Rows(a), c))
  BY <1>1, <1>2, MovingBalances
<1>4. ASSUME NEW c \in Accounts, NEW kind \in Kinds
      PROVE  SumOver(Between(db, a, S, kind), Within(Rows(a), c))
               = SumOver(Parts(a, kind), Within(Rows(a), c))
  <2>1. \A q \in Rows(a) : Between(db, a, S, kind)[q] = Parts(a, kind)[q]
    BY DEF Between, Parts, Fired
  <2>2. IsFiniteSet(Within(Rows(a), c)) /\ Within(Rows(a), c) \subseteq Rows(a)
    BY <1>1, SoundParts
  <2> QED
    BY <2>1, <2>2, SumOverSame
<1> DEFINE m == [a EXCEPT !.stat.vrf = f[S]]
<1>5. m = [plan |-> a.plan, indent |-> a.indent,
           stat |-> [children |-> a.stat.children, used |-> a.stat.used,
                     inherited |-> a.stat.inherited, vrf |-> f[S], pool |-> a.stat.pool]]
  BY DEF RowsAreFinite, IsDatabase, IsStat
<1> HIDE DEF m, S, P
<1>6. /\ RowsAreFinite(m) /\ Rows(m) = Rows(a) /\ m.indent = a.indent
      /\ m.stat.used = a.stat.used /\ m.stat.vrf = f[S]
  BY <1>5 DEF RowsAreFinite, IsDatabase, IsStat, Rows
<1>7. SameBooks(db, m)
  BY <1>1, <1>3, <1>4, <1>6 DEF SameBooks, Sound, Over, Parts
<1>8. PICK r : r = Recount(m, P, a.indent)
  OBVIOUS
<1>9. /\ RowsAreFinite(r) /\ Rows(r) = Rows(m) /\ r.indent = m.indent
      /\ r.stat.used = m.stat.used /\ r.stat.vrf = m.stat.vrf
  BY <1>6, <1>8, RecountIs DEF RowsAreFinite, SameRows, Rows
<1>10. PICK d : d = CascadeTags(r, S)
  OBVIOUS
<1>11. /\ RowsAreFinite(d) /\ Rows(d) = Rows(r) /\ d.indent = r.indent
       /\ d.stat.used = r.stat.used /\ d.stat.vrf = r.stat.vrf
  BY <1>9, <1>10, CascadeFrame DEF RowsAreFinite, SameRows, Rows
<1>12. SameBooks(m, d)
  BY <1>7, <1>9, <1>11, SameColumnsSameBooks DEF SameBooks
<1> QED
  BY <1>2, <1>6, <1>7, <1>8, <1>9, <1>10, <1>11, <1>12, BooksOnBooks DEF m

\* The UPDATE statements of the AFTER trigger.
LEMMA SetIndentBooks ==
  ASSUME NEW db, Sound(db), NEW indent, indent = [q \in Rows(db) |-> indent[q]]
  PROVE  LET d == SetIndent(db, indent)
         IN  SameBooks(db, d) /\ d.indent = indent /\ d.stat.used = db.stat.used
<1> DEFINE a == [db EXCEPT !.indent = indent]
<1>1. IsDatabase(db) /\ Cardinality(Rows(db)) \in Nat
  BY DEF Sound, RowsAreFinite
<1>2. a = [plan |-> db.plan, indent |-> indent, stat |-> db.stat]
  BY <1>1 DEF IsDatabase
<1> HIDE DEF a
<1>3. /\ RowsAreFinite(a) /\ Rows(a) = Rows(db) /\ a.stat = db.stat /\ a.indent = indent
  BY <1>1, <1>2 DEF IsDatabase, RowsAreFinite, Rows
<1>4. \A q \in Rows(a) : a.stat.used[q] \in Int
  BY <1>3 DEF Sound
<1>5. LET d == NestedTriggers(db, a)
      IN  SameBooks(db, d) /\ d.indent = a.indent /\ d.stat.used = a.stat.used
  BY <1>3, <1>4, NestedBooks
<1> QED
  BY <1>3, <1>5 DEF SetIndent, a

LEMMA CalcIndentBooks ==
  ASSUME NEW db, Sound(db), NEW p, NEW delta
  PROVE  LET d == CalcIndent(db, p, delta)
         IN  SameBooks(db, d) /\ d.stat.used = db.stat.used
<1> DEFINE counted == CountIndent(Rows(db), db.indent, p)
           c == CalcIndentAt(db, p)
           shifted == ShiftIndent(Rows(c), c.indent, p, delta)
<1>1. counted = [q \in Rows(db) |-> counted[q]]
  BY DEF CountIndent
<1>2. shifted = [q \in Rows(c) |-> shifted[q]]
  BY DEF ShiftIndent
<1>3. c = SetIndent(db, counted) /\ CalcIndent(db, p, delta) = SetIndent(c, shifted)
  BY DEF CalcIndentAt, CalcIndent, CalcIndentInside
<1> HIDE DEF counted, c, shifted
<1>4. SameBooks(db, c) /\ c.stat.used = db.stat.used
  BY <1>1, <1>3, SetIndentBooks
<1>5. Sound(c)
  BY <1>4 DEF SameBooks
<1>6. LET d == SetIndent(c, shifted)
      IN  SameBooks(c, d) /\ d.stat.used = c.stat.used
  BY <1>2, <1>5, SetIndentBooks
<1> QED
  BY <1>3, <1>4, <1>6, BooksOnBooks

LEMMA SetUsedBooks ==
  ASSUME NEW db, Sound(db), NEW P, NEW value, P = {} \/ value \in Int
  PROVE  LET d == SetUsed(db, P, value)
         IN  /\ SameBooks(db, d) /\ d.indent = db.indent
             /\ \A q \in Rows(db) : d.stat.used[q] = IF q \in P THEN value ELSE db.stat.used[q]
<1> DEFINE used == [q \in Rows(db) |-> IF q \in P THEN value ELSE db.stat.used[q]]
           a == [db EXCEPT !.stat.used = used]
<1>1. IsDatabase(db) /\ Cardinality(Rows(db)) \in Nat
  BY DEF Sound, RowsAreFinite
<1>2. SetUsed(db, P, value) = NestedTriggers(db, a)
  BY <1>1 DEF SetUsed, IsDatabase, IsStat
<1>3. used = [q \in Rows(db) |-> used[q]]
  OBVIOUS
<1>4. \A q \in Rows(db) : used[q] = IF q \in P THEN value ELSE db.stat.used[q]
  OBVIOUS
<1> HIDE DEF used
<1>5. a = [plan |-> db.plan, indent |-> db.indent,
           stat |-> [children |-> db.stat.children, used |-> used,
                     inherited |-> db.stat.inherited, vrf |-> db.stat.vrf,
                     pool |-> db.stat.pool]]
  BY <1>1 DEF IsDatabase, IsStat
<1> HIDE DEF a
<1>6. /\ RowsAreFinite(a) /\ Rows(a) = Rows(db) /\ a.indent = db.indent
      /\ a.stat.used = used /\ a.stat.vrf = db.stat.vrf
  BY <1>1, <1>3, <1>5 DEF IsDatabase, IsStat, RowsAreFinite, Rows
<1>7. \A q \in Rows(a) : a.stat.used[q] \in Int
  BY <1>4, <1>6 DEF Sound
<1>8. LET d == NestedTriggers(db, a)
      IN  SameBooks(db, d) /\ d.indent = a.indent /\ d.stat.used = a.stat.used
  BY <1>6, <1>7, NestedBooks
<1> QED
  BY <1>2, <1>4, <1>6, <1>8

LEMMA RecountBooks ==
  ASSUME NEW db, Sound(db), NEW P, NEW fetched
  PROVE  LET d == Recount(db, P, fetched)
         IN  SameBooks(db, d) /\ d.indent = db.indent /\ d.stat.used = db.stat.used
<1> DEFINE d == Recount(db, P, fetched)
<1>1. /\ RowsAreFinite(d) /\ Rows(d) = Rows(db) /\ d.indent = db.indent
      /\ d.stat.used = db.stat.used /\ d.stat.vrf = db.stat.vrf
  BY RecountIs DEF Sound, RowsAreFinite, SameRows, Rows
<1> HIDE DEF d
<1>2. SameBooks(db, d)
  BY <1>1, SameColumnsSameBooks
<1> QED
  BY <1>1, <1>2 DEF d

LEMMA CascadeBooks ==
  ASSUME NEW db, Sound(db), NEW P
  PROVE  LET d == CascadeTags(db, P)
         IN  SameBooks(db, d) /\ d.indent = db.indent /\ d.stat.used = db.stat.used
<1> DEFINE d == CascadeTags(db, P)
<1>1. /\ RowsAreFinite(d) /\ Rows(d) = Rows(db) /\ d.indent = db.indent
      /\ d.stat.used = db.stat.used /\ d.stat.vrf = db.stat.vrf
  BY CascadeFrame DEF Sound, RowsAreFinite, SameRows, Rows
<1> HIDE DEF d
<1>2. SameBooks(db, d)
  BY <1>1, SameColumnsSameBooks
<1> QED
  BY <1>1, <1>2 DEF d


\* A row is booked: what has come, and what has gone, counts in the account c.
Posted(db, d, c, came, gone) ==
  /\ Sound(d) /\ Rows(d) = Rows(db)
  /\ \A a \in Accounts, kind \in Kinds :
       Over(d, a, kind) = Over(db, a, kind)
                            + (IF a = c THEN came[kind] - gone[kind] ELSE 0)

LEMMA PostedBetween ==
  ASSUME NEW b, NEW x, NEW y, NEW d, NEW c, NEW came, NEW gone,
         SameBooks(b, x), Posted(x, y, c, came, gone), SameBooks(y, d)
  PROVE  Posted(b, d, c, came, gone)
BY DEF SameBooks, Posted

LEMMA CountersArePosted ==
  ASSUME NEW db, Sound(db), NEW d, RowsAreFinite(d), Rows(d) = Rows(db),
         d.indent = db.indent, d.stat.used = db.stat.used,
         NEW c, NEW came, NEW gone, Counters(db.stat.vrf, d.stat.vrf, c, came, gone),
         \A kind \in Kinds : came[kind] \in Int /\ gone[kind] \in Int
  PROVE  Posted(db, d, c, came, gone)
<1>1. Sound(d)
  BY DEF Sound, Counters
<1>2. ASSUME NEW a \in Accounts, NEW kind \in Kinds
      PROVE  Over(d, a, kind) = Over(db, a, kind)
                                  + (IF a = c THEN came[kind] - gone[kind] ELSE 0)
  <2>1. PICK i, j, k : /\ i = CounterOf(db.stat.vrf, a, kind)
                       /\ j = SumOver(Parts(db, kind), Within(Rows(db), a))
                       /\ k = IF a = c THEN came[kind] - gone[kind] ELSE 0
    OBVIOUS
  <2>2. i \in Int /\ j \in Int /\ k \in Int
    BY <2>1, SoundParts
  <2>3. (i + k) - j = (i - j) + k
    BY <2>2
  <2>4. CounterOf(d.stat.vrf, a, kind) = i + k
    BY <2>1 DEF Counters
  <2>5. Parts(d, kind) = Parts(db, kind)
    BY DEF Parts
  <2> QED
    BY <2>1, <2>3, <2>4, <2>5 DEF Over
<1> QED
  BY <1>1, <1>2 DEF Posted

\* What a row that is booked with a sign brings, and what it takes away.
Came(row, sign) == IF sign = 1 THEN PartsOf(row) ELSE Nothing
Gone(row, sign) == IF sign = 1 THEN Nothing ELSE PartsOf(row)

\* The VRF statistics of an INSERT or a DELETE.
LEMMA BookPosts ==
  ASSUME NEW db, Sound(db), NEW row, row.prefix \in Prefix, row.used \in Int,
         NEW parentPool, NEW sign \in {1, -1}
  PROVE  LET d == Book(db, row, parentPool, sign)
         IN  /\ Posted(db, d, VrfAccount(row.prefix), Came(row, sign), Gone(row, sign))
             /\ d.indent = db.indent /\ d.stat.used = db.stat.used
<1> DEFINE d == Book(db, row, parentPool, sign)
           vrf == CountInVrf(db.stat.vrf, row, sign)
           pool == MoveChild(MoveMember(db.stat.pool, row, sign), parentPool, row.prefix, sign)
<1>0. RowsAreFinite(db) /\ IsVrf(db.stat.vrf)
  BY DEF Sound
<1>1. d = [db EXCEPT !.stat.vrf = vrf, !.stat.pool = pool]
  BY <1>0 DEF Book, RowsAreFinite, IsDatabase, IsStat
<1>2. Counters(db.stat.vrf, vrf, VrfAccount(row.prefix), Came(row, sign), Gone(row, sign))
  BY <1>0, CountInVrfIs DEF Came, Gone
<1> HIDE DEF vrf, pool
<1>3. d = [plan |-> db.plan, indent |-> db.indent,
           stat |-> [children |-> db.stat.children, used |-> db.stat.used,
                     inherited |-> db.stat.inherited, vrf |-> vrf, pool |-> pool]]
  <2> HIDE DEF d
  <2> QED
    BY <1>0, <1>1 DEF RowsAreFinite, IsDatabase, IsStat
<1> HIDE DEF d
<1>4. /\ RowsAreFinite(d) /\ Rows(d) = Rows(db) /\ d.indent = db.indent
      /\ d.stat.used = db.stat.used /\ d.stat.vrf = vrf
  BY <1>0, <1>3 DEF RowsAreFinite, IsDatabase, IsStat, Rows
<1>5. \A kind \in Kinds : Came(row, sign)[kind] \in Int /\ Gone(row, sign)[kind] \in Int
  <2>1. \A kind \in Kinds : PartsOf(row)[kind] \in Int /\ Nothing[kind] \in Int
    BY PartsAreInts DEF Nothing
  <2> QED
    BY <2>1 DEF Came, Gone
<1>6. Posted(db, d, VrfAccount(row.prefix), Came(row, sign), Gone(row, sign))
  BY <1>2, <1>4, <1>5, CountersArePosted
<1> QED
  BY <1>4, <1>6 DEF d

LEMMA ChargedBooks ==
  ASSUME NEW c, Sound(c), NEW parent, NEW fetched, NEW value, parent = {} \/ value \in Int,
         NEW row, row.prefix \in Prefix, row.used \in Int,
         NEW parentPool, NEW sign \in {1, -1}
  PROVE  LET b == Book(SetUsed(Recount(c, parent, fetched), parent, value),
                       row, parentPool, sign)
         IN  /\ Posted(c, b, VrfAccount(row.prefix), Came(row, sign), Gone(row, sign))
             /\ b.indent = c.indent
             /\ \A q \in Rows(c) : b.stat.used[q] = IF q \in parent THEN value ELSE c.stat.used[q]
<1> DEFINE r == Recount(c, parent, fetched)
           u == SetUsed(r, parent, value)
           b == Book(u, row, parentPool, sign)
<1>1. /\ SameBooks(c, r) /\ r.indent = c.indent /\ r.stat.used = c.stat.used
      /\ Sound(r) /\ Rows(r) = Rows(c)
  BY RecountBooks DEF SameBooks
<1> HIDE DEF r
<1>2. /\ SameBooks(r, u) /\ u.indent = r.indent /\ Sound(u) /\ Rows(u) = Rows(r)
      /\ \A q \in Rows(r) : u.stat.used[q] = IF q \in parent THEN value ELSE r.stat.used[q]
  BY <1>1, SetUsedBooks DEF SameBooks
<1> HIDE DEF u
<1>3. /\ Posted(u, b, VrfAccount(row.prefix), Came(row, sign), Gone(row, sign))
      /\ b.indent = u.indent /\ b.stat.used = u.stat.used
  BY <1>2, BookPosts
<1> HIDE DEF b
<1>4. SameBooks(c, u)
  BY <1>1, <1>2, BooksOnBooks
<1>5. SameBooks(b, b)
  BY <1>3 DEF SameBooks, Posted
<1>6. Posted(c, b, VrfAccount(row.prefix), Came(row, sign), Gone(row, sign))
  BY <1>3, <1>4, <1>5, PostedBetween
<1> QED
  BY <1>1, <1>2, <1>3, <1>6 DEF b, u, r

\* What is read of the records the AFTER trigger fetched.
LEMMA FetchedInts ==
  ASSUME NEW db, Sound(db), NEW P \in SUBSET Rows(db)
  PROVE  UsedOf(db, P) \in Int
<1>1. P # {} => (CHOOSE q \in P : TRUE) \in Rows(db)
  OBVIOUS
<1> QED
  BY <1>1 DEF UsedOf, Sound

LEMMA ChargesAreInts ==
  ASSUME NEW row, row.prefix \in Prefix, row.used \in Int, NEW maxlen
  PROVE  Charge(row, maxlen) \in Int
<1>1. Total(row.prefix) \in Nat
  BY TotalAssumption
<1> QED
  BY <1>1 DEF Charge

LEMMA RecordIs ==
  ASSUME NEW db, Sound(db), NEW p \in Rows(db)
  PROVE  /\ RowRecord(db, p).prefix = p /\ p \in Prefix
         /\ RowRecord(db, p).indent = db.indent[p]
         /\ RowRecord(db, p).used = db.stat.used[p] /\ RowRecord(db, p).used \in Int
BY DEF RowRecord, Sound

LEMMA AfterInsertBooks ==
  ASSUME NEW db, Sound(db), NEW p \in Rows(db)
  PROVE  LET d == AfterInsert(db, p)
             parent == Parent(Rows(db), p)
         IN  /\ Posted(db, d, VrfAccount(p), PartsOf(RowRecord(db, p)), Nothing)
             /\ d.indent = CalcIndent(db, p, 1).indent
             /\ \A q \in Rows(db) : d.stat.used[q] =
                  IF q \in parent
                  THEN UsedOf(db, parent) + Charge(RowRecord(db, p), MaxLen(Family(p)))
                  ELSE db.stat.used[q]
<1> DEFINE new == RowRecord(db, p)
           parent == Parent(Rows(db), p)
           pool == PoolOf(db.plan, parent)
           value == UsedOf(db, parent) + Charge(new, MaxLen(Family(p)))
           c == CalcIndent(db, p, 1)
           b == Book(SetUsed(Recount(c, parent, db.indent), parent, value), new, pool, 1)
           d == CascadeTags(b, {p})
<1>1. AfterInsert(db, p) = d
  BY DEF AfterInsert
<1>2. new.prefix = p /\ p \in Prefix /\ new.used \in Int
  BY RecordIs
<1>3. value \in Int
  <2>1. parent \in SUBSET Rows(db)
    BY ParentAbove DEF Parent, Above
  <2>2. UsedOf(db, parent) \in Int
    BY <2>1, FetchedInts
  <2>3. Charge(new, MaxLen(Family(p))) \in Int
    BY <1>2, ChargesAreInts
  <2> QED
    BY <2>2, <2>3
<1>4. SameBooks(db, c) /\ c.stat.used = db.stat.used /\ Sound(c) /\ Rows(c) = Rows(db)
  BY CalcIndentBooks DEF SameBooks
<1> HIDE DEF c, new, parent, pool, value
<1>5. /\ Posted(c, b, VrfAccount(new.prefix), PartsOf(new), Nothing) /\ b.indent = c.indent
      /\ \A q \in Rows(c) : b.stat.used[q] = IF q \in parent THEN value ELSE c.stat.used[q]
  <2>1. Came(new, 1) = PartsOf(new) /\ Gone(new, 1) = Nothing
    BY DEF Came, Gone
  <2>2. /\ Posted(c, b, VrfAccount(new.prefix), Came(new, 1), Gone(new, 1))
        /\ b.indent = c.indent
        /\ \A q \in Rows(c) : b.stat.used[q] = IF q \in parent THEN value ELSE c.stat.used[q]
    BY <1>2, <1>3, <1>4, ChargedBooks
  <2> QED
    BY <2>1, <2>2
<1> HIDE DEF b
<1>6. SameBooks(b, d) /\ d.indent = b.indent /\ d.stat.used = b.stat.used
  BY <1>5, CascadeBooks DEF Posted
<1> HIDE DEF d
<1>7. Posted(db, d, VrfAccount(p), PartsOf(new), Nothing)
  BY <1>2, <1>4, <1>5, <1>6, PostedBetween
<1>8. \A q \in Rows(db) : d.stat.used[q] = IF q \in parent THEN value ELSE db.stat.used[q]
  BY <1>4, <1>5, <1>6
<1> QED
  BY <1>1, <1>5, <1>6, <1>7, <1>8 DEF new, parent, value, c

LEMMA AfterDeleteBooks ==
  ASSUME NEW db, Sound(db), NEW old, old.prefix \in Prefix, old.used \in Int
  PROVE  LET d == AfterDelete(db, old)
             parent == Parent(Rows(db), old.prefix)
         IN  /\ Posted(db, d, VrfAccount(old.prefix), Nothing, PartsOf(old))
             /\ d.indent = CalcIndent(db, old.prefix, -1).indent
             /\ \A q \in Rows(db) : d.stat.used[q] =
                  IF q \in parent THEN UsedOf(db, parent) - Charge(old, MaxLen(4))
                  ELSE db.stat.used[q]
<1> DEFINE p == old.prefix
           parent == Parent(Rows(db), p)
           pool == PoolOf(db.plan, parent)
           value == UsedOf(db, parent) - Charge(old, MaxLen(4))
           c == CalcIndent(db, p, -1)
           b == Book(SetUsed(Recount(c, parent, db.indent), parent, value), old, pool, -1)
           P == IF parent = {} THEN {p} ELSE parent
           d == CascadeTags(b, P)
<1>1. AfterDelete(db, old) = d
  BY DEF AfterDelete
<1>2. value \in Int
  <2>1. parent \in SUBSET Rows(db)
    BY ParentAbove DEF Parent, Above
  <2>2. UsedOf(db, parent) \in Int
    BY <2>1, FetchedInts
  <2>3. Charge(old, MaxLen(4)) \in Int
    BY ChargesAreInts
  <2> QED
    BY <2>2, <2>3
<1>3. SameBooks(db, c) /\ c.stat.used = db.stat.used /\ Sound(c) /\ Rows(c) = Rows(db)
  BY CalcIndentBooks DEF SameBooks
<1> HIDE DEF c, parent, pool, value, P
<1>4. /\ Posted(c, b, VrfAccount(old.prefix), Nothing, PartsOf(old)) /\ b.indent = c.indent
      /\ \A q \in Rows(c) : b.stat.used[q] = IF q \in parent THEN value ELSE c.stat.used[q]
  <2>1. Came(old, -1) = Nothing /\ Gone(old, -1) = PartsOf(old)
    BY DEF Came, Gone
  <2>2. /\ Posted(c, b, VrfAccount(old.prefix), Came(old, -1), Gone(old, -1))
        /\ b.indent = c.indent
        /\ \A q \in Rows(c) : b.stat.used[q] = IF q \in parent THEN value ELSE c.stat.used[q]
    BY <1>2, <1>3, ChargedBooks
  <2> QED
    BY <2>1, <2>2
<1> HIDE DEF b
<1>5. SameBooks(b, d) /\ d.indent = b.indent /\ d.stat.used = b.stat.used
  BY <1>4, CascadeBooks DEF Posted
<1> HIDE DEF d
<1>6. Posted(db, d, VrfAccount(old.prefix), Nothing, PartsOf(old))
  BY <1>3, <1>4, <1>5, PostedBetween
<1>7. \A q \in Rows(db) : d.stat.used[q] = IF q \in parent THEN value ELSE db.stat.used[q]
  BY <1>3, <1>4, <1>5
<1> QED
  BY <1>1, <1>4, <1>5, <1>6, <1>7 DEF parent, value, c


\* The VRF statistics of an UPDATE.
LEMMA BookedPosts ==
  ASSUME NEW db, Sound(db), NEW old, NEW new, NEW oldPool, NEW newPool,
         old.prefix \in Prefix, new.prefix \in Prefix, old.used \in Int, new.used \in Int,
         VrfAccount(old.prefix) = VrfAccount(new.prefix)
  PROVE  LET d == Booked(db, old, new, oldPool, newPool)
         IN  /\ Posted(db, d, VrfAccount(new.prefix), PartsOf(new), PartsOf(old))
             /\ d.indent = db.indent /\ d.stat.used = db.stat.used
<1> DEFINE d == Booked(db, old, new, oldPool, newPool)
           vrf == MoveVrfShare(db.stat.vrf, old, new)
           pool == MovePools(db.stat.pool, old, new, oldPool, newPool)
<1>0. RowsAreFinite(db) /\ IsVrf(db.stat.vrf)
  BY DEF Sound
<1>1. d = [db EXCEPT !.stat.vrf = vrf, !.stat.pool = pool]
  BY <1>0 DEF Booked, RowsAreFinite, IsDatabase, IsStat
<1>2. Counters(db.stat.vrf, vrf, VrfAccount(new.prefix), PartsOf(new), PartsOf(old))
  BY <1>0, MoveVrfShareIs
<1> HIDE DEF vrf, pool
<1>3. d = [plan |-> db.plan, indent |-> db.indent,
           stat |-> [children |-> db.stat.children, used |-> db.stat.used,
                     inherited |-> db.stat.inherited, vrf |-> vrf, pool |-> pool]]
  <2> HIDE DEF d
  <2> QED
    BY <1>0, <1>1 DEF RowsAreFinite, IsDatabase, IsStat
<1> HIDE DEF d
<1>4. /\ RowsAreFinite(d) /\ Rows(d) = Rows(db) /\ d.indent = db.indent
      /\ d.stat.used = db.stat.used /\ d.stat.vrf = vrf
  BY <1>0, <1>3 DEF RowsAreFinite, IsDatabase, IsStat, Rows
<1>5. \A kind \in Kinds : PartsOf(new)[kind] \in Int /\ PartsOf(old)[kind] \in Int
  BY PartsAreInts
<1>6. Posted(db, d, VrfAccount(new.prefix), PartsOf(new), PartsOf(old))
  BY <1>2, <1>4, <1>5, CountersArePosted
<1> QED
  BY <1>4, <1>6 DEF d

\* What becomes of the used addresses u of the row q when a charge moves from o to n.
ChargeMoved(o, n, refunded, charged, cost, q, u) ==
  IF q \in n THEN IF o = n THEN refunded + cost ELSE charged
  ELSE IF q \in o THEN refunded ELSE u

LEMMA MoveChargeBooks ==
  ASSUME NEW db, Sound(db), NEW o, NEW n, NEW refunded, NEW charged, NEW cost \in Int,
         o = {} \/ refunded \in Int, n = {} \/ charged \in Int
  PROVE  LET d == MoveCharge(db, o, n, refunded, charged, cost)
         IN  /\ SameBooks(db, d) /\ d.indent = db.indent
             /\ \A q \in Rows(db) : d.stat.used[q] =
                  ChargeMoved(o, n, refunded, charged, cost, q, db.stat.used[q])
<1>1. CASE o = n
  <2>1. n = {} \/ refunded + cost \in Int
    BY <1>1
  <2>2. PICK d : d = SetUsed(db, n, refunded + cost)
    OBVIOUS
  <2>3. /\ SameBooks(db, d) /\ d.indent = db.indent
        /\ \A q \in Rows(db) : d.stat.used[q] = IF q \in n THEN refunded + cost
                                                          ELSE db.stat.used[q]
    BY <2>1, <2>2, SetUsedBooks
  <2> QED
    BY <1>1, <2>2, <2>3 DEF MoveCharge, ChargeMoved
<1>2. CASE o # n
  <2>1. PICK u : u = SetUsed(db, o, refunded)
    OBVIOUS
  <2>2. SameBooks(db, u) /\ Sound(u) /\ u.indent = db.indent
    BY <2>1, SetUsedBooks DEF SameBooks
  <2>3. PICK d : d = SetUsed(u, n, charged)
    OBVIOUS
  <2>4. /\ SameBooks(u, d) /\ d.indent = u.indent
        /\ \A q \in Rows(u) : d.stat.used[q] = IF q \in n THEN charged ELSE u.stat.used[q]
    BY <2>2, <2>3, SetUsedBooks
  <2>5. Rows(u) = Rows(db)
        /\ \A q \in Rows(db) : u.stat.used[q] = IF q \in o THEN refunded ELSE db.stat.used[q]
    BY <2>1, SetUsedBooks DEF SameBooks
  <2>6. SameBooks(db, d)
    BY <2>2, <2>4, BooksOnBooks
  <2>7. MoveCharge(db, o, n, refunded, charged, cost) = d
    BY <1>2, <2>1, <2>3 DEF MoveCharge
  <2> QED
    BY <1>2, <2>2, <2>4, <2>5, <2>6, <2>7 DEF ChargeMoved
<1> QED
  BY <1>1, <1>2

\* The row old.prefix has become n, and d is db with what each costs its parent.
Recharged(db, d, old, n) ==
  LET oldParent == Parent(Rows(db) \ {n}, old.prefix)
      newParent == Parent(Rows(db), n)
      cost == Charge(RowRecord(db, n), MaxLen(Family(n)))
      refunded == UsedOf(db, oldParent) - Charge(old, MaxLen(Family(n)))
  IN  \A q \in Rows(db) : d.stat.used[q] =
        ChargeMoved(oldParent, newParent, refunded, UsedOf(db, newParent) + cost, cost,
                    q, db.stat.used[q])

\* The row stays within its account, whether it is renumbered or not.
LEMMA AfterUpdateBooks ==
  ASSUME NEW db, Sound(db), NEW n \in Rows(db), NEW old, old.prefix \in Prefix,
         old.used \in Int, VrfAccount(old.prefix) = VrfAccount(n)
  PROVE  LET d == AfterUpdate(db, old, n)
         IN  /\ Posted(db, d, VrfAccount(n), PartsOf(RowRecord(db, n)), PartsOf(old))
             /\ d.indent = IF old.prefix # n
                           THEN CalcIndent(CalcIndent(db, old.prefix, -1), n, 1).indent
                           ELSE db.indent
             /\ old.prefix = n => d.stat.used = db.stat.used
             /\ old.prefix # n => Recharged(db, d, old, n)
<1> DEFINE new == RowRecord(db, n)
           o == old.prefix
           moved == o # n
           oldParent == Parent(Rows(db) \ {n}, o)
           newParent == Parent(Rows(db), n)
           cost == Charge(new, MaxLen(Family(n)))
           refunded == UsedOf(db, oldParent) - Charge(old, MaxLen(Family(n)))
           taken == UsedOf(db, newParent) + cost
           left == CalcIndent(db, o, -1)
           calculated == IF moved THEN CalcIndent(left, n, 1) ELSE db
           given == Recount(calculated, oldParent, db.indent)
           recounted == Recount(given, newParent, db.indent)
           charged == IF moved
                      THEN MoveCharge(recounted, oldParent, newParent, refunded, taken, cost)
                      ELSE recounted
           oldPool == PoolOf(db.plan, oldParent)
           newPool == PoolOf(db.plan, newParent)
           booked == Booked(charged, old, new, oldPool, newPool)
           first == CascadeTags(booked, {o})
           d == CascadeTags(first, {n})
<1>1. AfterUpdate(db, old, n) = d
  BY DEF AfterUpdate, Booked
<1>2. new.prefix = n /\ n \in Prefix /\ new.used \in Int
  BY RecordIs
<1>3. cost \in Int /\ refunded \in Int /\ taken \in Int
  <2>1. oldParent \in SUBSET Rows(db) /\ newParent \in SUBSET Rows(db)
    BY ParentAbove DEF Parent, Above
  <2>2. UsedOf(db, oldParent) \in Int /\ UsedOf(db, newParent) \in Int
    BY <2>1, FetchedInts
  <2>3. Charge(old, MaxLen(Family(n))) \in Int /\ cost \in Int
    BY <1>2, ChargesAreInts
  <2> QED
    BY <2>2, <2>3
<1> HIDE DEF new, oldParent, newParent, cost, refunded, taken, oldPool, newPool
<1>4. SameBooks(db, left) /\ Sound(left)
  BY CalcIndentBooks DEF SameBooks
<1>5. /\ SameBooks(db, calculated) /\ Sound(calculated)
      /\ calculated.stat.used = db.stat.used
  <2>1. SameBooks(db, db) /\ left.stat.used = db.stat.used
    BY CalcIndentBooks DEF SameBooks
  <2> HIDE DEF left
  <2>2. LET e == CalcIndent(left, n, 1)
        IN  SameBooks(left, e) /\ e.stat.used = left.stat.used
    BY <1>4, CalcIndentBooks
  <2>3. SameBooks(db, CalcIndent(left, n, 1))
    BY <1>4, <2>2, BooksOnBooks
  <2> QED
    BY <2>1, <2>2, <2>3 DEF SameBooks
<1> HIDE DEF calculated, left
<1>6. /\ SameBooks(calculated, given) /\ Sound(given) /\ given.indent = calculated.indent
      /\ given.stat.used = calculated.stat.used
  BY <1>5, RecountBooks DEF SameBooks
<1> HIDE DEF given
<1>7. /\ SameBooks(given, recounted) /\ Sound(recounted) /\ recounted.indent = given.indent
      /\ recounted.stat.used = given.stat.used
  BY <1>6, RecountBooks DEF SameBooks
<1> HIDE DEF recounted
<1>8. /\ SameBooks(recounted, charged) /\ Sound(charged) /\ charged.indent = recounted.indent
      /\ ~ moved => charged.stat.used = recounted.stat.used
      /\ moved => \A q \in Rows(recounted) : charged.stat.used[q] =
                   ChargeMoved(oldParent, newParent, refunded, taken, cost, q,
                               recounted.stat.used[q])
  <2>1. PICK e : e = MoveCharge(recounted, oldParent, newParent, refunded, taken, cost)
    OBVIOUS
  <2>2. /\ SameBooks(recounted, e) /\ e.indent = recounted.indent
        /\ \A q \in Rows(recounted) : e.stat.used[q] =
             ChargeMoved(oldParent, newParent, refunded, taken, cost, q, recounted.stat.used[q])
    BY <1>3, <1>7, <2>1, MoveChargeBooks
  <2>3. SameBooks(recounted, recounted)
    BY <1>7 DEF SameBooks
  <2>4. charged = IF moved THEN e ELSE recounted
    BY <2>1
  <2> HIDE DEF charged, moved
  <2> QED
    BY <2>2, <2>3, <2>4 DEF SameBooks
<1> HIDE DEF charged
<1>9. /\ Posted(charged, booked, VrfAccount(n), PartsOf(new), PartsOf(old))
      /\ booked.indent = charged.indent /\ booked.stat.used = charged.stat.used
      /\ Sound(booked)
  BY <1>2, <1>8, BookedPosts DEF Posted
<1> HIDE DEF booked
<1>10. /\ SameBooks(booked, first) /\ Sound(first) /\ first.indent = booked.indent
       /\ first.stat.used = booked.stat.used
  BY <1>9, CascadeBooks DEF SameBooks
<1> HIDE DEF first
<1>11. SameBooks(first, d) /\ d.indent = first.indent /\ d.stat.used = first.stat.used
  BY <1>10, CascadeBooks
<1> HIDE DEF d
<1>12. SameBooks(db, charged)
  BY <1>5, <1>6, <1>7, <1>8, BooksOnBooks
<1>13. SameBooks(booked, d)
  BY <1>10, <1>11, BooksOnBooks
<1>14. Posted(db, d, VrfAccount(n), PartsOf(new), PartsOf(old))
  BY <1>9, <1>12, <1>13, PostedBetween
<1>15. d.indent = calculated.indent /\ (~ moved => d.stat.used = db.stat.used)
  <2> HIDE DEF moved
  <2> QED
    BY <1>5, <1>6, <1>7, <1>8, <1>9, <1>10, <1>11
<1>16. ASSUME moved PROVE Recharged(db, d, old, n)
  <2>1. \A q \in Rows(db) : d.stat.used[q] =
          ChargeMoved(oldParent, newParent, refunded, taken, cost, q, db.stat.used[q])
    <3>1. Rows(recounted) = Rows(db)
      BY <1>5, <1>6, <1>7 DEF SameBooks
    <3>2. d.stat.used = charged.stat.used /\ recounted.stat.used = db.stat.used
      BY <1>5, <1>6, <1>7, <1>9, <1>10, <1>11
    <3> HIDE DEF moved
    <3> QED
      BY <1>8, <1>16, <3>1, <3>2
  <2> QED
    BY <2>1 DEF Recharged, oldParent, newParent, refunded, taken, cost, new
<1> QED
  BY <1>1, <1>14, <1>15, <1>16 DEF calculated, new, left

-----------------------------------------------------------------------------
(* The books over a whole statement: a row more or less is a part of the sum *)
(* and a posting, and the two are the same.                                *)

\* What is said of the books is that they are ahead of the rows as much as they were.
AheadAs(db, d) ==
  Sound(d) /\ \A a \in Accounts, kind \in Kinds : Over(d, a, kind) = Over(db, a, kind)

\* What the row p comes to in the account a.
PartIn(db, p, a, kind) == IF a = VrfAccount(p) THEN PartsOf(RowRecord(db, p))[kind] ELSE 0

LEMMA PartsInAreInts ==
  ASSUME NEW db, Sound(db), NEW p \in Rows(db), NEW a, NEW kind \in Kinds
  PROVE  PartIn(db, p, a, kind) \in Int
<1>1. PICK row : row = RowRecord(db, p)
  OBVIOUS
<1>2. row.prefix \in Prefix /\ row.used \in Int
  BY <1>1, RecordIs
<1>3. PartsOf(row)[kind] \in Int
  BY <1>2, PartsAreInts
<1> QED
  BY <1>1, <1>3 DEF PartIn

\* The row p on top of those of another table, with the counters it has.
OneRowMore(B, D, p) ==
  /\ Sound(B) /\ Sound(D)
  /\ p \notin Rows(B) /\ Rows(D) = Rows(B) \cup {p}
  /\ D.stat.vrf = B.stat.vrf
  /\ \A q \in Rows(B) : D.indent[q] = B.indent[q] /\ D.stat.used[q] = B.stat.used[q]

LEMMA OneRowCosts ==
  ASSUME NEW B, NEW D, NEW p, OneRowMore(B, D, p), NEW a \in Accounts, NEW kind \in Kinds
  PROVE  Over(D, a, kind) = Over(B, a, kind) - PartIn(D, p, a, kind)
<1> DEFINE S == Within(Rows(B), a)
           g == Parts(D, kind)
<1>1. p \in Rows(D) /\ p \in Prefix /\ Sound(B) /\ Sound(D)
  BY DEF OneRowMore, Sound
<1>2. g[p] = PartsOf(RowRecord(D, p))[kind]
  <2>1. /\ RowRecord(D, p).prefix = p /\ RowRecord(D, p).indent = D.indent[p]
        /\ RowRecord(D, p).used = D.stat.used[p]
    BY DEF RowRecord
  <2> QED
    BY <1>1, <2>1 DEF PartsOf, PartOf, Parts
<1>3. SumOver(Parts(B, kind), S) = SumOver(g, S) /\ IsFiniteSet(S)
  <2>1. IsFiniteSet(S) /\ S \subseteq Rows(B)
    BY <1>1, SoundParts
  <2>2. \A q \in S : Parts(B, kind)[q] = g[q]
    BY <2>1 DEF Parts, OneRowMore
  <2> HIDE DEF S, g
  <2> QED
    BY <2>1, <2>2, SumOverSame
<1>4. \A q \in Rows(D) : g[q] \in Int
  BY <1>1, SoundParts
<1>5. p \notin S /\ \A q \in S \cup {p} : g[q] \in Int
  BY <1>1, <1>4 DEF Within, OneRowMore
<1>6. Within(Rows(D), a) = IF a = VrfAccount(p) THEN S \cup {p} ELSE S
  BY DEF Within, OneRowMore
<1>7. CounterOf(D.stat.vrf, a, kind) = CounterOf(B.stat.vrf, a, kind)
      /\ CounterOf(B.stat.vrf, a, kind) \in Int
  BY <1>1, SoundParts DEF OneRowMore
<1> HIDE DEF S, g
<1>8. SumOver(g, S) \in Int /\ SumOver(g, S \cup {p}) = SumOver(g, S) + g[p] /\ g[p] \in Int
  BY <1>3, <1>5, SumOverOneMore
<1>9. PICK i, j, k : i = CounterOf(B.stat.vrf, a, kind) /\ j = SumOver(g, S) /\ k = g[p]
  OBVIOUS
<1>10. i - (j + k) = (i - j) - k /\ i - j = (i - j) - 0
  BY <1>7, <1>8, <1>9
<1>11. Over(B, a, kind) = i - j
  BY <1>3, <1>9 DEF Over, S
<1>12. Over(D, a, kind) = IF a = VrfAccount(p) THEN i - (j + k) ELSE i - j
  BY <1>6, <1>7, <1>8, <1>9 DEF Over, g
<1> QED
  BY <1>2, <1>9, <1>10, <1>11, <1>12 DEF PartIn

\* A row that has come is booked.
LEMMA ComingBalances ==
  ASSUME NEW B, NEW D, NEW p, OneRowMore(B, D, p),
         NEW d, Posted(D, d, VrfAccount(p), PartsOf(RowRecord(D, p)), Nothing)
  PROVE  AheadAs(B, d)
<1>1. p \in Rows(D) /\ Sound(B) /\ Sound(D)
  BY DEF OneRowMore
<1>2. ASSUME NEW a \in Accounts, NEW kind \in Kinds
      PROVE  Over(d, a, kind) = Over(B, a, kind)
  <2>1. PICK i, j : i = Over(B, a, kind) /\ j = PartIn(D, p, a, kind)
    OBVIOUS
  <2>2. i \in Int /\ j \in Int
    BY <1>1, <2>1, SoundParts, PartsInAreInts
  <2>3. Over(D, a, kind) = i - j
    BY <2>1, OneRowCosts
  <2>4. Over(d, a, kind) = (i - j) + j
    <3>1. CASE a = VrfAccount(p)
      <4>1. j = PartsOf(RowRecord(D, p))[kind] /\ Nothing[kind] = 0
        BY <2>1, <3>1 DEF PartIn, Nothing
      <4>2. Over(d, a, kind) = Over(D, a, kind) + (j - 0)
        BY <3>1, <4>1 DEF Posted
      <4> QED
        BY <2>2, <2>3, <4>2
    <3>2. CASE a # VrfAccount(p)
      <4>1. j = 0
        BY <2>1, <3>2 DEF PartIn
      <4>2. Over(d, a, kind) = Over(D, a, kind) + 0
        BY <3>2 DEF Posted
      <4> QED
        BY <2>2, <2>3, <4>1, <4>2
    <3> QED
      BY <3>1, <3>2
  <2> QED
    BY <2>1, <2>2, <2>4
<1> QED
  BY <1>2 DEF AheadAs, Posted

\* A row that has gone is booked: x, which is ahead as D is, is then ahead as B was
\* before the row came.
LEMMA GoingBalances ==
  ASSUME NEW B, NEW D, NEW p, OneRowMore(B, D, p), NEW x, AheadAs(B, x),
         NEW d, Posted(x, d, VrfAccount(p), Nothing, PartsOf(RowRecord(D, p)))
  PROVE  AheadAs(D, d)
<1>1. p \in Rows(D) /\ Sound(B) /\ Sound(D)
  BY DEF OneRowMore
<1>2. ASSUME NEW a \in Accounts, NEW kind \in Kinds
      PROVE  Over(d, a, kind) = Over(D, a, kind)
  <2>1. PICK i, j : i = Over(B, a, kind) /\ j = PartIn(D, p, a, kind)
    OBVIOUS
  <2>2. i \in Int /\ j \in Int
    BY <1>1, <2>1, SoundParts, PartsInAreInts
  <2>3. Over(D, a, kind) = i - j /\ Over(x, a, kind) = i
    BY <2>1, OneRowCosts DEF AheadAs
  <2>4. CASE a = VrfAccount(p)
    <3>1. j = PartsOf(RowRecord(D, p))[kind] /\ Nothing[kind] = 0
      BY <2>1, <2>4 DEF PartIn, Nothing
    <3>2. Over(d, a, kind) = i + (0 - j)
      BY <2>3, <2>4, <3>1 DEF Posted
    <3> QED
      BY <2>2, <2>3, <3>2
  <2>5. CASE a # VrfAccount(p)
    <3>1. j = 0
      BY <2>1, <2>5 DEF PartIn
    <3>2. Over(d, a, kind) = i + 0
      BY <2>3, <2>5 DEF Posted
    <3> QED
      BY <2>2, <2>3, <3>1, <3>2
  <2> QED
    BY <2>4, <2>5
<1> QED
  BY <1>2 DEF AheadAs, Posted

\* A row that is another one now is booked: x is ahead as the table with the row n is.
LEMMA ReplacingBalances ==
  ASSUME NEW B, NEW D, NEW o, OneRowMore(B, D, o), NEW U, NEW n, OneRowMore(B, U, n),
         VrfAccount(o) = VrfAccount(n), NEW x, AheadAs(U, x),
         NEW d, Posted(x, d, VrfAccount(n), PartsOf(RowRecord(U, n)), PartsOf(RowRecord(D, o)))
  PROVE  AheadAs(D, d)
<1>1. /\ o \in Rows(D) /\ n \in Rows(U) /\ Sound(B) /\ Sound(D) /\ Sound(U)
  BY DEF OneRowMore
<1>2. ASSUME NEW a \in Accounts, NEW kind \in Kinds
      PROVE  Over(d, a, kind) = Over(D, a, kind)
  <2>1. PICK i, j, k : /\ i = Over(B, a, kind) /\ j = PartIn(D, o, a, kind)
                       /\ k = PartIn(U, n, a, kind)
    OBVIOUS
  <2>2. i \in Int /\ j \in Int /\ k \in Int
    BY <1>1, <2>1, SoundParts, PartsInAreInts
  <2>3. Over(D, a, kind) = i - j
    BY <2>1, OneRowCosts
  <2>4. Over(x, a, kind) = i - k
    BY <2>1, OneRowCosts DEF AheadAs
  <2>5. CASE a = VrfAccount(n)
    <3>1. j = PartsOf(RowRecord(D, o))[kind] /\ k = PartsOf(RowRecord(U, n))[kind]
      BY <2>1, <2>5 DEF PartIn
    <3>2. Over(d, a, kind) = (i - k) + (k - j)
      BY <2>4, <2>5, <3>1 DEF Posted
    <3> QED
      BY <2>2, <2>3, <3>2
  <2>6. CASE a # VrfAccount(n)
    <3>1. j = 0 /\ k = 0
      BY <2>1, <2>6 DEF PartIn
    <3>2. Over(d, a, kind) = (i - k) + 0
      BY <2>4, <2>6 DEF Posted
    <3> QED
      BY <2>2, <2>3, <3>1, <3>2
  <2> QED
    BY <2>5, <2>6
<1> QED
  BY <1>2 DEF AheadAs, Posted

\* The rows X of a table, with other numbers in the two columns that count.
Sheet(D, X, indent, used) ==
  [plan |-> [q \in X |-> D.plan[q]], indent |-> [q \in X |-> indent[q]],
   stat |-> [children |-> [q \in X |-> D.stat.children[q]], used |-> [q \in X |-> used[q]],
             inherited |-> [q \in X |-> D.stat.inherited[q]],
             vrf |-> D.stat.vrf, pool |-> D.stat.pool]]
Only(D, X) == Sheet(D, X, D.indent, D.stat.used)

IsSheet(D, X, indent, used, d) ==
  /\ Sound(d) /\ Rows(d) = X /\ d.stat.vrf = D.stat.vrf
  /\ d.plan = [q \in X |-> D.plan[q]]
  /\ \A q \in X : d.indent[q] = indent[q] /\ d.stat.used[q] = used[q]

LEMMA SheetIs ==
  ASSUME NEW D, Sound(D), NEW X \in SUBSET Rows(D), NEW indent, NEW used,
         \A q \in X : used[q] \in Int, NEW d, d = Sheet(D, X, indent, used)
  PROVE  IsSheet(D, X, indent, used, d)
<1>1. /\ d.plan = [q \in X |-> D.plan[q]]
      /\ d.indent = [q \in X |-> indent[q]]
      /\ d.stat = [children |-> [q \in X |-> D.stat.children[q]], used |-> [q \in X |-> used[q]],
                   inherited |-> [q \in X |-> D.stat.inherited[q]],
                   vrf |-> D.stat.vrf, pool |-> D.stat.pool]
      /\ d = [plan |-> d.plan, indent |-> d.indent, stat |-> d.stat]
  BY DEF Sheet
<1>2. Rows(d) = X
  BY <1>1 DEF Rows
<1>3. IsDatabase(d)
  BY <1>1, <1>2 DEF IsDatabase, IsStat
<1>4. X \in SUBSET Prefix
  BY DEF Sound
<1>5. Cardinality(X) \in Nat
  BY <1>4, PrefixAssumption, FS_Subset, FS_CardinalityType
<1>6. Sound(d)
  BY <1>1, <1>2, <1>3, <1>4, <1>5 DEF Sound, RowsAreFinite
<1> QED
  BY <1>1, <1>2, <1>6 DEF IsSheet

LEMMA SheetsApart ==
  ASSUME NEW D, Sound(D), NEW X \in SUBSET Rows(D), NEW p \in X, NEW Y, Y = X \ {p},
         NEW i, NEW u, \A q \in X : u[q] \in Int,
         NEW j, NEW v, \A q \in Y : i[q] = j[q] /\ u[q] = v[q]
  PROVE  OneRowMore(Sheet(D, Y, j, v), Sheet(D, X, i, u), p)
<1>1. IsSheet(D, X, i, u, Sheet(D, X, i, u))
  BY SheetIs
<1>2. IsSheet(D, Y, j, v, Sheet(D, Y, j, v))
  <2>1. Y \in SUBSET Rows(D) /\ \A q \in Y : v[q] \in Int
    OBVIOUS
  <2> QED
    BY <2>1, SheetIs
<1>3. PICK d, e : d = Sheet(D, X, i, u) /\ e = Sheet(D, Y, j, v)
  OBVIOUS
<1>4. OneRowMore(e, d, p)
  <2>1. IsSheet(D, X, i, u, d) /\ IsSheet(D, Y, j, v, e)
    BY <1>1, <1>2, <1>3
  <2>2. /\ Sound(d) /\ Rows(d) = X /\ d.stat.vrf = D.stat.vrf
        /\ \A q \in X : d.indent[q] = i[q] /\ d.stat.used[q] = u[q]
    BY <2>1 DEF IsSheet
  <2>3. /\ Sound(e) /\ Rows(e) = Y /\ e.stat.vrf = D.stat.vrf
        /\ \A q \in Y : e.indent[q] = j[q] /\ e.stat.used[q] = v[q]
    BY <2>1 DEF IsSheet
  <2>4. p \notin Y /\ X = Y \cup {p}
    OBVIOUS
  <2>5. \A q \in Y : d.indent[q] = e.indent[q] /\ d.stat.used[q] = e.stat.used[q]
    BY <2>2, <2>3
  <2> QED
    BY <2>2, <2>3, <2>4, <2>5 DEF OneRowMore
<1> QED
  BY <1>3, <1>4

LEMMA SameParts ==
  ASSUME NEW db, NEW d, NEW p, db.indent[p] = d.indent[p], db.stat.used[p] = d.stat.used[p]
  PROVE  PartsOf(RowRecord(db, p)) = PartsOf(RowRecord(d, p))
BY DEF PartsOf, PartOf, RowRecord

\* Tables with the same counters and the same numbers are ahead alike.
LEMMA SameSheets ==
  ASSUME NEW D, Sound(D), NEW U, Sound(U), Rows(U) = Rows(D), U.stat.vrf = D.stat.vrf,
         \A q \in Rows(D) : U.indent[q] = D.indent[q] /\ U.stat.used[q] = D.stat.used[q]
  PROVE  AheadAs(D, U)
<1>1. ASSUME NEW kind \in Kinds PROVE Parts(U, kind) = Parts(D, kind)
  BY DEF Parts
<1> QED
  BY <1>1 DEF AheadAs, Over

LEMMA AheadAsWell ==
  ASSUME NEW b, NEW c, NEW d, AheadAs(b, c), AheadAs(c, d)
  PROVE  AheadAs(b, d)
BY DEF AheadAs

LEMMA DeleteLifts ==
  ASSUME NEW U \in SUBSET Prefix, NEW p \in Prefix, p \notin U, NEW T, T = U \cup {p},
         NEW d, RowsAreFinite(d), Rows(d) \subseteq U, Depths(d, T),
         NEW old, old.prefix = p
  PROVE  Depths(AfterDelete(d, old), U)
<1> DEFINE R == Rows(d)
           e == AfterDelete(d, old)
<1>1. /\ Rows(e) = R
      /\ e.indent = ShiftIndent(R, CountIndent(R, d.indent, p), p, -1)
  <2>1. Rows(e) = R /\ e.indent = CalcIndent(d, p, -1).indent
    BY AfterDeleteIs
  <2>2. CalcIndent(d, p, -1).indent = ShiftIndent(R, CountIndent(R, d.indent, p), p, -1)
    BY CalcIndentFrame DEF RowsAreFinite
  <2> QED
    BY <2>1, <2>2
<1> HIDE DEF e
<1>2. ASSUME NEW q \in R PROVE e.indent[q] = Cardinality(Above(U, q))
  <2>1. q # p /\ q \in U
    OBVIOUS
  <2>2. e.indent[q] = IF Covers(p, q) THEN d.indent[q] + (-1) ELSE d.indent[q]
    BY <1>1, <2>1 DEF ShiftIndent, CountIndent
  <2>3. d.indent[q] = Cardinality(Above(T, q))
    BY DEF Depths
  <2>4. /\ Cardinality(Above(U, q)) \in Nat
        /\ Cardinality(Above(T, q)) = Cardinality(Above(U, q)) + (IF Covers(p, q) THEN 1 ELSE 0)
    BY <2>1, AboveFinite, AboveAfterInsert
  <2> QED
    BY <2>2, <2>3, <2>4
<1> QED
  BY <1>1, <1>2 DEF Depths, e

\* A DELETE of the rows S of D: their triggers leave the books ahead as they were.
Deleting(D, S, base, f) ==
  /\ Sound(D) /\ S \in SUBSET Rows(D) /\ Rows(base) = Rows(D) \ S
  /\ AheadAs(Only(D, Rows(D) \ S), base) /\ Depths(base, Rows(D))
  /\ Triggered("DELETE", D, base, S, f)

Deleted(D, S, base, d) ==
  AheadAs(D, d) /\ d.plan = base.plan /\ Depths(d, Rows(D) \ S)

LEMMA DeletesBalance ==
  ASSUME NEW D, NEW S, NEW base, NEW f, Deleting(D, S, base, f)
  PROVE  Deleted(D, S, base, f[S])
<1>0. PICK T : T = Rows(D)
  OBVIOUS
<1> SUFFICES ASSUME Sound(D), S \in SUBSET T, Rows(base) = T \ S,
                    AheadAs(Only(D, T \ S), base), Depths(base, T),
                    Triggered("DELETE", D, base, S, f)
             PROVE  AheadAs(D, f[S]) /\ f[S].plan = base.plan /\ Depths(f[S], T \ S)
  BY <1>0 DEF Deleting, Deleted
<1> DEFINE R == T \ S
           G == {s \in SUBSET S : /\ AheadAs(Only(D, R \cup s), f[s]) /\ Rows(f[s]) = R
                                  /\ f[s].plan = base.plan /\ Depths(f[s], T \ s)}
<1>1. IsFiniteSet(S) /\ T \in SUBSET Prefix /\ \A q \in T : D.stat.used[q] \in Int
  <2>1. T \in SUBSET Prefix /\ \A q \in T : D.stat.used[q] \in Int
    BY <1>0 DEF Sound
  <2> QED
    BY <2>1, PrefixAssumption, FS_Subset
<1>2. {} \in G
  <2>1. f[{}] = base
    BY DEF Triggered
  <2>2. R \cup {} = T \ S /\ T \ {} = T
    OBVIOUS
  <2> QED
    BY <2>1, <2>2
<1>3. ASSUME NEW s \in SUBSET S, s # {}, \A x \in s : s \ {x} \in G PROVE s \in G
  <2>1. PICK p : p = Last(s)
    OBVIOUS
  <2>2. p \in s /\ p \in Prefix /\ p \in T
    BY <1>1, <1>3, <2>1 DEF Last
  <2>3. PICK z, x, y : z = s \ {p} /\ x = f[z] /\ y = f[s]
    OBVIOUS
  <2>4. y = AfterDelete(x, RowRecord(D, p))
    BY <1>3, <2>1, <2>3 DEF Triggered, RowTrigger
  <2>5. /\ AheadAs(Only(D, R \cup z), x) /\ Rows(x) = R /\ x.plan = base.plan
        /\ Depths(x, T \ z) /\ Sound(x)
    <3>1. z \in G
      BY <1>3, <2>2, <2>3
    <3>2. /\ AheadAs(Only(D, R \cup z), x) /\ Rows(x) = R /\ x.plan = base.plan
          /\ Depths(x, T \ z)
      BY <2>3, <3>1
    <3> QED
      BY <3>2 DEF AheadAs
  <2>6. /\ RowRecord(D, p).prefix = p /\ RowRecord(D, p).used \in Int
    BY <1>1, <2>2 DEF RowRecord
  <2>7. PICK X, Y : X = R \cup s /\ Y = R \cup z
    OBVIOUS
  <2>8. X \in SUBSET T /\ p \in X /\ Y = X \ {p} /\ \A q \in X : D.stat.used[q] \in Int
    BY <1>1, <2>2, <2>3, <2>7
  <2>9. OneRowMore(Only(D, Y), Only(D, X), p)
    <3>1. X \in SUBSET Rows(D)
      BY <1>0, <2>8
    <3> QED
      BY <2>8, <3>1, SheetsApart DEF Only
  <2>10. PartsOf(RowRecord(Only(D, X), p)) = PartsOf(RowRecord(D, p))
    <3>1. Only(D, X).indent[p] = D.indent[p] /\ Only(D, X).stat.used[p] = D.stat.used[p]
      BY <2>8 DEF Only, Sheet
    <3> QED
      BY <3>1, SameParts
  <2>11. Posted(x, y, VrfAccount(p), Nothing, PartsOf(RowRecord(D, p)))
    BY <2>2, <2>4, <2>5, <2>6, AfterDeleteBooks
  <2>12. AheadAs(Only(D, X), y)
    BY <2>5, <2>7, <2>9, <2>10, <2>11, GoingBalances
  <2>13. RowsAreFinite(x)
    BY <2>5 DEF Sound
  <2>14. Rows(y) = R /\ y.plan = base.plan
    BY <2>4, <2>5, <2>13, AfterDeleteIs
  <2>15. Depths(y, T \ s)
    <3>1. /\ T \ s \in SUBSET Prefix /\ p \notin T \ s /\ T \ z = (T \ s) \cup {p}
          /\ R \subseteq T \ s
      BY <1>1, <2>2, <2>3
    <3> QED
      BY <2>2, <2>4, <2>5, <2>6, <2>13, <3>1, DeleteLifts
  <2> QED
    BY <2>3, <2>7, <2>12, <2>14, <2>15
<1> HIDE DEF G
<1>4. S \in G
  BY <1>1, <1>2, <1>3, BySubsets
<1>5. AheadAs(D, Only(D, T))
  <2>1. IsSheet(D, T, D.indent, D.stat.used, Only(D, T))
    <3>1. T \in SUBSET Rows(D)
      BY <1>0
    <3> QED
      BY <1>1, <3>1, SheetIs DEF Only
  <2>2. PICK o : o = Only(D, T)
    OBVIOUS
  <2>3. /\ Sound(o) /\ Rows(o) = T /\ o.stat.vrf = D.stat.vrf
        /\ \A q \in T : o.indent[q] = D.indent[q] /\ o.stat.used[q] = D.stat.used[q]
    BY <2>1, <2>2 DEF IsSheet
  <2> QED
    BY <1>0, <2>2, <2>3, SameSheets
<1>6. R \cup S = T
  OBVIOUS
<1> QED
  BY <1>4, <1>5, <1>6, AheadAsWell DEF G

\* An UPDATE of the rows S that keeps their prefixes: while the triggers of s have run, the
\* books are ahead as with the rows s as they were and the others as they are.
Mixed(D, base, s) ==
  Sheet(base, Rows(base), [q \in Rows(base) |-> IF q \in s THEN D.indent[q] ELSE base.indent[q]],
        [q \in Rows(base) |-> IF q \in s THEN D.stat.used[q] ELSE base.stat.used[q]])

LEMMA MixedIs ==
  ASSUME NEW D, Sound(D), NEW base, Sound(base), NEW T, T = Rows(D), Rows(base) = T,
         NEW s \in SUBSET T, NEW m, m = Mixed(D, base, s)
  PROVE  /\ Sound(m) /\ Rows(m) = T /\ m.stat.vrf = base.stat.vrf
         /\ \A q \in T : /\ m.indent[q] = IF q \in s THEN D.indent[q] ELSE base.indent[q]
                         /\ m.stat.used[q] = IF q \in s THEN D.stat.used[q] ELSE base.stat.used[q]
<1> DEFINE i == [q \in T |-> IF q \in s THEN D.indent[q] ELSE base.indent[q]]
           u == [q \in T |-> IF q \in s THEN D.stat.used[q] ELSE base.stat.used[q]]
<1>1. m = Sheet(base, T, i, u)
  BY DEF Mixed
<1>2. \A q \in T : /\ i[q] = IF q \in s THEN D.indent[q] ELSE base.indent[q]
                   /\ u[q] = IF q \in s THEN D.stat.used[q] ELSE base.stat.used[q]
  OBVIOUS
<1>3. \A q \in T : u[q] \in Int
  BY <1>2 DEF Sound
<1> HIDE DEF i, u
<1>4. IsSheet(base, T, i, u, m)
  <2>1. T \in SUBSET Rows(base)
    OBVIOUS
  <2> QED
    BY <1>1, <1>3, <2>1, SheetIs
<1> QED
  BY <1>2, <1>4 DEF IsSheet

LEMMA MixedApart ==
  ASSUME NEW D, Sound(D), NEW base, Sound(base), NEW T, T = Rows(D), Rows(base) = T,
         NEW s \in SUBSET T, NEW p \in s, NEW z, z = s \ {p}
  PROVE  \E B : OneRowMore(B, Mixed(D, base, s), p) /\ OneRowMore(B, Mixed(D, base, z), p)
<1> DEFINE I(r) == [q \in T |-> IF q \in r THEN D.indent[q] ELSE base.indent[q]]
           U(r) == [q \in T |-> IF q \in r THEN D.stat.used[q] ELSE base.stat.used[q]]
<1>1. PICK i, u, j, v : i = I(s) /\ u = U(s) /\ j = I(z) /\ v = U(z)
  OBVIOUS
<1>2. Mixed(D, base, s) = Sheet(base, T, i, u) /\ Mixed(D, base, z) = Sheet(base, T, j, v)
  BY <1>1 DEF Mixed
<1>3. \A q \in T : u[q] \in Int /\ v[q] \in Int
  BY <1>1 DEF Sound
<1>4. PICK Y : Y = T \ {p}
  OBVIOUS
<1>5. \A q \in Y : i[q] = j[q] /\ u[q] = v[q]
  BY <1>1, <1>4
<1>6. T \in SUBSET Rows(base) /\ p \in T
  OBVIOUS
<1> HIDE DEF I, U
<1>7. OneRowMore(Sheet(base, Y, j, v), Sheet(base, T, i, u), p)
  BY <1>3, <1>4, <1>5, <1>6, SheetsApart
<1>8. OneRowMore(Sheet(base, Y, j, v), Sheet(base, T, j, v), p)
  <2>1. \A q \in Y : j[q] = j[q] /\ v[q] = v[q]
    OBVIOUS
  <2>2. \A q \in T : v[q] \in Int
    BY <1>3
  <2> QED
    BY <1>4, <1>6, <2>1, <2>2, SheetsApart
<1> QED
  BY <1>2, <1>7, <1>8

LEMMA UpdatesBalance ==
  ASSUME NEW D, Sound(D), NEW T, T = Rows(D), NEW S \in SUBSET T,
         NEW base, Sound(base), Rows(base) = T, base.stat.vrf = D.stat.vrf,
         \A q \in T \ S : /\ base.indent[q] = D.indent[q]
                          /\ base.stat.used[q] = D.stat.used[q],
         NEW f, Triggered("UPDATE", D, base, S, f)
  PROVE  /\ AheadAs(D, f[S]) /\ Rows(f[S]) = T /\ f[S].plan = base.plan
         /\ f[S].indent = base.indent
<1> DEFINE G == {s \in SUBSET S : /\ AheadAs(Mixed(D, base, s), f[s]) /\ Rows(f[s]) = T
                                  /\ f[s].plan = base.plan /\ f[s].indent = base.indent
                                  /\ f[s].stat.used = base.stat.used}
<1>1. IsFiniteSet(S) /\ T \in SUBSET Prefix /\ \A q \in T : D.stat.used[q] \in Int
  <2>1. T \in SUBSET Prefix /\ \A q \in T : D.stat.used[q] \in Int
    BY DEF Sound
  <2> QED
    BY <2>1, PrefixAssumption, FS_Subset
<1>2. {} \in G
  <2>1. f[{}] = base
    BY DEF Triggered
  <2>2. PICK m : m = Mixed(D, base, {})
    OBVIOUS
  <2>3. /\ Sound(m) /\ Rows(m) = T /\ m.stat.vrf = base.stat.vrf
        /\ \A q \in T : m.indent[q] = base.indent[q] /\ m.stat.used[q] = base.stat.used[q]
    <3>1. {} \in SUBSET T
      OBVIOUS
    <3> QED
      BY <2>2, <3>1, MixedIs
  <2>4. AheadAs(m, base)
    BY <2>3, SameSheets
  <2> QED
    BY <2>1, <2>2, <2>4
<1>3. ASSUME NEW s \in SUBSET S, s # {}, \A x \in s : s \ {x} \in G PROVE s \in G
  <2>1. PICK p : p = Last(s)
    OBVIOUS
  <2>2. p \in s /\ p \in Prefix /\ p \in T
    BY <1>1, <1>3, <2>1 DEF Last
  <2>3. PICK z, x, y : z = s \ {p} /\ x = f[z] /\ y = f[s]
    OBVIOUS
  <2>4. y = AfterUpdate(x, RowRecord(D, p), p)
    BY <1>3, <2>1, <2>3 DEF Triggered, RowTrigger
  <2>5. /\ AheadAs(Mixed(D, base, z), x) /\ Rows(x) = T /\ x.plan = base.plan
        /\ x.indent = base.indent /\ x.stat.used = base.stat.used /\ Sound(x)
    <3>1. z \in G
      BY <1>3, <2>2, <2>3
    <3>2. /\ AheadAs(Mixed(D, base, z), x) /\ Rows(x) = T /\ x.plan = base.plan
          /\ x.indent = base.indent /\ x.stat.used = base.stat.used
      BY <2>3, <3>1
    <3> QED
      BY <3>2 DEF AheadAs
  <2>6. /\ RowRecord(D, p).prefix = p /\ RowRecord(D, p).used \in Int
    BY <1>1, <2>2 DEF RowRecord
  <2>7. PICK m, n : m = Mixed(D, base, s) /\ n = Mixed(D, base, z)
    OBVIOUS
  <2>8. PICK B : OneRowMore(B, m, p) /\ OneRowMore(B, n, p)
    <3>1. s \in SUBSET T
      OBVIOUS
    <3> QED
      BY <2>2, <2>3, <2>7, <3>1, MixedApart
  <2>9. PartsOf(RowRecord(m, p)) = PartsOf(RowRecord(D, p))
    <3>1. s \in SUBSET T
      OBVIOUS
    <3>2. m.indent[p] = D.indent[p] /\ m.stat.used[p] = D.stat.used[p]
      BY <2>2, <2>7, <3>1, MixedIs
    <3> QED
      BY <3>2, SameParts
  <2>10. PartsOf(RowRecord(n, p)) = PartsOf(RowRecord(x, p))
    <3>1. z \in SUBSET T /\ p \notin z
      BY <2>3
    <3>2. n.indent[p] = base.indent[p] /\ n.stat.used[p] = base.stat.used[p]
      BY <2>2, <2>7, <3>1, MixedIs
    <3>3. n.indent[p] = x.indent[p] /\ n.stat.used[p] = x.stat.used[p]
      BY <2>5, <3>2
    <3> QED
      BY <3>3, SameParts
  <2>11. /\ Posted(x, y, VrfAccount(p), PartsOf(RowRecord(x, p)), PartsOf(RowRecord(D, p)))
         /\ y.indent = x.indent /\ y.stat.used = x.stat.used
    <3>1. PICK old : old = RowRecord(D, p)
      OBVIOUS
    <3>2. old.prefix = p /\ old.prefix \in Prefix /\ old.used \in Int /\ p \in Rows(x)
      BY <2>2, <2>5, <2>6, <3>1
    <3> QED
      BY <2>4, <2>5, <3>1, <3>2, AfterUpdateBooks
  <2>12. AheadAs(m, y)
    BY <2>5, <2>7, <2>8, <2>9, <2>10, <2>11, ReplacingBalances
  <2>13. RowsAreFinite(x)
    BY <2>5 DEF Sound
  <2>14. Rows(y) = T /\ y.plan = base.plan
    BY <2>4, <2>5, <2>13, AfterUpdateIs
  <2> QED
    BY <2>3, <2>5, <2>7, <2>11, <2>12, <2>14
<1> HIDE DEF G
<1>4. S \in G
  BY <1>1, <1>2, <1>3, BySubsets
<1>5. AheadAs(D, Mixed(D, base, S))
  <2>1. PICK m : m = Mixed(D, base, S)
    OBVIOUS
  <2>2. /\ Sound(m) /\ Rows(m) = T /\ m.stat.vrf = base.stat.vrf
        /\ \A q \in T : /\ m.indent[q] = IF q \in S THEN D.indent[q] ELSE base.indent[q]
                        /\ m.stat.used[q] = IF q \in S THEN D.stat.used[q] ELSE base.stat.used[q]
    BY <2>1, MixedIs
  <2>3. \A q \in T : m.indent[q] = D.indent[q] /\ m.stat.used[q] = D.stat.used[q]
    BY <2>2
  <2> QED
    BY <2>1, <2>2, <2>3, SameSheets
<1>6. /\ AheadAs(Mixed(D, base, S), f[S]) /\ Rows(f[S]) = T
      /\ f[S].plan = base.plan /\ f[S].indent = base.indent
  BY <1>4 DEF G
<1> QED
  BY <1>5, <1>6, AheadAsWell

-----------------------------------------------------------------------------
(* What the rows right below a row come to.                                *)

TotalBelow(R, q) == SumOfTotals(Kids(R, R, q))

LEMMA BelowIsInt ==
  ASSUME NEW R \in SUBSET Prefix, NEW q
  PROVE  TotalBelow(R, q) \in Int /\ Kids(R, R, q) \in SUBSET Prefix
<1>1. Kids(R, R, q) \in SUBSET Prefix
  BY DEF Kids
<1> QED
  BY <1>1, SumOfRows DEF TotalBelow

\* When the row p goes, the rows right below it take its place below its parent.
LEMMA BelowWithout ==
  ASSUME NEW U \in SUBSET Prefix, NEW p \in Prefix, p \notin U, NEW T, T = U \cup {p},
         NEW q \in U
  PROVE  TotalBelow(U, q) = IF Parent(T, p) = {q}
                            THEN TotalBelow(T, q) - Total(p) + TotalBelow(T, p)
                            ELSE TotalBelow(T, q)
<1>1. T \in SUBSET Prefix /\ Parent(T, p) = Parent(U, p)
  BY CoversStrict DEF Parent, Above
<1>2. CASE Parent(T, p) # {q}
  <2>1. q \notin Parent(T, p)
    BY <1>1, <1>2, ParentUnique
  <2>2. Kids(T, T, q) = Kids(U, U, q)
    BY <1>1, <2>1, KidsAfterInsert
  <2> QED
    BY <1>2, <2>2 DEF TotalBelow
<1>3. CASE Parent(T, p) = {q}
  <2> DEFINE below == Kids(T, T, p)
             stay == Kids(T, T, q) \ {p}
  <2>1. \A x \in U : Parent(U, x) = {q} <=> Parent(T, x) = {q} \/ Parent(T, x) = {p}
    <3> SUFFICES ASSUME NEW x \in U
                 PROVE  Parent(U, x) = {q} <=> Parent(T, x) = {q} \/ Parent(T, x) = {p}
      OBVIOUS
    <3>1. \/ Parent(T, x) = {p} /\ Parent(U, x) = Parent(U, p)
          \/ p \notin Parent(T, x) /\ Parent(T, x) = Parent(U, x)
      BY ParentWithout
    <3> QED
      BY <1>1, <1>3, <3>1
  <2>2. p \in Kids(T, T, q) /\ p \notin below
    <3>1. p \notin Parent(T, p)
      BY CoversStrict, ParentAbove
    <3> QED
      BY <1>3, <3>1 DEF Kids
  <2>3. Kids(U, U, q) = stay \cup below
    BY <2>1, <2>2 DEF Kids
  <2>4. stay \cap below = {}
    <3>1. p # q
      OBVIOUS
    <3> QED
      BY <3>1 DEF Kids
  <2>5. Kids(T, T, q) = stay \cup {p} /\ p \notin stay
    BY <2>2
  <2>6. stay \in SUBSET Prefix /\ below \in SUBSET Prefix /\ stay \cup below \in SUBSET Prefix
    BY <1>1 DEF Kids
  <2> HIDE DEF stay, below
  <2>7. /\ SumOfTotals(stay) \in Int /\ Total(p) \in Nat
        /\ TotalBelow(T, q) = SumOfTotals(stay) + Total(p)
    BY <2>5, <2>6, SumOfOneMore DEF TotalBelow
  <2>8. SumOfTotals(stay \cup below) = SumOfTotals(stay) + SumOfTotals(below)
    <3>1. /\ IsFiniteSet(stay) /\ IsFiniteSet(below)
          /\ SumOfTotals(stay) = SumOver(TotalOf, stay)
          /\ SumOfTotals(below) = SumOver(TotalOf, below)
          /\ SumOfTotals(stay \cup below) = SumOver(TotalOf, stay \cup below)
          /\ \A x \in stay \cup below : TotalOf[x] \in Int
      BY <2>6, SumOfRows
    <3> QED
      BY <2>4, <3>1, SumOverUnion
  <2>9. SumOfTotals(below) \in Int /\ SumOfTotals(below) = TotalBelow(T, p)
    BY <2>6, SumOfRows DEF below, TotalBelow
  <2>10. TotalBelow(U, q) = SumOfTotals(stay) + TotalBelow(T, p)
    BY <2>3, <2>8, <2>9 DEF TotalBelow
  <2>11. PICK i, j, k : i = SumOfTotals(stay) /\ j = Total(p) /\ k = TotalBelow(T, p)
    OBVIOUS
  <2>12. (i + j) - j + k = i + k
    BY <2>7, <2>9, <2>11
  <2> QED
    BY <1>3, <2>7, <2>10, <2>11, <2>12
<1> QED
  BY <1>2, <1>3

\* What a row costs its parent in T.
Costs(T) == [p \in T |-> Total(p) - TotalBelow(T, p)]

\* The rows of s that would be right below q once all of s is gone from T.
Orphans(T, s, q) == {p \in s : Parent(T \ s, p) = {q}}

\* A DELETE takes from what is below a row the cost of every row for which the row is the
\* innermost covering row of those that stay, however deep that row was.
LEMMA BelowAfterDelete ==
  ASSUME NEW T \in SUBSET Prefix, NEW S \in SUBSET T, NEW q \in T \ S
  PROVE  /\ SumOver(Costs(T), Orphans(T, S, q)) \in Int
         /\ TotalBelow(T \ S, q) = TotalBelow(T, q) - SumOver(Costs(T), Orphans(T, S, q))
<1> DEFINE Lost(s, x) == SumOver(Costs(T), Orphans(T, s, x))
           G == {s \in SUBSET S : \A x \in T \ s :
                   TotalBelow(T \ s, x) = TotalBelow(T, x) - Lost(s, x)}
<1>1. IsFiniteSet(S)
  BY PrefixAssumption, FS_Subset
<1>2. \A x \in T : Costs(T)[x] = Total(x) - TotalBelow(T, x) /\ Costs(T)[x] \in Int
  BY BelowIsInt, TotalAssumption DEF Costs
<1>3. ASSUME NEW s \in SUBSET S, NEW x
      PROVE  IsFiniteSet(Orphans(T, s, x)) /\ Orphans(T, s, x) \subseteq s /\ Lost(s, x) \in Int
  <2>1. Orphans(T, s, x) \subseteq s
    BY DEF Orphans
  <2>2. IsFiniteSet(Orphans(T, s, x))
    BY <1>1, <2>1, FS_Subset
  <2>3. \A y \in Orphans(T, s, x) : Costs(T)[y] \in Int
    BY <1>2, <2>1
  <2> QED
    BY <2>1, <2>2, <2>3, SumOverIsInt
<1>4. {} \in G
  <2>1. ASSUME NEW x \in T PROVE TotalBelow(T \ {}, x) = TotalBelow(T, x) - Lost({}, x)
    <3>1. Orphans(T, {}, x) = {} /\ T \ {} = T
      BY DEF Orphans
    <3>2. Lost({}, x) = 0
      BY <3>1, SumOverNothing
    <3>3. TotalBelow(T, x) \in Int
      BY BelowIsInt
    <3> QED
      BY <3>1, <3>2, <3>3
  <2> QED
    BY <2>1
<1>5. ASSUME NEW s \in SUBSET S, s # {}, \A y \in s : s \ {y} \in G PROVE s \in G
  <2>1. PICK p \in s : TRUE
    BY <1>5
  <2>2. PICK z, U, V : z = s \ {p} /\ U = T \ s /\ V = T \ z
    OBVIOUS
  <2>3. /\ z \in SUBSET S /\ p \notin z /\ s = z \cup {p} /\ p \in T /\ p \in Prefix
        /\ U \in SUBSET Prefix /\ p \notin U /\ V = U \cup {p} /\ V \in SUBSET Prefix
    BY <2>1, <2>2
  <2>4. \A x \in V : TotalBelow(V, x) = TotalBelow(T, x) - Lost(z, x)
    <3>1. z \in G
      BY <1>5, <2>1, <2>2
    <3> QED
      BY <2>2, <3>1
  <2>5. ASSUME NEW x \in U PROVE TotalBelow(U, x) = TotalBelow(T, x) - Lost(s, x)
    <3> DEFINE orphans == Orphans(T, z, x)
               heirs == Orphans(T, z, p)
    <3>1. orphans = {y \in z : Parent(V, y) = {x}} /\ heirs = {y \in z : Parent(V, y) = {p}}
          /\ Orphans(T, s, x) = {y \in s : Parent(U, y) = {x}}
      BY <2>2 DEF Orphans
    <3>2. Parent(U, p) = Parent(V, p) /\ x # p
      <4>1. Parent(V, p) = Parent(U, p)
        BY <2>3, CoversStrict DEF Parent, Above
      <4> QED
        BY <2>3, <4>1
    <3>3. ASSUME NEW y \in z
          PROVE  \/ Parent(V, y) = {p} /\ Parent(U, y) = Parent(U, p)
                 \/ p \notin Parent(V, y) /\ Parent(V, y) = Parent(U, y)
      <4>1. y \in Prefix
        BY <2>3
      <4> QED
        BY <2>3, <4>1, ParentWithout
    <3>4. /\ IsFiniteSet(orphans) /\ IsFiniteSet(heirs) /\ Lost(z, x) \in Int /\ Lost(z, p) \in Int
          /\ orphans \subseteq z /\ heirs \subseteq z
      BY <1>3, <2>3
    <3>5. x \in V /\ p \in V /\ x \in T
      BY <2>2, <2>3
    <3>6. TotalBelow(V, x) = TotalBelow(T, x) - Lost(z, x)
          /\ TotalBelow(V, p) = TotalBelow(T, p) - Lost(z, p)
          /\ TotalBelow(T, x) \in Int /\ TotalBelow(T, p) \in Int
      BY <2>4, <3>5, BelowIsInt
    <3>7. CASE Parent(V, p) # {x}
      <4>1. Orphans(T, s, x) = orphans
        <5>1. \A y \in z : Parent(U, y) = {x} <=> Parent(V, y) = {x}
          <6> SUFFICES ASSUME NEW y \in z PROVE Parent(U, y) = {x} <=> Parent(V, y) = {x}
            OBVIOUS
          <6>1. CASE Parent(V, y) = {p} /\ Parent(U, y) = Parent(U, p)
            BY <3>2, <3>7, <6>1
          <6>2. CASE Parent(V, y) = Parent(U, y)
            BY <6>2
          <6> QED
            BY <3>3, <6>1, <6>2
        <5>2. Parent(U, p) # {x}
          BY <3>2, <3>7
        <5> HIDE DEF orphans
        <5> QED
          BY <2>3, <3>1, <5>1, <5>2
      <4>2. TotalBelow(U, x) = TotalBelow(V, x)
        <5>1. TotalBelow(U, x) = IF Parent(V, p) = {x}
                                 THEN TotalBelow(V, x) - Total(p) + TotalBelow(V, p)
                                 ELSE TotalBelow(V, x)
          BY <2>3, BelowWithout
        <5> QED
          BY <3>7, <5>1
      <4> QED
        BY <3>6, <4>1, <4>2
    <3>8. CASE Parent(V, p) = {x}
      <4>1. Orphans(T, s, x) = (orphans \cup heirs) \cup {p}
        BY <2>3, <3>1, <3>2, <3>3, <3>8
      <4>2. orphans \cap heirs = {} /\ p \notin orphans \cup heirs
        <5>1. \A y \in orphans : Parent(V, y) = {x}
          BY <3>1
        <5>2. \A y \in heirs : Parent(V, y) = {p}
          BY <3>1
        <5> HIDE DEF orphans, heirs
        <5> QED
          BY <2>3, <3>2, <3>4, <5>1, <5>2
      <4>3. \A y \in orphans \cup heirs : Costs(T)[y] \in Int
        BY <1>2, <2>3, <3>4
      <4> HIDE DEF orphans, heirs
      <4>4. IsFiniteSet(orphans \cup heirs) /\ Costs(T)[p] \in Int
        BY <1>2, <2>3, <3>4, FS_Union
      <4>5. SumOver(Costs(T), orphans \cup heirs)
              = SumOver(Costs(T), orphans) + SumOver(Costs(T), heirs)
        BY <3>4, <4>2, <4>3, SumOverUnion
      <4>6. SumOver(Costs(T), (orphans \cup heirs) \cup {p})
              = SumOver(Costs(T), orphans \cup heirs) + Costs(T)[p]
        BY <4>2, <4>3, <4>4, SumOverOneMore
      <4>7. Lost(s, x) = (Lost(z, x) + Lost(z, p)) + Costs(T)[p]
        BY <4>1, <4>5, <4>6 DEF orphans, heirs
      <4>8. TotalBelow(U, x) = TotalBelow(V, x) - Total(p) + TotalBelow(V, p)
        BY <2>3, <3>8, BelowWithout
      <4>9. Costs(T)[p] = Total(p) - TotalBelow(T, p) /\ Total(p) \in Nat
        BY <1>2, <2>3, TotalAssumption
      <4> HIDE DEF Lost
      <4>10. PICK i, j, k, l, m : /\ i = TotalBelow(T, x) /\ j = Lost(z, x) /\ k = Total(p)
                                  /\ l = TotalBelow(T, p) /\ m = Lost(z, p)
        OBVIOUS
      <4>11. i \in Int /\ j \in Int /\ k \in Int /\ l \in Int /\ m \in Int
        BY <3>4, <3>6, <4>9, <4>10
      <4>12. (i - j) - k + (l - m) = i - ((j + m) + (k - l))
        BY <4>11
      <4> QED
        BY <3>6, <4>7, <4>8, <4>9, <4>10, <4>12
    <3> QED
      BY <3>7, <3>8
  <2> QED
    BY <2>2, <2>5
<1> HIDE DEF G
<1>6. S \in G
  BY <1>1, <1>4, <1>5, BySubsets
<1> QED
  BY <1>3, <1>6 DEF G

-----------------------------------------------------------------------------
(* The column used_addresses.                                              *)

\* A row has used up what the rows right below it come to.
UsedUp(R, used) ==
  \A q \in R : used[q] = IF IsMaxLen(q) THEN Total(q) ELSE TotalBelow(R, q)

\* The 32 that i_max_pref_len is left at for a DELETE is the length of single addresses.
SingleAddressesAre32 == \A p \in Prefix : IsMaxLen(p) <=> MaskLen(p) = MaxLen(4)

\* What is charged for a row is what its addresses come to but for those below it.
LEMMA ChargeIsCost ==
  ASSUME NEW T \in SUBSET Prefix, NEW p \in T, NEW row, row.prefix = p, NEW maxlen,
         row.used = IF IsMaxLen(p) THEN Total(p) ELSE TotalBelow(T, p),
         IsMaxLen(p) <=> MaskLen(p) = maxlen
  PROVE  Charge(row, maxlen) = Total(p) - TotalBelow(T, p)
<1>1. CASE IsMaxLen(p)
  <2>1. Kids(T, T, p) = {}
    BY <1>1, NothingInsideMaxLen, KidsAreInside DEF Inside, Kids
  <2>2. TotalBelow(T, p) = 0
    BY <2>1, SumOfNothing DEF TotalBelow
  <2> QED
    BY <1>1, <2>2 DEF Charge
<1>2. CASE ~ IsMaxLen(p)
  BY <1>2 DEF Charge
<1> QED
  BY <1>1, <1>2

\* The rows of s for which q is the innermost covering row of those that stay.
Left(R, s, q) == {p \in s : Parent(R, p) = {q}}

\* A DELETE of the rows S of D, whose rows have used up what they should.
Charging(D, S, base, f) ==
  /\ Sound(D) /\ UsedUp(Rows(D), D.stat.used) /\ S \in SUBSET Rows(D)
  /\ Sound(base) /\ Rows(base) = Rows(D) \ S
  /\ \A q \in Rows(base) : base.stat.used[q] = D.stat.used[q]
  /\ Triggered("DELETE", D, base, S, f)

\* Every trigger of a DELETE finds the table without any row of the statement, and charges
\* the row it finds for parent with what OLD cost.
LEMMA DeletesCharge ==
  ASSUME SingleAddressesAre32, NEW D, NEW S, NEW base, NEW f, Charging(D, S, base, f),
         NEW q \in Rows(base)
  PROVE  f[S].stat.used[q]
           = D.stat.used[q] - SumOver(Costs(Rows(D)), Left(Rows(base), S, q))
<1>0. PICK T, R : T = Rows(D) /\ R = Rows(base)
  OBVIOUS
<1> SUFFICES ASSUME Sound(D), UsedUp(T, D.stat.used), S \in SUBSET T, Sound(base), R = T \ S,
                    \A v \in R : base.stat.used[v] = D.stat.used[v], q \in R,
                    Triggered("DELETE", D, base, S, f)
             PROVE  f[S].stat.used[q] = D.stat.used[q] - SumOver(Costs(T), Left(R, S, q))
  BY <1>0 DEF Charging
<1> DEFINE G == {s \in SUBSET S :
                   /\ Sound(f[s]) /\ Rows(f[s]) = R
                   /\ f[s].stat.used[q] = D.stat.used[q] - SumOver(Costs(T), Left(R, s, q))}
<1>1. IsFiniteSet(S) /\ T \in SUBSET Prefix /\ R \in SUBSET Prefix
      /\ \A p \in T : D.stat.used[p] \in Int
  <2>1. T \in SUBSET Prefix /\ \A p \in T : D.stat.used[p] \in Int
    BY <1>0 DEF Sound
  <2> QED
    BY <2>1, PrefixAssumption, FS_Subset
<1>2. \A p \in T : Costs(T)[p] = Total(p) - TotalBelow(T, p) /\ Costs(T)[p] \in Int
  BY <1>1, BelowIsInt, TotalAssumption DEF Costs
<1>3. {} \in G
  <2>1. f[{}] = base
    BY DEF Triggered
  <2>2. Left(R, {}, q) = {}
    BY DEF Left
  <2>3. SumOver(Costs(T), Left(R, {}, q)) = 0
    BY <2>2, SumOverNothing
  <2> QED
    BY <1>0, <1>1, <2>1, <2>3
<1>4. ASSUME NEW s \in SUBSET S, s # {}, \A x \in s : s \ {x} \in G PROVE s \in G
  <2>1. PICK p : p = Last(s)
    OBVIOUS
  <2>2. p \in s /\ p \in Prefix /\ p \in T
    BY <1>1, <1>4, <2>1 DEF Last
  <2>3. PICK z, x, y, old : z = s \ {p} /\ x = f[z] /\ y = f[s] /\ old = RowRecord(D, p)
    OBVIOUS
  <2>4. y = AfterDelete(x, old)
    BY <1>4, <2>1, <2>3 DEF Triggered, RowTrigger
  <2>5. /\ Sound(x) /\ Rows(x) = R
        /\ x.stat.used[q] = D.stat.used[q] - SumOver(Costs(T), Left(R, z, q))
    <3>1. z \in G
      BY <1>4, <2>2, <2>3
    <3> QED
      BY <2>3, <3>1
  <2>6. old.prefix = p /\ old.used = D.stat.used[p] /\ old.used \in Int
    BY <1>1, <2>2, <2>3 DEF RowRecord
  <2>7. PICK parent : parent = Parent(R, p)
    OBVIOUS
  <2>8. /\ Sound(y) /\ Rows(y) = R
        /\ \A v \in R : y.stat.used[v] = IF v \in parent
                                         THEN UsedOf(x, parent) - Charge(old, MaxLen(4))
                                         ELSE x.stat.used[v]
    <3>1. Sound(x) /\ old.prefix \in Prefix /\ old.used \in Int
      BY <2>2, <2>5, <2>6
    <3>2. LET d == AfterDelete(x, old)
              P == Parent(Rows(x), old.prefix)
          IN  /\ Posted(x, d, VrfAccount(old.prefix), Nothing, PartsOf(old))
              /\ d.indent = CalcIndent(x, old.prefix, -1).indent
              /\ \A v \in Rows(x) : d.stat.used[v] =
                   IF v \in P THEN UsedOf(x, P) - Charge(old, MaxLen(4)) ELSE x.stat.used[v]
      BY <3>1, AfterDeleteBooks
    <3> QED
      BY <2>4, <2>5, <2>6, <2>7, <3>2 DEF Posted
  <2>9. Charge(old, MaxLen(4)) = Costs(T)[p]
    <3>1. old.used = IF IsMaxLen(p) THEN Total(p) ELSE TotalBelow(T, p)
      BY <2>2, <2>6 DEF UsedUp
    <3>2. IsMaxLen(p) <=> MaskLen(p) = MaxLen(4)
      BY <2>2 DEF SingleAddressesAre32
    <3> QED
      BY <1>1, <1>2, <2>2, <2>6, <3>1, <3>2, ChargeIsCost
  <2>10. /\ IsFiniteSet(Left(R, z, q)) /\ \A v \in Left(R, z, q) : Costs(T)[v] \in Int
         /\ SumOver(Costs(T), Left(R, z, q)) \in Int
    <3>1. Left(R, z, q) \subseteq z /\ z \subseteq S
      BY <2>3 DEF Left
    <3>2. IsFiniteSet(Left(R, z, q))
      BY <1>1, <3>1, FS_Subset
    <3>3. \A v \in Left(R, z, q) : Costs(T)[v] \in Int
      BY <1>2, <3>1
    <3> QED
      BY <3>2, <3>3, SumOverIsInt
  <2>11. CASE parent = {q}
    <3>1. y.stat.used[q] = x.stat.used[q] - Costs(T)[p]
      BY <2>8, <2>9, <2>11 DEF UsedOf
    <3>2. Left(R, s, q) = Left(R, z, q) \cup {p} /\ p \notin Left(R, z, q)
      BY <2>2, <2>3, <2>7, <2>11 DEF Left
    <3>3. SumOver(Costs(T), Left(R, s, q)) = SumOver(Costs(T), Left(R, z, q)) + Costs(T)[p]
      <4>1. PICK L, g : L = Left(R, z, q) /\ g = Costs(T)
        OBVIOUS
      <4>2. p \notin L /\ IsFiniteSet(L) /\ g[p] \in Int /\ \A v \in L : g[v] \in Int
        BY <1>2, <2>2, <2>10, <3>2, <4>1
      <4>3. SumOver(g, L \cup {p}) = SumOver(g, L) + g[p]
        BY <4>2, SumOverOneMore
      <4> QED
        BY <3>2, <4>1, <4>3
    <3>4. PICK i, j, k : /\ i = D.stat.used[q] /\ k = Costs(T)[p]
                         /\ j = SumOver(Costs(T), Left(R, z, q))
      OBVIOUS
    <3>5. (i - j) - k = i - (j + k)
      BY <1>1, <1>2, <2>2, <2>10, <3>4
    <3> QED
      BY <2>3, <2>5, <2>8, <3>1, <3>3, <3>4, <3>5
  <2>12. CASE parent # {q}
    <3>1. q \notin parent
      <4>1. ASSUME q \in parent PROVE parent = {q}
        <5>1. ASSUME NEW r \in parent PROVE r = q
          BY <1>1, <2>2, <2>7, <4>1, <5>1, ParentUnique
        <5> QED
          BY <4>1, <5>1
      <4> QED
        BY <2>12, <4>1
    <3>2. Left(R, s, q) = Left(R, z, q)
      BY <2>2, <2>3, <2>7, <2>12 DEF Left
    <3> QED
      BY <2>3, <2>5, <2>8, <3>1, <3>2
  <2> QED
    BY <2>11, <2>12
<1> HIDE DEF G
<1>5. S \in G
  BY <1>1, <1>3, <1>4, BySubsets
<1> QED
  BY <1>5 DEF G

\* What the rows that stay have used up after a DELETE.
LEMMA DeletesUse ==
  ASSUME SingleAddressesAre32, NEW D, NEW S, NEW base, NEW f, Charging(D, S, base, f)
  PROVE  UsedUp(Rows(base), f[S].stat.used)
<1>1. PICK T, R : T = Rows(D) /\ R = Rows(base)
  OBVIOUS
<1>2. T \in SUBSET Prefix /\ R = T \ S /\ S \in SUBSET T /\ UsedUp(T, D.stat.used)
  BY <1>1 DEF Charging, Sound
<1> SUFFICES ASSUME NEW q \in R
             PROVE  f[S].stat.used[q] = IF IsMaxLen(q) THEN Total(q) ELSE TotalBelow(R, q)
  BY <1>1 DEF UsedUp
<1>3. PICK lost : lost = SumOver(Costs(T), Left(R, S, q))
  OBVIOUS
<1>4. f[S].stat.used[q] = D.stat.used[q] - lost
  BY <1>1, <1>3, DeletesCharge
<1>5. TotalBelow(R, q) = TotalBelow(T, q) - lost /\ lost \in Int
  <2>1. Left(R, S, q) = Orphans(T, S, q)
    BY <1>2 DEF Left, Orphans
  <2>2. q \in T \ S
    BY <1>2
  <2> QED
    BY <1>2, <1>3, <2>1, <2>2, BelowAfterDelete
<1>6. CASE IsMaxLen(q)
  <2>1. Left(R, S, q) = {}
    <3>1. \A p \in S : ~ Covers(q, p)
      BY <1>2, <1>6, NothingInsideMaxLen
    <3> QED
      BY <3>1, ParentAbove DEF Left
  <2>2. lost = 0
    BY <1>3, <2>1, SumOverNothing
  <2>3. q \in Prefix /\ q \in T /\ Total(q) \in Int
    BY <1>2, TotalAssumption
  <2> QED
    BY <1>2, <1>4, <1>6, <2>2, <2>3 DEF UsedUp
<1>7. CASE ~ IsMaxLen(q)
  BY <1>2, <1>4, <1>5, <1>7 DEF UsedUp
<1> QED
  BY <1>6, <1>7

=============================================================================
