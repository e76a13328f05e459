--------------------------- MODULE AddressPlanProofs ---------------------------
(***************************************************************************)
(* Safety of the address plan for every set of prefixes, tags, nodes and   *)
(* pools: the shape of the table, the nesting of the prefix types, the     *)
(* column indent, the one VRF of a pool and the counters of its members,   *)
(* under every operation; and as long as no prefix is renumbered, that     *)
(* hosts keep their assignment and display_prefix shows it, and that the   *)
(* columns children and inherited_tags are what the rows say.  At the end, *)
(* what VRFs and pools that come and go leave of these rules.              *)
(***************************************************************************)
EXTENDS PlanLifecycle, PlanTriggersProofs

-----------------------------------------------------------------------------
(* The nesting of types.                                                   *)

\* If a row may lie under its parent because that is a reservation, then all
\* the rows above it are reservations: the check of one row stands for all.
LEMMA AboveReserved ==
  ASSUME NEW R \in SUBSET Prefix, NEW p \in Prefix, R \subseteq rows,
         NestingCorrect,
         \A q \in Parent(R, p) : plan[q].type = "reservation"
  PROVE  \A q \in Above(R, p) : plan[q].type = "reservation"
<1> SUFFICES ASSUME NEW q \in Above(R, p) PROVE plan[q].type = "reservation"
  OBVIOUS
<1>1. PICK r \in Parent(R, p) : TRUE
  BY ParentExists
<1>2. r \in R /\ q \in R /\ (q = r \/ Covers(q, r))
  BY ParentAbove DEF Above
<1>3. plan[r].type = "reservation"
  BY <1>1
<1>4. CASE Covers(q, r)
  BY <1>2, <1>3, <1>4 DEF NestingCorrect, Above
<1>5. QED
  BY <1>2, <1>3, <1>4

\* The rows R are left as they are and a row p is put among them, the checks
\* of the BEFORE trigger having passed.
LEMMA NestingOfNewRow ==
  ASSUME rows \in SUBSET Prefix, NestingCorrect,
         NEW R \in SUBSET rows, NEW p \in Prefix, p \notin R,
         NEW type \in Types, TypeRules(R, p, type),
         rows' = R \cup {p},
         plan'[p].type = type,
         \A q \in R : plan'[q].type = plan[q].type
  PROVE  NestingCorrect'
<1> SUFFICES ASSUME NEW x \in R \cup {p}, plan'[x].type # "host",
                    NEW y \in R \cup {p}, Covers(y, x)
             PROVE  plan'[y].type = "reservation"
  BY DEF NestingCorrect, Above
<1>0. ~ Covers(p, p)
  BY CoversStrict
<1>1. CASE x = p
  <2>1. y \in Above(R, p)
    BY <1>0, <1>1 DEF Above
  <2>2. \A q \in Parent(R, p) : plan[q].type = "reservation"
    BY <1>1 DEF TypeRules
  <2>3. plan[y].type = "reservation"
    BY <2>1, <2>2, AboveReserved
  <2>4. QED
    BY <2>1, <2>3 DEF Above
<1>2. CASE x # p /\ y # p
  BY <1>2 DEF NestingCorrect, Above
<1>3. CASE x # p /\ y = p
  <2>1. x \in Inside(R, p) /\ plan[x].type # "host"
    BY <1>3 DEF Inside
  <2>2. type # "host"
    BY <1>3, NothingInsideMaxLen DEF TypeRules
  <2>3. type # "assignment"
    BY <2>1 DEF TypeRules
  <2>4. QED
    BY <1>3, <2>2, <2>3 DEF Types
<1>4. QED
  BY <1>1, <1>2, <1>3

-----------------------------------------------------------------------------
(* The column indent.                                                      *)

\* COALESCE(new_parent.indent + 1, 0) is the depth of the new row.
LEMMA LevelIsDepth ==
  ASSUME NEW R \in SUBSET Prefix, NEW p \in Prefix, NEW level,
         \A q \in R : Covers(q, p) => level[q] = Cardinality(Above(R, q))
  PROVE  LevelBelow(level, Parent(R, p), 0) = Cardinality(Above(R, p))
<1>1. CASE Parent(R, p) = {}
  <2>1. Above(R, p) = {}
    BY <1>1, ParentExists
  <2>2. QED
    BY <1>1, <2>1, FS_EmptySet DEF LevelBelow
<1>2. CASE Parent(R, p) # {}
  <2>1. PICK q \in Parent(R, p) : q = CHOOSE x \in Parent(R, p) : TRUE
    BY <1>2
  <2>2. q \in R /\ Covers(q, p)
    BY ParentAbove
  <2>3. Above(R, p) = Above(R, q) \cup {q} /\ q \notin Above(R, q)
    BY <2>2, AboveOfParent, CoversStrict DEF Above
  <2>4. IsFiniteSet(Above(R, q)) /\ Cardinality(Above(R, q)) \in Nat
    BY AboveFinite
  <2>5. Cardinality(Above(R, q) \cup {q}) = Cardinality(Above(R, q)) + 1
    BY <2>3, <2>4, FS_AddElement
  <2>6. level[q] = Cardinality(Above(R, q))
    BY <2>2
  <2>7. LevelBelow(level, Parent(R, p), 0) = 1 + level[q]
    BY <1>2, <2>1 DEF LevelBelow
  <2>8. QED
    BY <2>3, <2>4, <2>5, <2>6, <2>7
<1>3. QED
  BY <1>1, <1>2

\* The two UPDATE statements of calc_indent, when the row p is new in R.
LEMMA IndentOfNewRow ==
  ASSUME NEW R \in SUBSET Prefix, NEW p \in R, NEW before,
         \A q \in R \ {p} : before[q] = Cardinality(Above(R \ {p}, q))
  PROVE  \A q \in R : ShiftIndent(R, CountIndent(R, before, p), p, 1)[q] =
                        Cardinality(Above(R, q))
<1> SUFFICES ASSUME NEW q \in R
             PROVE  ShiftIndent(R, CountIndent(R, before, p), p, 1)[q] =
                      Cardinality(Above(R, q))
  OBVIOUS
<1>1. ~ Covers(p, p)
  BY CoversStrict
<1>2. CASE q = p
  BY <1>1, <1>2 DEF ShiftIndent, CountIndent
<1>3. CASE q # p
  <2>1. ShiftIndent(R, CountIndent(R, before, p), p, 1)[q] =
          IF Covers(p, q) THEN before[q] + 1 ELSE before[q]
    BY <1>3 DEF ShiftIndent, CountIndent
  <2>2. before[q] = Cardinality(Above(R \ {p}, q))
    BY <1>3
  <2>3. PICK S \in SUBSET Prefix : S = R \ {p}
    OBVIOUS
  <2>4. S \cup {p} = R /\ p \notin S
    BY <2>3
  <2>5. Cardinality(Above(R, q)) = IF Covers(p, q) THEN Cardinality(Above(S, q)) + 1
                                                   ELSE Cardinality(Above(S, q))
    BY <2>4, AboveAfterInsert
  <2>6. QED
    BY <2>1, <2>2, <2>3, <2>5
<1>4. QED
  BY <1>2, <1>3

-----------------------------------------------------------------------------
(* The inductive invariant.  IndentCorrect is part of it for the sake of   *)
(* the types too: that a decremented indent is not negative is known only  *)
(* because it is a number of rows.                                         *)

PlanInv == PlanTypeOK /\ NestingCorrect /\ IndentCorrect

LEMMA DisplayLenIsNat ==
  ASSUME NEW R \in SUBSET Prefix, NEW p \in Prefix, NEW type
  PROVE  DisplayLen(R, p, type) \in Nat
<1>1. \A q \in Prefix : MaskLen(q) \in Nat
  BY PrefixAssumption
<1>2. \A q \in Parent(R, p) : q \in Prefix
  BY ParentAbove
<1>3. QED
  BY <1>1, <1>2 DEF DisplayLen

LEMMA InitInv == Init => PlanInv
<1> SUFFICES ASSUME Init PROVE PlanInv
  OBVIOUS
<1>1. rows = {}
  BY DEF Init, rows
<1>2. PlanTypeOK
  BY <1>1 DEF Init, PlanTypeOK
<1>3. NestingCorrect /\ IndentCorrect
  BY <1>1 DEF NestingCorrect, IndentCorrect
<1>4. QED
  BY <1>2, <1>3 DEF PlanInv

LEMMA AddStep ==
  ASSUME PlanInv, NEW p \in Prefix, NEW attrs \in RowAttrs, AddPrefix(p, attrs)
  PROVE  PlanInv'
<1> DEFINE R == rows \cup {p}
           before == Put(indent, R, p, LevelBelow(indent, Parent(rows, p), 0))
<1>1. rows \in SUBSET Prefix /\ p \notin rows
  BY DEF PlanInv, PlanTypeOK, AddPrefix
<1>2. /\ plan' = Put(plan, R, p, attrs)
      /\ indent' = ShiftIndent(R, CountIndent(R, before, p), p, 1)
      /\ display' = Put(display, R, p, DisplayLen(rows, p, attrs.type))
      /\ TypeRules(rows, p, attrs.type)
      /\ removing' = removing
  BY DEF AddPrefix
<1>3. /\ rows' = R
      /\ plan'[p] = attrs
      /\ \A q \in rows : plan'[q] = plan[q]
  BY <1>1, <1>2 DEF Put, rows
<1>4. attrs.type \in Types
  BY DEF RowAttrs
<1>5. NestingCorrect'
  <2>1. \A q \in rows : plan'[q].type = plan[q].type
    BY <1>3
  <2>2. QED
    BY <1>1, <1>2, <1>3, <1>4, <2>1, NestingOfNewRow DEF PlanInv
<1>6. \A q \in rows : indent[q] = Cardinality(Above(rows, q)) /\ indent[q] \in Nat
  BY DEF PlanInv, PlanTypeOK, IndentCorrect
<1>7. before \in [R -> Int] /\ \A q \in rows : before[q] = Cardinality(Above(rows, q))
  <2>1. LevelBelow(indent, Parent(rows, p), 0) = Cardinality(Above(rows, p))
    BY <1>1, <1>6, LevelIsDepth
  <2>2. LevelBelow(indent, Parent(rows, p), 0) \in Nat
    BY <1>1, <2>1, AboveFinite
  <2>3. QED
    BY <1>1, <1>6, <2>2 DEF Put
<1>8. indent' \in [R -> Nat] /\ \A q \in R : indent'[q] = Cardinality(Above(R, q))
  <2>1. \A q \in R : indent'[q] = Cardinality(Above(R, q))
    <3>1. R \ {p} = rows /\ R \in SUBSET Prefix /\ p \in R
      BY <1>1
    <3>2. \A q \in R \ {p} : before[q] = Cardinality(Above(R \ {p}, q))
      BY <1>7, <3>1
    <3> HIDE DEF R, before
    <3>3. \A q \in R : ShiftIndent(R, CountIndent(R, before, p), p, 1)[q] =
                         Cardinality(Above(R, q))
      BY <3>1, <3>2, IndentOfNewRow
    <3>4. QED
      BY <1>2, <3>3
  <2>2. indent' = [q \in R |-> indent'[q]]
    BY <1>2 DEF ShiftIndent
  <2>3. \A q \in R : Cardinality(Above(R, q)) \in Nat
    BY <1>1, AboveFinite
  <2>4. QED
    BY <2>1, <2>2, <2>3
<1>9. PlanTypeOK'
  <2>1. plan' \in [R -> RowAttrs]
    BY <1>2 DEF Put, PlanInv, PlanTypeOK
  <2>2. display' \in [R -> Nat]
    BY <1>1, <1>2, DisplayLenIsNat DEF Put, PlanInv, PlanTypeOK
  <2>3. QED
    BY <1>1, <1>2, <1>3, <1>8, <2>1, <2>2 DEF PlanInv, PlanTypeOK
<1>10. QED
  BY <1>3, <1>5, <1>8, <1>9 DEF PlanInv, IndentCorrect

\* An edit that keeps the prefix: the trigger computes the indent it had.
LEMMA EditStep ==
  ASSUME PlanInv, NEW o \in Prefix, NEW attrs \in RowAttrs, EditPrefix(o, attrs)
  PROVE  PlanInv'
<1>1. rows \in SUBSET Prefix /\ o \in rows
  BY DEF PlanInv, PlanTypeOK, EditPrefix
<1> DEFINE R == (rows \ {o}) \cup {o}
<1>2. R = rows
  BY <1>1
<1>3. /\ plan' = Put(plan, R, o, attrs)
      /\ indent' = Put(indent, R, o, NewLevel(o, o, attrs))
      /\ removing' = removing
  BY DEF EditPrefix, UpdateRow
<1>4. display' = [q \in R |-> IF q = o THEN IF FullCheck(o, o, attrs)
                                            THEN DisplayLen(rows \ {o}, o, attrs.type)
                                            ELSE display[o]
                              ELSE display[q]]
  BY DEF EditPrefix, UpdateRow
<1>5. /\ rows' = rows
      /\ plan'[o] = attrs
      /\ \A q \in rows \ {o} : plan'[q] = plan[q]
  BY <1>1, <1>2, <1>3 DEF Put, rows
<1>6. attrs.type \in Types
  BY DEF RowAttrs
<1>7. \A q \in rows : indent[q] = Cardinality(Above(rows, q)) /\ indent[q] \in Nat
  BY DEF PlanInv, PlanTypeOK, IndentCorrect
<1>8. NestingCorrect'
  <2>1. CASE FullCheck(o, o, attrs)
    <3>1. TypeRules(rows \ {o}, o, attrs.type)
      BY <2>1 DEF EditPrefix
    <3>2. rows' = (rows \ {o}) \cup {o} /\ plan'[o].type = attrs.type
      BY <1>2, <1>5
    <3>3. \A q \in rows \ {o} : plan'[q].type = plan[q].type
      BY <1>5
    <3>4. PICK T \in SUBSET rows : T = rows \ {o}
      OBVIOUS
    <3>5. QED
      BY <1>1, <1>6, <3>1, <3>2, <3>3, <3>4, NestingOfNewRow DEF PlanInv
  <2>2. CASE ~ FullCheck(o, o, attrs)
    <3>1. \A q \in rows : plan'[q].type = plan[q].type
      BY <1>5, <2>2 DEF FullCheck
    <3>2. QED
      BY <1>5, <3>1 DEF PlanInv, NestingCorrect, Above
  <2>3. QED
    BY <2>1, <2>2
<1>9. NewLevel(o, o, attrs) = indent[o]
  <2>1. PICK T \in SUBSET Prefix : T = rows \ {o}
    BY <1>1
  <2>2. \A q \in T : Covers(q, o) => Above(T, q) = Above(rows, q)
    BY <1>1, <2>1, CoversStrict DEF Above
  <2>3. Above(T, o) = Above(rows, o)
    BY <1>1, <2>1, CoversStrict DEF Above
  <2>4. \A q \in T : Covers(q, o) => indent[q] = Cardinality(Above(T, q))
    BY <1>7, <2>1, <2>2
  <2>5. LevelBelow(indent, Parent(T, o), 0) = Cardinality(Above(T, o))
    BY <2>4, LevelIsDepth
  <2>6. QED
    BY <1>1, <1>7, <2>1, <2>3, <2>5 DEF NewLevel
<1>10. indent' = indent
  BY <1>2, <1>3, <1>9 DEF Put, PlanInv, PlanTypeOK
<1>11. IndentCorrect'
  BY <1>5, <1>10 DEF PlanInv, IndentCorrect, Above
<1>12. PlanTypeOK'
  <2>1. plan' \in [rows -> RowAttrs]
    BY <1>2, <1>3 DEF Put, PlanInv, PlanTypeOK
  <2>2. display' \in [rows -> Nat]
    <3>1. DisplayLen(rows \ {o}, o, attrs.type) \in Nat
      BY <1>1, DisplayLenIsNat
    <3>2. QED
      BY <1>1, <1>2, <1>4, <3>1 DEF PlanInv, PlanTypeOK
  <2>3. QED
    BY <1>3, <1>5, <1>10, <2>1, <2>2 DEF PlanInv, PlanTypeOK
<1>13. QED
  BY <1>8, <1>11, <1>12 DEF PlanInv

\* A prefix that is renumbered leaves its place and takes another: calc_indent
\* runs for both.
LEMMA RenumberStep ==
  ASSUME PlanInv, NEW o \in Prefix, NEW n \in Prefix, NEW attrs \in RowAttrs,
         Renumber(o, n, attrs)
  PROVE  PlanInv'
<1>1. rows \in SUBSET Prefix /\ o \in rows /\ n \notin rows /\ o # n
  BY DEF PlanInv, PlanTypeOK, Renumber
<1> DEFINE T == rows \ {o}
           R == T \cup {n}
           start == Put(indent, R, n, NewLevel(o, n, attrs))
           left == ShiftIndent(R, start, o, -1)
<1>2. FullCheck(o, n, attrs)
  BY <1>1 DEF FullCheck
<1>3. /\ plan' = Put(plan, R, n, attrs)
      /\ indent' = ShiftIndent(R, CountIndent(R, left, n), n, 1)
      /\ removing' = removing
  BY <1>1 DEF Renumber, UpdateRow
<1>4. display' = [q \in R |-> IF q = n THEN DisplayLen(T, n, attrs.type)
                              ELSE IF attrs.type = "assignment" /\ Covers(n, q)
                              THEN MaskLen(n) ELSE display[q]]
  BY <1>1, <1>2 DEF Renumber, UpdateRow
<1>5. /\ rows' = R
      /\ plan'[n] = attrs
      /\ \A q \in T : plan'[q] = plan[q]
  BY <1>1, <1>3 DEF Put, rows
<1>6. attrs.type \in Types /\ TypeRules(T, n, attrs.type)
  BY DEF RowAttrs, Renumber
<1>7. \A q \in rows : indent[q] = Cardinality(Above(rows, q)) /\ indent[q] \in Nat
  BY DEF PlanInv, PlanTypeOK, IndentCorrect
<1>8. NestingCorrect'
  <2>1. \A q \in T : plan'[q].type = plan[q].type
    BY <1>5
  <2>2. T \in SUBSET rows /\ n \notin T
    BY <1>1
  <2> HIDE DEF T
  <2>3. QED
    BY <1>1, <1>5, <1>6, <2>1, <2>2, NestingOfNewRow DEF PlanInv
<1>9. \A q \in T : left[q] = Cardinality(Above(T, q))
  <2> SUFFICES ASSUME NEW q \in T PROVE left[q] = Cardinality(Above(T, q))
    OBVIOUS
  <2>1. left[q] = IF Covers(o, q) THEN indent[q] - 1 ELSE indent[q]
    BY <1>1, <1>7 DEF ShiftIndent, Put
  <2>2. Cardinality(Above(rows, q)) = IF Covers(o, q) THEN Cardinality(Above(T, q)) + 1
                                                      ELSE Cardinality(Above(T, q))
    <3>1. T \in SUBSET Prefix /\ o \notin T /\ T \cup {o} = rows
      BY <1>1
    <3> HIDE DEF T
    <3>2. QED
      BY <1>1, <3>1, AboveAfterInsert
  <2>3. Cardinality(Above(T, q)) \in Nat
    BY <1>1, AboveFinite
  <2>4. QED
    BY <1>7, <2>1, <2>2, <2>3
<1>10. \A q \in R : indent'[q] = Cardinality(Above(R, q))
  <2>1. R \ {n} = T /\ R \in SUBSET Prefix /\ n \in R
    BY <1>1
  <2>2. \A q \in R \ {n} : left[q] = Cardinality(Above(R \ {n}, q))
    BY <1>9, <2>1
  <2> HIDE DEF R, left
  <2>3. \A q \in R : ShiftIndent(R, CountIndent(R, left, n), n, 1)[q] =
                       Cardinality(Above(R, q))
    BY <2>1, <2>2, IndentOfNewRow
  <2>4. QED
    BY <1>3, <2>3
<1>11. indent' \in [R -> Nat]
  <2>1. indent' = [q \in R |-> indent'[q]]
    BY <1>3 DEF ShiftIndent
  <2>2. \A q \in R : Cardinality(Above(R, q)) \in Nat
    BY <1>1, AboveFinite
  <2>3. QED
    BY <1>10, <2>1, <2>2
<1>12. PlanTypeOK'
  <2>1. plan' \in [R -> RowAttrs]
    BY <1>3 DEF Put, PlanInv, PlanTypeOK
  <2>2. display' \in [R -> Nat]
    <3>1. DisplayLen(T, n, attrs.type) \in Nat
      BY <1>1, DisplayLenIsNat
    <3>2. MaskLen(n) \in Nat
      BY PrefixAssumption
    <3>3. QED
      BY <1>1, <1>4, <3>1, <3>2 DEF PlanInv, PlanTypeOK
  <2>3. QED
    BY <1>1, <1>3, <1>5, <1>11, <2>1, <2>2 DEF PlanInv, PlanTypeOK
<1>13. QED
  BY <1>5, <1>8, <1>10, <1>12 DEF PlanInv, IndentCorrect

\* One DELETE statement, whatever rows it removes.
LEMMA DeleteStep ==
  ASSUME PlanInv, NEW S \in SUBSET rows, removing' \subseteq Prefix,
         plan' = Keep(plan, rows \ S),
         indent' = [q \in rows \ S |-> indent[q] - Cardinality(Above(S, q))],
         display' = Keep(display, rows \ S)
  PROVE  PlanInv'
<1>1. rows \in SUBSET Prefix
  BY DEF PlanInv, PlanTypeOK
<1> DEFINE R == rows \ S
<1>2. /\ plan' = Keep(plan, R)
      /\ indent' = [q \in R |-> indent[q] - Cardinality(Above(S, q))]
      /\ display' = Keep(display, R)
  OBVIOUS
<1>3. rows' = R /\ \A q \in R : plan'[q] = plan[q]
  BY <1>2 DEF Keep, rows
<1>4. NestingCorrect'
  BY <1>3 DEF PlanInv, NestingCorrect, Above
<1>5. \A q \in R : indent'[q] = Cardinality(Above(R, q)) /\ indent'[q] \in Nat
  <2> SUFFICES ASSUME NEW q \in R
               PROVE  indent'[q] = Cardinality(Above(R, q)) /\ indent'[q] \in Nat
    OBVIOUS
  <2>1. indent[q] = Cardinality(Above(rows, q))
    BY DEF PlanInv, IndentCorrect
  <2>2. Cardinality(Above(R, q)) = Cardinality(Above(rows, q)) - Cardinality(Above(S, q))
    BY <1>1, AboveAfterDelete
  <2>3. Cardinality(Above(R, q)) \in Nat
    BY <1>1, AboveFinite
  <2>4. QED
    BY <1>2, <2>1, <2>2, <2>3
<1>6. PlanTypeOK'
  <2>1. indent' \in [R -> Nat]
    BY <1>2, <1>5
  <2>2. plan' \in [R -> RowAttrs] /\ display' \in [R -> Nat]
    BY <1>2 DEF Keep, PlanInv, PlanTypeOK
  <2>3. QED
    BY <1>1, <1>3, <2>1, <2>2 DEF PlanTypeOK
<1>7. QED
  BY <1>3, <1>4, <1>5, <1>6 DEF PlanInv, IndentCorrect

LEMMA NextStep == PlanInv /\ [Next]_vars => PlanInv'
<1> SUFFICES ASSUME PlanInv, [Next]_vars PROVE PlanInv'
  OBVIOUS
<1>1. rows \in SUBSET Prefix /\ removing \in SUBSET Prefix
  BY DEF PlanInv, PlanTypeOK
<1>2. ASSUME NEW p \in Prefix, NEW attrs \in RowAttrs, AddPrefix(p, attrs)
      PROVE  PlanInv'
  BY <1>2, AddStep
<1>3. ASSUME NEW p \in rows, NEW attrs \in RowAttrs, EditPrefix(p, attrs)
      PROVE  PlanInv'
  BY <1>1, <1>3, EditStep
<1>4. ASSUME NEW p \in Prefix, RemovePrefix(p)
      PROVE  PlanInv'
  <2>1. {p} \in SUBSET rows /\ DeleteRows({p}) /\ removing' \subseteq Prefix
    BY <1>1, <1>4 DEF RemovePrefix
  <2>2. QED
    BY <2>1, DeleteStep DEF DeleteRows
<1>5. ASSUME NEW p \in Prefix, RemoveHosts(p)
      PROVE  PlanInv'
  <2>1. PICK S \in SUBSET rows : S = {q \in Subtree(p) : plan[q].type = "host"}
    BY DEF Subtree
  <2>2. DeleteRows(S) /\ removing' \subseteq Prefix
    BY <1>1, <1>5, <2>1 DEF RemoveHosts
  <2>3. QED
    BY <2>2, DeleteStep DEF DeleteRows
<1>6. ASSUME NEW p \in Prefix, RemoveRest(p)
      PROVE  PlanInv'
  <2>1. Subtree(p) \in SUBSET rows
    BY DEF Subtree
  <2>2. DeleteRows(Subtree(p)) /\ removing' \subseteq Prefix
    BY <1>1, <1>6 DEF RemoveRest
  <2>3. QED
    BY <2>1, <2>2, DeleteStep DEF DeleteRows
<1>7. ASSUME NEW p \in Prefix, RemoveRestFails(p)
      PROVE  PlanInv'
  BY <1>1, <1>7 DEF RemoveRestFails, PlanInv, PlanTypeOK, NestingCorrect,
                    IndentCorrect, Above, rows
<1>8. ASSUME NEW o \in Prefix, NEW n \in Prefix, NEW attrs \in RowAttrs,
             Renumber(o, n, attrs)
      PROVE  PlanInv'
  BY <1>8, RenumberStep
<1>9. CASE UNCHANGED vars
  BY <1>9 DEF vars, PlanInv, PlanTypeOK, NestingCorrect, IndentCorrect, Above, rows
<1>10. QED
  BY <1>2, <1>3, <1>4, <1>5, <1>6, <1>7, <1>8, <1>9 DEF Next, StableNext

LEMMA Invariance == Spec => []PlanInv
BY InitInv, NextStep, PTL DEF Spec

\* The table has the shape of its schema: no operation makes indent negative
\* or loses a column of a row.
THEOREM PlanHasItsShape == Spec => []PlanTypeOK
BY Invariance, PTL DEF PlanInv

\* The checks of the BEFORE trigger, each on one row and its neighbours, keep
\* reservations around everything that is not a host, renumbering included.
THEOREM TypesNest == Spec => []NestingCorrect
BY Invariance, PTL DEF PlanInv

\* The increments of calc_indent, applied to whatever moves, keep indent equal
\* to the depth of every row.
THEOREM IndentIsDepth == Spec => []IndentCorrect
BY Invariance, PTL DEF PlanInv

-----------------------------------------------------------------------------
(* Hosts keep their assignment while no prefix is renumbered.              *)

HostInv == PlanInv /\ HostsUnderAssignment

\* A row that is put in between a host and the rows above it does not come
\* between the host and its parent.
LEMMA ParentAfterInsert ==
  ASSUME NEW R \in SUBSET Prefix, NEW p \in Prefix, p \notin R,
         NEW h \in R, NEW q \in Parent(R, h),
         Covers(p, h) => Covers(p, q)
  PROVE  q \in Parent(R \cup {p}, h)
BY ParentAbove DEF Parent, Above

\* ... and no row that may be added comes between a host and its assignment.
LEMMA AddKeepsParent ==
  ASSUME HostInv, NEW p \in Prefix, p \notin rows, NEW type \in Types, TypeRules(rows, p, type),
         NEW h \in rows, plan[h].type = "host", NEW q \in Parent(rows, h)
  PROVE  q \in Parent(rows \cup {p}, h)
<1>1. rows \in SUBSET Prefix
  BY DEF HostInv, PlanInv, PlanTypeOK
<1>2. q \in rows /\ Covers(q, h)
  BY ParentAbove
<1>3. plan[q].type = "assignment"
  <2>1. PICK r \in Parent(rows, h) : plan[r].type = "assignment"
    BY DEF HostInv, HostsUnderAssignment
  <2>2. QED
    BY <1>1, <2>1, ParentUnique
<1>4. SUFFICES ASSUME Covers(p, h), ~ Covers(p, q) PROVE FALSE
  BY <1>1, ParentAfterInsert
<1>5. Covers(q, p)
  <2>1. q # p
    BY <1>2
  <2>2. QED
    BY <1>1, <1>2, <1>4, <2>1, CoversAssumption
<1>6. type # "host"
  BY <1>1, <1>4, NothingInsideMaxLen DEF TypeRules
<1>7. \A r \in Parent(rows, p) : plan[r].type = "reservation"
  BY <1>6 DEF TypeRules
<1>8. plan[q].type = "reservation"
  BY <1>1, <1>2, <1>5, <1>7, AboveReserved DEF HostInv, PlanInv, Above
<1>9. QED
  BY <1>3, <1>8

LEMMA AddKeepsHosts ==
  ASSUME HostInv, NEW p \in Prefix, NEW attrs \in RowAttrs, AddPrefix(p, attrs)
  PROVE  HostsUnderAssignment'
<1>1. rows \in SUBSET Prefix /\ p \notin rows /\ TypeRules(rows, p, attrs.type)
  BY DEF HostInv, PlanInv, PlanTypeOK, AddPrefix
<1>2. plan' = Put(plan, rows \cup {p}, p, attrs)
  BY DEF AddPrefix
<1>3. rows' = rows \cup {p} /\ plan'[p] = attrs /\ \A q \in rows : plan'[q] = plan[q]
  BY <1>1, <1>2 DEF Put, rows
<1>4. ASSUME attrs.type = "host"
      PROVE  \E q \in Parent(rows', p) : plan'[q].type = "assignment"
  <2>1. PICK q \in Parent(rows, p) : plan[q].type = "assignment"
    BY <1>1, <1>4 DEF TypeRules
  <2>2. q \in rows /\ Covers(q, p) /\ \A r \in rows : Covers(r, p) => r = q \/ Covers(r, q)
    BY ParentAbove
  <2>3. ~ Covers(p, p)
    BY CoversStrict
  <2>4. q \in Parent(rows', p)
    BY <1>3, <2>2, <2>3 DEF Parent, Above
  <2>5. QED
    BY <1>3, <2>1, <2>2, <2>4
<1>5. ASSUME NEW h \in rows, plan[h].type = "host"
      PROVE  \E q \in Parent(rows', h) : plan'[q].type = "assignment"
  <2>1. PICK q \in Parent(rows, h) : plan[q].type = "assignment"
    BY <1>5 DEF HostInv, HostsUnderAssignment
  <2>2. q \in rows /\ Covers(q, h)
    BY ParentAbove
  <2>4. q \in Parent(rows', h)
    BY <1>1, <1>3, <1>5, AddKeepsParent DEF RowAttrs
  <2>5. QED
    BY <1>3, <2>1, <2>2, <2>4
<1>6. QED
  BY <1>3, <1>4, <1>5 DEF HostsUnderAssignment

LEMMA EditKeepsHosts ==
  ASSUME HostInv, NEW o \in Prefix, NEW attrs \in RowAttrs, EditPrefix(o, attrs)
  PROVE  HostsUnderAssignment'
<1>1. rows \in SUBSET Prefix /\ o \in rows
  BY DEF HostInv, PlanInv, PlanTypeOK, EditPrefix
<1>2. plan' = Put(plan, rows, o, attrs)
  <2>1. (rows \ {o}) \cup {o} = rows
    BY <1>1
  <2>2. QED
    BY <2>1 DEF EditPrefix, UpdateRow
<1>3. rows' = rows /\ plan'[o] = attrs /\ \A q \in rows \ {o} : plan'[q] = plan[q]
  BY <1>1, <1>2 DEF Put, rows
<1>4. attrs.type # plan[o].type =>
        attrs.type # "host" /\ plan[o].type # "host" /\ Inside(rows, o) = {}
  BY DEF EditPrefix, FullCheck, TypeChangeRules
<1> SUFFICES ASSUME NEW h \in rows, plan'[h].type = "host"
             PROVE  \E q \in Parent(rows, h) : plan'[q].type = "assignment"
  BY <1>3 DEF HostsUnderAssignment
<1>5. plan[h].type = "host"
  BY <1>3, <1>4
<1>6. PICK q \in Parent(rows, h) : plan[q].type = "assignment"
  BY <1>5 DEF HostInv, HostsUnderAssignment
<1>7. q \in rows /\ Covers(q, h)
  BY ParentAbove
<1>8. plan'[q].type = plan[q].type
  BY <1>3, <1>4, <1>7 DEF Inside
<1>9. QED
  BY <1>6, <1>8

\* A DELETE statement that takes no assignment from above a row it leaves.
LEMMA DeleteKeepsHosts ==
  ASSUME HostInv, NEW S \in SUBSET rows, DeleteRows(S), DeleteMayPass(S)
  PROVE  HostsUnderAssignment'
<1>1. plan' = Keep(plan, rows \ S)
  BY DEF DeleteRows
<1>2. rows' = rows \ S /\ \A q \in rows \ S : plan'[q] = plan[q]
  BY <1>1 DEF Keep, rows
<1> SUFFICES ASSUME NEW h \in rows \ S, plan[h].type = "host"
             PROVE  \E q \in Parent(rows', h) : plan'[q].type = "assignment"
  BY <1>2 DEF HostsUnderAssignment
<1>3. PICK q \in Parent(rows, h) : plan[q].type = "assignment"
  BY DEF HostInv, HostsUnderAssignment
<1>4. q \in rows /\ Covers(q, h) /\ \A r \in rows : Covers(r, h) => r = q \/ Covers(r, q)
  BY ParentAbove
<1>5. q \notin S
  BY <1>3, <1>4 DEF DeleteMayPass, Inside
<1>6. q \in Parent(rows', h)
  BY <1>2, <1>4, <1>5 DEF Parent, Above
<1>7. QED
  BY <1>2, <1>3, <1>4, <1>5, <1>6

LEMMA StableStep == HostInv /\ [StableNext]_vars => HostInv'
<1> SUFFICES ASSUME HostInv, [StableNext]_vars PROVE HostInv'
  OBVIOUS
<1>1. PlanInv'
  BY NextStep DEF HostInv, Next
<1>2. rows \in SUBSET Prefix
  BY DEF HostInv, PlanInv, PlanTypeOK
<1>3. ASSUME NEW p \in Prefix, NEW attrs \in RowAttrs, AddPrefix(p, attrs)
      PROVE  HostsUnderAssignment'
  BY <1>3, AddKeepsHosts
<1>4. ASSUME NEW p \in rows, NEW attrs \in RowAttrs, EditPrefix(p, attrs)
      PROVE  HostsUnderAssignment'
  BY <1>2, <1>4, EditKeepsHosts
<1>5. ASSUME NEW p \in Prefix, RemovePrefix(p)
      PROVE  HostsUnderAssignment'
  <2>1. {p} \in SUBSET rows /\ DeleteRows({p}) /\ DeleteMayPass({p})
    BY <1>5 DEF RemovePrefix
  <2>2. QED
    BY <2>1, DeleteKeepsHosts
<1>6. ASSUME NEW p \in Prefix, RemoveHosts(p)
      PROVE  HostsUnderAssignment'
  <2>1. PICK S \in SUBSET rows : S = {q \in Subtree(p) : plan[q].type = "host"}
    BY DEF Subtree
  <2>2. DeleteRows(S) /\ DeleteMayPass(S)
    BY <1>6, <2>1 DEF RemoveHosts, DeleteMayPass
  <2>3. QED
    BY <2>2, DeleteKeepsHosts
<1>7. ASSUME NEW p \in Prefix, RemoveRest(p)
      PROVE  HostsUnderAssignment'
  <2>1. Subtree(p) \in SUBSET rows
    BY DEF Subtree
  <2>2. DeleteRows(Subtree(p)) /\ DeleteMayPass(Subtree(p))
    BY <1>7 DEF RemoveRest
  <2>3. QED
    BY <2>1, <2>2, DeleteKeepsHosts
<1>8. ASSUME NEW p \in Prefix, RemoveRestFails(p)
      PROVE  HostsUnderAssignment'
  BY <1>8 DEF RemoveRestFails, HostInv, HostsUnderAssignment, rows
<1>9. ASSUME UNCHANGED vars PROVE HostsUnderAssignment'
  BY <1>9 DEF vars, HostInv, HostsUnderAssignment, rows
<1>10. HostsUnderAssignment'
  BY <1>3, <1>4, <1>5, <1>6, <1>7, <1>8, <1>9 DEF StableNext
<1>11. QED
  BY <1>1, <1>10 DEF HostInv

\* The trigger asks for the assignment above a host only when the host itself
\* is written.  That is enough for as long as prefixes are added, edited in
\* place and removed, recursively or not: no row ever comes between the two,
\* and the assignment neither changes its type nor goes before its hosts.
THEOREM HostsKeepTheirAssignment == SpecStable => []HostsUnderAssignment
<1>1. Init => HostInv
  BY InitInv DEF HostInv, HostsUnderAssignment, PlanInv, Init, rows
<1>2. HostInv => HostsUnderAssignment
  BY DEF HostInv
<1>3. QED
  BY <1>1, <1>2, StableStep, PTL DEF SpecStable

-----------------------------------------------------------------------------
(* The column display_prefix, under the same operations.                   *)

DisplayInv == HostInv /\ DisplayCorrect

\* set_masklen(prefix, masklen(parent)): there is one parent to choose.
LEMMA DisplayLenOfHost ==
  ASSUME NEW R \in SUBSET Prefix, NEW p \in Prefix, NEW q \in Parent(R, p)
  PROVE  DisplayLen(R, p, "host") = MaskLen(q)
<1>1. PICK r \in Parent(R, p) : r = CHOOSE x \in Parent(R, p) : TRUE
  OBVIOUS
<1>2. r = q
  BY ParentUnique
<1>3. QED
  BY <1>1, <1>2 DEF DisplayLen

\* A row is not above itself.
LEMMA ParentWithoutSelf ==
  ASSUME NEW R \in SUBSET Prefix, NEW p \in Prefix
  PROVE  Parent(R \ {p}, p) = Parent(R, p) /\ Parent(R \cup {p}, p) = Parent(R, p)
<1>1. ~ Covers(p, p)
  BY CoversStrict
<1>2. Above(R \ {p}, p) = Above(R, p) /\ Above(R \cup {p}, p) = Above(R, p)
  BY <1>1 DEF Above
<1>3. QED
  BY <1>2 DEF Parent

LEMMA AddKeepsDisplay ==
  ASSUME DisplayInv, NEW p \in Prefix, NEW attrs \in RowAttrs, AddPrefix(p, attrs)
  PROVE  DisplayCorrect'
<1>1. /\ rows \in SUBSET Prefix /\ p \notin rows
      /\ TypeRules(rows, p, attrs.type) /\ attrs.type \in Types
  BY DEF DisplayInv, HostInv, PlanInv, PlanTypeOK, AddPrefix, RowAttrs
<1>2. /\ plan' = Put(plan, rows \cup {p}, p, attrs)
      /\ display' = Put(display, rows \cup {p}, p, DisplayLen(rows, p, attrs.type))
  BY DEF AddPrefix
<1>3. /\ rows' = rows \cup {p} /\ plan'[p] = attrs
      /\ display'[p] = DisplayLen(rows, p, attrs.type)
      /\ \A q \in rows : plan'[q] = plan[q] /\ display'[q] = display[q]
  BY <1>1, <1>2 DEF Put, rows
<1> SUFFICES ASSUME NEW x \in rows \cup {p}
             PROVE  IF plan'[x].type = "host"
                    THEN \A q \in Parent(rows \cup {p}, x) : display'[x] = MaskLen(q)
                    ELSE display'[x] = MaskLen(x)
  BY <1>3 DEF DisplayCorrect
<1>4. CASE x = p
  BY <1>1, <1>3, <1>4, DisplayLenOfHost, ParentWithoutSelf DEF DisplayLen
<1>5. CASE x \in rows /\ plan[x].type # "host"
  BY <1>1, <1>3, <1>5 DEF DisplayInv, DisplayCorrect
<1>6. CASE x \in rows /\ plan[x].type = "host"
  <2>1. PICK r \in Parent(rows, x) : plan[r].type = "assignment"
    BY <1>6 DEF DisplayInv, HostInv, HostsUnderAssignment
  <2>2. r \in Parent(rows \cup {p}, x)
    BY <1>1, <1>6, AddKeepsParent DEF DisplayInv
  <2>3. \A q \in Parent(rows \cup {p}, x) : q = r
    BY <1>1, <2>2, ParentUnique
  <2>4. display[x] = MaskLen(r)
    BY <1>6 DEF DisplayInv, DisplayCorrect
  <2>5. QED
    BY <1>3, <1>6, <2>3, <2>4
<1>7. QED
  BY <1>4, <1>5, <1>6

LEMMA EditKeepsDisplay ==
  ASSUME DisplayInv, NEW o \in Prefix, NEW attrs \in RowAttrs, EditPrefix(o, attrs)
  PROVE  DisplayCorrect'
<1>1. rows \in SUBSET Prefix /\ o \in rows /\ (rows \ {o}) \cup {o} = rows
  BY DEF DisplayInv, HostInv, PlanInv, PlanTypeOK, EditPrefix
<1>2. /\ plan' = Put(plan, rows, o, attrs)
      /\ display' = [q \in rows |-> IF q = o THEN IF FullCheck(o, o, attrs)
                                                 THEN DisplayLen(rows \ {o}, o, attrs.type)
                                                 ELSE display[o]
                                    ELSE display[q]]
  BY <1>1 DEF EditPrefix, UpdateRow
<1>3. /\ rows' = rows /\ plan'[o] = attrs
      /\ \A q \in rows \ {o} : plan'[q] = plan[q] /\ display'[q] = display[q]
  BY <1>1, <1>2 DEF Put, rows
<1> SUFFICES ASSUME NEW x \in rows
             PROVE  IF plan'[x].type = "host"
                    THEN \A q \in Parent(rows, x) : display'[x] = MaskLen(q)
                    ELSE display'[x] = MaskLen(x)
  BY <1>3 DEF DisplayCorrect
<1>4. CASE x # o
  BY <1>3, <1>4 DEF DisplayInv, DisplayCorrect
<1>5. CASE x = o /\ FullCheck(o, o, attrs)
  <2>1. display'[o] = DisplayLen(rows \ {o}, o, attrs.type)
    BY <1>1, <1>2, <1>5
  <2>2. PICK T \in SUBSET Prefix : T = rows \ {o}
    BY <1>1
  <2>3. Parent(T, o) = Parent(rows, o)
    BY <1>1, <2>2, ParentWithoutSelf
  <2>4. CASE attrs.type = "host"
    BY <1>3, <1>5, <2>1, <2>2, <2>3, <2>4, DisplayLenOfHost
  <2>5. CASE attrs.type # "host"
    BY <1>3, <1>5, <2>1, <2>5 DEF DisplayLen
  <2>6. QED
    BY <2>4, <2>5
<1>6. CASE x = o /\ ~ FullCheck(o, o, attrs)
  <2>1. display'[o] = display[o] /\ plan'[o].type = plan[o].type
    BY <1>1, <1>2, <1>3, <1>6 DEF FullCheck
  <2>2. QED
    BY <1>6, <2>1 DEF DisplayInv, DisplayCorrect
<1>7. QED
  BY <1>4, <1>5, <1>6

LEMMA DeleteKeepsDisplay ==
  ASSUME DisplayInv, NEW S \in SUBSET rows, DeleteRows(S), DeleteMayPass(S)
  PROVE  DisplayCorrect'
<1>1. plan' = Keep(plan, rows \ S) /\ display' = Keep(display, rows \ S)
  BY DEF DeleteRows
<1>2. /\ rows' = rows \ S /\ rows \in SUBSET Prefix
      /\ \A q \in rows \ S : plan'[q] = plan[q] /\ display'[q] = display[q]
  BY <1>1 DEF Keep, rows, DisplayInv, HostInv, PlanInv, PlanTypeOK
<1> SUFFICES ASSUME NEW x \in rows \ S
             PROVE  IF plan[x].type = "host"
                    THEN \A q \in Parent(rows \ S, x) : display[x] = MaskLen(q)
                    ELSE display[x] = MaskLen(x)
  BY <1>2 DEF DisplayCorrect
<1>3. CASE plan[x].type # "host"
  BY <1>3 DEF DisplayInv, DisplayCorrect
<1>4. CASE plan[x].type = "host"
  <2>1. PICK r \in Parent(rows, x) : plan[r].type = "assignment"
    BY <1>4 DEF DisplayInv, HostInv, HostsUnderAssignment
  <2>2. /\ r \in rows /\ Covers(r, x)
        /\ \A y \in rows : Covers(y, x) => y = r \/ Covers(y, r)
    BY ParentAbove
  <2>3. r \notin S
    BY <2>1, <2>2 DEF DeleteMayPass, Inside
  <2>4. r \in Parent(rows \ S, x)
    BY <2>2, <2>3 DEF Parent, Above
  <2>5. PICK R \in SUBSET Prefix : R = rows \ S
    BY <1>2
  <2>6. \A q \in Parent(R, x) : q = r
    BY <1>2, <2>4, <2>5, ParentUnique
  <2>7. display[x] = MaskLen(r)
    BY <1>4, <2>1 DEF DisplayInv, DisplayCorrect
  <2>8. QED
    BY <1>4, <2>5, <2>6, <2>7
<1>5. QED
  BY <1>3, <1>4

LEMMA DisplayStep == DisplayInv /\ [StableNext]_vars => DisplayInv'
<1> SUFFICES ASSUME DisplayInv, [StableNext]_vars PROVE DisplayInv'
  OBVIOUS
<1>1. HostInv'
  BY StableStep DEF DisplayInv
<1>2. rows \in SUBSET Prefix
  BY DEF DisplayInv, HostInv, PlanInv, PlanTypeOK
<1>3. ASSUME NEW p \in Prefix, NEW attrs \in RowAttrs, AddPrefix(p, attrs)
      PROVE  DisplayCorrect'
  BY <1>3, AddKeepsDisplay
<1>4. ASSUME NEW p \in rows, NEW attrs \in RowAttrs, EditPrefix(p, attrs)
      PROVE  DisplayCorrect'
  BY <1>2, <1>4, EditKeepsDisplay
<1>5. ASSUME NEW S \in SUBSET rows, DeleteMayPass(S), DeleteRows(S)
      PROVE  DisplayCorrect'
  BY <1>5, DeleteKeepsDisplay
<1>6. ASSUME NEW p \in Prefix, RemovePrefix(p)
      PROVE  DisplayCorrect'
  <2>1. {p} \in SUBSET rows /\ DeleteRows({p}) /\ DeleteMayPass({p})
    BY <1>6 DEF RemovePrefix
  <2>2. QED
    BY <1>5, <2>1
<1>7. ASSUME NEW p \in Prefix, RemoveHosts(p)
      PROVE  DisplayCorrect'
  <2>1. PICK S \in SUBSET rows : S = {q \in Subtree(p) : plan[q].type = "host"}
    BY DEF Subtree
  <2>2. DeleteRows(S) /\ DeleteMayPass(S)
    BY <1>7, <2>1 DEF RemoveHosts, DeleteMayPass
  <2>3. QED
    BY <1>5, <2>2
<1>8. ASSUME NEW p \in Prefix, RemoveRest(p)
      PROVE  DisplayCorrect'
  <2>1. Subtree(p) \in SUBSET rows
    BY DEF Subtree
  <2>2. DeleteRows(Subtree(p)) /\ DeleteMayPass(Subtree(p))
    BY <1>8 DEF RemoveRest
  <2>3. QED
    BY <1>5, <2>1, <2>2
<1>9. ASSUME NEW p \in Prefix, RemoveRestFails(p)
      PROVE  DisplayCorrect'
  BY <1>9 DEF RemoveRestFails, DisplayInv, DisplayCorrect, rows
<1>10. ASSUME UNCHANGED vars PROVE DisplayCorrect'
  BY <1>10 DEF vars, DisplayInv, DisplayCorrect, rows
<1>11. DisplayCorrect'
  BY <1>3, <1>4, <1>6, <1>7, <1>8, <1>9, <1>10 DEF StableNext
<1>12. QED
  BY <1>1, <1>11 DEF DisplayInv

\* The trigger computes the displayed mask of a host once, when the host is
\* written; it stays the mask of the innermost covering row, because no row ever
\* comes between a host and its assignment and the assignment outlives its hosts.
THEOREM HostsAreDisplayed == SpecStable => []DisplayCorrect
<1>1. Init => DisplayInv
  BY InitInv DEF DisplayInv, DisplayCorrect, HostInv, HostsUnderAssignment, PlanInv, Init, rows
<1>2. DisplayInv => DisplayCorrect
  BY DEF DisplayInv
<1>3. QED
  BY <1>1, <1>2, DisplayStep, PTL DEF SpecStable

-----------------------------------------------------------------------------
(* Pools stay within a VRF.                                                *)

\* Of the rows R, which the statement leaves alone, and of a row p among them: the
\* check asks about all rows that are there before, the row that is replaced included.
LEMMA PoolOfPutRow ==
  ASSUME PoolInOneVrf, NEW R \in SUBSET rows, NEW p, NEW attrs,
         plan' = Put(plan, R \cup {p}, p, attrs),
         attrs.pool # NoPool => \A q \in R \ {p} : plan[q].pool = attrs.pool => Vrf(q) = Vrf(p)
  PROVE  PoolInOneVrf'
<1>1. /\ rows' = R \cup {p} /\ plan'[p] = attrs
      /\ \A q \in R \ {p} : plan'[q] = plan[q]
  BY DEF Put, rows
<1> SUFFICES ASSUME NEW x \in R \cup {p}, NEW y \in R \cup {p},
                    plan'[x].pool = plan'[y].pool, plan'[x].pool # NoPool
             PROVE  Vrf(x) = Vrf(y)
  BY <1>1 DEF PoolInOneVrf
<1>2. CASE x # p /\ y # p
  BY <1>1, <1>2 DEF PoolInOneVrf
<1>3. CASE x = p \/ y = p
  BY <1>1, <1>3
<1>4. QED
  BY <1>2, <1>3

LEMMA AddKeepsPools ==
  ASSUME PoolInOneVrf, NEW p \in Prefix, NEW attrs \in RowAttrs, AddPrefix(p, attrs)
  PROVE  PoolInOneVrf'
<1>1. plan' = Put(plan, rows \cup {p}, p, attrs) /\ PoolRules(p, attrs.pool)
  BY DEF AddPrefix
<1>2. QED
  BY <1>1, PoolOfPutRow DEF PoolRules

LEMMA EditKeepsPools ==
  ASSUME PoolInOneVrf, NEW o, NEW attrs \in RowAttrs, EditPrefix(o, attrs)
  PROVE  PoolInOneVrf'
<1>1. o \in rows /\ plan' = Put(plan, (rows \ {o}) \cup {o}, o, attrs)
  BY DEF EditPrefix, UpdateRow
<1>2. \/ PoolRules(o, attrs.pool)
      \/ attrs.pool = plan[o].pool
  BY DEF EditPrefix, FullCheck
<1>3. attrs.pool # NoPool => \A q \in rows : plan[q].pool = attrs.pool => Vrf(q) = Vrf(o)
  BY <1>1, <1>2 DEF PoolRules, PoolInOneVrf
<1>4. PICK R \in SUBSET rows : R = rows \ {o}
  OBVIOUS
<1>5. QED
  BY <1>1, <1>3, <1>4, PoolOfPutRow

LEMMA DeleteKeepsPools ==
  ASSUME PoolInOneVrf, NEW R \in SUBSET rows, plan' = Keep(plan, R)
  PROVE  PoolInOneVrf'
<1>1. rows' = R /\ \A q \in R : plan'[q] = plan[q]
  BY DEF Keep, rows
<1>2. QED
  BY <1>1 DEF PoolInOneVrf

LEMMA PoolStep == PoolInOneVrf /\ [Next]_vars => PoolInOneVrf'
<1> SUFFICES ASSUME PoolInOneVrf, [Next]_vars PROVE PoolInOneVrf'
  OBVIOUS
<1>1. ASSUME NEW p \in Prefix, NEW attrs \in RowAttrs, AddPrefix(p, attrs)
      PROVE  PoolInOneVrf'
  BY <1>1, AddKeepsPools
<1>2. ASSUME NEW p \in rows, NEW attrs \in RowAttrs, EditPrefix(p, attrs)
      PROVE  PoolInOneVrf'
  BY <1>2, EditKeepsPools
<1>3. ASSUME NEW S, DeleteRows(S)
      PROVE  PoolInOneVrf'
  BY <1>3, DeleteKeepsPools DEF DeleteRows
<1>4. ASSUME NEW o \in Prefix, NEW n \in Prefix, NEW attrs \in RowAttrs, Renumber(o, n, attrs)
      PROVE  PoolInOneVrf'
  <2>1. plan' = Put(plan, (rows \ {o}) \cup {n}, n, attrs) /\ PoolRules(n, attrs.pool)
    BY <1>4 DEF Renumber, UpdateRow
  <2>2. QED
    BY <2>1, PoolOfPutRow DEF PoolRules
<1>5. CASE UNCHANGED plan
  BY <1>5 DEF PoolInOneVrf, rows
<1>6. QED
  BY <1>1, <1>2, <1>3, <1>4, <1>5
     DEF Next, StableNext, RemovePrefix, RemoveHosts, RemoveRest, RemoveRestFails, vars

\* The trigger compares a prefix that enters a pool with the first member it finds;
\* no operation on prefixes, renumbering included, brings a second VRF into a pool.
THEOREM PoolsStayInOneVrf == Spec => []PoolInOneVrf
<1>1. Init => PoolInOneVrf
  BY DEF Init, PoolInOneVrf, rows
<1>2. QED
  BY <1>1, PoolStep, PTL DEF Spec

-----------------------------------------------------------------------------
(* The columns children and inherited_tags, under the same operations.     *)

\* The tables are there: every row has its columns.
Stored == IsDatabase(Database)
StoredInv == PlanInv /\ Stored

LEMMA StoredRows ==
  ASSUME StoredInv
  PROVE  /\ rows \in SUBSET Prefix /\ Rows(Database) = rows
         /\ IsStat(rows, stat) /\ indent = [q \in rows |-> indent[q]]
         /\ Cardinality(rows) \in Nat
<1>1. rows \in SUBSET Prefix /\ Rows(Database) = rows
  BY DEF StoredInv, PlanInv, PlanTypeOK, Rows, Database, rows
<1>2. IsStat(rows, stat) /\ indent = [q \in rows |-> indent[q]]
  BY <1>1 DEF StoredInv, Stored, IsDatabase, Database
<1>3. Cardinality(rows) \in Nat
  BY <1>1, PrefixAssumption, FS_Subset, FS_CardinalityType
<1> QED
  BY <1>1, <1>2, <1>3

ColumnsCorrect == CorrectColumns(Database)
ColumnInv == PlanInv /\ ColumnsCorrect

LEMMA ColumnsAreStored == ColumnInv => StoredInv
BY DEF ColumnInv, ColumnsCorrect, CorrectColumns, StoredInv, Stored

\* What the theorems are about.
LEMMA ColumnsAreCorrect == ColumnInv => ChildrenCorrect /\ InheritedTagsCorrect
<1> SUFFICES ASSUME ColumnInv PROVE ChildrenCorrect /\ InheritedTagsCorrect
  OBVIOUS
<1>1. /\ Rows(Database) = rows
      /\ Database.plan = plan /\ Database.stat = stat
  BY DEF Rows, Database, rows
<1>2. InheritedTagsCorrect
  BY <1>1 DEF ColumnInv, ColumnsCorrect, CorrectColumns, TagsFromAbove, InheritedTagsCorrect
<1>3. \A p \in rows : DirectChildren(p) = Kids(rows, rows, p)
  BY DEF DirectChildren, Kids
<1>4. ChildrenCorrect
  BY <1>1, <1>3 DEF ColumnInv, ColumnsCorrect, CorrectColumns, Counted, ChildrenCorrect
<1> QED
  BY <1>2, <1>4

\* What a trigger function has left is what the table has afterwards.
LEMMA CorrectAfter ==
  ASSUME NEW d, RowsAreFinite(d), Rows(d) \in SUBSET Prefix,
         Unsettled(d, Rows(d)) = {}, Rows(d) \subseteq Counted(d, Rows(d)),
         d.plan = plan', d.stat = stat', indent' = [q \in rows' |-> indent'[q]]
  PROVE  ColumnsCorrect'
<1> DEFINE e == [plan |-> plan', indent |-> indent', stat |-> stat']
<1>1. Rows(e) = Rows(d) /\ Rows(d) = rows' /\ e.plan = d.plan /\ e.stat = d.stat
  BY DEF Rows, rows
<1>2. IsDatabase(e)
  BY <1>1 DEF IsDatabase, RowsAreFinite
<1>3. \A q \in Rows(d) : Settled(d, q)
  BY ParentAbove DEF Unsettled
<1>4. TagsFromAbove(d)
  BY <1>3, SettledTags
<1> HIDE DEF e
<1>5. TagsFromAbove(e)
  BY <1>1, <1>4 DEF TagsFromAbove
<1>6. Counted(e, Rows(e)) = Counted(d, Rows(d))
  BY <1>1 DEF Counted
<1>7. CorrectColumns(e)
  BY <1>1, <1>2, <1>5, <1>6 DEF CorrectColumns
<1> QED
  BY <1>7 DEF e, Database, ColumnsCorrect, CorrectColumns, IsDatabase, Counted, TagsFromAbove, Rows, Kids

LEMMA ColumnsOfRows ==
  ASSUME ColumnInv
  PROVE  /\ rows \in SUBSET Prefix /\ Rows(Database) = rows
         /\ IsStat(rows, stat) /\ indent = [q \in rows |-> indent[q]]
         /\ \A q \in rows : indent[q] = Cardinality(Above(rows, q))
         /\ \A q \in rows : stat.children[q] = Cardinality(Kids(rows, rows, q))
         /\ \A q \in rows : stat.inherited[q] = TagsFrom(Parent(rows, q))
<1>1. rows \in SUBSET Prefix /\ Rows(Database) = rows
  BY DEF ColumnInv, PlanInv, PlanTypeOK, Rows, Database, rows
<1>2. IsStat(rows, stat) /\ indent = [q \in rows |-> indent[q]]
  BY <1>1 DEF ColumnInv, ColumnsCorrect, CorrectColumns, IsDatabase, Database
<1>3. \A q \in rows : indent[q] = Cardinality(Above(rows, q))
  BY DEF ColumnInv, PlanInv, IndentCorrect
<1>4. \A q \in rows : stat.children[q] = Cardinality(Kids(rows, rows, q))
  BY <1>1 DEF ColumnInv, ColumnsCorrect, CorrectColumns, Counted, Database
<1>5. ASSUME NEW q \in rows PROVE stat.inherited[q] = TagsFrom(Parent(rows, q))
  <2>1. Settled(Database, q)
    BY <1>1, TagsAreSettled DEF ColumnInv, ColumnsCorrect, CorrectColumns
  <2>2. \A p \in rows : Legacy(Database, p) = stat.inherited[p] \cup plan[p].tags
    BY <1>1 DEF Legacy, Database
  <2>3. \A p \in Parent(rows, q) : p \in rows
    BY ParentAbove
  <2>4. Database.stat = stat
    BY DEF Database
  <2>5. {Legacy(Database, p) : p \in Parent(rows, q)}
          = {stat.inherited[p] \cup plan[p].tags : p \in Parent(rows, q)}
    BY <2>2, <2>3
  <2> QED
    BY <1>1, <2>1, <2>4, <2>5 DEF Settled, TagsFrom
<1> QED
  BY <1>1, <1>2, <1>3, <1>4, <1>5

\* The tags handed on are the same when the row above is not the one that was written.
LEMMA SettledAsBefore ==
  ASSUME ColumnInv, NEW d, NEW R \in SUBSET Prefix, Rows(d) = R, NEW q \in R,
         Parent(R, q) \subseteq rows,
         \A y \in Parent(R, q) : d.stat.inherited[y] \cup d.plan[y].tags
                                   = stat.inherited[y] \cup plan[y].tags,
         d.stat.inherited[q] = TagsFrom(Parent(R, q))
  PROVE  Settled(d, q)
<1>1. \A y \in Parent(R, q) : y \in R
  BY ParentAbove
<1>2. \A y \in Parent(R, q) : Legacy(d, y) = stat.inherited[y] \cup plan[y].tags
  BY <1>1 DEF Legacy
<1>3. {Legacy(d, y) : y \in Parent(R, q)}
        = {stat.inherited[y] \cup plan[y].tags : y \in Parent(R, q)}
  BY <1>2
<1> QED
  BY <1>3 DEF Settled, TagsFrom

-----------------------------------------------------------------------------
\* The table with the row p as the BEFORE trigger leaves it.
Inserted(p, attrs, level) ==
  LET R == rows \cup {p}
  IN  [plan |-> Put(plan, R, p, attrs), indent |-> Put(indent, R, p, level),
       stat |-> [stat EXCEPT
         !.children = Put(@, R, p, ChildrenAt(Database, p, level)),
         !.used = Put(@, R, p, UsedOfInserted(p, level)),
         !.inherited = Put(@, R, p, TagsFrom(Parent(rows, p)))]]

LEMMA InsertedIs ==
  ASSUME StoredInv, NEW p \in Prefix, p \notin rows, NEW attrs, NEW level
  PROVE  LET d == Inserted(p, attrs, level)
         IN  /\ RowsAreFinite(d) /\ Rows(d) = rows \cup {p}
             /\ d.plan = Put(plan, rows \cup {p}, p, attrs) /\ d.stat.pool = stat.pool
             /\ d.indent = Put(indent, rows \cup {p}, p, level)
             /\ d.stat.children = Put(stat.children, rows \cup {p}, p,
                                      ChildrenAt(Database, p, level))
             /\ d.stat.inherited = Put(stat.inherited, rows \cup {p}, p,
                                       TagsFrom(Parent(rows, p)))
             /\ d.stat.vrf = stat.vrf
             /\ d.stat.used = Put(stat.used, rows \cup {p}, p, UsedOfInserted(p, level))
<1> DEFINE R == rows \cup {p}
           d == Inserted(p, attrs, level)
           given == [children |-> Put(stat.children, R, p, ChildrenAt(Database, p, level)),
                     used |-> Put(stat.used, R, p, UsedOfInserted(p, level)),
                     inherited |-> Put(stat.inherited, R, p, TagsFrom(Parent(rows, p))),
                     vrf |-> stat.vrf, pool |-> stat.pool]
<1>1. rows \in SUBSET Prefix /\ IsStat(rows, stat)
  BY StoredRows
<1>2. d.stat = given
  BY <1>1 DEF Inserted, IsStat
<1>3. /\ d.plan = Put(plan, R, p, attrs) /\ d.indent = Put(indent, R, p, level)
      /\ d = [plan |-> d.plan, indent |-> d.indent, stat |-> d.stat]
  BY DEF Inserted
<1>4. Rows(d) = R
  BY <1>3 DEF Rows, Put
<1>5. IsStat(R, given)
  BY DEF IsStat, Put
<1>6. /\ given.pool = stat.pool
      /\ given.children = Put(stat.children, R, p, ChildrenAt(Database, p, level))
      /\ given.inherited = Put(stat.inherited, R, p, TagsFrom(Parent(rows, p)))
      /\ given.vrf = stat.vrf
      /\ given.used = Put(stat.used, R, p, UsedOfInserted(p, level))
  OBVIOUS
<1> HIDE DEF given, d
<1>7. IsDatabase(d)
  BY <1>2, <1>3, <1>4, <1>5 DEF IsDatabase, Put
<1>8. Cardinality(R) \in Nat
  BY <1>1, PrefixAssumption, FS_Subset, FS_CardinalityType
<1> QED
  BY <1>2, <1>3, <1>4, <1>6, <1>7, <1>8 DEF RowsAreFinite, d

LEMMA AddKeepsColumns ==
  ASSUME ColumnInv, NEW p \in Prefix, NEW attrs \in RowAttrs, AddPrefix(p, attrs)
  PROVE  ColumnsCorrect'
<1> DEFINE R == rows \cup {p}
           level == LevelBelow(indent, Parent(rows, p), 0)
           db == Inserted(p, attrs, level)
           d == AfterInsert(db, p)
<1>1. /\ p \notin rows /\ rows \in SUBSET Prefix /\ R \in SUBSET Prefix
      /\ Rows(Database) = rows
  BY ColumnsOfRows DEF AddPrefix
<1>2. /\ plan' = Put(plan, R, p, attrs) /\ stat' = d.stat
      /\ indent' = [q \in rows' |-> indent'[q]]
  <2>1. /\ plan' = Put(plan, R, p, attrs) /\ stat' = d.stat
        /\ indent' = ShiftIndent(R, CountIndent(R, Put(indent, R, p, level), p), p, 1)
    BY DEF AddPrefix, StatAfterInsert, Inserted
  <2>2. rows' = R
    BY <2>1 DEF rows, Put
  <2> QED
    BY <2>1, <2>2 DEF ShiftIndent
<1> HIDE DEF db, d, level
<1>3. /\ RowsAreFinite(db) /\ Rows(db) = R
      /\ db.plan = Put(plan, R, p, attrs) /\ db.stat.pool = stat.pool
      /\ db.indent = Put(indent, R, p, level)
      /\ db.stat.children = Put(stat.children, R, p, ChildrenAt(Database, p, level))
      /\ db.stat.inherited = Put(stat.inherited, R, p, TagsFrom(Parent(rows, p)))
  BY <1>1, ColumnsAreStored, InsertedIs DEF db
<1>4. /\ db.plan[p] = attrs /\ \A q \in rows : db.plan[q] = plan[q]
      /\ db.indent[p] = level /\ \A q \in rows : db.indent[q] = indent[q]
      /\ db.stat.children[p] = ChildrenAt(Database, p, level)
      /\ \A q \in rows : db.stat.children[q] = stat.children[q]
      /\ db.stat.inherited[p] = TagsFrom(Parent(rows, p))
      /\ \A q \in rows : db.stat.inherited[q] = stat.inherited[q]
      /\ IsDatabase(db) /\ db.plan = plan'
  BY <1>1, <1>2, <1>3 DEF Put, RowsAreFinite
<1>5. level = Cardinality(Above(R, p)) /\ Parent(R, p) = Parent(rows, p)
  <2>1. level = Cardinality(Above(rows, p))
    BY <1>1, ColumnsOfRows, LevelIsDepth DEF level
  <2>2. Above(R, p) = Above(rows, p)
    BY CoversStrict DEF Above
  <2> QED
    BY <2>1, <2>2 DEF Parent
<1> HIDE DEF level
<1>6. ASSUME NEW q \in R
      PROVE  (IF Covers(p, q) THEN db.indent[q] + 1 ELSE db.indent[q]) = Cardinality(Above(R, q))
  <2>1. CASE q = p
    BY <1>4, <1>5, <2>1, CoversStrict
  <2>2. CASE q # p
    <3>1. q \in rows /\ db.indent[q] = Cardinality(Above(rows, q))
      BY <1>4, <2>2, ColumnsOfRows
    <3> QED
      BY <1>1, <3>1, AboveAfterInsert
  <2> QED
    BY <2>1, <2>2
<1>7. Unsettled(db, R) \subseteq Kids(R, R, p)
  <2> SUFFICES ASSUME NEW q \in R, Parent(R, q) # {p} PROVE Settled(db, q)
    BY <1>3 DEF Unsettled, Kids
  <2>1. Parent(R, q) = Parent(rows, q) /\ p \notin Parent(R, q)
    <3>1. CASE q = p
      BY <1>5, <3>1, ParentAbove, CoversStrict
    <3>2. CASE q # p
      BY <1>1, ParentWithout
    <3> QED
      BY <3>1, <3>2
  <2>2. \A y \in Parent(R, q) : y \in rows
    BY <2>1, ParentAbove
  <2>3. db.stat.inherited[q] = TagsFrom(Parent(R, q))
    BY <1>4, <2>1, ColumnsOfRows
  <2>4. \A y \in Parent(R, q) : db.stat.inherited[y] \cup db.plan[y].tags
                                  = stat.inherited[y] \cup plan[y].tags
    BY <1>4, <2>2
  <2> QED
    BY <1>1, <1>3, <2>2, <2>3, <2>4, SettledAsBefore
<1>8. R \ Parent(R, p) \subseteq Counted(db, R)
  <2> SUFFICES ASSUME NEW q \in R, q \notin Parent(R, p)
               PROVE  db.stat.children[q] = Cardinality(Kids(R, R, q))
    BY <1>3 DEF Counted
  <2>1. CASE q = p
    <3>1. db.stat.children[p] = Cardinality({x \in Inside(rows, p) : indent[x] = level})
      BY <1>1, <1>4 DEF ChildrenAt, Database
    <3>2. {x \in Inside(rows, p) : indent[x] = level}
            = {x \in Inside(rows, p) : Cardinality(Above(rows, x)) = Cardinality(Above(R, p))}
      BY <1>5, ColumnsOfRows DEF Inside
    <3>3. Kids(R, R, p) = {x \in Inside(rows, p) :
                             Cardinality(Above(rows, x)) = Cardinality(Above(R, p))}
      BY <1>1, KidsOfInserted
    <3> QED
      BY <2>1, <3>1, <3>2, <3>3
  <2>2. CASE q # p
    <3>1. q \in rows
      BY <2>2
    <3>2. Kids(R, R, q) = Kids(rows, rows, q)
      BY <1>1, <3>1, KidsAfterInsert
    <3> QED
      BY <1>4, <3>1, <3>2, ColumnsOfRows
  <2> QED
    BY <2>1, <2>2
<1>9. Unsettled(d, R) = {} /\ R \subseteq Counted(d, R)
  BY <1>1, <1>3, <1>4, <1>5, <1>6, <1>7, <1>8, AfterInsertSettles DEF d
<1>10. RowsAreFinite(d) /\ Rows(d) = R /\ d.plan = plan'
  BY <1>3, <1>4, AfterInsertIs DEF d
<1> QED
  BY <1>1, <1>2, <1>9, <1>10, CorrectAfter

-----------------------------------------------------------------------------
\* d is the table after a row o has become n, written with attrs and level, and
\* before the AFTER trigger: R are its rows.
UpdatedAs(d, R, o, n, attrs, level) ==
  /\ RowsAreFinite(d) /\ Rows(d) = R
  /\ d.plan = Put(plan, R, n, attrs) /\ d.stat.pool = stat.pool
  /\ d.indent = Put(indent, R, n, level)
  /\ d.stat.children = Put(stat.children, R, n,
                           IF n # o THEN ChildrenOfMoved(o, n) ELSE stat.children[o])
  /\ d.stat.inherited = Put(stat.inherited, R, n,
                            IF FullCheck(o, n, attrs) THEN TagsFrom(Parent(rows \ {o}, n))
                                                      ELSE stat.inherited[o])
  /\ d.stat.vrf = stat.vrf
  /\ d.stat.used = Put(stat.used, R, n, NewUsed(o, n, attrs, level))

LEMMA UpdatedIs ==
  ASSUME StoredInv, NEW o \in rows, NEW n \in Prefix, NEW attrs, NEW level,
         NEW R, R = (rows \ {o}) \cup {n}
  PROVE  UpdatedAs(Updated(o, n, attrs, level), R, o, n, attrs, level)
<1> DEFINE d == Updated(o, n, attrs, level)
           inherited == IF FullCheck(o, n, attrs) THEN TagsFrom(Parent(rows \ {o}, n))
                                                  ELSE stat.inherited[o]
           children == IF n # o THEN ChildrenOfMoved(o, n) ELSE stat.children[o]
           used == NewUsed(o, n, attrs, level)
           given == [children |-> Put(stat.children, R, n, children),
                     used |-> Put(stat.used, R, n, used),
                     inherited |-> Put(stat.inherited, R, n, inherited),
                     vrf |-> stat.vrf, pool |-> stat.pool]
           written == [plan |-> Put(plan, R, n, attrs), indent |-> Put(indent, R, n, level),
                       stat |-> [stat EXCEPT !.children = Put(@, R, n, children),
                                             !.used = Put(@, R, n, used),
                                             !.inherited = Put(@, R, n, inherited)]]
<1>1. rows \in SUBSET Prefix /\ IsStat(rows, stat)
  BY StoredRows
<1>2. d = written
  BY DEF Updated
<1> HIDE DEF d, inherited, children, used
<1>3. written.stat = given
  BY <1>1 DEF IsStat
<1>4. /\ d.plan = Put(plan, R, n, attrs) /\ d.indent = Put(indent, R, n, level)
      /\ d = [plan |-> d.plan, indent |-> d.indent, stat |-> d.stat]
  BY <1>2
<1> HIDE DEF written
<1>5. d.stat = given
  BY <1>2, <1>3
<1>6. Rows(d) = R
  BY <1>4 DEF Rows, Put
<1>7. IsStat(R, given)
  BY DEF IsStat, Put
<1>8. /\ given.pool = stat.pool
      /\ given.children = Put(stat.children, R, n, children)
      /\ given.inherited = Put(stat.inherited, R, n, inherited)
      /\ given.vrf = stat.vrf /\ given.used = Put(stat.used, R, n, used)
  OBVIOUS
<1> HIDE DEF given
<1>9. IsDatabase(d)
  BY <1>4, <1>5, <1>6, <1>7 DEF IsDatabase, Put
<1>10. Cardinality(R) \in Nat
  BY <1>1, PrefixAssumption, FS_Subset, FS_CardinalityType
<1> QED
  BY <1>4, <1>5, <1>6, <1>8, <1>9, <1>10
  DEF RowsAreFinite, UpdatedAs, d, children, inherited, used

\* The row o is edited in place: its children and what it has inherited stay, and
\* the rows right below it have not inherited its new tags.
LEMMA EditKeepsColumns ==
  ASSUME ColumnInv, NEW o \in Prefix, NEW attrs \in RowAttrs, EditPrefix(o, attrs)
  PROVE  ColumnsCorrect'
<1> DEFINE R == (rows \ {o}) \cup {o}
           level == NewLevel(o, o, attrs)
           db == Updated(o, o, attrs, level)
           d == AfterUpdate(db, RowRecord(Database, o), o)
<1>1. /\ o \in rows /\ rows \in SUBSET Prefix /\ R = rows /\ Rows(Database) = rows
  BY ColumnsOfRows DEF EditPrefix
<1>2. PlanInv'
  BY EditStep DEF ColumnInv
<1>3. /\ plan' = Put(plan, rows, o, attrs)
      /\ stat' = StatAfterUpdate(o, o, db)
      /\ indent' = Put(indent, rows, o, level)
  BY <1>1 DEF EditPrefix, UpdateRow
<1>4. level = indent[o]
  <2>1. PICK T \in SUBSET Prefix : T = rows \ {o}
    BY <1>1
  <2>2. \A q \in T : Covers(q, o) => Above(T, q) = Above(rows, q)
    BY <1>1, <2>1, CoversStrict DEF Above
  <2>3. Above(T, o) = Above(rows, o)
    BY <1>1, <2>1, CoversStrict DEF Above
  <2>4. \A q \in T : Covers(q, o) => indent[q] = Cardinality(Above(T, q))
    BY <2>1, <2>2, ColumnsOfRows
  <2>5. LevelBelow(indent, Parent(T, o), 0) = Cardinality(Above(T, o))
    BY <2>4, LevelIsDepth
  <2>6. indent[o] = Cardinality(Above(rows, o))
    BY <1>1, ColumnsOfRows
  <2> QED
    BY <2>1, <2>3, <2>5, <2>6 DEF NewLevel
<1>5. /\ RowsAreFinite(db) /\ Rows(db) = rows /\ db.plan = plan' /\ db.indent = indent
      /\ \A q \in rows : db.stat.children[q] = stat.children[q]
      /\ \A q \in rows : db.stat.inherited[q] = stat.inherited[q]
  <2> DEFINE inherited == IF FullCheck(o, o, attrs) THEN TagsFrom(Parent(rows \ {o}, o))
                                                    ELSE stat.inherited[o]
  <2>1. inherited = stat.inherited[o]
    <3>1. Parent(rows \ {o}, o) = Parent(rows, o)
      BY <1>1, ParentWithoutSelf
    <3> QED
      BY <1>1, <3>1, ColumnsOfRows
  <2>2. StoredInv
    BY ColumnsAreStored
  <2> HIDE DEF db
  <2>7. UpdatedAs(db, rows, o, o, attrs, level)
    <3> HIDE DEF level
    <3>1. rows = (rows \ {o}) \cup {o}
      BY <1>1
    <3> QED
      BY <1>1, <2>2, <3>1, UpdatedIs DEF db
  <2>3. /\ RowsAreFinite(db) /\ Rows(db) = rows
        /\ db.plan = Put(plan, rows, o, attrs) /\ db.stat.pool = stat.pool
        /\ db.indent = Put(indent, rows, o, level)
        /\ db.stat.children = Put(stat.children, rows, o,
                                  IF o # o THEN ChildrenOfMoved(o, o) ELSE stat.children[o])
        /\ db.stat.inherited = Put(stat.inherited, rows, o, inherited)
    BY <2>7 DEF UpdatedAs
  <2> HIDE DEF inherited, level
  <2>4. indent = [q \in rows |-> indent[q]]
    BY ColumnsOfRows
  <2>5. Put(indent, rows, o, level) = indent
    BY <1>1, <1>4, <2>4 DEF Put
  <2>6. \A q \in rows : /\ db.stat.children[q] = stat.children[q]
                        /\ db.stat.inherited[q] = stat.inherited[q]
    BY <1>1, <2>1, <2>3 DEF Put
  <2> QED
    BY <1>3, <2>3, <2>5, <2>6
<1>6. \A q \in rows \ {o} : db.plan[q] = plan[q]
  BY <1>1, <1>3, <1>5 DEF Put
<1>7. db.plan[o] = attrs
  BY <1>1, <1>3, <1>5 DEF Put
<1>8. IsDatabase(db)
  BY <1>5 DEF RowsAreFinite
<1>9. indent' = [q \in rows' |-> indent'[q]]
  BY <1>2 DEF PlanInv, PlanTypeOK
<1> HIDE DEF db, level, R
<1>10. ASSUME NEW q \in rows, o \notin Parent(rows, q) \/ attrs.tags = plan[o].tags
       PROVE  Settled(db, q)
  <2>1. \A y \in Parent(rows, q) : y \in rows
    BY ParentAbove
  <2>2. ASSUME NEW y \in Parent(rows, q)
        PROVE  db.plan[y].tags = plan[y].tags /\ db.stat.inherited[y] = stat.inherited[y]
    BY <1>5, <1>6, <1>7, <1>10, <2>1
  <2>3. db.stat.inherited[q] = TagsFrom(Parent(rows, q))
    BY <1>5, ColumnsOfRows
  <2> QED
    BY <1>1, <1>5, <2>1, <2>2, <2>3, SettledAsBefore
<1>11. Unsettled(db, rows) \subseteq Kids(rows, rows, o)
  <2> SUFFICES ASSUME NEW q \in rows, Parent(rows, q) # {o} PROVE Settled(db, q)
    BY <1>5 DEF Unsettled, Kids
  <2>1. o \notin Parent(rows, q)
    BY <1>1, ParentUnique
  <2> QED
    BY <1>10, <2>1
<1>12. rows \subseteq Counted(db, rows)
  BY <1>5, ColumnsOfRows DEF Counted
<1>13. CASE AfterUpdateFires(Watched(Database, o), Watched(db, o))
  <2>1. stat' = d.stat
    BY <1>3, <1>13 DEF StatAfterUpdate, db
  <2>2. Depths(db, rows)
    BY <1>5, ColumnsOfRows DEF Depths
  <2>3. PICK old : old = RowRecord(Database, o)
    OBVIOUS
  <2>4. old.prefix = o
    BY <2>3 DEF RowRecord
  <2>5. d = AfterUpdate(db, old, o)
    BY <2>3
  <2> HIDE DEF d
  <2>6. Unsettled(d, rows) = {} /\ Counted(db, rows) \subseteq Counted(d, rows)
    BY <1>1, <1>5, <1>8, <1>11, <2>2, <2>4, <2>5, AfterUpdateSettles
  <2>7. RowsAreFinite(d) /\ d.plan = plan' /\ Rows(d) = rows
    BY <1>5, <1>8, <2>5, AfterUpdateIs
  <2> QED
    BY <1>1, <1>9, <1>12, <2>1, <2>6, <2>7, CorrectAfter
<1>14. CASE ~ AfterUpdateFires(Watched(Database, o), Watched(db, o))
  <2>1. stat' = db.stat
    BY <1>3, <1>14 DEF StatAfterUpdate, db
  <2>2. [Watched(Database, o) EXCEPT !.node = Watched(db, o).node] = Watched(db, o)
    BY <1>14 DEF AfterUpdateFires
  <2>3. Watched(Database, o).tags = plan[o].tags
    BY DEF Watched, Database
  <2>4. Watched(db, o).tags = attrs.tags
    BY <1>7 DEF Watched
  <2>5. Watched(db, o).tags = Watched(Database, o).tags
    BY <2>2 DEF Watched
  <2>6. Unsettled(db, rows) = {}
    BY <1>5, <1>10, <2>3, <2>4, <2>5 DEF Unsettled
  <2> QED
    BY <1>1, <1>5, <1>8, <1>9, <1>12, <2>1, <2>6, CorrectAfter
<1> QED
  BY <1>13, <1>14

-----------------------------------------------------------------------------
\* The table without the rows S, before any trigger has run.
Bereft(S) ==
  [plan |-> Keep(plan, rows \ S), indent |-> Keep(indent, rows \ S),
   stat |-> [stat EXCEPT !.children = Keep(@, rows \ S), !.used = Keep(@, rows \ S),
                         !.inherited = Keep(@, rows \ S)]]

LEMMA BereftIs ==
  ASSUME StoredInv, NEW S \in SUBSET rows
  PROVE  /\ RowsAreFinite(Bereft(S)) /\ Rows(Bereft(S)) = rows \ S
         /\ Bereft(S).plan = Keep(plan, rows \ S)
         /\ Bereft(S).stat.pool = stat.pool /\ Bereft(S).stat.vrf = stat.vrf
         /\ \A q \in rows \ S :
              /\ Bereft(S).plan[q] = plan[q] /\ Bereft(S).indent[q] = indent[q]
              /\ Bereft(S).stat.children[q] = stat.children[q]
              /\ Bereft(S).stat.inherited[q] = stat.inherited[q]
              /\ Bereft(S).stat.used[q] = stat.used[q]
<1> DEFINE R == rows \ S
           d == Bereft(S)
           given == [children |-> Keep(stat.children, R), used |-> Keep(stat.used, R),
                     inherited |-> Keep(stat.inherited, R),
                     vrf |-> stat.vrf, pool |-> stat.pool]
<1>1. rows \in SUBSET Prefix /\ IsStat(rows, stat)
  BY StoredRows
<1>2. d.stat = given
  BY <1>1 DEF Bereft, IsStat
<1>3. /\ d.plan = Keep(plan, R) /\ d.indent = Keep(indent, R)
      /\ d = [plan |-> d.plan, indent |-> d.indent, stat |-> d.stat]
  BY DEF Bereft
<1>4. Rows(d) = R
  BY <1>3 DEF Rows, Keep
<1>5. IsStat(R, given)
  BY DEF IsStat, Keep
<1>6. \A q \in R : /\ given.children[q] = stat.children[q]
                   /\ given.inherited[q] = stat.inherited[q] /\ given.used[q] = stat.used[q]
  BY DEF Keep
<1>7. given.pool = stat.pool /\ given.vrf = stat.vrf
  OBVIOUS
<1> HIDE DEF given, d
<1>8. IsDatabase(d)
  BY <1>2, <1>3, <1>4, <1>5 DEF IsDatabase, Keep
<1>9. Cardinality(R) \in Nat
  BY <1>1, PrefixAssumption, FS_Subset, FS_CardinalityType
<1> QED
  BY <1>2, <1>3, <1>4, <1>6, <1>7, <1>8, <1>9 DEF RowsAreFinite, d, Keep

LEMMA StatOfDeletes ==
  ASSUME NEW S, IsFiniteSet(S)
  PROVE  \E f : Triggered("DELETE", Database, Bereft(S), S, f) /\ StatAfterDelete(S) = f[S].stat
<1> DEFINE f == CHOOSE g : Triggered("DELETE", Database, Bereft(S), S, g)
<1>1. Triggered("DELETE", Database, Bereft(S), S, f)
  BY TriggersExist
<1>2. StatAfterDelete(S) = f[S].stat
  BY DEF StatAfterDelete, FoldSet, MapThenFoldSet, Triggered, RowTrigger, Bereft, Last
<1> QED
  BY <1>1, <1>2

\* Every trigger takes the level of its own row from the rows inside, and finds the rows
\* right below another one among those that have lost all the levels they are to lose.
LEMMA DeleteKeepsColumns ==
  ASSUME ColumnInv, NEW S \in SUBSET rows, DeleteRows(S)
  PROVE  ColumnsCorrect'
<1> DEFINE R == rows \ S
           base == Bereft(S)
<1>1. /\ rows \in SUBSET Prefix /\ Rows(Database) = rows /\ CorrectColumns(Database)
      /\ Depths(Database, rows)
  BY ColumnsOfRows DEF ColumnInv, ColumnsCorrect, Depths, Database
<1>2. IsFiniteSet(S)
  BY <1>1, PrefixAssumption, FS_Subset
<1>3. PICK f : Triggered("DELETE", Database, base, S, f) /\ StatAfterDelete(S) = f[S].stat
  BY <1>2, StatOfDeletes
<1>4. Halfway(rows, R, {}, base)
  <2>1. RowsAreFinite(base) /\ Rows(base) = R
    BY ColumnsAreStored, BereftIs
  <2>2. ASSUME NEW q \in R
        PROVE  /\ base.plan[q] = Database.plan[q] /\ base.indent[q] = Database.indent[q]
               /\ base.stat.children[q] = Database.stat.children[q]
               /\ base.stat.inherited[q] = Database.stat.inherited[q]
    BY ColumnsAreStored, BereftIs DEF Database
  <2>3. PICK D : D = Database
    OBVIOUS
  <2>4. PICK Q \in SUBSET rows : Q = R
    OBVIOUS
  <2> HIDE DEF base, R
  <2> QED
    BY <1>1, <2>1, <2>2, <2>3, <2>4, DeleteBegins
<1>5. Halfway(rows, R, S, f[S])
  BY <1>1, <1>3, <1>4, DeletesSettle
<1>6. f[S].plan = plan'
  <2>1. base.plan = plan'
    BY ColumnsAreStored, BereftIs DEF DeleteRows
  <2>2. f[S].plan = base.plan
    <3> DEFINE G == {s \in SUBSET S : RowsAreFinite(f[s]) /\ f[s].plan = base.plan}
    <3>1. {} \in G
      BY <1>3, <1>4 DEF Triggered, RowTrigger, Halfway
    <3>2. ASSUME NEW s \in SUBSET S, s # {}, \A x \in s : s \ {x} \in G PROVE s \in G
      <4>1. f[s] = AfterDelete(f[s \ {Last(s)}], RowRecord(Database, Last(s)))
        BY <1>3, <3>2 DEF Triggered, RowTrigger
      <4>2. PICK e : e = f[s \ {Last(s)}]
        OBVIOUS
      <4>3. RowsAreFinite(e) /\ e.plan = base.plan
        <5>1. Last(s) \in s
          BY <3>2 DEF Last
        <5> QED
          BY <3>2, <4>2, <5>1
      <4> HIDE DEF base
      <4>4. PICK old : old = RowRecord(Database, Last(s))
        OBVIOUS
      <4>5. f[s] = AfterDelete(e, old)
        BY <4>1, <4>2, <4>4
      <4>6. RowsAreFinite(AfterDelete(e, old)) /\ AfterDelete(e, old).plan = e.plan
        BY <4>3, AfterDeleteIs
      <4> QED
        BY <3>2, <4>3, <4>5, <4>6
    <3> HIDE DEF G
    <3>3. S \in G
      BY <1>2, <3>1, <3>2, BySubsets
    <3> QED
      BY <3>3 DEF G
  <2> QED
    BY <2>1, <2>2
<1>7. stat' = f[S].stat /\ indent' = [q \in rows' |-> indent'[q]]
  <2>1. rows' = R
    BY DEF DeleteRows, Keep, rows
  <2> QED
    BY <1>3, <2>1 DEF DeleteRows
<1>8. /\ RowsAreFinite(f[S]) /\ Rows(f[S]) = R /\ Unsettled(f[S], R) = {}
      /\ R \subseteq Counted(f[S], R)
  BY <1>5 DEF Halfway
<1> QED
  BY <1>1, <1>6, <1>7, <1>8, CorrectAfter

\* A removal is one DELETE.
LEMMA RemovalDeletes ==
  ASSUME NEW p \in Prefix, RemovePrefix(p) \/ RemoveHosts(p) \/ RemoveRest(p)
  PROVE  \E S \in SUBSET rows : DeleteRows(S)
<1>1. CASE RemovePrefix(p)
  BY <1>1 DEF RemovePrefix
<1>2. CASE RemoveHosts(p)
  <2>1. {q \in Subtree(p) : plan[q].type = "host"} \in SUBSET rows
    BY DEF Subtree
  <2> QED
    BY <1>2, <2>1 DEF RemoveHosts
<1>3. CASE RemoveRest(p)
  <2>1. Subtree(p) \in SUBSET rows
    BY DEF Subtree
  <2> QED
    BY <1>3, <2>1 DEF RemoveRest
<1> QED
  BY <1>1, <1>2, <1>3

LEMMA ColumnStep == ColumnInv /\ [StableNext]_vars => ColumnInv'
<1> SUFFICES ASSUME ColumnInv, [StableNext]_vars PROVE ColumnInv'
  OBVIOUS
<1>1. PlanInv'
  BY NextStep DEF ColumnInv, Next
<1>2. rows \in SUBSET Prefix
  BY ColumnsOfRows
<1>3. ASSUME NEW p \in Prefix, NEW attrs \in RowAttrs, AddPrefix(p, attrs)
      PROVE  ColumnsCorrect'
  BY <1>3, AddKeepsColumns
<1>4. ASSUME NEW p \in rows, NEW attrs \in RowAttrs, EditPrefix(p, attrs)
      PROVE  ColumnsCorrect'
  BY <1>2, <1>4, EditKeepsColumns
<1>5. ASSUME NEW S \in SUBSET rows, DeleteRows(S)
      PROVE  ColumnsCorrect'
  BY <1>5, DeleteKeepsColumns
<1>6. ASSUME NEW p \in Prefix, RemovePrefix(p) \/ RemoveHosts(p) \/ RemoveRest(p)
      PROVE  ColumnsCorrect'
  BY <1>5, <1>6, RemovalDeletes
<1>7. ASSUME plan' = plan, indent' = indent, stat' = stat
      PROVE  ColumnsCorrect'
  BY <1>7, Zenon DEF ColumnInv, ColumnsCorrect, Database
<1>8. ColumnsCorrect'
  <2>1. CASE StableNext
    BY <1>3, <1>4, <1>6, <1>7, <2>1 DEF StableNext, RemoveRestFails
  <2>2. CASE UNCHANGED vars
    BY <1>7, <2>2 DEF vars
  <2> QED
    BY <2>1, <2>2
<1> QED
  BY <1>1, <1>8 DEF ColumnInv

LEMMA ColumnsFromTheStart == Init => ColumnInv
<1> SUFFICES ASSUME Init PROVE ColumnInv
  OBVIOUS
<1>1. rows = {} /\ Rows(Database) = {}
  BY DEF Init, rows, Rows, Database
<1>2. IsDatabase(Database)
  <2>1. stat.children = <<>> /\ stat.used = <<>> /\ stat.inherited = <<>> /\ indent = <<>>
    BY DEF Init, NoStat
  <2>2. IsStat({}, stat)
    BY <2>1 DEF IsStat, Init, NoStat
  <2>3. /\ Database = [plan |-> Database.plan, indent |-> Database.indent,
                       stat |-> Database.stat]
        /\ Database.stat = stat /\ Database.indent = <<>>
    BY <2>1 DEF Database
  <2>4. <<>> = [q \in {} |-> (<<>>)[q]]
    OBVIOUS
  <2> HIDE DEF Database
  <2> QED
    BY <1>1, <2>2, <2>3, <2>4 DEF IsDatabase
<1> QED
  BY <1>1, <1>2, InitInv DEF ColumnInv, ColumnsCorrect, CorrectColumns, TagsFromAbove

LEMMA ColumnInvariance == SpecStable => []ColumnInv
BY ColumnsFromTheStart, ColumnStep, PTL DEF SpecStable

\* The triggers recount a row when a row comes or goes right below it, and find the rows
\* right below by the indent that other triggers are shifting meanwhile: the number they
\* leave in the column children is the number of direct sub-prefixes.
THEOREM ChildrenAreCounted == SpecStable => []ChildrenCorrect
BY ColumnInvariance, ColumnsAreCorrect, PTL

\* calc_tags hands the tags of a row to the rows right below it, whose triggers hand on
\* what changed: when a statement is done, every row has the tags of all rows above it.
THEOREM TagsAreInherited == SpecStable => []InheritedTagsCorrect
BY ColumnInvariance, ColumnsAreCorrect, PTL

-----------------------------------------------------------------------------
(* The members of pools and the addresses they have in total.               *)

\* The rows of each pool and family, P being the table.
MembersIn(P) == [a \in PoolAccounts |-> {q \in DOMAIN P : <<P[q].pool, Family(q)>> = a}]

IsPool(pool) ==
  pool = [a \in PoolAccounts |->
            [members |-> pool[a].members, usedPrefixes |-> pool[a].usedPrefixes,
             total |-> pool[a].total, used |-> pool[a].used]]

CountsMembers(pool, M) ==
  /\ IsPool(pool)
  /\ \A a \in PoolAccounts : /\ pool[a].members = Cardinality(M[a])
                             /\ pool[a].total = SumOfTotals(M[a])

\* N has the row p besides what M has.
OneMore(M, N, p, pool) ==
  \A a \in PoolAccounts : /\ M[a] \in SUBSET Prefix /\ p \notin M[a]
                          /\ N[a] = IF a = <<pool, Family(p)>> THEN M[a] \cup {p} ELSE M[a]

LEMMA OneMoreMember ==
  ASSUME NEW M, NEW N, NEW p \in Prefix, NEW pool, OneMore(M, N, p, pool),
         NEW a \in PoolAccounts
  PROVE  /\ Cardinality(M[a]) \in Nat /\ SumOfTotals(M[a]) \in Int /\ Total(p) \in Nat
         /\ a = <<pool, Family(p)>> =>
              /\ Cardinality(N[a]) = Cardinality(M[a]) + 1
              /\ SumOfTotals(N[a]) = SumOfTotals(M[a]) + Total(p)
         /\ a # <<pool, Family(p)>> =>
              /\ Cardinality(N[a]) = Cardinality(M[a])
              /\ SumOfTotals(N[a]) = SumOfTotals(M[a])
<1>1. PICK S \in SUBSET Prefix : S = M[a] /\ p \notin S
  BY DEF OneMore
<1>2. N[a] = IF a = <<pool, Family(p)>> THEN S \cup {p} ELSE S
  BY <1>1 DEF OneMore
<1>3. IsFiniteSet(S)
  BY PrefixAssumption, FS_Subset
<1>4. Cardinality(S) \in Nat /\ Cardinality(S \cup {p}) = Cardinality(S) + 1
  BY <1>1, <1>3, FS_CardinalityType, FS_AddElement
<1>5. /\ SumOfTotals(S) \in Int /\ Total(p) \in Nat
      /\ SumOfTotals(S \cup {p}) = SumOfTotals(S) + Total(p)
  BY <1>1, SumOfOneMore
<1> QED
  BY <1>1, <1>2, <1>4, <1>5

\* An entry of a pool, and what an UPDATE of its columns makes of it.
Entry(m, u, t, v) == [members |-> m, usedPrefixes |-> u, total |-> t, used |-> v]
Changed4(e, m, u, t, v) ==
  [e EXCEPT !.members = m, !.usedPrefixes = u, !.total = t, !.used = v]
Changed2(e, u, v) == [e EXCEPT !.usedPrefixes = u, !.used = v]

LEMMA EntryIs ==
  ASSUME NEW e, e = Entry(e.members, e.usedPrefixes, e.total, e.used),
         NEW m, NEW u, NEW t, NEW v
  PROVE  /\ Changed4(e, m, u, t, v) = Entry(m, u, t, v)
         /\ Changed2(e, u, v) = Entry(e.members, u, e.total, v)
<1> DEFINE all == [e |-> Changed4(e, m, u, t, v)]
           two == [e |-> Changed2(e, u, v)]
<1>1. PICK em, eu, et, ev : e = Entry(em, eu, et, ev)
  OBVIOUS
<1>2. all.e = Entry(m, u, t, v)
  BY <1>1 DEF Entry, Changed4
<1>3. two.e = Entry(e.members, u, e.total, v)
  BY <1>1 DEF Entry, Changed2
<1> QED
  BY <1>2, <1>3

\* What MoveMember does to the two counters of an account.
LEMMA MoveMemberIs ==
  ASSUME NEW pool, IsPool(pool), NEW row, NEW sign
  PROVE  /\ IsPool(MoveMember(pool, row, sign))
         /\ \A a \in PoolAccounts :
              LET moves == row.pool # NoPool /\ a = <<row.pool, Family(row.prefix)>>
                  after == MoveMember(pool, row, sign)[a]
              IN  /\ moves => /\ after.members = pool[a].members + sign
                              /\ after.total = pool[a].total + sign * Total(row.prefix)
                  /\ ~ moves => /\ after.members = pool[a].members
                                /\ after.total = pool[a].total
<1>1. CASE row.pool = NoPool
  BY <1>1 DEF MoveMember
<1>2. CASE row.pool # NoPool
  <2> DEFINE account == <<row.pool, Family(row.prefix)>>
             given == [a \in PoolAccounts |->
               IF a = account
               THEN Entry(pool[a].members + sign, pool[a].usedPrefixes + sign * row.children,
                          pool[a].total + sign * Total(row.prefix),
                          pool[a].used + sign * row.used)
               ELSE pool[a]]
  <2>1. MoveMember(pool, row, sign) = given
    <3>1. pool = [a \in PoolAccounts |-> pool[a]]
      BY DEF IsPool
    <3>2. MoveMember(pool, row, sign)
            = [a \in PoolAccounts |->
                 IF a = account
                 THEN Changed4(pool[a], pool[a].members + sign,
                               pool[a].usedPrefixes + sign * row.children,
                               pool[a].total + sign * Total(row.prefix),
                               pool[a].used + sign * row.used)
                 ELSE pool[a]]
      BY <1>2, <3>1 DEF MoveMember, Changed4
    <3>3. \A a \in PoolAccounts :
            pool[a] = Entry(pool[a].members, pool[a].usedPrefixes, pool[a].total, pool[a].used)
      BY DEF IsPool, Entry
    <3> QED
      BY <3>2, <3>3, EntryIs
  <2> HIDE DEF account
  <2>2. IsPool(given)
    BY DEF IsPool, Entry
  <2> QED
    BY <1>2, <2>1, <2>2 DEF account, Entry
<1> QED
  BY <1>1, <1>2

LEMMA ChildChangesNothing ==
  ASSUME NEW pool, NEW M, CountsMembers(pool, M), NEW parentPool, NEW p, NEW sign
  PROVE  CountsMembers(MoveChild(pool, parentPool, p, sign), M)
<1>1. CASE parentPool = NoPool
  BY <1>1 DEF MoveChild
<1>2. CASE parentPool # NoPool
  <2> DEFINE account == <<parentPool, Family(p)>>
             given == [a \in PoolAccounts |->
               IF a = account
               THEN Entry(pool[a].members, pool[a].usedPrefixes + sign,
                          pool[a].total, pool[a].used + sign * Total(p))
               ELSE pool[a]]
  <2>1. MoveChild(pool, parentPool, p, sign) = given
    <3>1. pool = [a \in PoolAccounts |-> pool[a]]
      BY DEF IsPool, CountsMembers
    <3>2. MoveChild(pool, parentPool, p, sign)
            = [a \in PoolAccounts |->
                 IF a = account
                 THEN Changed2(pool[a], pool[a].usedPrefixes + sign,
                               pool[a].used + sign * Total(p))
                 ELSE pool[a]]
      BY <1>2, <3>1 DEF MoveChild, Changed2
    <3>3. \A a \in PoolAccounts :
            pool[a] = Entry(pool[a].members, pool[a].usedPrefixes, pool[a].total, pool[a].used)
      BY DEF IsPool, CountsMembers, Entry
    <3> QED
      BY <3>2, <3>3, EntryIs
  <2> HIDE DEF account
  <2>2. IsPool(given)
    BY DEF IsPool, CountsMembers, Entry
  <2> QED
    BY <2>1, <2>2 DEF CountsMembers, Entry
<1> QED
  BY <1>1, <1>2

LEMMA MemberComes ==
  ASSUME NEW pool, NEW M, NEW N, CountsMembers(pool, M), NEW row,
         row.prefix \in Prefix, OneMore(M, N, row.prefix, row.pool)
  PROVE  CountsMembers(MoveMember(pool, row, 1), N)
<1>1. \A a \in PoolAccounts : a[1] # NoPool
  BY PlanAssumption DEF PoolAccounts
<1>2. IsPool(MoveMember(pool, row, 1))
  BY MoveMemberIs DEF CountsMembers
<1>3. ASSUME NEW a \in PoolAccounts
      PROVE  /\ MoveMember(pool, row, 1)[a].members = Cardinality(N[a])
             /\ MoveMember(pool, row, 1)[a].total = SumOfTotals(N[a])
  <2> DEFINE after == MoveMember(pool, row, 1)[a]
  <2>1. pool[a].members = Cardinality(M[a]) /\ pool[a].total = SumOfTotals(M[a])
    BY DEF CountsMembers
  <2>2. IsPool(pool)
    BY DEF CountsMembers
  <2>3. CASE a = <<row.pool, Family(row.prefix)>>
    <3>1. row.pool # NoPool
      BY <1>1, <2>3
    <3>2. /\ after.members = pool[a].members + 1
          /\ after.total = pool[a].total + 1 * Total(row.prefix)
      BY <2>2, <2>3, <3>1, MoveMemberIs
    <3>3. /\ Cardinality(M[a]) \in Nat /\ SumOfTotals(M[a]) \in Int
          /\ Total(row.prefix) \in Nat
          /\ Cardinality(N[a]) = Cardinality(M[a]) + 1
          /\ SumOfTotals(N[a]) = SumOfTotals(M[a]) + Total(row.prefix)
      BY <2>3, OneMoreMember
    <3> HIDE DEF after
    <3> QED
      BY <2>1, <3>2, <3>3 DEF after
  <2>4. CASE a # <<row.pool, Family(row.prefix)>>
    <3>1. after.members = pool[a].members /\ after.total = pool[a].total
      BY <2>2, <2>4, MoveMemberIs
    <3>2. /\ Cardinality(N[a]) = Cardinality(M[a])
          /\ SumOfTotals(N[a]) = SumOfTotals(M[a])
      BY <2>4, OneMoreMember
    <3> QED
      BY <2>1, <3>1, <3>2
  <2> QED
    BY <2>3, <2>4
<1> QED
  BY <1>2, <1>3 DEF CountsMembers

LEMMA MemberGoes ==
  ASSUME NEW pool, NEW M, NEW N, CountsMembers(pool, M), NEW row,
         row.prefix \in Prefix, OneMore(N, M, row.prefix, row.pool)
  PROVE  CountsMembers(MoveMember(pool, row, -1), N)
<1>1. \A a \in PoolAccounts : a[1] # NoPool
  BY PlanAssumption DEF PoolAccounts
<1>2. IsPool(MoveMember(pool, row, -1))
  BY MoveMemberIs DEF CountsMembers
<1>3. ASSUME NEW a \in PoolAccounts
      PROVE  /\ MoveMember(pool, row, -1)[a].members = Cardinality(N[a])
             /\ MoveMember(pool, row, -1)[a].total = SumOfTotals(N[a])
  <2> DEFINE after == MoveMember(pool, row, -1)[a]
  <2>1. pool[a].members = Cardinality(M[a]) /\ pool[a].total = SumOfTotals(M[a])
    BY DEF CountsMembers
  <2>2. IsPool(pool)
    BY DEF CountsMembers
  <2>3. CASE a = <<row.pool, Family(row.prefix)>>
    <3>1. row.pool # NoPool
      BY <1>1, <2>3
    <3>2. /\ after.members = pool[a].members + (-1)
          /\ after.total = pool[a].total + (-1) * Total(row.prefix)
      BY <2>2, <2>3, <3>1, MoveMemberIs
    <3>3. /\ Cardinality(N[a]) \in Nat /\ SumOfTotals(N[a]) \in Int
          /\ Total(row.prefix) \in Nat
          /\ Cardinality(M[a]) = Cardinality(N[a]) + 1
          /\ SumOfTotals(M[a]) = SumOfTotals(N[a]) + Total(row.prefix)
      BY <2>3, OneMoreMember
    <3> HIDE DEF after
    <3> QED
      BY <2>1, <3>2, <3>3 DEF after
  <2>4. CASE a # <<row.pool, Family(row.prefix)>>
    <3>1. after.members = pool[a].members /\ after.total = pool[a].total
      BY <2>2, <2>4, MoveMemberIs
    <3>2. /\ Cardinality(M[a]) = Cardinality(N[a])
          /\ SumOfTotals(M[a]) = SumOfTotals(N[a])
      BY <2>4, OneMoreMember
    <3> QED
      BY <2>1, <3>1, <3>2
  <2> QED
    BY <2>3, <2>4
<1> QED
  BY <1>2, <1>3 DEF CountsMembers

-----------------------------------------------------------------------------
PoolsCounted == CountsMembers(stat.pool, MembersIn(plan))
PoolInv == PlanInv /\ Stored /\ PoolsCounted

LEMMA PoolsAreCounted == PoolInv => PoolMembersCorrect
BY DEF PoolInv, PoolsCounted, CountsMembers, MembersIn, PoolMembersCorrect, Members, rows

\* What a statement has left is what the table has afterwards.
LEMMA StoredAfter ==
  ASSUME NEW d, RowsAreFinite(d), d.plan = plan', d.stat = stat', PlanInv'
  PROVE  Stored'
<1> DEFINE e == [plan |-> plan', indent |-> indent', stat |-> stat']
<1>1. Rows(e) = Rows(d) /\ Rows(d) = rows' /\ e.plan = d.plan /\ e.stat = d.stat
  BY DEF Rows, rows
<1>2. indent' = [q \in rows' |-> indent'[q]]
  BY DEF PlanInv, PlanTypeOK
<1>3. IsDatabase(e)
  BY <1>1, <1>2 DEF IsDatabase, RowsAreFinite
<1> HIDE DEF e
<1> QED
  BY <1>3 DEF e, Database, Stored, IsDatabase, Rows

LEMMA AddCountsMembers ==
  ASSUME PoolInv, NEW p \in Prefix, NEW attrs \in RowAttrs, AddPrefix(p, attrs), PlanInv'
  PROVE  Stored' /\ PoolsCounted'
<1> DEFINE R == rows \cup {p}
           level == LevelBelow(indent, Parent(rows, p), 0)
           db == Inserted(p, attrs, level)
           d == AfterInsert(db, p)
           M == MembersIn(plan)
           N == MembersIn(plan')
           new == RowRecord(db, p)
<1>1. /\ p \notin rows /\ rows \in SUBSET Prefix /\ StoredInv
  BY StoredRows DEF AddPrefix, PoolInv, StoredInv
<1>2. plan' = Put(plan, R, p, attrs) /\ stat' = d.stat
  BY DEF AddPrefix, StatAfterInsert, Inserted
<1>3. CountsMembers(stat.pool, M)
  BY DEF PoolInv, PoolsCounted
<1> HIDE DEF db, d, level
<1>4. RowsAreFinite(db) /\ Rows(db) = R /\ db.plan = plan' /\ db.stat.pool = stat.pool
  BY <1>1, <1>2, InsertedIs DEF db
<1>5. PICK parentPool :
        /\ RowsAreFinite(d) /\ d.plan = plan'
        /\ d.stat.pool = MoveChild(MoveMember(stat.pool, new, 1), parentPool, p, 1)
  BY <1>4, AfterInsertIs DEF d
<1>6. new.prefix = p /\ new.pool = attrs.pool
  BY <1>2, <1>4 DEF RowRecord, Put
<1>7. OneMore(M, N, p, attrs.pool)
  BY <1>1, <1>2 DEF OneMore, MembersIn, Put, rows
<1> HIDE DEF M, N, new
<1>8. CountsMembers(MoveMember(stat.pool, new, 1), N)
  BY <1>3, <1>6, <1>7, MemberComes
<1>9. CountsMembers(stat'.pool, N)
  BY <1>2, <1>5, <1>8, ChildChangesNothing
<1>10. Stored'
  BY <1>2, <1>5, StoredAfter
<1> QED
  BY <1>9, <1>10 DEF PoolsCounted, N

\* A row that stays in its pool and keeps its prefix is not counted again; any other
\* goes as what it was and comes as what it is.
LEMMA MovePoolsCounts ==
  ASSUME NEW pool, NEW M, NEW L, NEW N, CountsMembers(pool, M),
         NEW old, NEW new, old.prefix \in Prefix, new.prefix \in Prefix,
         OneMore(L, M, old.prefix, old.pool), OneMore(L, N, new.prefix, new.pool),
         NEW oldPool, NEW newPool
  PROVE  CountsMembers(MovePools(pool, old, new, oldPool, newPool), N)
<1> DEFINE moved == old.prefix # new.prefix
           members == IF moved \/ old.pool # new.pool
                      THEN MoveMember(MoveMember(pool, old, -1), new, 1) ELSE pool
<1>1. CountsMembers(members, N)
  <2>1. CASE moved \/ old.pool # new.pool
    <3>1. CountsMembers(MoveMember(pool, old, -1), L)
      BY MemberGoes
    <3>2. CountsMembers(MoveMember(MoveMember(pool, old, -1), new, 1), N)
      BY <3>1, MemberComes
    <3> QED
      BY <2>1, <3>2
  <2>2. CASE ~ (moved \/ old.pool # new.pool)
    <3>1. \A a \in PoolAccounts : M[a] = N[a]
      BY <2>2 DEF OneMore
    <3> QED
      BY <2>2, <3>1 DEF CountsMembers
  <2> QED
    BY <2>1, <2>2
<1>2. MovePools(pool, old, new, oldPool, newPool)
        = IF moved THEN MoveChild(MoveChild(members, oldPool, old.prefix, -1),
                                  newPool, new.prefix, 1)
                   ELSE members
  BY DEF MovePools
<1> HIDE DEF members
<1>3. CountsMembers(MoveChild(MoveChild(members, oldPool, old.prefix, -1),
                              newPool, new.prefix, 1), N)
  BY <1>1, ChildChangesNothing
<1> QED
  BY <1>1, <1>2, <1>3

LEMMA UpdateCountsMembers ==
  ASSUME PoolInv, NEW o \in rows, NEW n \in Prefix, n = o \/ n \notin rows,
         NEW attrs \in RowAttrs, UpdateRow(o, n, attrs), PlanInv'
  PROVE  Stored' /\ PoolsCounted'
<1> DEFINE R == (rows \ {o}) \cup {n}
           level == NewLevel(o, n, attrs)
           db == Updated(o, n, attrs, level)
           old == RowRecord(Database, o)
           d == AfterUpdate(db, old, n)
           M == MembersIn(plan)
           N == MembersIn(plan')
           L == MembersIn(Keep(plan, rows \ {o}))
<1>1. rows \in SUBSET Prefix /\ o \in Prefix /\ StoredInv
  BY StoredRows DEF PoolInv, StoredInv
<1>2. plan' = Put(plan, R, n, attrs) /\ stat' = StatAfterUpdate(o, n, db)
  BY DEF UpdateRow
<1>3. CountsMembers(stat.pool, M)
  BY DEF PoolInv, PoolsCounted
<1> HIDE DEF db, d, level
<1>4. RowsAreFinite(db) /\ Rows(db) = R /\ db.plan = plan' /\ db.stat.pool = stat.pool
  <2>1. UpdatedAs(db, R, o, n, attrs, level)
    BY <1>1, UpdatedIs DEF db
  <2> QED
    BY <1>2, <2>1 DEF UpdatedAs
<1>5. OneMore(L, M, o, plan[o].pool) /\ OneMore(L, N, n, attrs.pool)
  BY <1>1, <1>2 DEF OneMore, MembersIn, Put, Keep, rows
<1>6. CASE AfterUpdateFires(Watched(Database, o), Watched(db, n))
  <2>1. stat' = d.stat
    BY <1>2, <1>6 DEF StatAfterUpdate, d
  <2>2. old.prefix = o /\ old.pool = plan[o].pool
    BY DEF RowRecord, Database
  <2>3. PICK new : new = RowRecord(db, n)
    OBVIOUS
  <2>4. new.prefix = n /\ new.pool = attrs.pool
    BY <1>2, <1>4, <2>3 DEF RowRecord, Put
  <2> HIDE DEF old, L, M, N
  <2>5. PICK oldPool, newPool :
          /\ RowsAreFinite(d) /\ d.plan = plan'
          /\ d.stat.pool = MovePools(stat.pool, old, new, oldPool, newPool)
    BY <1>4, <2>3, AfterUpdateIs DEF d
  <2>6. CountsMembers(stat'.pool, N)
    BY <1>1, <1>3, <1>5, <2>1, <2>2, <2>4, <2>5, MovePoolsCounts
  <2>7. Stored'
    BY <2>1, <2>5, StoredAfter
  <2> QED
    BY <2>6, <2>7 DEF PoolsCounted, N
<1>7. CASE ~ AfterUpdateFires(Watched(Database, o), Watched(db, n))
  <2>1. stat' = db.stat
    BY <1>2, <1>7 DEF StatAfterUpdate
  <2>2. [Watched(Database, o) EXCEPT !.node = Watched(db, n).node] = Watched(db, n)
    BY <1>7 DEF AfterUpdateFires
  <2>3. /\ Watched(Database, o).pool = plan[o].pool /\ Watched(Database, o).prefix = o
        /\ Watched(db, n).pool = attrs.pool /\ Watched(db, n).prefix = n
    BY <1>2, <1>4 DEF Watched, Database, Put
  <2>4. /\ Watched(Database, o).pool = Watched(db, n).pool
        /\ Watched(Database, o).prefix = Watched(db, n).prefix
    BY <2>2 DEF Watched
  <2>5. \A a \in PoolAccounts : N[a] = M[a]
    BY <1>5, <2>3, <2>4 DEF OneMore
  <2> HIDE DEF M, N
  <2>6. CountsMembers(stat'.pool, N)
    BY <1>3, <1>4, <2>1, <2>5 DEF CountsMembers
  <2>7. Stored'
    BY <1>4, <2>1, StoredAfter
  <2> QED
    BY <2>6, <2>7 DEF PoolsCounted, N
<1> QED
  BY <1>6, <1>7

LEMMA MembersLeft ==
  ASSUME PoolInv, NEW S \in SUBSET rows
  PROVE  \E d : /\ StatAfterDelete(S) = d.stat
                /\ RowsAreFinite(d) /\ d.plan = Keep(plan, rows \ S)
                /\ CountsMembers(d.stat.pool, MembersIn(Keep(plan, rows \ S)))
<1> DEFINE base == Bereft(S)
<1>1. rows \in SUBSET Prefix /\ StoredInv
  BY StoredRows DEF PoolInv, StoredInv
<1>2. IsFiniteSet(S)
  BY <1>1, PrefixAssumption, FS_Subset
<1>3. PICK f : Triggered("DELETE", Database, base, S, f) /\ StatAfterDelete(S) = f[S].stat
  BY <1>2, StatOfDeletes
<1>4. RowsAreFinite(base) /\ base.plan = Keep(plan, rows \ S) /\ base.stat.pool = stat.pool
  BY <1>1, BereftIs
<1> HIDE DEF base
<1> DEFINE G == {s \in SUBSET S : /\ RowsAreFinite(f[s]) /\ f[s].plan = base.plan
                                  /\ CountsMembers(f[s].stat.pool,
                                                   MembersIn(Keep(plan, rows \ s)))}
<1>5. {} \in G
  <2>1. f[{}] = base
    BY <1>3 DEF Triggered, RowTrigger
  <2>2. MembersIn(Keep(plan, rows \ {})) = MembersIn(plan)
    BY DEF MembersIn, Keep, rows
  <2> QED
    BY <1>4, <2>1, <2>2 DEF PoolInv, PoolsCounted
<1>6. ASSUME NEW s \in SUBSET S, s # {}, \A x \in s : s \ {x} \in G PROVE s \in G
  <2> DEFINE p == Last(s)
             M == MembersIn(Keep(plan, rows \ (s \ {p})))
             N == MembersIn(Keep(plan, rows \ s))
  <2>1. p \in s /\ p \in rows /\ p \in Prefix
    BY <1>1, <1>6 DEF Last
  <2>2. PICK e : e = f[s \ {p}]
    OBVIOUS
  <2>3. PICK old : old = RowRecord(Database, p)
    OBVIOUS
  <2>4. f[s] = AfterDelete(e, old)
    BY <1>3, <1>6, <2>2, <2>3 DEF Triggered, RowTrigger
  <2>5. RowsAreFinite(e) /\ e.plan = base.plan /\ CountsMembers(e.stat.pool, M)
    BY <1>6, <2>1, <2>2
  <2>6. old.prefix = p /\ old.pool = plan[p].pool
    BY <2>3 DEF RowRecord, Database
  <2> HIDE DEF p
  <2>7. OneMore(N, M, p, plan[p].pool)
    BY <1>1, <2>1 DEF OneMore, MembersIn, Keep, rows
  <2> HIDE DEF M, N
  <2>8. /\ RowsAreFinite(f[s]) /\ f[s].plan = e.plan
        /\ f[s].stat.pool = MoveChild(MoveMember(e.stat.pool, old, -1),
                                      PoolOf(e.plan, Parent(Rows(e), old.prefix)),
                                      old.prefix, -1)
    <3>1. /\ RowsAreFinite(AfterDelete(e, old)) /\ AfterDelete(e, old).plan = e.plan
          /\ AfterDelete(e, old).stat.pool
               = MoveChild(MoveMember(e.stat.pool, old, -1),
                           PoolOf(e.plan, Parent(Rows(e), old.prefix)), old.prefix, -1)
      BY <2>5, AfterDeleteIs
    <3> QED
      BY <2>4, <3>1
  <2>9. CountsMembers(MoveMember(e.stat.pool, old, -1), N)
    BY <2>1, <2>5, <2>6, <2>7, MemberGoes
  <2>10. CountsMembers(f[s].stat.pool, N)
    BY <2>8, <2>9, ChildChangesNothing
  <2> QED
    BY <1>6, <2>5, <2>8, <2>10 DEF N
<1> HIDE DEF G
<1>7. S \in G
  BY <1>2, <1>5, <1>6, BySubsets
<1>8. /\ RowsAreFinite(f[S]) /\ f[S].plan = Keep(plan, rows \ S)
      /\ CountsMembers(f[S].stat.pool, MembersIn(Keep(plan, rows \ S)))
  BY <1>4, <1>7 DEF G
<1> QED
  BY <1>3, <1>8

LEMMA DeleteCountsMembers ==
  ASSUME PoolInv, NEW S \in SUBSET rows, DeleteRows(S), PlanInv'
  PROVE  Stored' /\ PoolsCounted'
<1>1. PICK d : /\ StatAfterDelete(S) = d.stat
               /\ RowsAreFinite(d) /\ d.plan = Keep(plan, rows \ S)
               /\ CountsMembers(d.stat.pool, MembersIn(Keep(plan, rows \ S)))
  BY MembersLeft
<1>2. stat' = d.stat /\ d.plan = plan'
  BY <1>1 DEF DeleteRows
<1>3. Stored'
  BY <1>1, <1>2, StoredAfter
<1> QED
  BY <1>1, <1>2, <1>3 DEF PoolsCounted

LEMMA PoolsFromTheStart == Init => PoolInv
<1> SUFFICES ASSUME Init PROVE PoolInv
  OBVIOUS
<1>1. PlanInv /\ Stored
  BY ColumnsFromTheStart, ColumnsAreStored DEF StoredInv, ColumnInv
<1>2. \A a \in PoolAccounts : MembersIn(plan)[a] = {}
  BY DEF Init, MembersIn
<1>3. Cardinality({}) = 0 /\ SumOfTotals({}) = 0
  BY FS_EmptySet, SumOfNothing
<1>4. stat.pool = NoStat.pool
  BY DEF Init
<1>5. IsPool(stat.pool)
  BY <1>4 DEF IsPool, NoStat
<1>6. \A a \in PoolAccounts : stat.pool[a].members = 0 /\ stat.pool[a].total = 0
  BY <1>4 DEF NoStat
<1> QED
  BY <1>1, <1>2, <1>3, <1>5, <1>6 DEF PoolInv, PoolsCounted, CountsMembers

LEMMA MembersStep == PoolInv /\ [Next]_vars => PoolInv'
<1> SUFFICES ASSUME PoolInv, [Next]_vars PROVE PoolInv'
  OBVIOUS
<1>1. PlanInv'
  BY NextStep DEF PoolInv
<1>2. rows \in SUBSET Prefix
  BY StoredRows DEF PoolInv, StoredInv
<1>3. ASSUME NEW p \in Prefix, NEW attrs \in RowAttrs, AddPrefix(p, attrs)
      PROVE  Stored' /\ PoolsCounted'
  BY <1>1, <1>3, AddCountsMembers
<1>4. ASSUME NEW p \in rows, NEW attrs \in RowAttrs, EditPrefix(p, attrs)
      PROVE  Stored' /\ PoolsCounted'
  BY <1>1, <1>2, <1>4, UpdateCountsMembers DEF EditPrefix
<1>5. ASSUME NEW o \in Prefix, NEW n \in Prefix, NEW attrs \in RowAttrs, Renumber(o, n, attrs)
      PROVE  Stored' /\ PoolsCounted'
  BY <1>1, <1>5, UpdateCountsMembers DEF Renumber
<1>6. ASSUME NEW S \in SUBSET rows, DeleteRows(S)
      PROVE  Stored' /\ PoolsCounted'
  BY <1>1, <1>6, DeleteCountsMembers
<1>7. ASSUME NEW p \in Prefix, RemovePrefix(p) \/ RemoveHosts(p) \/ RemoveRest(p)
      PROVE  Stored' /\ PoolsCounted'
  BY <1>6, <1>7, RemovalDeletes
<1>8. ASSUME plan' = plan, indent' = indent, stat' = stat
      PROVE  Stored' /\ PoolsCounted'
  BY <1>8, Zenon DEF PoolInv, Stored, Database, PoolsCounted
<1>9. Stored' /\ PoolsCounted'
  <2>1. CASE Next
    BY <1>3, <1>4, <1>5, <1>7, <1>8, <2>1 DEF Next, StableNext, RemoveRestFails
  <2>2. CASE UNCHANGED vars
    BY <1>8, <2>2 DEF vars
  <2> QED
    BY <2>1, <2>2
<1> QED
  BY <1>1, <1>9 DEF PoolInv

\* The AFTER triggers take a member out of its pool as what it was and put it in as what
\* it is: the members of a pool, and their addresses, are those of the rows that have it,
\* whatever is added, edited, renumbered and removed.
THEOREM PoolMembersAreCounted == Spec => []PoolMembersCorrect
<1>1. Spec => []PoolInv
  BY PoolsFromTheStart, MembersStep, PTL DEF Spec
<1> QED
  BY <1>1, PoolsAreCounted, PTL

-----------------------------------------------------------------------------
(* The table implements the registry.                                      *)

Kind == [p \in rows |-> plan[p].type]

LEMMA DepthsOfRows == PlanInv => indent = Registry!Depths
<1> SUFFICES ASSUME PlanInv PROVE indent = Registry!Depths
  OBVIOUS
<1>1. Registry!Registered = rows
  BY DEF Registry!Registered
<1>2. \A p : Registry!Around(p) = Above(rows, p)
  BY <1>1 DEF Registry!Around, Above
<1>3. indent \in [rows -> Nat] /\ \A p \in rows : indent[p] = Cardinality(Above(rows, p))
  BY DEF PlanInv, PlanTypeOK, IndentCorrect
<1>4. \A S : Registry!Cardinality(S) = Cardinality(S)
  BY DEF Registry!Cardinality, Cardinality
<1>5. QED
  BY <1>1, <1>2, <1>3, <1>4 DEF Registry!Depths

LEMMA OrderOfRows ==
  ASSUME HostInv
  PROVE  Registry!Orderly
<1> SUFFICES ASSUME NEW p \in rows
             PROVE  IF plan[p].type = "host"
                    THEN \E q \in Above(rows, p) : plan[q].type = "assignment"
                    ELSE \A q \in Above(rows, p) : plan[q].type = "reservation"
  BY DEF Registry!Orderly, Registry!Around, Registry!Registered, Above
<1>1. CASE plan[p].type = "host"
  <2>1. PICK q \in Parent(rows, p) : plan[q].type = "assignment"
    BY <1>1 DEF HostInv, HostsUnderAssignment
  <2>2. q \in Above(rows, p)
    BY DEF Parent
  <2>3. QED
    BY <1>1, <2>1, <2>2
<1>2. CASE plan[p].type # "host"
  BY <1>2 DEF HostInv, PlanInv, NestingCorrect
<1>3. QED
  BY <1>1, <1>2

LEMMA InitMaps ==
  ASSUME Init
  PROVE  Registry!Init
<1>1. rows = {}
  BY DEF Init, rows
<1>2. [p \in rows |-> plan[p].type] = <<>>
  BY <1>1
<1>3. QED
  BY <1>2 DEF Init, Registry!Init

\* What is left to show of a step: it registers, retypes or withdraws, or it leaves
\* types alone.
LEMMA StepMaps ==
  ASSUME HostInv, HostInv', Registry!Orderly',
         indent = Registry!Depths, indent' = Registry!Depths',
         \/ Kind' = Kind
         \/ \E p \in Prefix, t \in Types : Registry!Register(p, t) \/ Registry!Retype(p, t)
         \/ \E S \in SUBSET rows : Registry!Withdraw(S)
  PROVE  [Registry!Next]_<<Kind, indent>>
<1>1. Registry!Registered = rows
  BY DEF Registry!Registered
<1>2. CASE Kind' = Kind
  <2>1. rows' = rows
    BY <1>2 DEF Kind
  <2>2. Registry!Depths' = Registry!Depths
    BY <2>1 DEF Registry!Depths, Registry!Around, Registry!Registered
  <2>3. QED
    BY <1>2, <2>2
<1>3. CASE \E p \in Prefix, t \in Types : Registry!Register(p, t) \/ Registry!Retype(p, t)
  BY <1>3 DEF Registry!Next, Types
<1>4. CASE \E S \in SUBSET rows : Registry!Withdraw(S)
  BY <1>1, <1>4 DEF Registry!Next
<1>5. QED
  BY <1>2, <1>3, <1>4

LEMMA AddMaps ==
  ASSUME NEW p \in Prefix, NEW attrs \in RowAttrs, AddPrefix(p, attrs)
  PROVE  Registry!Register(p, attrs.type)
<1>1. plan' = [q \in rows \cup {p} |-> IF q = p THEN attrs ELSE plan[q]] /\ p \notin rows
  BY DEF AddPrefix, Put
<1>2. rows' = rows \cup {p}
  BY <1>1 DEF rows
<1>3. Kind' = [q \in rows \cup {p} |-> IF q = p THEN attrs.type ELSE plan[q].type]
  BY <1>1, <1>2 DEF Kind
<1>4. Registry!Registered = rows
  BY DEF Registry!Registered
<1>5. QED
  BY <1>1, <1>3, <1>4 DEF Registry!Register, Kind

\* The rows inside are looked at only when the type changes; then there are none.
LEMMA EditMaps ==
  ASSUME PlanInv, NEW o \in Prefix, NEW attrs \in RowAttrs, EditPrefix(o, attrs)
  PROVE  Kind' = Kind \/ Registry!Retype(o, attrs.type)
<1>1. o \in rows /\ plan' = [q \in rows |-> IF q = o THEN attrs ELSE plan[q]]
  <2>1. (rows \ {o}) \cup {o} = rows
    BY DEF EditPrefix
  <2>2. QED
    BY <2>1 DEF EditPrefix, UpdateRow, Put
<1>2. rows' = rows
  BY <1>1 DEF rows
<1>3. Kind' = [q \in rows |-> IF q = o THEN attrs.type ELSE plan[q].type]
  BY <1>1, <1>2 DEF Kind
<1>4. CASE attrs.type = plan[o].type
  BY <1>3, <1>4 DEF Kind
<1>5. CASE attrs.type # plan[o].type
  <2>1. TypeChangeRules(o, o, attrs.type)
    BY <1>5 DEF EditPrefix, FullCheck
  <2>2. {plan[o].type, attrs.type} = {"reservation", "assignment"}
    BY <1>5, <2>1 DEF TypeChangeRules
  <2>3. \A q \in rows : ~ Covers(o, q)
    BY <1>5, <2>1 DEF TypeChangeRules, Inside
  <2>4. Registry!Registered = rows
    BY DEF Registry!Registered
  <2>5. Kind' = [Kind EXCEPT ![o] = attrs.type]
    BY <1>3 DEF Kind
  <2>6. QED
    BY <1>1, <2>2, <2>3, <2>4, <2>5 DEF Registry!Retype, Kind
<1>6. QED
  BY <1>4, <1>5

LEMMA DeleteMaps ==
  ASSUME NEW S \in SUBSET rows, DeleteRows(S)
  PROVE  Registry!Withdraw(S)
<1>1. plan' = [q \in rows \ S |-> plan[q]]
  BY DEF DeleteRows, Keep
<1>2. rows' = rows \ S
  BY <1>1 DEF rows
<1>3. Kind' = [q \in rows \ S |-> plan[q].type]
  BY <1>1, <1>2 DEF Kind
<1>4. Registry!Registered = rows
  BY DEF Registry!Registered
<1>5. QED
  BY <1>3, <1>4 DEF Registry!Withdraw, Kind

LEMMA ActionMaps ==
  ASSUME HostInv, [StableNext]_vars
  PROVE  \/ Kind' = Kind
         \/ \E p \in Prefix, t \in Types : Registry!Register(p, t) \/ Registry!Retype(p, t)
         \/ \E S \in SUBSET rows : Registry!Withdraw(S)
<1>1. rows \in SUBSET Prefix
  BY DEF HostInv, PlanInv, PlanTypeOK
<1>2. ASSUME NEW p \in Prefix, NEW attrs \in RowAttrs, AddPrefix(p, attrs)
      PROVE  \E q \in Prefix, t \in Types : Registry!Register(q, t)
  BY <1>2, AddMaps DEF RowAttrs
<1>3. ASSUME NEW o \in rows, NEW attrs \in RowAttrs, EditPrefix(o, attrs)
      PROVE  Kind' = Kind \/ \E q \in Prefix, t \in Types : Registry!Retype(q, t)
  BY <1>1, <1>3, EditMaps DEF RowAttrs, HostInv
<1>4. ASSUME NEW p \in Prefix, RemovePrefix(p)
      PROVE  \E S \in SUBSET rows : Registry!Withdraw(S)
  BY <1>4, DeleteMaps DEF RemovePrefix
<1>5. ASSUME NEW p \in Prefix, RemoveHosts(p)
      PROVE  \E S \in SUBSET rows : Registry!Withdraw(S)
  <2>1. {q \in Subtree(p) : plan[q].type = "host"} \in SUBSET rows
    BY DEF Subtree
  <2>2. QED
    BY <1>5, <2>1, DeleteMaps DEF RemoveHosts
<1>6. ASSUME NEW p \in Prefix, RemoveRest(p)
      PROVE  \E S \in SUBSET rows : Registry!Withdraw(S)
  <2>1. Subtree(p) \in SUBSET rows
    BY DEF Subtree
  <2>2. QED
    BY <1>6, <2>1, DeleteMaps DEF RemoveRest
<1>7. ASSUME NEW p \in Prefix, RemoveRestFails(p)
      PROVE  Kind' = Kind
  BY <1>7 DEF RemoveRestFails, Kind, rows
<1>8. CASE UNCHANGED vars
  BY <1>8 DEF vars, Kind, rows
<1>9. QED
  BY <1>2, <1>3, <1>4, <1>5, <1>6, <1>7, <1>8 DEF StableNext

\* Whatever the tables hold, the statements on prefixes other than renumbering do to
\* types and depths what the registry allows, and nothing else.
THEOREM RegistryIsImplemented == SpecStable => ImplementsRegistry
<1>1. Init => HostInv
  BY InitInv DEF HostInv, HostsUnderAssignment, PlanInv, Init, rows
<1>2. Init => Registry!Init
  BY InitMaps
<1> DEFINE Mapped == Registry!Orderly /\ indent = Registry!Depths
<1>3. HostInv => Mapped
  BY OrderOfRows, DepthsOfRows DEF HostInv
<1>4. HostInv' => Mapped'
  <2> HIDE DEF Mapped
  <2>1. QED
    BY <1>3, PTL
<1>5. HostInv /\ HostInv' /\ [StableNext]_vars => [Registry!Next]_<<Kind, indent>>
  BY <1>3, <1>4, ActionMaps, StepMaps
<1>6. HostInv /\ HostInv' /\ [StableNext]_vars
        => [Registry!Next]_<<[p \in rows |-> plan[p].type], indent>>
  BY <1>5 DEF Kind
<1>7. QED
  BY <1>1, <1>2, <1>6, StableStep, PTL DEF SpecStable, ImplementsRegistry, Registry!Spec

-----------------------------------------------------------------------------
(* VRFs and pools that come and go.                                        *)

\* ON DELETE SET NULL takes rows out of a pool and puts none into one.
LEMMA DetachKeepsPools ==
  ASSUME PoolInOneVrf, NEW S, plan' = Detached(S).plan
  PROVE  PoolInOneVrf'
<1>1. plan' = [q \in rows |-> IF q \in S THEN Detach(plan[q]) ELSE plan[q]]
  BY DEF Detached
<1>2. \A q \in rows : plan'[q].pool = plan[q].pool \/ plan'[q].pool = NoPool
  BY <1>1 DEF Detach
<1>3. rows' = rows
  BY <1>1 DEF rows
<1>4. QED
  BY <1>2, <1>3 DEF PoolInOneVrf

LEMMA LifePoolStep == PoolInOneVrf /\ [LifeNext]_lifeVars => PoolInOneVrf'
<1> SUFFICES ASSUME PoolInOneVrf, [LifeNext]_lifeVars PROVE PoolInOneVrf'
  OBVIOUS
<1>1. CASE PlanStep
  <2>1. CASE \E p \in Prefix, attrs \in RowAttrs : AddPrefix(p, attrs)
    BY <2>1, AddKeepsPools
  <2>2. CASE \E p \in rows, attrs \in RowAttrs : EditPrefix(p, attrs)
    BY <2>2, EditKeepsPools
  <2>3. CASE \E p \in Prefix : RemovePrefix(p)
    BY <2>3, DeleteKeepsPools DEF RemovePrefix, DeleteRows
  <2>4. QED
    BY <1>1, <2>1, <2>2, <2>3 DEF PlanStep
<1>2. ASSUME NEW pool \in Pool, RemovePool(pool)
      PROVE  PoolInOneVrf'
  BY <1>2, DetachKeepsPools DEF RemovePool
<1>3. ASSUME NEW v \in VRFs, EmptyVrf(v)
      PROVE  PoolInOneVrf'
  <2>1. PICK S : DeleteRows(S)
    BY <1>3 DEF EmptyVrf
  <2>2. QED
    BY <2>1, DeleteKeepsPools DEF DeleteRows
<1>4. ASSUME NEW v \in VRFs, DeleteVrf(v)
      PROVE  PoolInOneVrf'
  BY <1>4, DeleteKeepsPools DEF DeleteVrf
<1>5. CASE UNCHANGED plan
  BY <1>5 DEF PoolInOneVrf, rows
<1>6. QED
  BY <1>1, <1>2, <1>3, <1>4, <1>5
     DEF LifeNext, AddPool, AddVrf, StartRemoval, RemovalFails, vars, lifeVars

\* The VRF a pool implies is one VRF: while VRFs and pools are added and removed,
\* while removals of VRFs are half done, and after foreign keys have taken rows or
\* detached them.
THEOREM PoolsImplyOneVrf == LifeSpec => []PoolInOneVrf
<1>1. LifeInit => PoolInOneVrf
  BY DEF LifeInit, Init, PoolInOneVrf, rows
<1>2. QED
  BY <1>1, LifePoolStep, PTL DEF LifeSpec

-----------------------------------------------------------------------------
(* The members of pools.                                                   *)

\* Only the counters of VRFs or pools are set besides what triggers have left.
LEMMA StoredBesides ==
  ASSUME NEW d, RowsAreFinite(d), d.plan = plan', PlanInv',
         NEW vrf, NEW pool,
         stat' = [children |-> d.stat.children, used |-> d.stat.used,
                  inherited |-> d.stat.inherited, vrf |-> vrf, pool |-> pool]
  PROVE  Stored'
<1> DEFINE e == [plan |-> plan', indent |-> indent', stat |-> stat']
<1>1. Rows(e) = rows' /\ Rows(d) = rows' /\ e.plan = plan' /\ e.stat = stat'
  BY DEF Rows, rows
<1>2. IsStat(rows', stat')
  BY <1>1 DEF IsStat, IsDatabase, RowsAreFinite
<1>3. indent' = [q \in rows' |-> indent'[q]]
  BY DEF PlanInv, PlanTypeOK
<1>4. IsDatabase(e)
  BY <1>1, <1>2, <1>3 DEF IsDatabase
<1> HIDE DEF e
<1> QED
  BY <1>4 DEF e, Database, Stored, IsDatabase, Rows

\* The members of a pool that is removed stay what and where they are.
LEMMA DetachKeepsPlan ==
  ASSUME PlanInv, NEW pool \in Pool, RemovePool(pool)
  PROVE  PlanInv'
<1> DEFINE S == MembersOf(pool)
<1>1. rows \in SUBSET Prefix /\ S \in SUBSET rows
  BY DEF PlanInv, PlanTypeOK, MembersOf
<1>2. /\ plan' = [q \in rows |-> IF q \in S THEN Detach(plan[q]) ELSE plan[q]]
      /\ indent' = [q \in rows |-> IF q \in S THEN NewLevel(q, q, Detach(plan[q])) ELSE indent[q]]
      /\ display' = [q \in rows |-> IF q \in S
                                    THEN DisplayLen(rows \ {q}, q, plan[q].type) ELSE display[q]]
      /\ removing' = removing
  BY DEF RemovePool, Detached
<1> HIDE DEF S
<1>3. rows' = rows
  BY <1>2 DEF rows
<1>4. \A q \in rows : plan[q] \in RowAttrs
  BY DEF PlanInv, PlanTypeOK
<1>5. ASSUME NEW q \in rows
      PROVE  Detach(plan[q]) \in RowAttrs /\ Detach(plan[q]).type = plan[q].type
             /\ Detach(plan[q]).pool = NoPool
  BY <1>4 DEF Detach, RowAttrs
<1>6. ASSUME NEW q \in S
      PROVE  NewLevel(q, q, Detach(plan[q])) = indent[q]
  <2>1. FullCheck(q, q, Detach(plan[q]))
    BY <1>1, <1>5, <1>6, PlanAssumption DEF FullCheck, S, MembersOf
  <2>2. PICK T \in SUBSET Prefix : T = rows \ {q}
    BY <1>1
  <2>3. \A x \in T : Covers(x, q) => Above(T, x) = Above(rows, x)
    BY <1>1, <2>2, CoversStrict DEF Above
  <2>4. Above(T, q) = Above(rows, q)
    BY <1>1, <2>2, CoversStrict DEF Above
  <2>5. \A x \in T : Covers(x, q) => indent[x] = Cardinality(Above(T, x))
    BY <2>2, <2>3 DEF PlanInv, IndentCorrect
  <2>6. LevelBelow(indent, Parent(T, q), 0) = Cardinality(Above(T, q))
    BY <1>1, <2>5, LevelIsDepth
  <2>7. indent[q] = Cardinality(Above(rows, q))
    BY <1>1 DEF PlanInv, IndentCorrect
  <2> QED
    BY <2>1, <2>2, <2>4, <2>6, <2>7 DEF NewLevel
<1>7. indent' = indent
  <2>1. indent = [q \in rows |-> indent[q]]
    BY DEF PlanInv, PlanTypeOK
  <2>2. \A q \in rows : indent'[q] = indent[q]
    BY <1>2, <1>6
  <2> QED
    BY <1>2, <2>1, <2>2
<1>8. \A q \in rows : plan'[q].type = plan[q].type
  BY <1>2, <1>5
<1>9. NestingCorrect' /\ IndentCorrect'
  BY <1>3, <1>7, <1>8 DEF PlanInv, NestingCorrect, IndentCorrect, Above
<1>10. PlanTypeOK'
  <2>1. plan' \in [rows -> RowAttrs]
    BY <1>2, <1>4, <1>5
  <2>2. \A q \in rows : DisplayLen(rows \ {q}, q, plan[q].type) \in Nat
    BY <1>1, DisplayLenIsNat
  <2>3. display' \in [rows -> Nat]
    BY <1>2, <2>2 DEF PlanInv, PlanTypeOK
  <2> QED
    BY <1>2, <1>3, <1>7, <2>1, <2>3 DEF PlanInv, PlanTypeOK
<1> QED
  BY <1>9, <1>10 DEF PlanInv

LEMMA DetachedIs ==
  ASSUME StoredInv, NEW S
  PROVE  /\ RowsAreFinite(Detached(S)) /\ Rows(Detached(S)) = rows
         /\ Detached(S).stat.pool = stat.pool /\ Detached(S).stat.vrf = stat.vrf
         /\ \A q \in rows : Detached(S).stat.used[q] =
              IF q \in S /\ IsMaxLen(q) THEN Total(q) ELSE stat.used[q]
<1> DEFINE d == Detached(S)
           used == [q \in rows |-> IF q \in S /\ IsMaxLen(q) THEN Total(q) ELSE stat.used[q]]
           inherited == [q \in rows |-> IF q \in S THEN TagsFrom(Parent(rows \ {q}, q))
                                                   ELSE stat.inherited[q]]
           given == [children |-> stat.children, used |-> used, inherited |-> inherited,
                     vrf |-> stat.vrf, pool |-> stat.pool]
<1>1. IsStat(rows, stat) /\ Cardinality(rows) \in Nat
  BY StoredRows
<1>2. d.stat = given
  BY <1>1 DEF Detached, IsStat
<1>3. /\ d = [plan |-> d.plan, indent |-> d.indent, stat |-> d.stat]
      /\ d.plan = [q \in rows |-> IF q \in S THEN Detach(plan[q]) ELSE plan[q]]
      /\ d.indent = [q \in rows |-> IF q \in S THEN NewLevel(q, q, Detach(plan[q]))
                                               ELSE indent[q]]
  BY DEF Detached
<1>4. Rows(d) = rows
  BY <1>3 DEF Rows
<1>5. IsStat(rows, given)
  BY <1>1 DEF IsStat
<1>6. /\ given.pool = stat.pool /\ given.vrf = stat.vrf
      /\ \A q \in rows : given.used[q] = IF q \in S /\ IsMaxLen(q) THEN Total(q) ELSE stat.used[q]
  OBVIOUS
<1> HIDE DEF given, d
<1>7. IsDatabase(d)
  BY <1>2, <1>3, <1>4, <1>5 DEF IsDatabase
<1> QED
  BY <1>1, <1>2, <1>4, <1>6, <1>7 DEF RowsAreFinite, d

LEMMA StatOfDetach ==
  ASSUME NEW S, IsFiniteSet(S)
  PROVE  \E f : Triggered("UPDATE", Database, Detached(S), S, f) /\ StatAfterDetach(S) = f[S].stat
<1> DEFINE f == CHOOSE g : Triggered("UPDATE", Database, Detached(S), S, g)
<1>1. Triggered("UPDATE", Database, Detached(S), S, f)
  BY TriggersExist
<1>2. StatAfterDetach(S) = f[S].stat
  BY DEF StatAfterDetach, FoldSet, MapThenFoldSet, Triggered, RowTrigger, Last
<1> QED
  BY <1>1, <1>2

\* The members of pools when the triggers of the detached rows s have run.
Without(s) == [a \in PoolAccounts |-> MembersIn(plan)[a] \ s]

LEMMA DetachTakesMembers ==
  ASSUME PoolInv, NEW pool \in Pool, NEW S, S = MembersOf(pool)
  PROVE  \E d : /\ StatAfterDetach(S) = d.stat
                /\ RowsAreFinite(d) /\ d.plan = Detached(S).plan
                /\ CountsMembers(d.stat.pool, Without(S))
<1> DEFINE base == Detached(S)
<1>1. rows \in SUBSET Prefix /\ StoredInv
  BY StoredRows DEF PoolInv, StoredInv
<1>2. IsFiniteSet(S) /\ S \in SUBSET rows
  BY <1>1, PrefixAssumption, FS_Subset DEF MembersOf
<1>3. PICK f : Triggered("UPDATE", Database, base, S, f) /\ StatAfterDetach(S) = f[S].stat
  BY <1>2, StatOfDetach
<1>4. RowsAreFinite(base) /\ base.stat.pool = stat.pool
  BY <1>1, DetachedIs
<1>5. \A p \in S : base.plan[p].pool = NoPool /\ plan[p].pool = pool
  <2>1. \A p \in S : plan[p] \in RowAttrs
    BY <1>2 DEF PoolInv, PlanInv, PlanTypeOK
  <2>2. \A p \in S : base.plan[p] = Detach(plan[p])
    BY <1>2 DEF Detached
  <2>3. \A p \in S : plan[p].pool = pool
    BY DEF MembersOf
  <2> HIDE DEF base
  <2> QED
    BY <2>1, <2>2, <2>3 DEF Detach, RowAttrs
<1> HIDE DEF base
<1> DEFINE G == {s \in SUBSET S : /\ RowsAreFinite(f[s]) /\ f[s].plan = base.plan
                                  /\ CountsMembers(f[s].stat.pool, Without(s))}
<1>6. {} \in G
  <2>1. f[{}] = base
    BY <1>3 DEF Triggered
  <2>2. \A a \in PoolAccounts : Without({})[a] = MembersIn(plan)[a]
    BY DEF Without
  <2>3. CountsMembers(stat.pool, Without({}))
    BY <2>2 DEF PoolInv, PoolsCounted, CountsMembers
  <2> QED
    BY <1>4, <2>1, <2>3
<1>7. ASSUME NEW s \in SUBSET S, s # {}, \A x \in s : s \ {x} \in G PROVE s \in G
  <2> DEFINE p == Last(s)
             M == Without(s \ {p})
             N == Without(s)
  <2>1. p \in s /\ p \in S /\ p \in rows /\ p \in Prefix
    BY <1>1, <1>2, <1>7 DEF Last
  <2>2. PICK e : e = f[s \ {p}]
    OBVIOUS
  <2>3. PICK old : old = RowRecord(Database, p)
    OBVIOUS
  <2>4. f[s] = AfterUpdate(e, old, p)
    BY <1>3, <1>7, <2>2, <2>3 DEF Triggered, RowTrigger
  <2>5. RowsAreFinite(e) /\ e.plan = base.plan /\ CountsMembers(e.stat.pool, M)
    BY <1>7, <2>1, <2>2
  <2>6. old.prefix = p /\ old.pool = pool
    BY <1>5, <2>1, <2>3 DEF RowRecord, Database
  <2>7. PICK new : new = RowRecord(e, p)
    OBVIOUS
  <2>8. new.prefix = p /\ new.pool = NoPool
    BY <1>5, <2>1, <2>5, <2>7 DEF RowRecord
  <2> HIDE DEF p
  <2>9. OneMore(N, M, p, pool)
    BY <1>1, <1>2, <1>5, <2>1 DEF OneMore, Without, MembersIn, rows
  <2>10. OneMore(N, N, p, NoPool)
    BY <1>1, <1>2, <2>1, PlanAssumption DEF OneMore, Without, MembersIn, rows, PoolAccounts
  <2> HIDE DEF M, N
  <2>11. PICK oldPool, newPool :
           /\ RowsAreFinite(AfterUpdate(e, old, p)) /\ AfterUpdate(e, old, p).plan = e.plan
           /\ AfterUpdate(e, old, p).stat.pool
                = MovePools(e.stat.pool, old, new, oldPool, newPool)
    BY <2>5, <2>7, AfterUpdateIs
  <2>12. CountsMembers(MovePools(e.stat.pool, old, new, oldPool, newPool), N)
    BY <2>1, <2>5, <2>6, <2>8, <2>9, <2>10, MovePoolsCounts
  <2> QED
    BY <1>7, <2>4, <2>5, <2>11, <2>12 DEF N
<1> HIDE DEF G
<1>8. S \in G
  BY <1>2, <1>6, <1>7, BySubsets
<1> QED
  BY <1>3, <1>8 DEF G, base

LEMMA RemovePoolCountsMembers ==
  ASSUME PoolInv, NEW pool \in Pool, RemovePool(pool)
  PROVE  PoolInv'
<1> DEFINE S == MembersOf(pool)
           M == Without(S)
           N == MembersIn(plan')
<1>1. PlanInv'
  BY DetachKeepsPlan DEF PoolInv
<1>2. PICK d : /\ StatAfterDetach(S) = d.stat
               /\ RowsAreFinite(d) /\ d.plan = Detached(S).plan
               /\ CountsMembers(d.stat.pool, M)
  BY DetachTakesMembers
<1>3. /\ plan' = Detached(S).plan
      /\ stat' = [d.stat EXCEPT !.pool = ZeroPool(@, pool)]
  BY <1>2 DEF RemovePool
<1>4. /\ stat'.pool = ZeroPool(d.stat.pool, pool)
      /\ stat' = [children |-> d.stat.children, used |-> d.stat.used,
                  inherited |-> d.stat.inherited, vrf |-> d.stat.vrf,
                  pool |-> ZeroPool(d.stat.pool, pool)]
  BY <1>2, <1>3 DEF RowsAreFinite, IsDatabase, IsStat
<1>5. Stored'
  BY <1>1, <1>2, <1>3, <1>4, StoredBesides
<1>6. ASSUME NEW a \in PoolAccounts
      PROVE  N[a] = IF a[1] = pool THEN {} ELSE M[a]
  <2>1. plan' = [q \in rows |-> IF q \in S THEN Detach(plan[q]) ELSE plan[q]]
    BY <1>3 DEF Detached
  <2>2. \A q \in S : q \in rows /\ plan[q].pool = pool /\ plan[q] \in RowAttrs
    BY DEF MembersOf, PoolInv, PlanInv, PlanTypeOK
  <2>3. \A q \in S : Detach(plan[q]).pool = NoPool
    BY <2>2 DEF Detach, RowAttrs
  <2>4. \A q \in rows : q \notin S => plan[q].pool # pool
    BY DEF MembersOf
  <2>5. NoPool # a[1]
    BY PlanAssumption DEF PoolAccounts
  <2>6. DOMAIN plan' = rows /\ \A q \in rows : plan'[q].pool = IF q \in S THEN NoPool ELSE plan[q].pool
    BY <2>1, <2>3
  <2> HIDE DEF S
  <2>7. N[a] = {q \in rows : q \notin S /\ <<plan[q].pool, Family(q)>> = a}
    BY <2>5, <2>6 DEF MembersIn
  <2>8. M[a] = {q \in rows : q \notin S /\ <<plan[q].pool, Family(q)>> = a}
    BY DEF MembersIn, Without, rows
  <2> QED
    BY <2>4, <2>7, <2>8
<1>7. CountsMembers(stat'.pool, N)
  <2>1. IsPool(d.stat.pool)
    BY <1>2 DEF CountsMembers
  <2>2. DOMAIN d.stat.pool = PoolAccounts
    BY <2>1 DEF IsPool
  <2>3. \A a \in PoolAccounts : ZeroPool(d.stat.pool, pool)[a]
                                  = IF a[1] = pool THEN NoMembers ELSE d.stat.pool[a]
    BY <2>2 DEF ZeroPool
  <2>4. IsPool(ZeroPool(d.stat.pool, pool))
    BY <2>1, <2>2 DEF IsPool, ZeroPool, NoMembers
  <2>5. Cardinality({}) = 0 /\ SumOfTotals({}) = 0 /\ NoMembers.members = 0 /\ NoMembers.total = 0
    BY FS_EmptySet, SumOfNothing DEF NoMembers
  <2> HIDE DEF M, N
  <2> QED
    BY <1>2, <1>4, <1>6, <2>3, <2>4, <2>5 DEF CountsMembers
<1> QED
  BY <1>1, <1>5, <1>7 DEF PoolInv, PoolsCounted

\* ON DELETE CASCADE takes whole trees: no row outside the VRF has lost one above it.
LEMMA DeleteVrfKeepsPlan ==
  ASSUME PlanInv, NEW v \in VRFs, DeleteVrf(v)
  PROVE  PlanInv'
<1> DEFINE S == RowsOf(v)
<1>1. rows \in SUBSET Prefix /\ S \in SUBSET rows
  BY DEF PlanInv, PlanTypeOK, RowsOf
<1>2. \A q \in rows \ S : Above(S, q) = {} /\ indent[q] \in Nat
  BY <1>1, CoversAssumption DEF RowsOf, Above, PlanInv, PlanTypeOK
<1>3. \A q \in rows \ S : indent[q] - Cardinality(Above(S, q)) = indent[q]
  BY <1>2, FS_EmptySet
<1>4. indent' = [q \in rows \ S |-> indent[q] - Cardinality(Above(S, q))]
  BY <1>3 DEF DeleteVrf, Keep
<1>5. /\ plan' = Keep(plan, rows \ S) /\ display' = Keep(display, rows \ S)
      /\ removing' \subseteq Prefix
  BY DEF DeleteVrf, PlanInv, PlanTypeOK
<1> QED
  BY <1>1, <1>4, <1>5, DeleteStep

LEMMA DeleteVrfCountsMembers ==
  ASSUME PoolInv, NEW v \in VRFs, DeleteVrf(v)
  PROVE  PoolInv'
<1> DEFINE S == RowsOf(v)
<1>1. rows \in SUBSET Prefix /\ S \in SUBSET rows
  BY DEF PoolInv, PlanInv, PlanTypeOK, RowsOf
<1>2. PlanInv'
  BY DeleteVrfKeepsPlan DEF PoolInv
<1>3. PICK d : /\ StatAfterDelete(S) = d.stat
               /\ RowsAreFinite(d) /\ d.plan = Keep(plan, rows \ S)
               /\ CountsMembers(d.stat.pool, MembersIn(Keep(plan, rows \ S)))
  BY <1>1, MembersLeft
<1> DEFINE vrf == [a \in VrfAccounts |-> IF a[1] = v THEN NoStat.vrf[a] ELSE d.stat.vrf[a]]
<1>4. plan' = Keep(plan, rows \ S) /\ stat' = [d.stat EXCEPT !.vrf = vrf]
  BY <1>3 DEF DeleteVrf, Cascade
<1> HIDE DEF vrf
<1>5. /\ stat'.pool = d.stat.pool
      /\ stat' = [children |-> d.stat.children, used |-> d.stat.used,
                  inherited |-> d.stat.inherited, vrf |-> vrf, pool |-> d.stat.pool]
  BY <1>3, <1>4 DEF RowsAreFinite, IsDatabase, IsStat
<1>6. Stored'
  BY <1>2, <1>3, <1>4, <1>5, StoredBesides
<1> QED
  BY <1>2, <1>3, <1>4, <1>5, <1>6 DEF PoolInv, PoolsCounted

LEMMA LifeMembersStep == PoolInv /\ [LifeNext]_lifeVars => PoolInv'
<1> SUFFICES ASSUME PoolInv, [LifeNext]_lifeVars PROVE PoolInv'
  OBVIOUS
<1>1. CASE PlanStep
  <2>1. [Next]_vars
    BY <1>1 DEF PlanStep, Next, StableNext
  <2> QED
    BY <2>1, MembersStep
<1>2. ASSUME NEW v \in VRFs, EmptyVrf(v)
      PROVE  PoolInv'
  <2>1. PICK S \in SUBSET rows : DeleteRows(S) /\ removing' = removing
    BY <1>2 DEF EmptyVrf, RowsOf
  <2>2. PlanInv'
    BY <2>1, DeleteStep DEF DeleteRows, PoolInv, PlanInv, PlanTypeOK
  <2> QED
    BY <2>1, <2>2, DeleteCountsMembers DEF PoolInv
<1>3. CASE UNCHANGED vars
  BY <1>3, MembersStep
<1> QED
  BY <1>1, <1>2, <1>3, RemovePoolCountsMembers, DeleteVrfCountsMembers
     DEF LifeNext, AddPool, AddVrf, StartRemoval, RemovalFails, lifeVars

\* The members of a pool and their addresses are counted also while VRFs and pools come
\* and go: what a foreign key deletes or detaches goes through the triggers, and a pool
\* that is added again starts from nothing.
THEOREM PoolMembersStayCounted == LifeSpec => []PoolMembersCorrect
<1>1. LifeInit => PoolInv
  BY PoolsFromTheStart DEF LifeInit
<1>2. LifeSpec => []PoolInv
  BY <1>1, LifeMembersStep, PTL DEF LifeSpec
<1>3. QED
  BY <1>2, PoolsAreCounted, PTL

-----------------------------------------------------------------------------
(* The statistics of VRFs.                                                  *)

\* The books are even: the counters are what the rows come to.
Balanced(db) == Sound(db) /\ \A a \in Accounts, kind \in Kinds : Over(db, a, kind) = 0
VrfInv == PlanInv /\ Balanced(Database)

LEMMA BalancedIsStored ==
  ASSUME VrfInv
  PROVE  /\ StoredInv /\ Sound(Database) /\ Rows(Database) = rows
         /\ Database.indent = indent /\ Database.stat = stat /\ Database.plan = plan
         /\ rows \in SUBSET Prefix /\ \A q \in rows : stat.used[q] \in Int
<1>1. Sound(Database) /\ StoredInv
  BY DEF VrfInv, Balanced, Sound, RowsAreFinite, StoredInv, Stored
<1>2. Rows(Database) = rows /\ rows \in SUBSET Prefix
  BY <1>1, StoredRows
<1>3. Database.indent = indent /\ Database.stat = stat /\ Database.plan = plan
  BY DEF Database
<1>4. \A q \in rows : stat.used[q] \in Int
  BY <1>1, <1>2, <1>3 DEF Sound
<1> QED
  BY <1>1, <1>2, <1>3, <1>4

\* What a statement has left as far ahead as it found it is even afterwards.
LEMMA BalancedAfter ==
  ASSUME VrfInv, NEW d, AheadAs(Database, d), d.plan = plan', d.stat.vrf = stat'.vrf,
         d.stat.used = stat'.used, \A q \in rows' : d.indent[q] = indent'[q], PlanInv', Stored'
  PROVE  Balanced(Database)'
<1> DEFINE e == [plan |-> plan', indent |-> indent', stat |-> stat']
<1>1. /\ e.plan = plan' /\ e.indent = indent' /\ e.stat = stat'
      /\ Rows(e) = rows' /\ Rows(d) = rows'
  BY DEF Rows, rows
<1>2. IsDatabase(e)
  BY DEF Stored, Database, IsDatabase, Rows, IsStat
<1> HIDE DEF e
<1>3. Sound(d) /\ \A a \in Accounts, kind \in Kinds : Over(d, a, kind) = 0
  BY DEF AheadAs, VrfInv, Balanced
<1>4. Sound(e)
  BY <1>1, <1>2, <1>3 DEF Sound, RowsAreFinite
<1>5. AheadAs(d, e)
  BY <1>1, <1>3, <1>4, SameSheets
<1>6. Balanced(e)
  BY <1>3, <1>4, <1>5 DEF AheadAs, Balanced
<1> QED
  BY <1>6 DEF e, Database

LEMMA AddKeepsBalance ==
  ASSUME VrfInv, NEW p \in Prefix, NEW attrs \in RowAttrs, AddPrefix(p, attrs), PlanInv'
  PROVE  Balanced(Database)'
<1> DEFINE R == rows \cup {p}
           level == LevelBelow(indent, Parent(rows, p), 0)
           used == UsedOfInserted(p, level)
           db == Inserted(p, attrs, level)
           d == AfterInsert(db, p)
<1>1. /\ p \notin rows /\ rows \in SUBSET Prefix /\ StoredInv /\ Sound(Database)
      /\ Rows(Database) = rows /\ Database.indent = indent /\ Database.stat = stat
      /\ \A q \in rows : stat.used[q] \in Int
  BY BalancedIsStored DEF AddPrefix
<1>2. /\ plan' = Put(plan, R, p, attrs) /\ stat' = d.stat
      /\ indent' = ShiftIndent(R, CountIndent(R, Put(indent, R, p, level), p), p, 1)
  BY DEF AddPrefix, StatAfterInsert, Inserted
<1>3. used \in Int
  <2>1. {q \in Inside(rows, p) : indent[q] = level} \in SUBSET Prefix
    BY <1>1 DEF Inside
  <2>2. SumOfTotals({q \in Inside(rows, p) : indent[q] = level}) \in Int
    BY <2>1, SumOfRows
  <2> QED
    BY <2>2, TotalAssumption DEF UsedOfInserted
<1> HIDE DEF db, d, level, used
<1>4. /\ RowsAreFinite(db) /\ Rows(db) = R /\ db.plan = plan' /\ db.stat.vrf = stat.vrf
      /\ db.indent = Put(indent, R, p, level)
      /\ db.stat.used = Put(stat.used, R, p, used)
  BY <1>1, <1>2, InsertedIs DEF db, used
<1>5. /\ \A q \in rows : db.indent[q] = indent[q] /\ db.stat.used[q] = stat.used[q]
      /\ \A q \in R : db.stat.used[q] \in Int
  BY <1>1, <1>3, <1>4 DEF Put
<1>6. Sound(db)
  BY <1>1, <1>4, <1>5 DEF Sound
<1>7. OneRowMore(Database, db, p)
  BY <1>1, <1>4, <1>5, <1>6 DEF OneRowMore
<1>8. /\ Posted(db, d, VrfAccount(p), PartsOf(RowRecord(db, p)), Nothing)
      /\ d.indent = CalcIndent(db, p, 1).indent
  BY <1>4, <1>6, AfterInsertBooks DEF d
<1>9. AheadAs(Database, d)
  BY <1>7, <1>8, ComingBalances
<1>10. d.indent = indent'
  <2>1. CalcIndent(db, p, 1).indent
          = ShiftIndent(Rows(db), CountIndent(Rows(db), db.indent, p), p, 1)
    BY <1>4, CalcIndentFrame DEF RowsAreFinite
  <2> QED
    BY <1>2, <1>4, <1>8, <2>1
<1>11. RowsAreFinite(d) /\ d.plan = plan'
  BY <1>4, AfterInsertIs DEF d
<1>12. Stored'
  BY <1>2, <1>11, StoredAfter
<1> QED
  BY <1>2, <1>9, <1>10, <1>11, <1>12, BalancedAfter

LEMMA NewUsedIsInt ==
  ASSUME VrfInv, NEW o \in rows, NEW n \in Prefix, NEW attrs, NEW level
  PROVE  NewUsed(o, n, attrs, level) \in Int
<1>1. rows \in SUBSET Prefix /\ \A q \in rows : stat.used[q] \in Int
  BY BalancedIsStored
<1>2. Total(n) \in Int
  BY TotalAssumption
<1>3. UsedOfMoved(o, n, level) \in Int
  <2> DEFINE At(S, l) == {q \in S : indent[q] = l}
             others == Inside(rows, n) \ {o}
             counted == IF Covers(o, n)
                        THEN IF indent[o] = level THEN At(Inside(rows, n), level + 1)
                                                  ELSE At(Inside(rows, n), level)
                        ELSE IF Covers(n, o)
                        THEN IF indent[o] = level
                             THEN At(Inside(rows, o), indent[o] + 1) \cup At(others, level)
                             ELSE At(others, level)
                        ELSE At(Inside(rows, n), level)
  <2>1. Inside(rows, n) \in SUBSET Prefix /\ Inside(rows, o) \in SUBSET Prefix
    BY <1>1 DEF Inside
  <2>2. counted \in SUBSET Prefix
    BY <2>1
  <2>3. UsedOfMoved(o, n, level) = IF IsMaxLen(n) THEN Total(n) ELSE SumOfTotals(counted)
    BY DEF UsedOfMoved
  <2> HIDE DEF counted
  <2>4. SumOfTotals(counted) \in Int
    BY <2>2, SumOfRows
  <2> QED
    BY <1>2, <2>3, <2>4
<1> QED
  BY <1>1, <1>2, <1>3 DEF NewUsed

\* The two tables an UPDATE of o to n lies between differ in one row.
LEMMA UpdateReplaces ==
  ASSUME VrfInv, NEW o \in rows, NEW n \in Prefix, n = o \/ n \notin rows,
         NEW R, R = (rows \ {o}) \cup {n}, NEW attrs, NEW level,
         NEW db, UpdatedAs(db, R, o, n, attrs, level)
  PROVE  /\ Sound(db) /\ OneRowMore(Only(Database, rows \ {o}), Database, o)
         /\ OneRowMore(Only(Database, rows \ {o}), db, n)
<1>1. /\ Sound(Database) /\ Rows(Database) = rows /\ Database.indent = indent
      /\ Database.stat = stat /\ rows \in SUBSET Prefix
      /\ \A q \in rows : stat.used[q] \in Int
  BY BalancedIsStored
<1>2. NewUsed(o, n, attrs, level) \in Int
  BY NewUsedIsInt
<1>3. /\ RowsAreFinite(db) /\ Rows(db) = R /\ db.stat.vrf = stat.vrf
      /\ db.indent = Put(indent, R, n, level)
      /\ db.stat.used = Put(stat.used, R, n, NewUsed(o, n, attrs, level))
  BY DEF UpdatedAs
<1>4. /\ \A q \in R : db.stat.used[q] \in Int
      /\ \A q \in R : q # n => db.indent[q] = indent[q] /\ db.stat.used[q] = stat.used[q]
  BY <1>1, <1>2, <1>3 DEF Put
<1>5. Sound(db)
  BY <1>1, <1>3, <1>4 DEF Sound
<1>6. PICK X \in SUBSET rows : X = rows \ {o}
  OBVIOUS
<1>7. PICK B : B = Only(Database, X)
  OBVIOUS
<1>8. IsSheet(Database, X, indent, stat.used, B)
  <2>1. X \in SUBSET Rows(Database) /\ \A q \in X : stat.used[q] \in Int
    BY <1>1
  <2> QED
    BY <1>1, <1>7, <2>1, SheetIs DEF Only
<1>9. /\ Sound(B) /\ Rows(B) = X /\ B.stat.vrf = stat.vrf
      /\ \A q \in X : B.indent[q] = indent[q] /\ B.stat.used[q] = stat.used[q]
  BY <1>1, <1>8 DEF IsSheet
<1>10. OneRowMore(B, Database, o)
  BY <1>1, <1>6, <1>9 DEF OneRowMore
<1>11. OneRowMore(B, db, n)
  BY <1>3, <1>4, <1>5, <1>6, <1>9 DEF OneRowMore
<1> QED
  BY <1>5, <1>6, <1>7, <1>10, <1>11

LEMMA UpdateKeepsBalance ==
  ASSUME VrfInv, NEW o \in rows, NEW n \in Prefix, n = o \/ n \notin rows,
         VrfAccount(o) = VrfAccount(n), NEW attrs, UpdateRow(o, n, attrs), PlanInv'
  PROVE  Balanced(Database)'
<1> DEFINE R == (rows \ {o}) \cup {n}
           level == NewLevel(o, n, attrs)
           db == Updated(o, n, attrs, level)
           d == AfterUpdate(db, RowRecord(Database, o), n)
           before == Put(indent, R, n, level)
<1>1. /\ Sound(Database) /\ Rows(Database) = rows /\ Database.indent = indent
      /\ Database.stat = stat /\ StoredInv /\ o \in Prefix
  BY BalancedIsStored
<1>2. /\ plan' = Put(plan, R, n, attrs) /\ stat' = StatAfterUpdate(o, n, db)
      /\ indent' = IF n = o THEN before
                   ELSE ShiftIndent(R, CountIndent(R, ShiftIndent(R, before, o, -1), n), n, 1)
  BY DEF UpdateRow
<1> HIDE DEF db, d, level
<1>3. UpdatedAs(db, R, o, n, attrs, level)
  BY <1>1, UpdatedIs DEF db
<1>4. /\ RowsAreFinite(db) /\ Rows(db) = R /\ db.plan = plan' /\ db.stat.vrf = stat.vrf
      /\ db.indent = before
  BY <1>2, <1>3 DEF UpdatedAs
<1>5. /\ Sound(db) /\ OneRowMore(Only(Database, rows \ {o}), Database, o)
      /\ OneRowMore(Only(Database, rows \ {o}), db, n)
  BY <1>3, UpdateReplaces
<1>6. rows' = R
  BY <1>2 DEF rows, Put
<1>7. CASE AfterUpdateFires(Watched(Database, o), Watched(db, n))
  <2>1. stat' = d.stat
    BY <1>2, <1>7 DEF StatAfterUpdate, d
  <2>2. PICK old : old = RowRecord(Database, o)
    OBVIOUS
  <2>3. old.prefix = o /\ old.used \in Int
    BY <1>1, <2>2, RecordIs
  <2>4. /\ Posted(db, d, VrfAccount(n), PartsOf(RowRecord(db, n)), PartsOf(old))
        /\ d.indent = IF o # n THEN CalcIndent(CalcIndent(db, o, -1), n, 1).indent
                               ELSE db.indent
    <3>1. n \in Rows(db)
      BY <1>4
    <3> QED
      BY <1>1, <1>5, <2>2, <2>3, <3>1, AfterUpdateBooks DEF d
  <2>5. AheadAs(Database, d)
    <3>1. AheadAs(db, db)
      BY <1>5 DEF AheadAs
    <3> QED
      BY <1>5, <2>2, <2>4, <3>1, ReplacingBalances
  <2>6. d.indent = indent'
    <3>1. CASE n = o
      BY <1>2, <1>4, <2>4, <3>1
    <3>2. CASE n # o
      <4>1. PICK c : c = CalcIndent(db, o, -1)
        OBVIOUS
      <4>2. SameTable(db, c) /\ c.indent = ShiftIndent(R, CountIndent(R, before, o), o, -1)
        BY <1>4, <4>1, CalcIndentFrame DEF RowsAreFinite
      <4>3. IsDatabase(c) /\ Rows(c) = R /\ Cardinality(Rows(c)) \in Nat
        BY <1>4, <4>2 DEF SameTable, Rows, RowsAreFinite
      <4>4. CountIndent(R, before, o) = before
        <5>1. o \notin R
          BY <3>2
        <5> QED
          BY <5>1 DEF CountIndent, Put
      <4>5. CalcIndent(c, n, 1).indent = ShiftIndent(R, CountIndent(R, c.indent, n), n, 1)
        BY <4>3, CalcIndentFrame
      <4> QED
        BY <1>2, <2>4, <3>2, <4>1, <4>2, <4>4, <4>5
    <3> QED
      BY <3>1, <3>2
  <2>7. RowsAreFinite(d) /\ d.plan = plan'
    BY <1>4, AfterUpdateIs DEF d
  <2>8. Stored'
    BY <2>1, <2>7, StoredAfter
  <2> QED
    BY <2>1, <2>5, <2>6, <2>7, <2>8, BalancedAfter
<1>8. CASE ~ AfterUpdateFires(Watched(Database, o), Watched(db, n))
  <2>1. stat' = db.stat
    BY <1>2, <1>8 DEF StatAfterUpdate
  <2>2. [Watched(Database, o) EXCEPT !.node = Watched(db, n).node] = Watched(db, n)
    BY <1>8 DEF AfterUpdateFires
  <2>3. /\ Watched(Database, o).prefix = Watched(db, n).prefix
        /\ Watched(Database, o).indent = Watched(db, n).indent
        /\ Watched(Database, o).used = Watched(db, n).used
    BY <2>2 DEF Watched
  <2>4. n = o /\ db.indent[o] = indent[o] /\ db.stat.used[o] = stat.used[o]
    BY <1>1, <2>3 DEF Watched
  <2>5. \A q \in rows : db.indent[q] = indent[q] /\ db.stat.used[q] = stat.used[q]
    BY <1>3, <2>4 DEF UpdatedAs, Put
  <2>6. R = rows
    BY <2>4
  <2>7. AheadAs(Database, db)
    BY <1>1, <1>4, <1>5, <2>5, <2>6, SameSheets
  <2>8. db.indent = indent'
    BY <1>2, <1>4, <2>4
  <2>9. Stored'
    BY <1>4, <2>1, StoredAfter
  <2> QED
    BY <1>4, <2>1, <2>7, <2>8, <2>9, BalancedAfter
<1> QED
  BY <1>7, <1>8

LEMMA BooksLeft ==
  ASSUME VrfInv, NEW S \in SUBSET rows
  PROVE  \E d : /\ StatAfterDelete(S) = d.stat
                /\ AheadAs(Database, d) /\ RowsAreFinite(d)
                /\ d.plan = Keep(plan, rows \ S) /\ Depths(d, rows \ S)
<1> DEFINE base == Bereft(S)
           B == Only(Database, rows \ S)
<1>1. /\ Sound(Database) /\ Rows(Database) = rows /\ Database.indent = indent
      /\ Database.stat = stat /\ StoredInv /\ rows \in SUBSET Prefix
      /\ \A q \in rows : stat.used[q] \in Int
  BY BalancedIsStored
<1>2. IsFiniteSet(S)
  BY <1>1, PrefixAssumption, FS_Subset
<1>3. PICK f : Triggered("DELETE", Database, base, S, f) /\ StatAfterDelete(S) = f[S].stat
  BY <1>2, StatOfDeletes
<1>4. /\ RowsAreFinite(base) /\ Rows(base) = rows \ S /\ base.plan = Keep(plan, rows \ S)
      /\ base.stat.vrf = stat.vrf
      /\ \A q \in rows \ S : base.indent[q] = indent[q] /\ base.stat.used[q] = stat.used[q]
  BY <1>1, BereftIs
<1> HIDE DEF base
<1>5. Sound(base)
  BY <1>1, <1>4 DEF Sound
<1>6. IsSheet(Database, rows \ S, indent, stat.used, B)
  <2>1. rows \ S \in SUBSET Rows(Database) /\ \A q \in rows \ S : stat.used[q] \in Int
    BY <1>1
  <2> QED
    BY <1>1, <2>1, SheetIs DEF Only
<1> HIDE DEF B
<1>7. /\ Sound(B) /\ Rows(B) = rows \ S /\ B.stat.vrf = stat.vrf
      /\ \A q \in rows \ S : B.indent[q] = indent[q] /\ B.stat.used[q] = stat.used[q]
  BY <1>1, <1>6 DEF IsSheet
<1>8. AheadAs(B, base)
  BY <1>4, <1>5, <1>7, SameSheets
<1>9. Depths(base, rows)
  BY <1>4 DEF Depths, VrfInv, PlanInv, IndentCorrect
<1>10. PICK D : D = Database
  OBVIOUS
<1>11. AheadAs(D, f[S]) /\ f[S].plan = base.plan /\ Depths(f[S], rows \ S)
  <2>1. Deleting(D, S, base, f) /\ Rows(D) = rows
    BY <1>1, <1>3, <1>4, <1>8, <1>9, <1>10 DEF B, Deleting
  <2>2. Deleted(D, S, base, f[S])
    BY <2>1, DeletesBalance
  <2> QED
    BY <2>1, <2>2 DEF Deleted
<1>12. RowsAreFinite(f[S])
  BY <1>11 DEF AheadAs, Sound
<1> QED
  BY <1>3, <1>4, <1>10, <1>11, <1>12

LEMMA DeleteKeepsBalance ==
  ASSUME VrfInv, NEW S \in SUBSET rows, DeleteRows(S), PlanInv'
  PROVE  Balanced(Database)'
<1>1. PICK d : /\ StatAfterDelete(S) = d.stat
               /\ AheadAs(Database, d) /\ RowsAreFinite(d)
               /\ d.plan = Keep(plan, rows \ S) /\ Depths(d, rows \ S)
  BY BooksLeft
<1>2. plan' = d.plan /\ stat' = d.stat
  BY <1>1 DEF DeleteRows
<1>3. rows' = rows \ S /\ Rows(d) = rows'
  BY <1>1, <1>2 DEF Keep, Rows, rows
<1>4. \A q \in rows' : d.indent[q] = indent'[q]
  BY <1>1, <1>3 DEF Depths, PlanInv, IndentCorrect
<1>5. Stored'
  BY <1>1, <1>2, StoredAfter
<1> QED
  BY <1>1, <1>2, <1>4, <1>5, BalancedAfter

LEMMA BalanceFromTheStart == Init => VrfInv
<1> SUFFICES ASSUME Init PROVE VrfInv
  OBVIOUS
<1>1. PlanInv /\ Stored
  BY ColumnsFromTheStart, ColumnsAreStored DEF StoredInv, ColumnInv
<1>2. PICK d : d = Database
  OBVIOUS
<1>3. rows = {} /\ Rows(d) = {} /\ d.stat.vrf = NoStat.vrf
  BY <1>2 DEF Init, rows, Rows, Database
<1>4. /\ VrfAccounts = Accounts
      /\ NoStat.vrf = [a \in VrfAccounts |-> [num |-> 0, total |-> 0, used |-> 0]]
  BY DEF VrfAccounts, Accounts, NoStat
<1>5. \A a \in Accounts : d.stat.vrf[a] = [num |-> 0, total |-> 0, used |-> 0]
  BY <1>3, <1>4
<1>6. IsVrf(d.stat.vrf)
  BY <1>3, <1>4, <1>5 DEF IsVrf, VrfEntry
<1>7. Cardinality({}) \in Nat
  BY FS_EmptySet
<1>8. Sound(d)
  BY <1>1, <1>2, <1>3, <1>6, <1>7 DEF Stored, Sound, RowsAreFinite
<1>9. ASSUME NEW a \in Accounts, NEW kind \in Kinds PROVE Over(d, a, kind) = 0
  <2>1. CounterOf(d.stat.vrf, a, kind) = 0
    BY <1>5 DEF CounterOf
  <2>2. Within(Rows(d), a) = {}
    BY <1>3 DEF Within
  <2>3. SumOver(Parts(d, kind), {}) = 0
    BY SumOverNothing
  <2> QED
    BY <2>1, <2>2, <2>3 DEF Over
<1> QED
  BY <1>1, <1>2, <1>8, <1>9 DEF VrfInv, Balanced

\* What the theorems are about: a row that is not at top level has no part in the sum.
LEMMA BalanceIsCorrect == VrfInv => VrfAddressesCorrect
<1> SUFFICES ASSUME VrfInv, NEW a \in VrfAccounts
             PROVE  /\ stat.vrf[a].total = SumOfTotals(TopLevel(a))
                    /\ stat.vrf[a].used = SumOver(stat.used, TopLevel(a))
  BY DEF VrfAddressesCorrect, SumOver
<1> DEFINE top == TopLevel(a)
           W == Within(rows, a)
           g(kind) == Parts(Database, kind)
<1>1. /\ Sound(Database) /\ Rows(Database) = rows /\ Database.indent = indent
      /\ Database.stat = stat /\ rows \in SUBSET Prefix
      /\ \A q \in rows : stat.used[q] \in Int
  BY BalancedIsStored
<1>2. a \in Accounts
  BY DEF VrfAccounts, Accounts
<1>3. \A kind \in Kinds : Over(Database, a, kind) = 0
  BY <1>2 DEF VrfInv, Balanced
<1>4. \A q \in rows : indent[q] = 0 <=> Above(rows, q) = {}
  <2>1. ASSUME NEW q \in rows PROVE indent[q] = 0 <=> Above(rows, q) = {}
    <3>1. indent[q] = Cardinality(Above(rows, q))
      BY DEF VrfInv, PlanInv, IndentCorrect
    <3>2. IsFiniteSet(Above(rows, q))
      BY <1>1, AboveFinite
    <3> QED
      BY <3>1, <3>2, FS_EmptySet
  <2> QED
    BY <2>1
<1>5. top = {q \in W : indent[q] = 0}
  BY <1>4 DEF TopLevel, Within
<1>6. top \in SUBSET W /\ W \in SUBSET rows
  BY <1>5 DEF Within
<1>7. IsFiniteSet(top) /\ IsFiniteSet(W \ top)
  BY <1>1, <1>6, PrefixAssumption, FS_Subset
<1>8. ASSUME NEW kind \in Kinds
      PROVE  CounterOf(stat.vrf, a, kind) = SumOver(g(kind), top)
  <2>1. PICK h : h = g(kind)
    OBVIOUS
  <2>2. \A q \in rows : h[q] \in Int
    BY <1>1, <1>2, <2>1, SoundParts
  <2>3. \A q \in W \ top : h[q] = 0
    <3>1. \A q \in W \ top : q \in rows /\ indent[q] # 0
      BY <1>5, <1>6
    <3> QED
      BY <1>1, <2>1, <3>1 DEF Parts, Part
  <2> HIDE DEF top, W, g
  <2>4. SumOver(h, W \ top) = 0
    BY <1>7, <2>3, SumOverZeros
  <2>5. SumOver(h, top \cup (W \ top)) = SumOver(h, top) + SumOver(h, W \ top)
    <3>1. top \cap (W \ top) = {} /\ \A q \in top \cup (W \ top) : h[q] \in Int
      BY <1>6, <2>2
    <3> QED
      BY <1>7, <3>1, SumOverUnion
  <2>6. top \cup (W \ top) = W /\ SumOver(h, top) \in Int
    <3>1. \A q \in top : h[q] \in Int
      BY <1>6, <2>2
    <3> QED
      BY <1>6, <1>7, <3>1, SumOverIsInt
  <2>7. CounterOf(stat.vrf, a, kind) - SumOver(h, W) = 0
    BY <1>1, <1>3, <2>1 DEF Over, W, g
  <2>8. CounterOf(stat.vrf, a, kind) \in Int
    BY <1>1, <1>2, SoundParts
  <2>9. PICK i, j : i = CounterOf(stat.vrf, a, kind) /\ j = SumOver(h, top)
    OBVIOUS
  <2>10. SumOver(h, W) = j + 0 /\ i - SumOver(h, W) = 0 /\ i \in Int /\ j \in Int
    BY <2>4, <2>5, <2>6, <2>7, <2>8, <2>9
  <2>11. i = j
    BY <2>10
  <2> QED
    BY <2>1, <2>9, <2>11
<1>9. \A q \in top : q \in rows /\ indent[q] = 0 /\ q \in Prefix
  BY <1>1, <1>5, <1>6
<1>10. /\ \A q \in top : g("total")[q] = Total(q)
       /\ \A q \in top : g("used")[q] = stat.used[q]
  BY <1>1, <1>9 DEF Parts, Part
<1>11. "total" \in Kinds /\ "used" \in Kinds
  BY DEF Kinds
<1> HIDE DEF top, g
<1>12. SumOver(g("total"), top) = SumOfTotals(top)
  BY <1>7, <1>10, TotalsAreSums
<1>13. SumOver(g("used"), top) = SumOver(stat.used, top)
  BY <1>7, <1>10, SumOverSame
<1> QED
  BY <1>8, <1>11, <1>12, <1>13 DEF CounterOf, top

LEMMA StableKeepsBalance == VrfInv /\ [StableNext]_vars => VrfInv'
<1> SUFFICES ASSUME VrfInv, [StableNext]_vars PROVE VrfInv'
  OBVIOUS
<1>1. PlanInv'
  BY NextStep DEF VrfInv, Next
<1>2. rows \in SUBSET Prefix
  BY BalancedIsStored
<1>3. ASSUME NEW p \in Prefix, NEW attrs \in RowAttrs, AddPrefix(p, attrs)
      PROVE  VrfInv'
  BY <1>1, <1>3, AddKeepsBalance DEF VrfInv
<1>4. ASSUME NEW p \in rows, NEW attrs \in RowAttrs, EditPrefix(p, attrs)
      PROVE  VrfInv'
  <2>1. UpdateRow(p, p, attrs) /\ p \in Prefix
    BY <1>2, <1>4 DEF EditPrefix
  <2> QED
    BY <1>1, <2>1, UpdateKeepsBalance DEF VrfInv
<1>5. ASSUME NEW p \in Prefix, RemovePrefix(p) \/ RemoveHosts(p) \/ RemoveRest(p)
      PROVE  VrfInv'
  <2>1. PICK S \in SUBSET rows : DeleteRows(S)
    BY <1>5, RemovalDeletes
  <2> QED
    BY <1>1, <2>1, DeleteKeepsBalance DEF VrfInv
<1>6. ASSUME plan' = plan, indent' = indent, stat' = stat
      PROVE  VrfInv'
  <2>1. Balanced(Database)'
    BY <1>6, Zenon DEF VrfInv, Database
  <2> QED
    BY <1>1, <2>1 DEF VrfInv
<1>7. CASE StableNext
  BY <1>3, <1>4, <1>5, <1>6, <1>7 DEF StableNext, RemoveRestFails
<1>8. CASE UNCHANGED vars
  BY <1>6, <1>8 DEF vars
<1> QED
  BY <1>7, <1>8

\* An UPDATE of a top level row is counted in the columns of the family that OLD has: a
\* row that changes its family would leave what it comes to with the old one.
OneFamilyPerVrf == \A p, q \in Prefix : Vrf(p) = Vrf(q) => Family(p) = Family(q)

LEMMA NextKeepsBalance ==
  ASSUME OneFamilyPerVrf, VrfInv, [Next]_vars
  PROVE  VrfInv'
<1>1. ASSUME NEW o \in Prefix, NEW n \in Prefix, NEW attrs \in RowAttrs, Renumber(o, n, attrs)
      PROVE  VrfInv'
  <2>1. o \in rows /\ n \notin rows /\ Vrf(n) = Vrf(o) /\ UpdateRow(o, n, attrs)
    BY <1>1 DEF Renumber
  <2>2. VrfAccount(o) = VrfAccount(n)
    BY <2>1 DEF VrfAccount, OneFamilyPerVrf
  <2>3. PlanInv'
    BY NextStep DEF VrfInv
  <2> QED
    BY <2>1, <2>2, <2>3, UpdateKeepsBalance DEF VrfInv
<1> QED
  BY <1>1, StableKeepsBalance DEF Next

\* total_addresses and used_addresses of a VRF are maintained by triggers that see one
\* row at a time, as it was when its statement began and as it is by now.  Rows come to
\* and leave the top level by side effect, which fires the triggers once more, and in the
\* end the counters are what the top level rows come to.
THEOREM VrfsAreCounted == SpecStable => []VrfAddressesCorrect
<1>1. SpecStable => []VrfInv
  BY BalanceFromTheStart, StableKeepsBalance, PTL DEF SpecStable
<1> QED
  BY <1>1, BalanceIsCorrect, PTL

\* The same while prefixes are renumbered too, as long as rows keep their family.
THEOREM VrfsStayCounted ==
  ASSUME OneFamilyPerVrf
  PROVE  Spec => []VrfAddressesCorrect
<1>1. VrfInv /\ [Next]_vars => VrfInv'
  BY NextKeepsBalance
<1>2. Spec => []VrfInv
  BY <1>1, BalanceFromTheStart, PTL DEF Spec
<1> QED
  BY <1>2, BalanceIsCorrect, PTL

\* The members of a pool that is removed are updated in place.
LEMMA RemovePoolKeepsBalance ==
  ASSUME VrfInv, NEW pool \in Pool, RemovePool(pool)
  PROVE  VrfInv'
<1> DEFINE base == Detached(MembersOf(pool))
<1>1. PlanInv'
  BY DetachKeepsPlan DEF VrfInv
<1>2. /\ Sound(Database) /\ Rows(Database) = rows /\ Database.indent = indent
      /\ Database.stat = stat /\ StoredInv /\ rows \in SUBSET Prefix
      /\ \A q \in rows : stat.used[q] \in Int
  BY BalancedIsStored
<1>3. PICK S \in SUBSET rows : S = MembersOf(pool)
  BY DEF MembersOf
<1>4. PICK f : Triggered("UPDATE", Database, base, S, f) /\ StatAfterDetach(S) = f[S].stat
  <2>1. IsFiniteSet(S)
    BY <1>2, PrefixAssumption, FS_Subset
  <2> QED
    BY <1>3, <2>1, StatOfDetach
<1>5. /\ RowsAreFinite(base) /\ Rows(base) = rows /\ base.stat.vrf = stat.vrf
      /\ \A q \in rows : base.stat.used[q]
                           = IF q \in S /\ IsMaxLen(q) THEN Total(q) ELSE stat.used[q]
  BY <1>2, <1>3, DetachedIs
<1>6. \A q \in rows \ S : base.indent[q] = indent[q]
  BY <1>3 DEF Detached
<1>7. plan' = base.plan /\ indent' = base.indent
      /\ stat' = [f[S].stat EXCEPT !.pool = ZeroPool(@, pool)]
  BY <1>3, <1>4 DEF RemovePool
<1> HIDE DEF base
<1>8. Sound(base)
  <2>1. \A q \in rows : Total(q) \in Int
    BY <1>2, TotalAssumption
  <2>2. \A q \in rows : base.stat.used[q] \in Int
    BY <1>2, <1>5, <2>1
  <2> QED
    BY <1>2, <1>5, <2>2 DEF Sound
<1>9. PICK D : D = Database
  OBVIOUS
<1>10. /\ AheadAs(D, f[S]) /\ Rows(f[S]) = rows /\ f[S].plan = base.plan
       /\ f[S].indent = base.indent
  BY <1>2, <1>4, <1>5, <1>6, <1>8, <1>9, UpdatesBalance
<1>11. RowsAreFinite(f[S])
  BY <1>10 DEF AheadAs, Sound
<1>12. PICK d : d = f[S]
  OBVIOUS
<1>13. stat' = [children |-> d.stat.children, used |-> d.stat.used,
                inherited |-> d.stat.inherited, vrf |-> d.stat.vrf,
                pool |-> ZeroPool(d.stat.pool, pool)]
  BY <1>7, <1>11, <1>12 DEF RowsAreFinite, IsDatabase, IsStat
<1>14. Stored'
  BY <1>1, <1>7, <1>10, <1>11, <1>12, <1>13, StoredBesides
<1>15. /\ AheadAs(Database, d) /\ d.plan = plan' /\ d.stat.vrf = stat'.vrf
       /\ d.stat.used = stat'.used /\ d.indent = indent'
  BY <1>7, <1>9, <1>10, <1>12, <1>13
<1>16. Balanced(Database)'
  BY <1>1, <1>14, <1>15, BalancedAfter
<1> QED
  BY <1>1, <1>16 DEF VrfInv

\* The counters of a VRF go with it.  The others are as the triggers have left them.
LEMMA DeleteVrfKeepsBalance ==
  ASSUME VrfInv, NEW v \in VRFs, DeleteVrf(v), PlanInv'
  PROVE  VrfInv'
<1>1. PICK S \in SUBSET rows : S = RowsOf(v)
  BY DEF RowsOf
<1>2. PICK d : /\ StatAfterDelete(S) = d.stat
               /\ AheadAs(Database, d) /\ RowsAreFinite(d)
               /\ d.plan = Keep(plan, rows \ S) /\ Depths(d, rows \ S)
  BY BooksLeft
<1> DEFINE vrf == [a \in VrfAccounts |-> IF a[1] = v THEN NoStat.vrf[a] ELSE d.stat.vrf[a]]
           e == [plan |-> plan', indent |-> indent', stat |-> stat']
<1>3. plan' = d.plan /\ stat' = [d.stat EXCEPT !.vrf = vrf]
  BY <1>1, <1>2 DEF DeleteVrf, Cascade
<1>4. /\ NoStat.vrf = [a \in Accounts |-> VrfEntry(0, 0, 0)]
      /\ VrfAccounts = Accounts
  BY DEF NoStat, VrfAccounts, Accounts, VrfEntry
<1>5. /\ IsVrf(d.stat.vrf) /\ Sound(d)
      /\ \A a \in Accounts, kind \in Kinds : Over(d, a, kind) = 0
  BY <1>2 DEF AheadAs, Sound, VrfInv, Balanced
<1>6. IsVrf(vrf) /\ \A a \in Accounts : vrf[a] = IF a[1] = v THEN VrfEntry(0, 0, 0) ELSE d.stat.vrf[a]
  <2>1. \A a \in Accounts : vrf[a] = IF a[1] = v THEN VrfEntry(0, 0, 0) ELSE d.stat.vrf[a]
    BY <1>4
  <2>2. vrf = [a \in Accounts |-> vrf[a]]
    BY <1>4
  <2> HIDE DEF vrf
  <2>3. \A a \in Accounts : vrf[a] = VrfEntry(vrf[a].num, vrf[a].total, vrf[a].used)
                            /\ vrf[a].total \in Int /\ vrf[a].used \in Int
    BY <1>5, <2>1 DEF IsVrf, VrfEntry
  <2> QED
    BY <2>1, <2>2, <2>3 DEF IsVrf
<1> HIDE DEF vrf
<1>7. stat' = [children |-> d.stat.children, used |-> d.stat.used,
               inherited |-> d.stat.inherited, vrf |-> vrf, pool |-> d.stat.pool]
  BY <1>2, <1>3 DEF RowsAreFinite, IsDatabase, IsStat
<1>8. Stored'
  BY <1>2, <1>3, <1>7, StoredBesides
<1>9. /\ e.plan = d.plan /\ e.indent = indent' /\ e.stat = stat' /\ e.stat.vrf = vrf
      /\ e.stat.used = d.stat.used
      /\ Rows(e) = rows' /\ Rows(d) = rows' /\ rows' = rows \ S
  BY <1>2, <1>3, <1>7 DEF Rows, rows, Keep
<1>10. IsDatabase(e)
  BY <1>8 DEF Stored, Database, IsDatabase, Rows, IsStat
<1> HIDE DEF e
<1>11. Sound(e)
  BY <1>5, <1>6, <1>9, <1>10 DEF Sound, RowsAreFinite
<1>12. \A q \in rows' : d.indent[q] = indent'[q]
  BY <1>2, <1>9 DEF Depths, PlanInv, IndentCorrect
<1>13. ASSUME NEW a \in Accounts, NEW kind \in Kinds PROVE Over(e, a, kind) = 0
  <2>1. Parts(e, kind) = Parts(d, kind)
    BY <1>9, <1>12 DEF Parts
  <2>2. CASE a[1] = v
    <3>1. Within(rows', a) = {}
      <4>1. \A q \in rows' : VrfAccount(q)[1] # v
        BY <1>1, <1>9 DEF RowsOf, VrfAccount
      <4> QED
        BY <2>2, <4>1 DEF Within
    <3>2. CounterOf(vrf, a, kind) = 0
      BY <1>6, <2>2 DEF CounterOf, VrfEntry
    <3>3. SumOver(Parts(e, kind), {}) = 0
      BY SumOverNothing
    <3> QED
      BY <1>9, <3>1, <3>2, <3>3 DEF Over
  <2>3. CASE a[1] # v
    <3>1. CounterOf(vrf, a, kind) = CounterOf(d.stat.vrf, a, kind)
      BY <1>6, <2>3 DEF CounterOf
    <3> QED
      BY <1>5, <1>9, <2>1, <3>1 DEF Over
  <2> QED
    BY <2>2, <2>3
<1>14. Balanced(e)
  BY <1>11, <1>13 DEF Balanced
<1>15. Balanced(Database)'
  BY <1>14 DEF e, Database
<1> QED
  BY <1>15 DEF VrfInv

LEMMA LifeKeepsBalance == VrfInv /\ [LifeNext]_lifeVars => VrfInv'
<1> SUFFICES ASSUME VrfInv, [LifeNext]_lifeVars PROVE VrfInv'
  OBVIOUS
<1>1. CASE PlanStep
  <2>1. [StableNext]_vars
    BY <1>1 DEF PlanStep, StableNext
  <2> QED
    BY <2>1, StableKeepsBalance
<1>2. ASSUME NEW v \in VRFs, EmptyVrf(v)
      PROVE  VrfInv'
  <2>1. PICK S \in SUBSET rows : DeleteRows(S) /\ removing' = removing
    BY <1>2 DEF EmptyVrf, RowsOf
  <2>2. PlanInv'
    BY <2>1, DeleteStep DEF DeleteRows, VrfInv, PlanInv, PlanTypeOK
  <2> QED
    BY <2>1, <2>2, DeleteKeepsBalance DEF VrfInv
<1>3. ASSUME NEW v \in VRFs, DeleteVrf(v)
      PROVE  VrfInv'
  BY <1>3, DeleteVrfKeepsPlan, DeleteVrfKeepsBalance DEF VrfInv
<1>4. CASE UNCHANGED vars
  BY <1>4, StableKeepsBalance
<1> QED
  BY <1>1, <1>2, <1>3, <1>4, RemovePoolKeepsBalance
     DEF LifeNext, AddPool, AddVrf, StartRemoval, RemovalFails, lifeVars

\* The counters of a VRF are right also while VRFs and pools come and go: a VRF that is
\* being emptied by statements of their own, with other workers' between them, a VRF that
\* takes its last rows with it, and rows whose pool is taken from them.
THEOREM VrfsAreCountedForLife == LifeSpec => []VrfAddressesCorrect
<1>1. LifeInit => VrfInv
  BY BalanceFromTheStart DEF LifeInit
<1>2. LifeSpec => []VrfInv
  BY <1>1, LifeKeepsBalance, PTL DEF LifeSpec
<1> QED
  BY <1>2, BalanceIsCorrect, PTL

-----------------------------------------------------------------------------
(* The column used_addresses.                                              *)

UsedInv == VrfInv /\ UsedUp(rows, stat.used)

LEMMA UsedUpIsCorrect == UsedUp(rows, stat.used) => UsedCorrect
BY DEF UsedUp, TotalBelow, UsedCorrect, DirectChildren, Kids

\* The new row takes the rows right below it from its parent, and costs the parent the rest.
LEMMA AddUsesUp ==
  ASSUME UsedInv, NEW p \in Prefix, NEW attrs \in RowAttrs, AddPrefix(p, attrs)
  PROVE  UsedUp(rows, stat.used)'
<1> DEFINE level == LevelBelow(indent, Parent(rows, p), 0)
           used == UsedOfInserted(p, level)
           db == Inserted(p, attrs, level)
           d == AfterInsert(db, p)
<1>1. PICK T, R : T = rows /\ R = rows \cup {p}
  OBVIOUS
<1>2. /\ p \notin T /\ T \in SUBSET Prefix /\ R \in SUBSET Prefix /\ R = T \cup {p}
      /\ StoredInv /\ Sound(Database) /\ \A q \in T : stat.used[q] \in Int
      /\ \A q \in T : indent[q] = Cardinality(Above(T, q))
      /\ UsedUp(T, stat.used)
  BY <1>1, BalancedIsStored DEF AddPrefix, UsedInv, VrfInv, PlanInv, IndentCorrect
<1>3. rows' = R /\ stat' = d.stat
  BY <1>1 DEF AddPrefix, StatAfterInsert, Inserted, rows, Put
<1>4. level = Cardinality(Above(R, p)) /\ Parent(R, p) = Parent(T, p)
  <2>1. level = Cardinality(Above(T, p))
    BY <1>1, <1>2, LevelIsDepth
  <2>2. Above(R, p) = Above(T, p)
    BY <1>2, CoversStrict DEF Above
  <2> QED
    BY <2>1, <2>2 DEF Parent
<1> HIDE DEF level
<1>5. used = (IF IsMaxLen(p) THEN Total(p) ELSE TotalBelow(R, p)) /\ used \in Int
  <2>1. {q \in Inside(T, p) : indent[q] = level} = Kids(R, R, p)
    <3>1. Kids(R, R, p) = {q \in Inside(T, p) :
                             Cardinality(Above(T, q)) = Cardinality(Above(R, p))}
      BY <1>2, KidsOfInserted
    <3> QED
      BY <1>2, <1>4, <3>1 DEF Inside
  <2>2. TotalBelow(R, p) \in Int
    BY <1>2, BelowIsInt
  <2> QED
    BY <1>1, <2>1, <2>2, TotalAssumption DEF UsedOfInserted, TotalBelow
<1>6. /\ RowsAreFinite(db) /\ Rows(db) = R /\ db.stat.vrf = stat.vrf
      /\ db.stat.used = Put(stat.used, R, p, used)
  <2>1. p \notin rows
    BY <1>1, <1>2
  <2>2. /\ RowsAreFinite(db) /\ Rows(db) = rows \cup {p} /\ db.stat.vrf = stat.vrf
        /\ db.stat.used = Put(stat.used, rows \cup {p}, p, used)
    <3> HIDE DEF db, used
    <3> QED
      BY <1>2, <2>1, InsertedIs DEF db, used
  <2> HIDE DEF db, used
  <2> QED
    BY <1>1, <2>2
<1> HIDE DEF db, d, used
<1>7. db.stat.used[p] = used /\ \A q \in T : db.stat.used[q] = stat.used[q]
  BY <1>2, <1>6 DEF Put
<1>8. Sound(db)
  <2>1. \A q \in R : db.stat.used[q] \in Int
    BY <1>2, <1>5, <1>7
  <2> QED
    BY <1>2, <1>6, <2>1 DEF Sound, Database
<1>9. PICK new, parent : new = RowRecord(db, p) /\ parent = Parent(R, p)
  OBVIOUS
<1>10. \A q \in R : d.stat.used[q] = IF q \in parent
                                     THEN UsedOf(db, parent) + Charge(new, MaxLen(Family(p)))
                                     ELSE db.stat.used[q]
  <2>1. p \in Rows(db)
    BY <1>2, <1>6
  <2>2. LET e == AfterInsert(db, p)
            P == Parent(Rows(db), p)
        IN  /\ Posted(db, e, VrfAccount(p), PartsOf(RowRecord(db, p)), Nothing)
            /\ e.indent = CalcIndent(db, p, 1).indent
            /\ \A q \in Rows(db) : e.stat.used[q] =
                 IF q \in P THEN UsedOf(db, P) + Charge(RowRecord(db, p), MaxLen(Family(p)))
                 ELSE db.stat.used[q]
    BY <1>8, <2>1, AfterInsertBooks
  <2> QED
    BY <1>6, <1>9, <2>2 DEF d
<1>11. Charge(new, MaxLen(Family(p))) = Total(p) - TotalBelow(R, p)
  <2>1. new.prefix = p /\ new.used = IF IsMaxLen(p) THEN Total(p) ELSE TotalBelow(R, p)
    BY <1>5, <1>7, <1>9 DEF RowRecord
  <2>2. IsMaxLen(p) <=> MaskLen(p) = MaxLen(Family(p))
    BY DEF IsMaxLen
  <2> QED
    BY <1>2, <2>1, <2>2, ChargeIsCost
<1> SUFFICES ASSUME NEW q \in R
             PROVE  d.stat.used[q] = IF IsMaxLen(q) THEN Total(q) ELSE TotalBelow(R, q)
  BY <1>3 DEF UsedUp
<1>12. CASE q = p
  <2>1. q \notin parent
    BY <1>2, <1>9, <1>12, ParentAbove, CoversStrict
  <2> QED
    BY <1>5, <1>7, <1>10, <1>12, <2>1
<1>13. CASE q # p
  <2>1. q \in T /\ stat.used[q] = IF IsMaxLen(q) THEN Total(q) ELSE TotalBelow(T, q)
    BY <1>2, <1>13 DEF UsedUp
  <2>2. TotalBelow(T, q) = IF parent = {q} THEN TotalBelow(R, q) - Total(p) + TotalBelow(R, p)
                           ELSE TotalBelow(R, q)
    <3>1. TotalBelow(T, q) = IF Parent(R, p) = {q}
                             THEN TotalBelow(R, q) - Total(p) + TotalBelow(R, p)
                             ELSE TotalBelow(R, q)
      <4>1. T \in SUBSET Prefix /\ p \notin T /\ R = T \cup {p} /\ q \in T
        BY <1>2, <2>1
      <4> QED
        BY <4>1, BelowWithout
    <3> QED
      BY <1>9, <3>1
  <2>3. CASE q \in parent
    <3>1. parent = {q}
      <4>1. ASSUME NEW r \in parent PROVE r = q
        BY <1>2, <1>9, <2>3, <4>1, ParentUnique
      <4> QED
        BY <2>3, <4>1
    <3>2. ~ IsMaxLen(q)
      <4>1. Covers(q, p)
        BY <1>9, <2>3, ParentAbove
      <4> QED
        BY <1>2, <2>1, <4>1, NothingInsideMaxLen
    <3>3. d.stat.used[q] = TotalBelow(T, q) + (Total(p) - TotalBelow(R, p))
      BY <1>7, <1>10, <1>11, <2>1, <2>3, <3>1, <3>2 DEF UsedOf
    <3>4. TotalBelow(R, q) \in Int /\ TotalBelow(R, p) \in Int /\ Total(p) \in Int
      BY <1>2, BelowIsInt, TotalAssumption
    <3>5. PICK i, j, k : i = TotalBelow(R, q) /\ j = Total(p) /\ k = TotalBelow(R, p)
      OBVIOUS
    <3>6. (i - j + k) + (j - k) = i
      BY <3>4, <3>5
    <3> QED
      BY <2>2, <3>1, <3>2, <3>3, <3>5, <3>6
  <2>4. CASE q \notin parent
    BY <1>7, <1>10, <2>1, <2>2, <2>4
  <2> QED
    BY <2>3, <2>4
<1> QED
  BY <1>12, <1>13

\* What a row has used up is no matter of its type, tags or pool.
LEMMA EditUsesUp ==
  ASSUME UsedInv, NEW o \in Prefix, NEW attrs \in RowAttrs, EditPrefix(o, attrs)
  PROVE  UsedUp(rows, stat.used)'
<1> DEFINE level == NewLevel(o, o, attrs)
           db == Updated(o, o, attrs, level)
           old == RowRecord(Database, o)
           d == AfterUpdate(db, old, o)
<1>1. /\ o \in rows /\ Sound(Database) /\ Rows(Database) = rows /\ StoredInv
      /\ Database.stat = stat /\ rows \in SUBSET Prefix /\ \A q \in rows : stat.used[q] \in Int
      /\ UsedUp(rows, stat.used)
  BY BalancedIsStored DEF EditPrefix, UsedInv
<1>2. /\ rows' = rows
      /\ stat' = IF AfterUpdateFires(Watched(Database, o), Watched(db, o)) THEN d.stat ELSE db.stat
  BY <1>1 DEF EditPrefix, UpdateRow, StatAfterUpdate, rows, Put
<1> HIDE DEF db, level
<1>3. UpdatedAs(db, rows, o, o, attrs, level)
  <2>1. rows = (rows \ {o}) \cup {o}
    BY <1>1
  <2> QED
    BY <1>1, <2>1, UpdatedIs DEF db
<1>4. \A q \in rows : db.stat.used[q] = stat.used[q]
  <2>1. NewUsed(o, o, attrs, level) = stat.used[o]
    BY <1>1 DEF NewUsed, UsedUp
  <2> QED
    BY <1>1, <1>3, <2>1 DEF UpdatedAs, Put
<1>5. Sound(db) /\ Rows(db) = rows
  BY <1>1, <1>3, <1>4 DEF UpdatedAs, Sound
<1>6. old.prefix = o /\ old.used \in Int
  BY <1>1, RecordIs
<1> HIDE DEF old
<1>7. d.stat.used = db.stat.used
  BY <1>1, <1>5, <1>6, AfterUpdateBooks
<1> HIDE DEF d
<1>8. \A q \in rows : stat'.used[q] = stat.used[q]
  BY <1>2, <1>4, <1>7
<1> QED
  BY <1>1, <1>2, <1>8 DEF UsedUp

LEMMA DeleteUsesUp ==
  ASSUME SingleAddressesAre32, UsedInv, NEW S \in SUBSET rows, DeleteRows(S)
  PROVE  UsedUp(rows, stat.used)'
<1> DEFINE base == Bereft(S)
<1>1. /\ Sound(Database) /\ Rows(Database) = rows /\ Database.stat = stat /\ StoredInv
      /\ rows \in SUBSET Prefix /\ \A q \in rows : stat.used[q] \in Int
      /\ UsedUp(rows, stat.used)
  BY BalancedIsStored DEF UsedInv
<1>2. IsFiniteSet(S)
  BY <1>1, PrefixAssumption, FS_Subset
<1>3. PICK f : Triggered("DELETE", Database, base, S, f) /\ StatAfterDelete(S) = f[S].stat
  BY <1>2, StatOfDeletes
<1>4. /\ RowsAreFinite(base) /\ Rows(base) = rows \ S /\ base.stat.vrf = stat.vrf
      /\ \A q \in rows \ S : base.stat.used[q] = stat.used[q]
  BY <1>1, BereftIs, ZenonT(60)
<1> HIDE DEF base
<1>5. Sound(base)
  BY <1>1, <1>4 DEF Sound
<1>6. PICK D : D = Database
  OBVIOUS
<1>7. UsedUp(rows \ S, f[S].stat.used)
  <2>1. Charging(D, S, base, f)
    BY <1>1, <1>3, <1>4, <1>5, <1>6 DEF Charging
  <2> QED
    BY <1>4, <2>1, DeletesUse
<1>8. rows' = rows \ S /\ stat' = f[S].stat
  BY <1>3 DEF DeleteRows, Keep, rows
<1> QED
  BY <1>7, <1>8

LEMMA UsedStep ==
  ASSUME SingleAddressesAre32, UsedInv, [StableNext]_vars
  PROVE  UsedInv'
<1>1. VrfInv'
  BY StableKeepsBalance DEF UsedInv
<1>2. rows \in SUBSET Prefix
  BY BalancedIsStored DEF UsedInv
<1>3. ASSUME NEW p \in Prefix, NEW attrs \in RowAttrs, AddPrefix(p, attrs)
      PROVE  UsedInv'
  BY <1>1, <1>3, AddUsesUp DEF UsedInv
<1>4. ASSUME NEW p \in rows, NEW attrs \in RowAttrs, EditPrefix(p, attrs)
      PROVE  UsedInv'
  BY <1>1, <1>2, <1>4, EditUsesUp DEF UsedInv
<1>5. ASSUME NEW p \in Prefix, RemovePrefix(p) \/ RemoveHosts(p) \/ RemoveRest(p)
      PROVE  UsedInv'
  <2>1. PICK S \in SUBSET rows : DeleteRows(S)
    BY <1>5, RemovalDeletes
  <2> QED
    BY <1>1, <2>1, DeleteUsesUp DEF UsedInv
<1>6. ASSUME plan' = plan, stat' = stat PROVE UsedInv'
  BY <1>1, <1>6 DEF UsedInv, UsedUp, rows
<1>7. CASE StableNext
  BY <1>3, <1>4, <1>5, <1>6, <1>7 DEF StableNext, RemoveRestFails
<1>8. CASE UNCHANGED vars
  BY <1>6, <1>8 DEF vars
<1> QED
  BY <1>7, <1>8

LEMMA UsedFromTheStart == Init => UsedInv
<1>1. Init => VrfInv /\ rows = {}
  BY BalanceFromTheStart DEF Init, rows
<1> QED
  BY <1>1 DEF UsedInv, UsedUp

\* used_addresses is maintained by charges and refunds, each of them computed from records
\* that were fetched before the statements of the trigger.  In whatever order the triggers
\* of a removal run, and whichever row takes over the rows below a removed one, what a row
\* has used is what its direct sub-prefixes come to.
THEOREM UsedAddressesAreRight ==
  ASSUME SingleAddressesAre32
  PROVE  SpecStable => []UsedCorrect
<1>1. Init => UsedInv
  BY UsedFromTheStart
<1>2. UsedInv /\ [StableNext]_vars => UsedInv'
  BY UsedStep
<1>3. SpecStable => []UsedInv
  BY <1>1, <1>2, PTL DEF SpecStable
<1> QED
  BY <1>3, UsedUpIsCorrect, PTL DEF UsedInv


\* A row is at least as deep as what it lies in.
LEMMA DeeperInside ==
  ASSUME NEW R \in SUBSET Prefix, NEW p \in Prefix, NEW q \in Prefix, Covers(p, q)
  PROVE  Cardinality(Above(R, p)) <= Cardinality(Above(R, q))
<1>1. Above(R, p) \subseteq Above(R, q)
  <2>1. \A r \in R : r \in Prefix
    OBVIOUS
  <2> QED
    BY <2>1, CoversAssumption DEF Above
<1> QED
  BY <1>1, AboveFinite, FS_Subset

\* The level n is given when o has left the table and the rows inside o have not moved up.
LEMMA LevelOfMoved ==
  ASSUME PlanInv, NEW o \in rows, NEW n \in Prefix, n # o,
         NEW U, U = rows \ {o}, NEW level, level = LevelBelow(indent, Parent(U, n), 0)
  PROVE  \/ /\ level = Cardinality(Above(U, n)) + 1 /\ indent[o] # level
            /\ Covers(o, n)
         \/ /\ level = Cardinality(Above(U, n))
            /\ Covers(o, n) => indent[o] = level
<1>1. /\ o \in Prefix /\ U \in SUBSET Prefix /\ o \notin U /\ rows = U \cup {o}
      /\ \A q \in rows : indent[q] = Cardinality(Above(rows, q))
  BY DEF PlanInv, PlanTypeOK, IndentCorrect
<1>2. ASSUME NEW q \in rows
      PROVE  indent[q] = IF Covers(o, q) THEN Cardinality(Above(U, q)) + 1
                                         ELSE Cardinality(Above(U, q))
  BY <1>1, AboveAfterInsert
<1>3. indent[o] = Cardinality(Above(U, o))
  BY <1>1, <1>2, CoversStrict
<1>4. CASE \E r \in Parent(U, n) : Covers(o, r)
  <2>1. PICK r \in Parent(U, n) : Covers(o, r)
    BY <1>4
  <2>2. r \in U /\ r \in Prefix /\ Covers(r, n) /\ Parent(U, n) = {r}
    BY <1>1, <2>1, ParentAbove, ParentUnique
  <2>3. Cardinality(Above(U, n)) = Cardinality(Above(U, r)) + 1
    BY <1>1, <2>2, OneLevelBelow
  <2>4. level = 1 + indent[r]
    BY <2>2 DEF LevelBelow
  <2>5. indent[r] = Cardinality(Above(U, r)) + 1
    BY <1>1, <1>2, <2>1, <2>2
  <2>6. Cardinality(Above(U, o)) <= Cardinality(Above(U, r))
    BY <1>1, <2>1, <2>2, DeeperInside
  <2>7. Covers(o, n)
    BY <1>1, <2>1, <2>2, CoversAssumption
  <2>8. Cardinality(Above(U, o)) \in Nat /\ Cardinality(Above(U, r)) \in Nat
    BY <1>1, AboveFinite
  <2> QED
    BY <1>3, <2>3, <2>4, <2>5, <2>6, <2>7, <2>8
<1>5. CASE ~ \E r \in Parent(U, n) : Covers(o, r)
  <2>1. level = Cardinality(Above(U, n))
    <3>1. CASE Parent(U, n) = {}
      <4>1. Above(U, n) = {}
        BY <1>1, <3>1, ParentExists
      <4> QED
        BY <3>1, <4>1, FS_EmptySet DEF LevelBelow
    <3>2. CASE Parent(U, n) # {}
      <4>1. PICK r : r \in Parent(U, n)
        BY <3>2
      <4>2. r \in U /\ Covers(r, n) /\ Parent(U, n) = {r}
        BY <1>1, <4>1, ParentAbove, ParentUnique
      <4>3. Cardinality(Above(U, n)) = Cardinality(Above(U, r)) + 1
        BY <1>1, <4>2, OneLevelBelow
      <4>4. level = 1 + indent[r]
        BY <4>2 DEF LevelBelow
      <4>5. indent[r] = Cardinality(Above(U, r))
        BY <1>1, <1>2, <1>5, <4>1, <4>2
      <4>6. Cardinality(Above(U, r)) \in Nat
        BY <1>1, AboveFinite
      <4> QED
        BY <4>3, <4>4, <4>5, <4>6
    <3> QED
      BY <3>1, <3>2
  <2>2. ASSUME Covers(o, n) PROVE indent[o] = level
    <3>1. Above(U, n) = Above(U, o)
      <4>1. ASSUME NEW q \in U, Covers(q, n) PROVE Covers(q, o)
        <5>1. q \in Prefix /\ q # o
          BY <1>1
        <5>2. Above(U, n) # {}
          BY <4>1 DEF Above
        <5>3. PICK r : r \in Parent(U, n)
          BY <1>1, <5>2, ParentExists
        <5>4. r \in U /\ Covers(r, n) /\ (q = r \/ Covers(q, r))
          BY <4>1, <5>3, ParentAbove
        <5>5. r \in Prefix /\ r # o /\ ~ Covers(o, r)
          BY <1>1, <1>5, <5>3, <5>4
        <5>6. Covers(r, o)
          BY <1>1, <2>2, <5>4, <5>5, CoversAssumption
        <5> QED
          BY <1>1, <5>1, <5>4, <5>5, <5>6, CoversAssumption
      <4>2. ASSUME NEW q \in U, Covers(q, o) PROVE Covers(q, n)
        BY <1>1, <2>2, <4>2, CoversAssumption
      <4> QED
        BY <4>1, <4>2 DEF Above
    <3> QED
      BY <1>3, <2>1, <3>1
  <2> QED
    BY <2>1, <2>2
<1> QED
  BY <1>4, <1>5


\* What the BEFORE trigger sums up for n are the rows that will be right below n, whether
\* o lies around n, inside it or apart from it.
LEMMA UsedOfMovedIs ==
  ASSUME PlanInv, NEW o \in rows, NEW n \in Prefix, n \notin rows,
         NEW U, U = rows \ {o}, NEW R, R = U \cup {n},
         NEW level, level = LevelBelow(indent, Parent(U, n), 0)
  PROVE  UsedOfMoved(o, n, level) = IF IsMaxLen(n) THEN Total(n) ELSE TotalBelow(R, n)
<1> DEFINE depth(q) == Cardinality(Above(U, q))
           At(S, l) == {q \in S : indent[q] = l}
           others == Inside(rows, n) \ {o}
           kids == {q \in Inside(U, n) : depth(q) = depth(n)}
           counted == IF Covers(o, n)
                      THEN IF indent[o] = level THEN At(Inside(rows, n), level + 1)
                                                ELSE At(Inside(rows, n), level)
                      ELSE IF Covers(n, o)
                      THEN IF indent[o] = level
                           THEN At(Inside(rows, o), indent[o] + 1) \cup At(others, level)
                           ELSE At(others, level)
                      ELSE At(Inside(rows, n), level)
<1>1. /\ o \in Prefix /\ U \in SUBSET Prefix /\ R \in SUBSET Prefix /\ o \notin U
      /\ rows = U \cup {o} /\ n # o /\ n \notin U
      /\ \A q \in rows : indent[q] = Cardinality(Above(rows, q))
  BY DEF PlanInv, PlanTypeOK, IndentCorrect
<1>2. \A q \in rows : indent[q] = IF Covers(o, q) THEN depth(q) + 1 ELSE depth(q)
  BY <1>1, AboveAfterInsert
<1>3. \A q \in Prefix : depth(q) \in Nat
  BY <1>1, AboveFinite
<1>4. Kids(R, R, n) = kids
  <2>1. Kids(R, R, n) = {q \in Inside(U, n) :
                           Cardinality(Above(U, q)) = Cardinality(Above(R, n))}
    BY <1>1, KidsOfInserted
  <2>2. Above(R, n) = Above(U, n)
    BY <1>1, CoversStrict DEF Above
  <2> QED
    BY <2>1, <2>2
<1>5. \/ /\ level = depth(n) + 1 /\ indent[o] # level
         /\ Covers(o, n)
      \/ /\ level = depth(n)
         /\ Covers(o, n) => indent[o] = level
  BY <1>1, LevelOfMoved
<1>6. \A q \in Inside(U, n) : q \in U /\ q \in rows /\ q \in Prefix /\ q # o /\ Covers(n, q)
  BY <1>1 DEF Inside
<1>7. \A q \in Inside(U, n) : depth(n) <= depth(q)
  BY <1>1, <1>6, DeeperInside
<1>8. others = Inside(U, n) /\ (~ Covers(n, o) => Inside(rows, n) = Inside(U, n))
  BY <1>1 DEF Inside
<1>9. counted = kids
  <2>1. CASE Covers(o, n)
    <3>1. ~ Covers(n, o) /\ Inside(rows, n) = Inside(U, n)
      BY <1>1, <1>8, <2>1, CoversStrict
    <3>2. \A q \in Inside(U, n) : Covers(o, q)
      BY <1>1, <1>6, <2>1, CoversAssumption
    <3>3. \A q \in Inside(U, n) : indent[q] = depth(q) + 1
      BY <1>2, <1>6, <3>2
    <3> HIDE DEF depth
    <3>4. CASE indent[o] = level
      <4>1. level = depth(n)
        BY <1>5, <3>4
      <4>2. ASSUME NEW q \in Inside(U, n)
            PROVE  indent[q] = level + 1 <=> depth(q) = depth(n)
        <5>1. indent[q] = depth(q) + 1 /\ depth(q) \in Nat /\ depth(n) \in Nat
          BY <1>3, <1>6, <3>3
        <5> QED
          BY <4>1, <5>1
      <4> QED
        BY <2>1, <3>1, <3>4, <4>2
    <3>5. CASE indent[o] # level
      <4>1. level = depth(n) + 1
        BY <1>5, <2>1, <3>5
      <4>2. ASSUME NEW q \in Inside(U, n)
            PROVE  indent[q] = level <=> depth(q) = depth(n)
        <5>1. indent[q] = depth(q) + 1 /\ depth(q) \in Nat /\ depth(n) \in Nat
          BY <1>3, <1>6, <3>3
        <5> QED
          BY <4>1, <5>1
      <4> QED
        BY <2>1, <3>1, <3>5, <4>2
    <3> QED
      BY <3>4, <3>5
  <2>2. CASE ~ Covers(o, n) /\ Covers(n, o)
    <3>1. level = depth(n)
      BY <1>5, <2>2
    <3>2. indent[o] = depth(o) /\ depth(n) <= depth(o)
      BY <1>1, <1>2, <2>2, CoversStrict, DeeperInside
    <3>3. Inside(rows, o) = {q \in Inside(U, n) : Covers(o, q)}
      <4>1. ASSUME NEW q \in rows, Covers(o, q) PROVE q \in U /\ Covers(n, q)
        BY <1>1, <2>2, <4>1, CoversStrict, CoversAssumption
      <4> QED
        BY <1>1, <4>1 DEF Inside
    <3>4. \A q \in Inside(U, n) : Covers(o, q) => depth(o) <= depth(q)
      BY <1>1, <1>6, DeeperInside
    <3>5. \A q \in Inside(U, n) : indent[q] = IF Covers(o, q) THEN depth(q) + 1 ELSE depth(q)
      BY <1>2, <1>6
    <3>6. depth(n) \in Nat /\ depth(o) \in Nat /\ \A q \in Inside(U, n) : depth(q) \in Nat
      BY <1>1, <1>3, <1>6
    <3> HIDE DEF depth
    <3>7. CASE indent[o] = level
      <4>1. ASSUME NEW q \in Inside(U, n)
            PROVE  depth(q) = depth(n) <=> \/ Covers(o, q) /\ indent[q] = indent[o] + 1
                                           \/ indent[q] = level
        <5>1. /\ indent[q] = IF Covers(o, q) THEN depth(q) + 1 ELSE depth(q)
              /\ depth(n) <= depth(q) /\ depth(q) \in Nat /\ depth(n) \in Nat
          BY <1>7, <3>5, <3>6
        <5> QED
          BY <3>1, <3>7, <5>1
      <4>2. kids = At(Inside(rows, o), indent[o] + 1) \cup At(others, level)
        BY <1>8, <3>3, <4>1
      <4> QED
        BY <2>2, <3>7, <4>2
    <3>8. CASE indent[o] # level
      <4>1. ASSUME NEW q \in Inside(U, n)
            PROVE  depth(q) = depth(n) <=> indent[q] = level
        <5>1. /\ indent[q] = IF Covers(o, q) THEN depth(q) + 1 ELSE depth(q)
              /\ Covers(o, q) => depth(o) <= depth(q)
              /\ depth(q) \in Nat /\ depth(n) \in Nat /\ depth(o) \in Nat
          BY <3>4, <3>5, <3>6
        <5> QED
          BY <3>1, <3>2, <3>8, <5>1
      <4>2. kids = At(others, level)
        BY <1>8, <4>1
      <4> QED
        BY <2>2, <3>8, <4>2
    <3> QED
      BY <3>7, <3>8
  <2>3. CASE ~ Covers(o, n) /\ ~ Covers(n, o)
    <3>1. \A q \in Inside(U, n) : ~ Covers(o, q)
      BY <1>1, <1>6, <2>3, CoversAssumption
    <3>2. \A q \in Inside(U, n) : indent[q] = depth(q)
      BY <1>2, <1>6, <3>1
    <3>3. level = depth(n)
      BY <1>5, <2>3
    <3> QED
      BY <1>8, <2>3, <3>2, <3>3
  <2> QED
    BY <2>1, <2>2, <2>3
<1>10. UsedOfMoved(o, n, level) = IF IsMaxLen(n) THEN Total(n) ELSE SumOfTotals(counted)
  BY DEF UsedOfMoved
<1> QED
  BY <1>4, <1>9, <1>10 DEF TotalBelow


\* What o cost is given back to the row around o, and what n costs is taken from the row
\* around n, although the rows inside o have become rows of their parent and some of them
\* rows of n by then.
LEMMA RenumberUsesUp ==
  ASSUME OneFamilyPerVrf, UsedInv, NEW o \in Prefix, NEW n \in Prefix, NEW attrs \in RowAttrs,
         Renumber(o, n, attrs)
  PROVE  UsedUp(rows, stat.used)'
<1> DEFINE level == NewLevel(o, n, attrs)
           used == NewUsed(o, n, attrs, level)
           db == Updated(o, n, attrs, level)
           d == AfterUpdate(db, RowRecord(Database, o), n)
<1>1. PICK T, U, R : T = rows /\ U = rows \ {o} /\ R = U \cup {n}
  OBVIOUS
<1>2. /\ VrfInv /\ PlanInv /\ StoredInv /\ Sound(Database)
      /\ \A q \in T : stat.used[q] \in Int
      /\ UsedUp(T, stat.used)
      /\ o \in rows /\ n \notin rows /\ Vrf(n) = Vrf(o) /\ UpdateRow(o, n, attrs)
  BY <1>1, BalancedIsStored DEF Renumber, UsedInv, VrfInv
<1>3. /\ T \in SUBSET Prefix /\ U \in SUBSET Prefix /\ R \in SUBSET Prefix
      /\ o \in T /\ o \notin U /\ n \notin U /\ n \notin T /\ n # o /\ T = U \cup {o}
      /\ R = (rows \ {o}) \cup {n}
  BY <1>1, <1>2 DEF PlanInv, PlanTypeOK
<1>4. Family(n) = Family(o) /\ VrfAccount(o) = VrfAccount(n)
  BY <1>2 DEF OneFamilyPerVrf, VrfAccount
<1>5. /\ used = IF IsMaxLen(n) THEN Total(n) ELSE TotalBelow(R, n)
      /\ used \in Int
  <2>1. FullCheck(o, n, attrs)
    BY <1>3 DEF FullCheck
  <2>2. level = LevelBelow(indent, Parent(U, n), 0)
    BY <1>1, <2>1 DEF NewLevel
  <2> HIDE DEF level
  <2>3. used = UsedOfMoved(o, n, level)
    BY <1>3, <2>1 DEF NewUsed
  <2>4. UsedOfMoved(o, n, level) = IF IsMaxLen(n) THEN Total(n) ELSE TotalBelow(R, n)
    BY <1>1, <1>2, <2>2, UsedOfMovedIs
  <2>5. TotalBelow(R, n) \in Int
    BY <1>3, BelowIsInt
  <2> QED
    BY <2>3, <2>4, <2>5, TotalAssumption
<1> HIDE DEF level
<1>6. UpdatedAs(db, R, o, n, attrs, level)
  BY <1>2, <1>3, UpdatedIs
<1>7. Sound(db)
  <2> HIDE DEF db
  <2> QED
    BY <1>2, <1>3, <1>6, UpdateReplaces
<1>8. Rows(db) = R /\ db.stat.used[n] = used /\ \A q \in U : db.stat.used[q] = stat.used[q]
  <2> HIDE DEF db
  <2>1. Rows(db) = R /\ db.stat.used = Put(stat.used, R, n, used)
    BY <1>6 DEF UpdatedAs
  <2> QED
    BY <1>1, <1>3, <2>1 DEF Put
<1>9. rows' = R /\ stat' = d.stat
  <2>1. plan' = Put(plan, R, n, attrs) /\ stat' = StatAfterUpdate(o, n, db)
    BY <1>2, <1>3 DEF UpdateRow, level
  <2>2. AfterUpdateFires(Watched(Database, o), Watched(db, n))
    <3> HIDE DEF db
    <3>1. Watched(Database, o).prefix # Watched(db, n).prefix
      BY <1>3 DEF Watched
    <3>2. [Watched(Database, o) EXCEPT !.node = Watched(db, n).node].prefix
            = Watched(Database, o).prefix
      BY DEF Watched
    <3> QED
      BY <3>1, <3>2 DEF AfterUpdateFires
  <2> QED
    BY <2>1, <2>2 DEF StatAfterUpdate, rows, Put
<1> HIDE DEF db, used
<1>10. PICK old : old = RowRecord(Database, o)
  OBVIOUS
<1>11. old.prefix = o /\ old.used = stat.used[o] /\ old.used \in Int
  BY <1>1, <1>2, <1>10 DEF RowRecord, Database
<1>12. Recharged(db, d, old, n)
  <2>1. n \in Rows(db) /\ VrfAccount(old.prefix) = VrfAccount(n) /\ old.prefix \in Prefix
        /\ d = AfterUpdate(db, old, n)
    BY <1>1, <1>4, <1>8, <1>10, <1>11
  <2> HIDE DEF d
  <2>2. LET e == AfterUpdate(db, old, n)
        IN  /\ Posted(db, e, VrfAccount(n), PartsOf(RowRecord(db, n)), PartsOf(old))
            /\ e.indent = IF old.prefix # n
                          THEN CalcIndent(CalcIndent(db, old.prefix, -1), n, 1).indent
                          ELSE db.indent
            /\ old.prefix = n => e.stat.used = db.stat.used
            /\ old.prefix # n => Recharged(db, e, old, n)
    BY <1>7, <1>11, <2>1, AfterUpdateBooks
  <2> QED
    BY <1>3, <1>11, <2>1, <2>2
<1> HIDE DEF d
<1>13. PICK P, Q, back, cost :
         /\ P = Parent(U, o) /\ Q = Parent(U, n)
         /\ back = Total(o) - TotalBelow(T, o) /\ cost = Total(n) - TotalBelow(R, n)
  OBVIOUS
<1>14. /\ Parent(T, o) = P /\ Parent(R, n) = Q /\ P \subseteq U /\ Q \subseteq U
       /\ \A q \in P : P = {q} /\ ~ IsMaxLen(q)
       /\ \A q \in Q : Q = {q} /\ ~ IsMaxLen(q)
  <2>1. Parent(T, o) = P /\ Parent(R, n) = Q
    <3>1. Above(T, o) = Above(U, o) /\ Above(R, n) = Above(U, n)
      BY <1>1, <1>3, CoversStrict DEF Above
    <3> QED
      BY <1>13, <3>1 DEF Parent
  <2>2. ASSUME NEW p \in Prefix, NEW q \in Parent(U, p)
        PROVE  q \in U /\ Parent(U, p) = {q} /\ ~ IsMaxLen(q)
    <3>1. q \in U /\ Covers(q, p)
      BY <2>2, ParentAbove
    <3>2. Parent(U, p) = {q}
      BY <1>3, <2>2, ParentUnique
    <3> QED
      BY <1>3, <3>1, <3>2, NothingInsideMaxLen
  <2> QED
    BY <1>13, <2>1, <2>2
<1>15. Charge(old, MaxLen(Family(n))) = back
  <2>1. old.used = IF IsMaxLen(o) THEN Total(o) ELSE TotalBelow(T, o)
    BY <1>2, <1>3, <1>11 DEF UsedUp
  <2>2. IsMaxLen(o) <=> MaskLen(o) = MaxLen(Family(n))
    BY <1>4 DEF IsMaxLen
  <2> QED
    BY <1>3, <1>11, <1>13, <2>1, <2>2, ChargeIsCost
<1>16. Charge(RowRecord(db, n), MaxLen(Family(n))) = cost
  <2>1. PICK new : new = RowRecord(db, n)
    OBVIOUS
  <2>2. new.prefix = n /\ new.used = IF IsMaxLen(n) THEN Total(n) ELSE TotalBelow(R, n)
    BY <1>5, <1>8, <2>1 DEF RowRecord
  <2>3. (IsMaxLen(n) <=> MaskLen(n) = MaxLen(Family(n))) /\ n \in R
    BY <1>1 DEF IsMaxLen
  <2> QED
    BY <1>3, <1>13, <2>1, <2>2, <2>3, ChargeIsCost
<1>17. ASSUME NEW q \in R
       PROVE  d.stat.used[q] = ChargeMoved(P, Q, UsedOf(db, P) - back, UsedOf(db, Q) + cost,
                                           cost, q, db.stat.used[q])
  <2>1. R \ {n} = U
    BY <1>1, <1>3
  <2> QED
    BY <1>8, <1>11, <1>12, <1>13, <1>14, <1>15, <1>16, <2>1 DEF Recharged
<1> SUFFICES ASSUME NEW q \in R
             PROVE  d.stat.used[q] = IF IsMaxLen(q) THEN Total(q) ELSE TotalBelow(R, q)
  BY <1>9 DEF UsedUp
<1>18. CASE q = n
  <2>1. q \notin P /\ q \notin Q
    BY <1>3, <1>14, <1>18
  <2> QED
    BY <1>5, <1>8, <1>17, <1>18, <2>1 DEF ChargeMoved
<1>19. CASE q # n
  <2>1. /\ q \in U /\ q \in T /\ db.stat.used[q] = stat.used[q]
        /\ stat.used[q] = IF IsMaxLen(q) THEN Total(q) ELSE TotalBelow(T, q)
    BY <1>1, <1>2, <1>3, <1>8, <1>19 DEF UsedUp
  <2>2. TotalBelow(U, q) = IF P = {q} THEN TotalBelow(T, q) - Total(o) + TotalBelow(T, o)
                                      ELSE TotalBelow(T, q)
    <3>1. U \in SUBSET Prefix /\ o \notin U /\ T = U \cup {o} /\ q \in U
      BY <1>3, <2>1
    <3>2. TotalBelow(U, q) = IF Parent(T, o) = {q}
                             THEN TotalBelow(T, q) - Total(o) + TotalBelow(T, o)
                             ELSE TotalBelow(T, q)
      BY <3>1, BelowWithout, SMTT(30)
    <3> QED
      BY <1>14, <3>2
  <2>3. TotalBelow(U, q) = IF Q = {q} THEN TotalBelow(R, q) - Total(n) + TotalBelow(R, n)
                                      ELSE TotalBelow(R, q)
    <3>1. U \in SUBSET Prefix /\ n \notin U /\ R = U \cup {n} /\ q \in U
      BY <1>1, <1>3, <2>1
    <3>2. TotalBelow(U, q) = IF Parent(R, n) = {q}
                             THEN TotalBelow(R, q) - Total(n) + TotalBelow(R, n)
                             ELSE TotalBelow(R, q)
      BY <3>1, BelowWithout
    <3> QED
      BY <1>14, <3>2
  <2>4. PICK t, u, r, i, j, k, l :
          /\ t = TotalBelow(T, q) /\ u = TotalBelow(U, q) /\ r = TotalBelow(R, q)
          /\ i = Total(o) /\ j = TotalBelow(T, o) /\ k = Total(n) /\ l = TotalBelow(R, n)
    OBVIOUS
  <2>5. /\ t \in Int /\ u \in Int /\ r \in Int /\ i \in Int /\ j \in Int /\ k \in Int /\ l \in Int
        /\ back = i - j /\ cost = k - l
        /\ u = IF P = {q} THEN t - i + j ELSE t
        /\ u = IF Q = {q} THEN r - k + l ELSE r
    <3>1. /\ TotalBelow(T, q) \in Int /\ TotalBelow(U, q) \in Int /\ TotalBelow(R, q) \in Int
          /\ TotalBelow(T, o) \in Int /\ TotalBelow(R, n) \in Int
      BY <1>3, BelowIsInt
    <3>2. Total(o) \in Int /\ Total(n) \in Int
      BY TotalAssumption
    <3> QED
      BY <1>13, <2>2, <2>3, <2>4, <3>1, <3>2
  <2>6. r = t - (IF P = {q} THEN back ELSE 0) + (IF Q = {q} THEN cost ELSE 0)
    BY <2>5
  <2>7. (q \in P <=> P = {q}) /\ (q \in Q <=> Q = {q})
    BY <1>14
  <2>8. CASE q \in P \/ q \in Q
    <3>1. ~ IsMaxLen(q) /\ db.stat.used[q] = t
      BY <1>14, <2>1, <2>4, <2>8
    <3>2. /\ q \in P => P = {q} /\ UsedOf(db, P) = t
          /\ q \in Q => Q = {q} /\ UsedOf(db, Q) = t
      BY <2>7, <3>1 DEF UsedOf
    <3>3. PICK x, y : x = UsedOf(db, P) /\ y = UsedOf(db, Q)
      OBVIOUS
    <3>4. d.stat.used[q] = IF q \in Q THEN IF P = Q THEN x - back + cost ELSE y + cost
                           ELSE IF q \in P THEN x - back ELSE t
      BY <1>17, <3>1, <3>3 DEF ChargeMoved
    <3>5. d.stat.used[q] = r
      <4>1. CASE q \in P /\ q \in Q
        BY <2>5, <2>6, <3>2, <3>3, <3>4, <4>1
      <4>2. CASE q \in P /\ q \notin Q
        BY <2>5, <2>6, <2>7, <3>2, <3>3, <3>4, <4>2
      <4>3. CASE q \notin P /\ q \in Q
        <5>1. P # Q /\ P # {q} /\ Q = {q}
          BY <2>7, <4>3
        <5> QED
          BY <2>5, <2>6, <3>2, <3>3, <3>4, <4>3, <5>1
      <4> QED
        BY <2>8, <4>1, <4>2, <4>3
    <3> QED
      BY <2>4, <3>1, <3>5
  <2>9. CASE q \notin P /\ q \notin Q
    <3>1. d.stat.used[q] = stat.used[q]
      BY <1>17, <2>1, <2>9 DEF ChargeMoved
    <3>2. r = t
      BY <2>5, <2>7, <2>9
    <3> QED
      BY <2>1, <2>4, <3>1, <3>2
  <2> QED
    BY <2>8, <2>9
<1> QED
  BY <1>18, <1>19


\* The same whatever is renumbered, within a VRF that keeps to one family: used_addresses
\* moves from one place of the tree to another in one UPDATE, which looks for the rows inside
\* the new place by an indent that the row's old place is still part of.
THEOREM UsedAddressesStayRight ==
  ASSUME SingleAddressesAre32, OneFamilyPerVrf
  PROVE  Spec => []UsedCorrect
<1>1. Init => UsedInv
  BY UsedFromTheStart
<1>2. ASSUME UsedInv, [Next]_vars PROVE UsedInv'
  <2>1. VrfInv'
    BY <1>2, NextKeepsBalance DEF UsedInv
  <2>2. ASSUME NEW o \in Prefix, NEW n \in Prefix, NEW attrs \in RowAttrs,
               Renumber(o, n, attrs)
        PROVE  UsedInv'
    BY <1>2, <2>1, <2>2, RenumberUsesUp DEF UsedInv
  <2>3. CASE StableNext \/ UNCHANGED vars
    BY <1>2, <2>3, UsedStep
  <2> QED
    BY <1>2, <2>2, <2>3 DEF Next
<1>3. Spec => []UsedInv
  BY <1>1, <1>2, PTL DEF Spec
<1> QED
  BY <1>3, UsedUpIsCorrect, PTL DEF UsedInv

=============================================================================
