---------------------------- MODULE PrefixRegistry ----------------------------
(***************************************************************************)
(* What NIPAP promises about prefixes, whatever tables and triggers it     *)
(* keeps for that: reservations contain reservations and assignments,      *)
(* assignments contain hosts, a host is always in an assignment, a prefix  *)
(* changes from one to the other only while there is nothing in it, and    *)
(* every prefix is shown at its depth.                                     *)
(***************************************************************************)
EXTENDS Integers, FiniteSets

CONSTANTS Prefix, Covers(_, _)

VARIABLES
  type,   \* the registered prefixes and what each of them is
  depth   \* how deep each of them is shown

Registered == DOMAIN type
Around(p) == {q \in Registered : Covers(q, p)}

Orderly ==
  \A p \in Registered :
    IF type[p] = "host" THEN \E q \in Around(p) : type[q] = "assignment"
                        ELSE \A q \in Around(p) : type[q] = "reservation"

Depths == [p \in Registered |-> Cardinality(Around(p))]

Register(p, t) ==
  /\ p \notin Registered
  /\ type' = [q \in Registered \cup {p} |-> IF q = p THEN t ELSE type[q]]

Retype(p, t) ==
  /\ p \in Registered
  /\ {type[p], t} = {"reservation", "assignment"}
  /\ \A q \in Registered : ~ Covers(p, q)
  /\ type' = [type EXCEPT ![p] = t]

Withdraw(S) == type' = [q \in Registered \ S |-> type[q]]

Init == type = <<>> /\ depth = <<>>

Next ==
  /\ \/ \E p \in Prefix, t \in {"reservation", "assignment", "host"} : Register(p, t) \/ Retype(p, t)
     \/ \E S \in SUBSET Registered : Withdraw(S)
  /\ Orderly'
  /\ depth' = Depths'

Spec == Init /\ [][Next]_<<type, depth>>

=============================================================================
