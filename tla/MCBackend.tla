------------------------------ MODULE MCBackend ------------------------------
(***************************************************************************)
(* A small database of nipapd, and slices of its behaviours: what a slice  *)
(* leaves out has already been used up in its initial states.              *)
(***************************************************************************)
EXTENDS Backend, TLC

CONSTANTS d1, d2, w1, w2, all, net, host, other, v0, v1, o1, o2, as1

\* 0.0.0.0/0 and an assignment with its host in VRF 0, the assignment's prefix in VRF v1.
MCBelow(x) == CASE x = all -> {all, net, host}
                [] x = net -> {net, host}
                [] OTHER -> {x}
MCVrfOf(x) == IF x = other THEN v1 ELSE v0

Built(version, hstore) == [version |-> version, tables |-> version, hstore |-> hstore,
                           functions |-> "none", triggers |-> "none"]
Old(version, hstore) == [Built(version, hstore) EXCEPT !.functions = "old", !.triggers = "old"]
Finished == [Built(Latest, TRUE) EXCEPT !.functions = "new", !.triggers = "new"]
MCFirstSchemas == {Built(0, FALSE), Built(0, TRUE), Old(4, FALSE), Old(6, TRUE), Finished}

FewRows == {all, v0, v1, o1}
MCFirstRows == {{}, Row, Row \ {host}, FewRows}

Removal(spec, within, recursive, byId) ==
  [op |-> "remove_prefix", spec |-> spec, within |-> within, pool |-> Same,
   recursive |-> recursive, byId |-> byId]

\* The requests that two workers serve at a time.
Pairs ==
  {Ask("add_vrf", {v1}, Same), Ask("edit_vrf", {v1}, Same), Ask("remove_vrf", {v1}, Same),
   Ask("remove_vrf", {v0}, Same), Ask("remove_pool", {o1}, Same), Ask("add_asn", {as1}, Same),
   Ask("add_prefix", {net}, NoPool), Ask("add_prefix", {net}, o1), Ask("add_prefix", {host}, NoPool),
   Ask("edit_prefix", {net}, Same), Ask("edit_prefix", {net}, NoPool), Ask("edit_prefix", {net}, o2),
   Ask("edit_prefix", {net, other}, o1),
   Removal({net}, {net}, FALSE, TRUE), Removal({net, other}, {net, other}, FALSE, FALSE),
   Removal({net}, {net, host}, TRUE, FALSE), Removal({all}, {all, net, host}, TRUE, TRUE)}

\* Those that are the same statements as one of them are served alone.
Singles ==
  {Ask("add_pool", {o2}, Same), Ask("edit_pool", {o1}, Same),
   Ask("edit_asn", {as1}, Same), Ask("remove_asn", {as1}, Same)}

MCRequests == Pairs \cup Singles

\* Two daemons and a worker install and upgrade the schema; there are no requests.
SchemaSlice ==
  /\ received = MaxRequests
  /\ rows = {} /\ starts = 0 /\ crashes = MaxCrashes - 1 /\ losses = MaxLosses - 1

\* Two workers serve two requests on a finished schema.
RequestSlice ==
  /\ schema = Finished
  /\ rows \in {Row \ {host}, FewRows}
  /\ received = 0 /\ starts = MaxStarts /\ crashes = MaxCrashes /\ losses = MaxLosses

\* One worker serves a request, loses connections and crashes.
LossSlice ==
  /\ schema = Finished
  /\ rows # {}
  /\ received = MaxRequests - 1 /\ starts = MaxStarts - 1 /\ crashes = MaxCrashes - 1
  /\ losses = MaxLosses - 2

\* The workers are up already.
Up(workers) ==
  /\ stack = [p \in Process |-> <<>>]
  /\ status = [p \in Process |-> IF p \in workers THEN "up" ELSE "down"]
  /\ alive = [p \in Process |-> p \in workers]
  /\ seen = [p \in Process |-> IF p \in workers THEN Latest ELSE 0]

MCInit ==
  /\ schema \in FirstSchemas
  /\ shaken = [p \in Process |-> FALSE]
  /\ trouble = {}
  /\ rows \in FirstRows
  /\ poolOf \in [Prefix -> {NoPool, o1}]
  /\ \A x \in Prefix : x \notin rows \/ x # net => poolOf[x] = NoPool
  /\ ledger = <<>>
  /\ received \in 0 .. MaxRequests
  /\ starts \in 0 .. MaxStarts /\ crashes \in 0 .. MaxCrashes /\ losses \in 0 .. MaxLosses
  /\ \/ SchemaSlice /\ Up({})
     \/ RequestSlice /\ Up({w1, w2})
     \/ LossSlice /\ Up({w1})

\* Processes of a kind do not differ: the first goes first.  The loss slice starts with
\* all but one request received.
InOrder ==
  /\ status'[d2] = "starting" /\ status[d2] # "starting" => status[d1] # "down"
  /\ status'[w2] = "starting" /\ status[w2] # "starting" => status[w1] # "down"
  /\ Len(ledger) = 0 /\ Len(ledger') = 1 => stack'[w1] # <<>>
  /\ \A r \in DOMAIN ledger' : ledger'[r].q \in Singles => Len(ledger') = received' - MaxRequests + 1

MCSpec == MCInit /\ [][Next]_vars /\ WF_vars(\E p \in Process : Reconnects(p))

=============================================================================
