------------------------------ MODULE FreeSearch ------------------------------
(***************************************************************************)
(* find_free_prefix of nipap/sql/functions.plsql, one query at a time, and *)
(* the INSERT by which add_prefix of nipap/backend.py then allocates what  *)
(* was found.  The function is VOLATILE and transactions are READ          *)
(* COMMITTED, so each of its queries sees the rows that other workers have *)
(* added and removed since the one before; so does the INSERT, which is a  *)
(* transaction of its own.  The table holds the reservations of one VRF    *)
(* and family: no check on types comes between.                            *)
(***************************************************************************)
EXTENDS AddressSpace, Sequences

CONSTANTS
  MaxRows,      \* bound: rows in the table to begin with
  MaxSearches,  \* bound: prefixes a call may search
  Wanted,       \* bound: the lengths and counts <<len, count>> asked for
  MaxChanges    \* bound: rows added and removed by others

ASSUME SearchAssumption == /\ MaxRows \in Nat
                           /\ MaxSearches \in Nat
                           /\ Wanted \subseteq (0 .. Width) \X (Nat \ {0})
                           /\ MaxChanges \in Nat

VARIABLES
  table,      \* the prefixes in ip_net_plan
  pc,         \* the query that comes next
  asked,      \* the arguments: prefixes to search, wanted length and count
  searches,   \* the prefixes left to search, the current one first
  at,         \* first address of current_prefix
  found,      \* what RETURN NEXT has collected, each with where it was found
  steady,     \* rows that have been there since the call
  ever,       \* rows that have been there at some time since the call
  walked,     \* searches that were walked to their ends
  changes     \* how often others have changed the table

call == <<asked, searches, at, found>>
history == <<steady, ever, walked>>
vars == <<table, pc, call, history, changes>>

Search == Head(searches)
Current == [first |-> at, len |-> asked.len]
Found(c, s) == [prefix |-> c, search |-> s]

NoCall == [searches |-> <<>>, len |-> 0, count |-> 0]

-----------------------------------------------------------------------------
\* UNION has removed duplicates and left the order open.
SearchLists ==
  UNION {{l \in [1 .. n -> Cidr] : \A j, k \in 1 .. n : l[j] = l[k] => j = k} :
           n \in 1 .. MaxSearches}

\* The searches may be the members of a pool, which an earlier statement read,
\* or any list of prefixes the client has sent.
Call(list, len, count) ==
  /\ pc = "idle"
  /\ asked' = [searches |-> list, len |-> len, count |-> count]
  /\ searches' = list
  /\ pc' = "next"
  /\ steady' = table
  /\ ever' = table
  /\ UNCHANGED <<table, at, found, walked, changes>>

\* FOR p IN ... LOOP: a search prefix smaller than what is wanted is left out.
NextSearch ==
  /\ pc = "next"
  /\ IF searches = <<>>
     THEN pc' = "done" /\ UNCHANGED <<searches, at>>
     ELSE IF Search.len > asked.len
     THEN searches' = Tail(searches) /\ UNCHANGED <<pc, at>>
     ELSE pc' = "exists" /\ at' = Search.first /\ UNCHANGED searches
  /\ UNCHANGED <<table, asked, found, history, changes>>

\* A mutation: the end of the address space is not looked for.
GoOnPastEnd(a) ==
  IF a > Broadcast(Search) /\ a < Beyond
  THEN /\ pc' = "next"
       /\ searches' = Tail(searches)
       /\ walked' = walked \cup {Search}
       /\ UNCHANGED at
  ELSE /\ pc' = "exists"
       /\ at' = a
       /\ UNCHANGED <<searches, walked>>

\* The search goes on at address a, with the next search prefix when a lies
\* behind the current one; there is no address behind the last.
GoOn(a) ==
  IF a = Beyond
  THEN pc' = "failed" /\ UNCHANGED <<searches, at, walked>>
  ELSE IF a > Broadcast(Search)
  THEN /\ pc' = "next"
       /\ searches' = Tail(searches)
       /\ walked' = walked \cup {Search}
       /\ UNCHANGED at
  ELSE /\ pc' = "exists"
       /\ at' = a
       /\ UNCHANGED <<searches, walked>>

\* WHERE prefix = current_prefix
TestExists ==
  /\ pc = "exists"
  /\ IF Current \in table THEN GoOn(Broadcast(Current) + 1)
     ELSE pc' = "covering" /\ UNCHANGED <<searches, at, walked>>
  /\ UNCHANGED <<table, asked, found, steady, ever, changes>>

\* A mutation: rows around current_prefix do not matter.
NoCovering == {}

\* "avoid prefixes larger than the current_prefix but inside our search_prefix"
Covering == {r \in table : CoversEq(r, Current) /\ Covers(Search, r)}

\* A mutation: the jump ends one block too far.
EndOfLargest(S) ==
  Broadcast(CHOOSE r \in S : \A s \in S : r.len <= s.len) + BlockSize(asked.len)

\* A mutation: the walk goes on from the network address, not the broadcast.
StartOfLargest(S) ==
  (CHOOSE r \in S : \A s \in S : r.len <= s.len).first

\* The address after the largest of the rows S.
AfterLargest(S) ==
  Broadcast(CHOOSE r \in S : \A s \in S : r.len <= s.len) + 1

TestCovering ==
  /\ pc = "covering"
  /\ IF Covering # {} THEN GoOn(AfterLargest(Covering))
     ELSE pc' = "breakouts" /\ UNCHANGED <<searches, at, walked>>
  /\ UNCHANGED <<table, asked, found, steady, ever, changes>>

\* A mutation: only rows smaller than current_prefix that it starts with.
StartsWithBreakout == \E r \in table : r.first = at /\ CoversEq(Current, r)

\* "prefix must not contain any breakouts, that would mean it's not empty"
HasBreakouts == \E r \in table : CoversEq(Current, r)

TestBreakouts ==
  /\ pc = "breakouts"
  /\ IF HasBreakouts \/ IsEdge(Search, Current)
     THEN GoOn(Broadcast(Current) + 1) /\ UNCHANGED found
     ELSE /\ found' = Append(found, Found(Current, Search))
          /\ IF Len(found) + 1 >= asked.count
             THEN pc' = "done" /\ UNCHANGED <<searches, at, walked>>
             ELSE GoOn(Broadcast(Current) + 1)
  /\ UNCHANGED <<table, asked, steady, ever, changes>>

-----------------------------------------------------------------------------
Forget ==
  /\ pc' = "idle"
  /\ asked' = NoCall
  /\ searches' = <<>>
  /\ at' = 0
  /\ found' = <<>>
  /\ steady' = {}
  /\ ever' = {}
  /\ walked' = {}

\* add_prefix: INSERT of res[0], or find_free_prefix has nothing for it.
Allocate ==
  /\ pc = "done"
  /\ found # <<>>
  /\ found[1].prefix \notin table
  /\ table' = table \cup {found[1].prefix}
  /\ Forget
  /\ UNCHANGED changes

\* Another worker's INSERT of the same prefix came first (unique index), there
\* was nothing to allocate, or only the list of free prefixes was wanted.
Leave ==
  /\ pc \in {"done", "failed"}
  /\ Forget
  /\ UNCHANGED <<table, changes>>

\* The other workers.
Insert(c) ==
  /\ changes < MaxChanges
  /\ c \notin table
  /\ table' = table \cup {c}
  /\ ever' = IF pc = "idle" THEN ever ELSE ever \cup {c}
  /\ changes' = changes + 1
  /\ UNCHANGED <<pc, call, steady, walked>>

Delete(c) ==
  /\ changes < MaxChanges
  /\ c \in table
  /\ table' = table \ {c}
  /\ steady' = steady \ {c}
  /\ changes' = changes + 1
  /\ UNCHANGED <<pc, call, ever, walked>>

Init ==
  /\ table \in UNION {kSubset(k, Cidr) : k \in 0 .. MaxRows}
  /\ pc = "idle"
  /\ asked = NoCall
  /\ searches = <<>>
  /\ at = 0
  /\ found = <<>>
  /\ steady = {}
  /\ ever = {}
  /\ walked = {}
  /\ changes = 0

\* One round of the loops of the function.
Step ==
  \/ NextSearch
  \/ TestExists
  \/ TestCovering
  \/ TestBreakouts

Next ==
  \/ \E list \in SearchLists, w \in Wanted : Call(list, w[1], w[2])
  \/ Step
  \/ Allocate
  \/ Leave
  \/ \E c \in Cidr : Insert(c) \/ Delete(c)

Spec == Init /\ [][Next]_vars

\* The database goes on with a call it has begun.
FairSpec == Spec /\ WF_vars(Step)

-----------------------------------------------------------------------------
\* The rows R that speak against c as a free prefix of s.
Against(R, c, s) ==
  {r \in R : r = c \/ (Covers(s, r) /\ Overlap(r, c))}

SearchTypeOK ==
  /\ table \subseteq Cidr
  /\ pc \in {"idle", "next", "exists", "covering", "breakouts", "done", "failed"}
  /\ asked \in [searches : Seq(Cidr), len : 0 .. Width, count : Nat]
  /\ searches \in Seq(Cidr)
  /\ at \in Addr
  /\ found \in Seq([prefix : Cidr, search : Cidr])
  /\ steady \subseteq table \cap ever
  /\ ever \subseteq Cidr
  /\ walked \subseteq Cidr
  /\ changes \in Nat

\* Whatever others add and remove between the queries, nothing is returned that
\* a row which was there all the time speaks against.
FoundAvoidsSteadyRows ==
  \A k \in DOMAIN found : Against(steady, found[k].prefix, found[k].search) = {}

\* Whatever others add and remove, and however far the walk jumps, it passes
\* over no prefix that was free all the time: those of the searches that are
\* done, and those before the current address, have been found.
NothingPassedOver ==
  \A s \in Cidr : \A c \in Cidr :
    /\ c.len = asked.len
    /\ CoversEq(s, c)
    /\ ~ IsEdge(s, c)
    /\ Against(ever, c, s) = {}
    /\ \/ s \in walked
       \/ pc \in {"exists", "covering", "breakouts"} /\ s = Search /\ c.first < at
    => \E k \in DOMAIN found : found[k] = Found(c, s)

\* As long as the searched prefixes are rows, as members of a pool are, no two
\* of the prefixes returned overlap, though members may lie inside each other.
PoolAnswersDisjoint ==
  (\A k \in DOMAIN asked.searches : asked.searches[k] \in steady) =>
    \A j, k \in DOMAIN found : j # k => ~ Overlap(found[j].prefix, found[k].prefix)

\* Every call returns: the walk never goes back, whatever rows come and go.
EveryCallReturns ==
  pc = "next" ~> pc \in {"done", "failed"}

\* What add_prefix allocates is "available" (backend.py, add_prefix), and "not
\* empty, ie not free" is what find_free_prefix passes over.  It does not hold
\* (AllocationRace.cfg): the search and the INSERT are two transactions.
AllocatedIsFree ==
  [][pc = "done" /\ table' # table /\ pc' = "idle" =>
       Against(table, found[1].prefix, found[1].search) = {}]_vars

=============================================================================
