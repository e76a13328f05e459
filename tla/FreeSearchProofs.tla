--------------------------- MODULE FreeSearchProofs ---------------------------
(***************************************************************************)
(* find_free_prefix, for addresses of any width and any number of          *)
(* concurrent changes.                                                     *)
(*                                                                         *)
(* What it returns is free of every row that was there all the time: a row *)
(* counts against a prefix in three ways, each is asked for in a query of  *)
(* its own, and SearchInv says what the queries already made have ruled    *)
(* out.  What it does not return was not free all the time: WalkInv says   *)
(* that the walk stays on prefixes of the wanted length and that whatever  *)
(* lies behind it was returned or had a row against it.  Both rest on the  *)
(* geometry of aligned blocks, which follows from powers of two.           *)
(***************************************************************************)
EXTENDS FreeSearch, AddressSpaceProofs

Answers == [prefix : IntBlocks, search : Cidr]

WalkShape ==
  /\ table \subseteq IntBlocks
  /\ steady \subseteq table
  /\ asked.len \in 0 .. Width
  /\ searches \in Seq(Cidr)
  /\ at \in Int
  /\ found \in Seq(Answers)
  /\ pc \in {"exists", "covering", "breakouts"} => searches # <<>>
  /\ pc = "idle" => found = <<>>

\* The query for the prefix itself found nothing steady, nor did the one for
\* prefixes around it once it is behind.
Tested ==
  /\ pc \in {"covering", "breakouts"} => Current \notin steady
  /\ pc = "breakouts" =>
       \A r \in steady : ~ (CoversEq(r, Current) /\ Covers(Search, r))

SearchInv == WalkShape /\ Tested /\ FoundAvoidsSteadyRows

-----------------------------------------------------------------------------
\* ORDER BY masklen LIMIT 1 finds a row, and the address behind it is one.
LEMMA AfterLargestIsInt ==
  ASSUME NEW S \in SUBSET IntBlocks, S # {}
  PROVE  AfterLargest(S) \in Int
<1> DEFINE Lens == {r.len : r \in S}
<1>1. Lens \subseteq Nat /\ Lens # {}
  BY DEF IntBlocks
<1>2. PICK l \in Lens : \A k \in Lens : l <= k
  <2> HIDE DEF Lens
  <2> QED
    BY <1>1, LeastOf
<1>4. \E r \in S : \A s \in S : r.len <= s.len
  BY <1>2
<1>5. (CHOOSE r \in S : \A s \in S : r.len <= s.len) \in IntBlocks
  BY <1>4
<1> QED
  BY <1>5, BroadcastIsInt DEF AfterLargest

LEMMA CurrentShape ==
  ASSUME WalkShape
  PROVE  /\ Current \in IntBlocks
         /\ Broadcast(Current) + 1 \in Int
         /\ searches # <<>> => Search \in Cidr
<1>1. Current \in IntBlocks
  BY DEF WalkShape, Current, IntBlocks
<1>2. searches # <<>> => Search \in Cidr
  BY DEF WalkShape, Search
<1> QED
  BY <1>1, <1>2, BroadcastIsInt

LEMMA TailOfSearches ==
  ASSUME WalkShape
  PROVE  /\ searches \in Seq(Cidr)
         /\ searches # <<>> => Tail(searches) \in Seq(Cidr)
<1>1. \A S : \A s \in Seq(S) : s # <<>> => Tail(s) \in Seq(S)
  OBVIOUS
<1> QED
  BY <1>1 DEF WalkShape

-----------------------------------------------------------------------------
\* Wherever the walk goes on, the queries start again.
LEMMA GoOnKeeps ==
  ASSUME SearchInv, NEW a \in Int, searches # <<>>, GoOn(a),
         UNCHANGED <<table, asked, steady>>, found' \in Seq(Answers)
  PROVE  WalkShape' /\ Tested'
<1>1. /\ pc' \in {"failed", "next", "exists"}
      /\ pc' = "exists" => searches' = searches
      /\ searches' \in {searches, Tail(searches)}
      /\ at' \in {a, at}
  BY DEF GoOn
<1>2. searches' \in Seq(Cidr)
  BY <1>1, TailOfSearches DEF SearchInv
<1> QED
  BY <1>1, <1>2 DEF SearchInv, WalkShape, Tested

LEMMA NextSearchKeeps ==
  ASSUME SearchInv, NextSearch
  PROVE  SearchInv'
<1>1. /\ pc' \in {"next", "done", "exists"}
      /\ pc' = "exists" => searches' = searches /\ searches # <<>>
      /\ searches' = searches \/ (searches # <<>> /\ searches' = Tail(searches))
      /\ at' = at \/ (searches # <<>> /\ at' = Search.first)
      /\ UNCHANGED <<table, asked, found, steady>>
  BY DEF NextSearch, history
<1>2. searches' \in Seq(Cidr)
  BY <1>1, TailOfSearches DEF SearchInv
<1>3. at' \in Int
  BY <1>1, CurrentShape, CidrIsBlock DEF SearchInv, WalkShape, IntBlocks
<1>4. WalkShape' /\ Tested'
  BY <1>1, <1>2, <1>3 DEF SearchInv, WalkShape, Tested
<1> QED
  BY <1>1, <1>4 DEF SearchInv, FoundAvoidsSteadyRows

LEMMA TestExistsKeeps ==
  ASSUME SearchInv, TestExists
  PROVE  SearchInv'
<1>1. /\ pc = "exists" /\ searches # <<>>
      /\ UNCHANGED <<table, asked, found, steady>>
  BY DEF TestExists, SearchInv, WalkShape
<1>2. CASE Current \in table
  <2>1. Broadcast(Current) + 1 \in Int
    BY CurrentShape DEF SearchInv
  <2>2. GoOn(Broadcast(Current) + 1)
    BY <1>2 DEF TestExists
  <2>3. found' \in Seq(Answers)
    BY <1>1 DEF SearchInv, WalkShape
  <2> QED
    BY <1>1, <2>1, <2>2, <2>3, GoOnKeeps DEF SearchInv, FoundAvoidsSteadyRows
<1>3. CASE Current \notin table
  <2>1. pc' = "covering" /\ UNCHANGED <<searches, at>>
    BY <1>3 DEF TestExists
  <2>2. Current' = Current
    BY <1>1, <2>1 DEF Current
  <2>3. WalkShape' /\ Tested'
    BY <1>1, <1>3, <2>1, <2>2 DEF SearchInv, WalkShape, Tested
  <2> QED
    BY <1>1, <2>3 DEF SearchInv, FoundAvoidsSteadyRows
<1> QED
  BY <1>2, <1>3

LEMMA TestCoveringKeeps ==
  ASSUME SearchInv, TestCovering
  PROVE  SearchInv'
<1>1. /\ pc = "covering" /\ searches # <<>>
      /\ UNCHANGED <<table, asked, found, steady>>
  BY DEF TestCovering, SearchInv, WalkShape
<1>2. CASE Covering # {}
  <2>1. AfterLargest(Covering) \in Int
    BY <1>2, AfterLargestIsInt DEF SearchInv, WalkShape, Covering
  <2>2. GoOn(AfterLargest(Covering))
    BY <1>2 DEF TestCovering
  <2>3. found' \in Seq(Answers)
    BY <1>1 DEF SearchInv, WalkShape
  <2> QED
    BY <1>1, <2>1, <2>2, <2>3, GoOnKeeps DEF SearchInv, FoundAvoidsSteadyRows
<1>3. CASE Covering = {}
  <2>1. pc' = "breakouts" /\ UNCHANGED <<searches, at>>
    BY <1>3 DEF TestCovering
  <2>2. Current' = Current /\ Search' = Search
    BY <1>1, <2>1 DEF Current, Search
  <2>3. WalkShape'
    BY <1>1, <2>1 DEF SearchInv, WalkShape
  <2>4. \A r \in steady : ~ (CoversEq(r, Current) /\ Covers(Search, r))
    BY <1>3 DEF Covering, SearchInv, WalkShape
  <2>5. (\A r \in steady : ~ (CoversEq(r, Current) /\ Covers(Search, r)))'
    BY <1>1, <2>2, <2>4 DEF CoversEq, Covers, Addresses, Broadcast, BlockSize
  <2>6. Tested'
    BY <1>1, <2>1, <2>2, <2>5 DEF SearchInv, Tested
  <2> QED
    BY <1>1, <2>3, <2>6 DEF SearchInv, FoundAvoidsSteadyRows
<1> QED
  BY <1>2, <1>3

\* The three queries together: no steady row is left that speaks against it.
LEMMA TestedIsFree ==
  ASSUME SearchInv, pc = "breakouts", ~ HasBreakouts
  PROVE  Against(steady, Current, Search) = {}
<1> SUFFICES ASSUME NEW r \in steady,
                    r = Current \/ (Covers(Search, r) /\ Overlap(r, Current))
             PROVE  FALSE
  BY DEF Against
<1>1. r # Current
  BY DEF SearchInv, Tested
<1>2. ~ (CoversEq(r, Current) /\ Covers(Search, r))
  BY DEF SearchInv, Tested
<1>3. ~ CoversEq(Current, r)
  BY DEF HasBreakouts, SearchInv, WalkShape
<1> QED
  BY <1>1, <1>2, <1>3 DEF Overlap

LEMMA TestBreakoutsKeeps ==
  ASSUME SearchInv, TestBreakouts
  PROVE  SearchInv'
<1>1. /\ pc = "breakouts" /\ searches # <<>>
      /\ UNCHANGED <<table, asked, steady>>
  BY DEF TestBreakouts, SearchInv, WalkShape
<1>2. Broadcast(Current) + 1 \in Int
  BY CurrentShape DEF SearchInv
<1>3. CASE HasBreakouts \/ IsEdge(Search, Current)
  <2>1. GoOn(Broadcast(Current) + 1) /\ found' = found
    BY <1>3 DEF TestBreakouts
  <2>2. found' \in Seq(Answers)
    BY <2>1 DEF SearchInv, WalkShape
  <2> QED
    BY <1>1, <1>2, <2>1, <2>2, GoOnKeeps DEF SearchInv, FoundAvoidsSteadyRows
<1>4. CASE ~ (HasBreakouts \/ IsEdge(Search, Current))
  <2> DEFINE new == Found(Current, Search)
  <2>1. new \in Answers /\ new.prefix = Current /\ new.search = Search
    BY <1>1, CurrentShape DEF SearchInv, Answers, Found
  <2>2. Against(steady, new.prefix, new.search) = {}
    BY <1>1, <1>4, <2>1, TestedIsFree
  <2>3. /\ found' = Append(found, new)
        /\ \/ pc' = "done" /\ UNCHANGED <<searches, at>>
           \/ GoOn(Broadcast(Current) + 1)
    BY <1>4 DEF TestBreakouts
  <2> HIDE DEF new
  <2>4. found \in Seq(Answers)
    BY DEF SearchInv, WalkShape
  <2>5. /\ found' \in Seq(Answers)
        /\ \A k \in DOMAIN found' : \/ k \in DOMAIN found /\ found'[k] = found[k]
                                    \/ found'[k] = new
    BY <2>1, <2>3, <2>4
  <2>6. FoundAvoidsSteadyRows'
    <3> SUFFICES ASSUME NEW k \in DOMAIN found'
                 PROVE  Against(steady, found'[k].prefix, found'[k].search) = {}
      BY <1>1 DEF FoundAvoidsSteadyRows, Against, Overlap, CoversEq, Covers, Addresses,
                  Broadcast, BlockSize
    <3> QED
      BY <2>2, <2>5 DEF SearchInv, FoundAvoidsSteadyRows
  <2>7. WalkShape' /\ Tested'
    <3>1. CASE pc' = "done" /\ UNCHANGED <<searches, at>>
      BY <3>1, <1>1, <2>5 DEF SearchInv, WalkShape, Tested
    <3>2. CASE GoOn(Broadcast(Current) + 1)
      BY <3>2, <1>1, <1>2, <2>5, GoOnKeeps
    <3> QED
      BY <2>3, <3>1, <3>2
  <2> QED
    BY <2>6, <2>7 DEF SearchInv
<1> QED
  BY <1>3, <1>4

-----------------------------------------------------------------------------
LEMMA CallKeeps ==
  ASSUME SearchInv, NEW list \in SearchLists, NEW len, NEW count,
         <<len, count>> \in Wanted, Call(list, len, count)
  PROVE  SearchInv'
<1>1. len \in 0 .. Width
  BY SearchAssumption
<1>2. list \in Seq(Cidr)
  BY SearchAssumption DEF SearchLists
<1>3. /\ pc = "idle" /\ pc' = "next"
      /\ asked' = [searches |-> list, len |-> len, count |-> count]
      /\ searches' = list /\ steady' = table
      /\ UNCHANGED <<table, at, found>>
  BY DEF Call
<1>4. found' = <<>>
  BY <1>3 DEF SearchInv, WalkShape
<1>5. WalkShape' /\ Tested'
  BY <1>1, <1>2, <1>3 DEF SearchInv, WalkShape, Tested
<1> QED
  BY <1>4, <1>5 DEF SearchInv, FoundAvoidsSteadyRows

\* The call is over, and nothing is left of it.
LEMMA ForgetKeeps ==
  ASSUME Forget, table' \subseteq IntBlocks
  PROVE  SearchInv'
<1>1. NoCall.len \in 0 .. Width
  BY WidthAssumption DEF NoCall
<1>2. WalkShape' /\ Tested'
  BY <1>1 DEF Forget, WalkShape, Tested
<1> QED
  BY <1>2 DEF Forget, SearchInv, FoundAvoidsSteadyRows

LEMMA AllocateKeeps ==
  ASSUME SearchInv, Allocate
  PROVE  SearchInv'
<1>1. found[1] \in Answers
  BY DEF Allocate, SearchInv, WalkShape
<1>2. table' \subseteq IntBlocks
  BY <1>1 DEF Allocate, SearchInv, WalkShape, Answers
<1> QED
  BY <1>2, ForgetKeeps DEF Allocate

LEMMA LeaveKeeps ==
  ASSUME SearchInv, Leave
  PROVE  SearchInv'
BY ForgetKeeps DEF Leave, SearchInv, WalkShape

\* Rows that come are not steady, and rows that go no longer are: what the
\* queries have ruled out stays ruled out.
LEMMA OthersKeep ==
  ASSUME SearchInv, NEW c \in Cidr, Insert(c) \/ Delete(c)
  PROVE  SearchInv'
<1>1. /\ UNCHANGED <<pc, asked, searches, at, found>>
      /\ table' \subseteq table \cup {c}
      /\ steady' \subseteq steady /\ steady' \subseteq table'
  BY DEF Insert, Delete, call, SearchInv, WalkShape
<1>2. Current' = Current /\ Search' = Search
  BY <1>1 DEF Current, Search
<1>3. WalkShape'
  BY <1>1, CidrIsBlock DEF SearchInv, WalkShape
<1>4. Tested'
  <2>1. pc \in {"covering", "breakouts"} => Current' \notin steady'
    BY <1>1, <1>2 DEF SearchInv, Tested
  <2>2. ASSUME pc = "breakouts", NEW r \in steady'
        PROVE  ~ (CoversEq(r, Current) /\ Covers(Search, r))
    BY <2>2, <1>1 DEF SearchInv, Tested
  <2>3. pc = "breakouts" =>
          \A r \in steady' : ~ (CoversEq(r, Current') /\ Covers(Search', r))
    BY <2>2, <1>2
  <2> QED
    BY <1>1, <2>1, <2>3 DEF Tested
<1>5. FoundAvoidsSteadyRows'
  <2> SUFFICES ASSUME NEW k \in DOMAIN found
               PROVE  Against(steady', found[k].prefix, found[k].search) = {}
    BY <1>1 DEF FoundAvoidsSteadyRows
  <2>1. Against(steady, found[k].prefix, found[k].search) = {}
    BY DEF SearchInv, FoundAvoidsSteadyRows
  <2> QED
    BY <1>1, <2>1 DEF Against
<1> QED
  BY <1>3, <1>4, <1>5 DEF SearchInv

LEMMA NextStep == SearchInv /\ [Next]_vars => SearchInv'
<1> SUFFICES ASSUME SearchInv, [Next]_vars PROVE SearchInv'
  OBVIOUS
<1>1. CASE \E list \in SearchLists, w \in Wanted : Call(list, w[1], w[2])
  <2>1. \A w \in Wanted : <<w[1], w[2]>> \in Wanted
    BY SearchAssumption
  <2> QED
    BY <1>1, <2>1, CallKeeps
<1>2. CASE Step
  BY <1>2, NextSearchKeeps, TestExistsKeeps, TestCoveringKeeps, TestBreakoutsKeeps DEF Step
<1>3. CASE Allocate \/ Leave
  BY <1>3, AllocateKeeps, LeaveKeeps
<1>4. CASE \E c \in Cidr : Insert(c) \/ Delete(c)
  BY <1>4, OthersKeep
<1>5. CASE UNCHANGED vars
  BY <1>5 DEF vars, call, history, SearchInv, WalkShape, Tested, FoundAvoidsSteadyRows,
              Current, Search
<1> QED
  BY <1>1, <1>2, <1>3, <1>4, <1>5 DEF Next

LEMMA InitSearch == Init => SearchInv
<1> SUFFICES ASSUME Init PROVE SearchInv
  OBVIOUS
<1>1. table \subseteq IntBlocks
  BY CidrIsBlock DEF Init, kSubset
<1>2. NoCall.len \in 0 .. Width
  BY WidthAssumption DEF NoCall
<1> QED
  BY <1>1, <1>2 DEF Init, SearchInv, WalkShape, Tested, FoundAvoidsSteadyRows

\* Whatever rows come and go between its queries, find_free_prefix returns no
\* prefix that a row which was there all the time speaks against.
THEOREM NothingTakenIsFound == Spec => []FoundAvoidsSteadyRows
<1>1. SearchInv => FoundAvoidsSteadyRows
  BY DEF SearchInv
<1> QED
  BY <1>1, InitSearch, NextStep, PTL DEF Spec

-----------------------------------------------------------------------------
(* The walk: where it is, what it has passed and what it has returned.     *)

Walking == pc \in {"exists", "covering", "breakouts"}

\* What is searched, in any order, is asked for and never comes twice.
ListsFit ==
  /\ \A j, k \in 1 .. Len(searches) : searches[j] = searches[k] => j = k
  /\ \A k \in 1 .. Len(searches) :
       \E j \in 1 .. Len(asked.searches) : searches[k] = asked.searches[j]

\* The prefix that is looked at is one of the search prefix.
WalkFits ==
  Walking => /\ searches # <<>>
             /\ Search.len <= asked.len
             /\ Current \in Cidr
             /\ CoversEq(Search, Current)

\* What was returned lies where it was found, and behind the walk.
AnswersFit ==
  /\ \A k \in DOMAIN found :
       /\ \E j \in 1 .. Len(asked.searches) : found[k].search = asked.searches[j]
       /\ found[k].prefix.len = asked.len
       /\ CoversEq(found[k].search, found[k].prefix)
       /\ pc \notin {"done", "failed"} => \A j \in 1 .. Len(searches) :
            found[k].search = searches[j] =>
              Walking /\ j = 1 /\ found[k].prefix.first < at
  /\ \A j, k \in DOMAIN found : found[j] = found[k] => j = k

HistoryFits ==
  /\ pc # "idle" => table \subseteq ever
  /\ pc = "idle" => found = <<>> /\ walked = {}

WalkInv ==
  SearchTypeOK /\ ListsFit /\ WalkFits /\ AnswersFit /\ HistoryFits /\ NothingPassedOver

PassedOf(s, c) ==
  \/ s \in walked
  \/ Walking /\ s = Search /\ c.first < at

\* c is a prefix of s that was asked for, and was free all the time.
Due(s, c) ==
  /\ c.len = asked.len
  /\ CoversEq(s, c)
  /\ ~ IsEdge(s, c)
  /\ Against(ever, c, s) = {}

IsFound(s, c) == \E k \in DOMAIN found : found[k] = Found(c, s)

LEMMA PassedMeans ==
  NothingPassedOver <=> \A s \in Cidr : \A c \in Cidr : Due(s, c) /\ PassedOf(s, c) => IsFound(s, c)
BY DEF NothingPassedOver, Due, PassedOf, IsFound, Walking

LEMMA WalkFacts ==
  ASSUME WalkInv, Walking
  PROVE  /\ searches # <<>> /\ searches \in Seq(Cidr) /\ Search \in Cidr /\ Search = searches[1]
         /\ asked.len \in 0 .. Width /\ Search.len \in 0 .. asked.len
         /\ at \in Nat /\ Current \in Cidr /\ Current.first = at /\ Current.len = asked.len
         /\ CoversEq(Search, Current)
         /\ table \subseteq ever /\ table \subseteq Cidr
         /\ Aligned(at, asked.len)
<1>1. searches \in Seq(Cidr) /\ searches # <<>> /\ asked.len \in 0 .. Width
  BY DEF WalkInv, SearchTypeOK, WalkFits
<1>2. Search = searches[1] /\ Search \in Cidr
  BY <1>1 DEF Search
<1>3. Current \in Cidr /\ Current.first = at /\ Current.len = asked.len
  BY DEF WalkInv, WalkFits, Current
<1>4. at \in Nat /\ Aligned(at, asked.len) /\ Search.len \in 0 .. asked.len
  <2>1. Search.len \in 0 .. Width /\ Search.len <= asked.len
    BY <1>2, CidrIsAligned DEF WalkInv, WalkFits
  <2> QED
    BY <1>1, <1>3, <2>1, CidrIsAligned, WidthAssumption
<1> QED
  BY <1>1, <1>2, <1>3, <1>4 DEF WalkInv, WalkFits, HistoryFits, SearchTypeOK, Walking

LEMMA AnswersGrow ==
  ASSUME NothingPassedOver, UNCHANGED asked, ever \subseteq ever',
         \A k \in DOMAIN found : k \in DOMAIN found' /\ found'[k] = found[k],
         \A s \in Cidr, c \in Cidr :
           Due(s, c) /\ PassedOf(s, c)' => PassedOf(s, c) \/ IsFound(s, c)'
  PROVE  NothingPassedOver'
<1>1. \A s \in Cidr, c \in Cidr : Due(s, c)' => Due(s, c)
  BY DEF Due, Against
<1>2. \A s \in Cidr, c \in Cidr : IsFound(s, c) => IsFound(s, c)'
  BY DEF IsFound
<1>3. \A s \in Cidr, c \in Cidr : Due(s, c) /\ PassedOf(s, c) => IsFound(s, c)
  BY PassedMeans
<1>4. \A s \in Cidr, c \in Cidr : Due(s, c)' /\ PassedOf(s, c)' => IsFound(s, c)'
  BY <1>1, <1>2, <1>3
<1> QED
  BY <1>4 DEF NothingPassedOver, Due, PassedOf, IsFound, Walking

\* Between two queries about the same prefix.
LEMMA SamePrefix ==
  ASSUME WalkInv, Walking, Walking',
         UNCHANGED <<table, asked, searches, at, found, steady, ever, walked, changes>>
  PROVE  WalkInv'
<1>1. Search' = Search /\ Current' = Current
  BY DEF Search, Current
<1>2. SearchTypeOK' /\ ListsFit' /\ HistoryFits'
  BY DEF WalkInv, SearchTypeOK, ListsFit, HistoryFits, Walking
<1>3. WalkFits'
  BY <1>1 DEF WalkInv, WalkFits, CoversEq, Addresses, Broadcast, BlockSize
<1>4. AnswersFit'
  BY DEF WalkInv, AnswersFit, Walking, CoversEq, Addresses, Broadcast, BlockSize
<1>5. NothingPassedOver'
  BY <1>1, AnswersGrow DEF WalkInv, PassedOf
<1> QED
  BY <1>2, <1>3, <1>4, <1>5 DEF WalkInv
\* The walk goes on behind the prefixes that begin before a, after a query that
\* has returned those of them that are due.
LEMMA GoOnWalks ==
  ASSUME WalkInv, Walking, NEW a \in Nat, at < a, a <= Beyond, Aligned(a, asked.len),
         GoOn(a), UNCHANGED <<table, asked, steady, ever, changes>>,
         found' \in Seq([prefix : Cidr, search : Cidr]),
         \A k \in DOMAIN found : k \in DOMAIN found' /\ found'[k] = found[k],
         \A k \in DOMAIN found' : k \in DOMAIN found \/ found'[k] = Found(Current, Search),
         \A j, k \in DOMAIN found' : found'[j] = found'[k] => j = k,
         \A c \in Cidr : Due(Search, c) /\ at <= c.first /\ c.first < a =>
           \E k \in DOMAIN found' : found'[k] = Found(c, Search)
  PROVE  WalkInv'
<1>1. /\ searches # <<>> /\ searches \in Seq(Cidr) /\ Search \in Cidr /\ Search = searches[1]
      /\ asked.len \in 0 .. Width /\ Search.len \in 0 .. asked.len
      /\ at \in Nat /\ Current \in Cidr /\ Current.first = at /\ Current.len = asked.len
      /\ CoversEq(Search, Current)
      /\ table \subseteq ever
  BY WalkFacts
<1>2. /\ Tail(searches) \in Seq(Cidr) /\ Len(Tail(searches)) = Len(searches) - 1
      /\ \A j \in 1 .. Len(Tail(searches)) :
           j + 1 \in 1 .. Len(searches) /\ Tail(searches)[j] = searches[j + 1]
      /\ 1 \in 1 .. Len(searches) /\ Len(searches) \in Nat
  BY <1>1
<1>3. Search.first <= at /\ Broadcast(Search) \in Int /\ Broadcast(Search) + 1 <= Beyond
  BY <1>1, CoveredIsWithin, BroadcastOf
<1>4. \A k \in DOMAIN found' :
        /\ \E j \in 1 .. Len(asked.searches) : found'[k].search = asked.searches[j]
        /\ found'[k].prefix.len = asked.len
        /\ CoversEq(found'[k].search, found'[k].prefix)
        /\ \A j \in 1 .. Len(searches) : found'[k].search = searches[j] =>
             j = 1 /\ found'[k].prefix.first < a
  <2> SUFFICES ASSUME NEW k \in DOMAIN found'
               PROVE  /\ \E j \in 1 .. Len(asked.searches) : found'[k].search = asked.searches[j]
                      /\ found'[k].prefix.len = asked.len
                      /\ CoversEq(found'[k].search, found'[k].prefix)
                      /\ \A j \in 1 .. Len(searches) : found'[k].search = searches[j] =>
                           j = 1 /\ found'[k].prefix.first < a
    OBVIOUS
  <2>1. CASE k \in DOMAIN found
    <3>1. /\ found'[k] = found[k] /\ found[k].prefix.first \in Nat
          /\ pc \notin {"done", "failed"}
      <4>1. found \in Seq([prefix : Cidr, search : Cidr])
        BY DEF WalkInv, SearchTypeOK
      <4>2. found[k].prefix \in Cidr
        <5>1. found[k] \in [prefix : Cidr, search : Cidr]
          BY <2>1, <4>1, ElementOfSeq
        <5> QED
          BY <5>1
      <4> QED
        BY <2>1, <4>2, CidrIsAligned DEF Walking
    <3> QED
      BY <1>1, <2>1, <3>1 DEF WalkInv, AnswersFit
  <2>2. CASE found'[k] = Found(Current, Search)
    <3>1. found'[k].search = Search /\ found'[k].prefix = Current
      BY <2>2 DEF Found
    <3> QED
      <4>1. \E j \in 1 .. Len(asked.searches) : Search = asked.searches[j]
        <5>1. \E j \in 1 .. Len(asked.searches) : searches[1] = asked.searches[j]
          BY <1>2 DEF WalkInv, ListsFit
        <5> QED
          BY <1>1, <5>1
      <4>2. \A j \in 1 .. Len(searches) : Search = searches[j] => j = 1
        BY <1>1, <1>2 DEF WalkInv, ListsFit
      <4> QED
        BY <1>1, <3>1, <4>1, <4>2
  <2> QED
    BY <2>1, <2>2
<1>5. pc' # "idle" /\ HistoryFits'
  BY <1>1 DEF GoOn, HistoryFits, WalkInv
<1>6. CASE a = Beyond
  <2>1. pc' = "failed" /\ UNCHANGED <<searches, at, walked>>
    BY <1>6 DEF GoOn
  <2>2. SearchTypeOK'
    BY <2>1 DEF WalkInv, SearchTypeOK
  <2>3. ListsFit' /\ WalkFits'
    BY <2>1 DEF WalkInv, ListsFit, WalkFits, Walking
  <2>4. AnswersFit'
    BY <1>4, <2>1 DEF AnswersFit
  <2>5. \A s, c : PassedOf(s, c)' => PassedOf(s, c)
    BY <2>1 DEF PassedOf, Walking
  <2>6. NothingPassedOver'
    BY <2>5, AnswersGrow DEF WalkInv
  <2> QED
    BY <1>5, <2>2, <2>3, <2>4, <2>6 DEF WalkInv
<1>7. CASE a # Beyond /\ a > Broadcast(Search)
  <2>1. /\ pc' = "next" /\ searches' = Tail(searches) /\ UNCHANGED at
        /\ walked' = walked \cup {Search}
    BY <1>7 DEF GoOn
  <2>2. SearchTypeOK'
    BY <1>1, <1>2, <2>1 DEF WalkInv, SearchTypeOK
  <2>3. ListsFit'
    <3>1. ASSUME NEW j \in 1 .. Len(searches'), NEW k \in 1 .. Len(searches'),
                 searches'[j] = searches'[k]
          PROVE  j = k
      <4>1. /\ j + 1 \in 1 .. Len(searches) /\ k + 1 \in 1 .. Len(searches)
            /\ searches[j + 1] = searches[k + 1]
        BY <1>2, <2>1, <3>1
      <4>2. j + 1 = k + 1
        BY <4>1 DEF WalkInv, ListsFit
      <4> QED
        BY <1>2, <2>1, <4>2
    <3>2. \A k \in 1 .. Len(searches') :
            \E j \in 1 .. Len(asked.searches) : searches'[k] = asked.searches[j]
      <4>1. \A k \in 1 .. Len(searches) :
              \E j \in 1 .. Len(asked.searches) : searches[k] = asked.searches[j]
        BY DEF WalkInv, ListsFit
      <4> SUFFICES ASSUME NEW k \in 1 .. Len(searches')
                   PROVE  \E j \in 1 .. Len(asked.searches) :
                            searches'[k] = asked.searches[j]
        OBVIOUS
      <4>2. k + 1 \in 1 .. Len(searches) /\ searches'[k] = searches[k + 1]
        BY <1>2, <2>1
      <4>3. \E j \in 1 .. Len(asked.searches) : searches[k + 1] = asked.searches[j]
        BY <4>1, <4>2, Zenon
      <4> QED
        BY <4>2, <4>3, Zenon
    <3> QED
      BY <2>1, <3>1, <3>2 DEF ListsFit
  <2>4. WalkFits'
    BY <2>1 DEF WalkFits, Walking
  <2>5. AnswersFit'
    <3>1. \A k \in DOMAIN found' : \A j \in 1 .. Len(searches') :
            found'[k].search # searches'[j]
      BY <1>2, <1>4, <2>1
    <3> QED
      BY <1>4, <3>1 DEF AnswersFit
  <2>6. ASSUME NEW s \in Cidr, NEW c \in Cidr, Due(s, c), PassedOf(s, c)'
        PROVE  PassedOf(s, c) \/ IsFound(s, c)'
    <3>1. s \in walked \/ s = Search
      BY <2>1, <2>6 DEF PassedOf, Walking
    <3>2. CASE s = Search
      <4>1. c.first \in Nat /\ c.first < a
        BY <1>3, <1>7, <2>6, <3>2, CoveredIsWithin, CidrIsAligned DEF Due
      <4>2. CASE c.first < at
        BY <3>2, <4>2 DEF PassedOf
      <4>3. CASE at <= c.first
        BY <2>6, <3>2, <4>1, <4>3 DEF IsFound
      <4> QED
        BY <1>1, <4>1, <4>2, <4>3
    <3> QED
      BY <3>1, <3>2 DEF PassedOf
  <2>7. NothingPassedOver'
    BY <2>6, AnswersGrow DEF WalkInv
  <2> QED
    BY <1>5, <2>2, <2>3, <2>4, <2>5, <2>7 DEF WalkInv
<1>8. CASE a # Beyond /\ ~ (a > Broadcast(Search))
  <2>1. pc' = "exists" /\ at' = a /\ UNCHANGED <<searches, walked>>
    BY <1>8 DEF GoOn
  <2>2. a \in Addr
    BY <1>8, WholeSpace
  <2>3. SearchTypeOK'
    BY <2>1, <2>2 DEF WalkInv, SearchTypeOK
  <2>4. ListsFit'
    BY <2>1 DEF WalkInv, ListsFit
  <2>5. Search' = Search
    BY <2>1 DEF Search
  <2>6. WalkFits'
    <3>1. [first |-> a, len |-> asked.len] \in Cidr
      BY <1>1, <2>2, AlignedIsCidr
    <3>2. a \in Addresses(Search)
      BY <1>1, <1>3, <1>8, CidrIsAligned DEF Addresses
    <3>3. CoversEq(Search, [first |-> a, len |-> asked.len])
      BY <1>1, <3>2 DEF CoversEq
    <3>4. Current' = [first |-> a, len |-> asked.len]
      BY <2>1 DEF Current
    <3>5. CoversEq(Search, Current)'
      BY <2>5, <3>3, <3>4 DEF CoversEq, Addresses, Broadcast, BlockSize
    <3> QED
      BY <1>1, <2>1, <2>5, <3>1, <3>4, <3>5 DEF WalkFits
  <2>7. AnswersFit'
    BY <1>4, <2>1 DEF AnswersFit, Walking
  <2>8. ASSUME NEW s \in Cidr, NEW c \in Cidr, Due(s, c), PassedOf(s, c)'
        PROVE  PassedOf(s, c) \/ IsFound(s, c)'
    <3>1. s \in walked \/ (s = Search /\ c.first < a)
      BY <2>1, <2>5, <2>8 DEF PassedOf
    <3>2. CASE s = Search /\ c.first < a
      <4>1. CASE c.first < at
        BY <3>2, <4>1 DEF PassedOf
      <4>2. CASE at <= c.first
        BY <2>8, <3>2, <4>2 DEF IsFound
      <4> QED
        BY <1>1, <4>1, <4>2, CidrIsAligned
    <3> QED
      BY <3>1, <3>2 DEF PassedOf
  <2>9. NothingPassedOver'
    BY <2>8, AnswersGrow DEF WalkInv
  <2> QED
    BY <1>5, <2>3, <2>4, <2>6, <2>7, <2>9 DEF WalkInv
<1> QED
  BY <1>6, <1>7, <1>8
LEMMA NextSearchWalks ==
  ASSUME WalkInv, NextSearch
  PROVE  WalkInv'
<1>1. /\ pc = "next" /\ ~ Walking
      /\ UNCHANGED <<table, asked, found, steady, ever, walked, changes>>
  BY DEF NextSearch, Walking, history
<1>2. searches \in Seq(Cidr) /\ asked.len \in 0 .. Width
  BY DEF WalkInv, SearchTypeOK
<1>3. \A k \in DOMAIN found : \A j \in 1 .. Len(searches) : found[k].search # searches[j]
  BY <1>1 DEF WalkInv, AnswersFit
<1>4. ASSUME searches' = searches \/ (searches # <<>> /\ searches' = Tail(searches))
      PROVE  /\ ListsFit' /\ searches' \in Seq(Cidr)
             /\ \A k \in DOMAIN found : \A j \in 1 .. Len(searches') : found[k].search # searches'[j]
  <2>1. CASE searches' = searches
    BY <1>1, <1>2, <1>3, <2>1 DEF WalkInv, ListsFit
  <2>2. CASE searches # <<>> /\ searches' = Tail(searches)
    <3>1. /\ searches' \in Seq(Cidr) /\ Len(searches) \in Nat
          /\ \A j \in 1 .. Len(searches') :
               j + 1 \in 1 .. Len(searches) /\ searches'[j] = searches[j + 1]
      BY <1>2, <2>2
    <3>2. ASSUME NEW j \in 1 .. Len(searches'), NEW k \in 1 .. Len(searches'),
                 searches'[j] = searches'[k]
          PROVE  j = k
      <4>1. j + 1 = k + 1
        BY <3>1, <3>2 DEF WalkInv, ListsFit
      <4> QED
        BY <3>1, <4>1
    <3>3. \A k \in 1 .. Len(searches') :
            \E j \in 1 .. Len(asked.searches) : searches'[k] = asked.searches[j]
      <4>1. \A k \in 1 .. Len(searches) :
              \E j \in 1 .. Len(asked.searches) : searches[k] = asked.searches[j]
        BY DEF WalkInv, ListsFit
      <4> QED
        BY <3>1, <4>1
    <3> QED
      BY <1>1, <1>3, <3>1, <3>2, <3>3 DEF ListsFit
  <2> QED
    BY <1>4, <2>1, <2>2
<1>5. CASE pc' \in {"next", "done"} /\ UNCHANGED at
           /\ (searches' = searches \/ (searches # <<>> /\ searches' = Tail(searches)))
  <2>1. ~ Walking'
    BY <1>5 DEF Walking
  <2>2. SearchTypeOK'
    BY <1>1, <1>4, <1>5 DEF WalkInv, SearchTypeOK
  <2>3. WalkFits' /\ HistoryFits'
    BY <1>1, <1>5, <2>1 DEF WalkInv, WalkFits, HistoryFits
  <2>4. AnswersFit'
    BY <1>1, <1>4, <1>5 DEF WalkInv, AnswersFit, CoversEq, Addresses, Broadcast, BlockSize
  <2>5. \A s, c : PassedOf(s, c)' => PassedOf(s, c)
    BY <1>1, <2>1 DEF PassedOf
  <2>6. NothingPassedOver'
    BY <1>1, <2>5, AnswersGrow DEF WalkInv
  <2> QED
    BY <1>4, <1>5, <2>2, <2>3, <2>4, <2>6 DEF WalkInv
<1>6. CASE /\ searches # <<>> /\ ~ (Search.len > asked.len)
           /\ pc' = "exists" /\ at' = Search.first /\ UNCHANGED searches
  <2>1. /\ Search' = Search /\ Search \in Cidr /\ Search.len \in 0 .. Width
        /\ asked.len \in Search.len .. Width /\ Search.first \in Addr
    <3>1. Search = searches[1] /\ Search \in Cidr
      BY <1>2, <1>6 DEF Search
    <3>2. Search.len \in 0 .. Width /\ Search.first \in Addr
      BY <3>1 DEF Cidr
    <3> QED
      BY <1>2, <1>6, <3>1, <3>2, WidthAssumption DEF Search
  <2>2. SearchTypeOK'
    BY <1>1, <1>6, <2>1 DEF WalkInv, SearchTypeOK
  <2>3. ListsFit' /\ HistoryFits'
    BY <1>1, <1>4, <1>6 DEF WalkInv, HistoryFits
  <2>4. WalkFits'
    <3> DEFINE new == [first |-> Search.first, len |-> asked.len]
    <3>1. new \in Cidr
      BY <2>1, CidrIsAligned, AlignedFiner, AlignedIsCidr
    <3>2. Search.first \in Addresses(Search)
      BY <2>1, BroadcastOf, CidrIsAligned DEF Addresses
    <3>3. CoversEq(Search, new) /\ Search.len <= asked.len
      BY <2>1, <3>2 DEF CoversEq
    <3>4. Current' = new
      BY <1>1, <1>6 DEF Current
    <3>5. CoversEq(Search, Current)'
      BY <2>1, <3>3, <3>4 DEF CoversEq, Addresses, Broadcast, BlockSize
    <3> QED
      BY <1>1, <1>6, <2>1, <3>1, <3>3, <3>4, <3>5 DEF WalkFits
  <2>5. AnswersFit'
    BY <1>1, <1>3, <1>6 DEF WalkInv, AnswersFit, CoversEq, Addresses, Broadcast, BlockSize
  <2>6. ASSUME NEW s \in Cidr, NEW c \in Cidr, Due(s, c), PassedOf(s, c)'
        PROVE  PassedOf(s, c)
    <3>1. s \in walked \/ (s = Search /\ c.first < Search.first)
      BY <1>1, <1>6, <2>1, <2>6 DEF PassedOf
    <3>2. s = Search => Search.first <= c.first
      BY <2>1, <2>6, CoveredIsWithin DEF Due
    <3> QED
      BY <2>1, <3>1, <3>2, CidrIsAligned DEF PassedOf
  <2>7. NothingPassedOver'
    BY <1>1, <2>6, AnswersGrow DEF WalkInv
  <2> QED
    BY <2>2, <2>3, <2>4, <2>5, <2>7 DEF WalkInv
<1> QED
  BY <1>1, <1>5, <1>6 DEF NextSearch

\* Of the prefixes that are due, none begins where the walk is unless it is the one
\* the walk is at.
LEMMA DueAtCurrent ==
  ASSUME WalkInv, Walking, NEW c \in Cidr, Due(Search, c),
         at <= c.first, c.first < Broadcast(Current) + 1
  PROVE  c = Current
<1>1. Current \in Cidr /\ Current.first = at /\ Current.len = asked.len
  BY WalkFacts
<1>2. c.len = asked.len
  BY DEF Due
<1>3. c.first \in Addresses(Current)
  BY <1>1, BroadcastOf, CidrIsAligned DEF Addresses
<1>4. CoversEq(Current, c)
  BY <1>1, <1>2, <1>3, CidrIsAligned DEF CoversEq
<1> QED
  BY <1>1, <1>2, <1>4, SameBlock

\* The address after the prefix the walk is at.
LEMMA NextIsAligned ==
  ASSUME WalkInv, Walking
  PROVE  /\ Broadcast(Current) + 1 \in Nat /\ at < Broadcast(Current) + 1
         /\ Broadcast(Current) + 1 <= Beyond
         /\ Aligned(Broadcast(Current) + 1, asked.len)
<1>1. Current \in Cidr /\ Current.first = at /\ Current.len = asked.len /\ at \in Nat
  BY WalkFacts
<1> QED
  BY <1>1, BroadcastOf

LEMMA TestExistsWalks ==
  ASSUME WalkInv, TestExists
  PROVE  WalkInv'
<1>1. Walking /\ UNCHANGED <<table, asked, found, steady, ever, changes>>
  BY DEF TestExists, Walking
<1>2. CASE Current \notin table
  BY <1>1, <1>2, SamePrefix DEF TestExists, Walking
<1>3. CASE Current \in table
  <2>1. ASSUME NEW c \in Cidr, Due(Search, c), at <= c.first, c.first < Broadcast(Current) + 1
        PROVE  FALSE
    <3>1. c = Current
      BY <1>1, <2>1, DueAtCurrent
    <3>2. Current \in ever
      BY <1>1, <1>3, WalkFacts
    <3> QED
      BY <2>1, <3>1, <3>2 DEF Due, Against
  <2>2. GoOn(Broadcast(Current) + 1)
    BY <1>3 DEF TestExists
  <2>3. found' \in Seq([prefix : Cidr, search : Cidr])
    BY <1>1 DEF WalkInv, SearchTypeOK
  <2>4. \A j, k \in DOMAIN found' : found'[j] = found'[k] => j = k
    BY <1>1 DEF WalkInv, AnswersFit
  <2> QED
    BY <1>1, <2>1, <2>2, <2>3, <2>4, NextIsAligned, GoOnWalks
<1> QED
  BY <1>2, <1>3
\* ORDER BY masklen LIMIT 1 finds a row with the shortest mask.
LEMMA LargestIsThere ==
  ASSUME NEW S \in SUBSET Cidr, S # {}
  PROVE  \E r \in S : AfterLargest(S) = Broadcast(r) + 1
<1> DEFINE Lens == {r.len : r \in S}
<1>1. Lens \subseteq Nat /\ Lens # {}
  BY CidrIsAligned
<1>2. PICK l \in Lens : \A k \in Lens : l <= k
  <2> HIDE DEF Lens
  <2> QED
    BY <1>1, LeastOf
<1>3. \E r \in S : \A s \in S : r.len <= s.len
  BY <1>2
<1> QED
  BY <1>3 DEF AfterLargest

LEMMA TestCoveringWalks ==
  ASSUME WalkInv, TestCovering
  PROVE  WalkInv'
<1>1. Walking /\ UNCHANGED <<table, asked, found, steady, ever, changes>>
  BY DEF TestCovering, Walking
<1>2. CASE Covering = {}
  BY <1>1, <1>2, SamePrefix DEF TestCovering, Walking
<1>3. CASE Covering # {}
  <2>1. table \subseteq Cidr /\ table \subseteq ever
    BY <1>1, WalkFacts
  <2>2. PICK r \in Covering : AfterLargest(Covering) = Broadcast(r) + 1
    BY <1>3, <2>1, LargestIsThere DEF Covering
  <2>3. r \in table /\ r \in Cidr /\ CoversEq(r, Current) /\ Covers(Search, r)
    BY <2>1 DEF Covering
  <2>4. /\ Current \in Cidr /\ Current.first = at /\ Current.len = asked.len
        /\ at \in Nat /\ asked.len \in 0 .. Width
    BY <1>1, WalkFacts
  <2>5. /\ r.len \in 0 .. Width /\ asked.len \in r.len .. Width
        /\ r.first \in Nat /\ r.first <= at /\ at <= Broadcast(r)
    BY <2>3, <2>4, CoveredIsWithin, CidrIsAligned
  <2>6. /\ Broadcast(r) \in Int /\ Broadcast(r) + 1 <= Beyond
        /\ Aligned(Broadcast(r) + 1, r.len)
    BY <2>3, BroadcastOf
  <2>7. ASSUME NEW c \in Cidr, Due(Search, c), at <= c.first, c.first < Broadcast(r) + 1
        PROVE  FALSE
    <3>1. c.first \in Nat /\ c.len = asked.len
      BY <2>7, CidrIsAligned DEF Due
    <3>2. c.first \in Addresses(r)
      BY <2>4, <2>5, <2>6, <2>7, <3>1 DEF Addresses
    <3>3. CoversEq(r, c)
      BY <2>5, <3>1, <3>2 DEF CoversEq
    <3> QED
      BY <2>1, <2>3, <2>7, <3>3 DEF Due, Against, Overlap
  <2>8. GoOn(Broadcast(r) + 1)
    BY <1>3, <2>2 DEF TestCovering
  <2>9. found' \in Seq([prefix : Cidr, search : Cidr])
    BY <1>1 DEF WalkInv, SearchTypeOK
  <2>10. \A j, k \in DOMAIN found' : found'[j] = found'[k] => j = k
    BY <1>1 DEF WalkInv, AnswersFit
  <2>11. Broadcast(r) + 1 \in Nat /\ at < Broadcast(r) + 1 /\ Aligned(Broadcast(r) + 1, asked.len)
    BY <2>4, <2>5, <2>6, AlignedFiner
  <2> QED
    BY <1>1, <2>6, <2>7, <2>8, <2>9, <2>10, <2>11, GoOnWalks
<1> QED
  BY <1>2, <1>3

\* A row inside the prefix the walk is at speaks against it.
LEMMA BreakoutsAreAgainst ==
  ASSUME WalkInv, Walking, HasBreakouts \/ IsEdge(Search, Current)
  PROVE  ~ Due(Search, Current)
<1>1. CASE IsEdge(Search, Current)
  BY <1>1 DEF Due
<1>2. CASE HasBreakouts
  <2>1. /\ Current \in Cidr /\ Current.len = asked.len /\ Search \in Cidr
        /\ CoversEq(Search, Current) /\ table \subseteq Cidr /\ table \subseteq ever
        /\ Search.len \in 0 .. asked.len /\ asked.len \in 0 .. Width
    BY WalkFacts
  <2>2. PICK r \in table : CoversEq(Current, r)
    BY <1>2 DEF HasBreakouts
  <2>3. CASE r.len = asked.len
    <3>1. r = Current
      BY <2>1, <2>2, <2>3, SameBlock
    <3> QED
      BY <2>1, <3>1 DEF Due, Against
  <2>4. CASE r.len # asked.len
    <3>1. /\ r \in Cidr /\ r.len \in 0 .. Width /\ asked.len <= r.len /\ r.first \in Nat
          /\ Current.first <= r.first /\ r.first <= Broadcast(Current)
          /\ Search.first <= Current.first /\ Broadcast(Current) <= Broadcast(Search)
      BY <2>1, <2>2, CoveredIsWithin, CidrIsAligned
    <3>2. /\ Search.first \in Nat /\ Current.first \in Nat
          /\ Broadcast(Search) \in Int /\ Broadcast(Current) \in Int
      BY <2>1, CidrIsAligned, BroadcastOf
    <3>3. r.first \in Addresses(Search)
      BY <3>1, <3>2 DEF Addresses
    <3>4. Covers(Search, r)
      BY <2>1, <2>4, <3>1, <3>3 DEF Covers
    <3> QED
      BY <2>1, <2>2, <3>4 DEF Due, Against, Overlap
  <2> QED
    BY <2>3, <2>4
<1> QED
  BY <1>1, <1>2

LEMMA TestBreakoutsWalks ==
  ASSUME WalkInv, TestBreakouts
  PROVE  WalkInv'
<1>1. Walking /\ pc = "breakouts" /\ UNCHANGED <<table, asked, steady, ever, changes>>
  BY DEF TestBreakouts, Walking
<1>2. /\ found \in Seq([prefix : Cidr, search : Cidr])
      /\ \A j, k \in DOMAIN found : found[j] = found[k] => j = k
  BY DEF WalkInv, SearchTypeOK, AnswersFit
<1>3. CASE HasBreakouts \/ IsEdge(Search, Current)
  <2>1. GoOn(Broadcast(Current) + 1) /\ found' = found
    BY <1>3 DEF TestBreakouts
  <2>2. ASSUME NEW c \in Cidr, Due(Search, c), at <= c.first, c.first < Broadcast(Current) + 1
        PROVE  FALSE
    BY <1>1, <1>3, <2>2, DueAtCurrent, BreakoutsAreAgainst
  <2> QED
    BY <1>1, <1>2, <2>1, <2>2, NextIsAligned, GoOnWalks
<1>4. CASE ~ (HasBreakouts \/ IsEdge(Search, Current))
  <2> DEFINE new == Found(Current, Search)
  <2>1. /\ found' = Append(found, new)
        /\ \/ pc' = "done" /\ UNCHANGED <<searches, at, walked>>
           \/ GoOn(Broadcast(Current) + 1)
    BY <1>4 DEF TestBreakouts
  <2>2. /\ new \in [prefix : Cidr, search : Cidr]
        /\ new.prefix = Current /\ new.search = Search /\ new.prefix.first = at
    BY <1>1, WalkFacts DEF Found
  <2>3. \A k \in DOMAIN found : found[k] # new
    <3>1. Search = searches[1] /\ 1 \in 1 .. Len(searches) /\ at \in Nat
      BY <1>1, WalkFacts
    <3>2. ASSUME NEW k \in DOMAIN found, found[k] = new
          PROVE  FALSE
      <4>1. found[k].prefix.first < at
        BY <1>1, <2>2, <3>1, <3>2 DEF WalkInv, AnswersFit
      <4> QED
        BY <2>2, <3>1, <3>2, <4>1
    <3> QED
      BY <3>2
  <2> HIDE DEF new
  <2>4. /\ found' \in Seq([prefix : Cidr, search : Cidr])
        /\ Len(found) \in Nat /\ DOMAIN found' = 1 .. Len(found) + 1 /\ DOMAIN found = 1 .. Len(found)
        /\ found'[Len(found) + 1] = new
        /\ \A k \in DOMAIN found : k \in DOMAIN found' /\ found'[k] = found[k]
    BY <1>2, <2>1, <2>2
  <2>5. \A k \in DOMAIN found' : k \in DOMAIN found \/ (k = Len(found) + 1 /\ found'[k] = new)
    BY <2>4
  <2>6. \A j, k \in DOMAIN found' : found'[j] = found'[k] => j = k
    BY <1>2, <2>3, <2>4, <2>5
  <2>7. ASSUME NEW c \in Cidr, Due(Search, c), at <= c.first, c.first < Broadcast(Current) + 1
        PROVE  \E k \in DOMAIN found' : found'[k] = Found(c, Search)
    <3>1. c = Current
      BY <1>1, <2>7, DueAtCurrent
    <3>2. Len(found) + 1 \in DOMAIN found'
      BY <2>4
    <3> QED
      BY <2>4, <3>1, <3>2 DEF new
  <2>8. CASE GoOn(Broadcast(Current) + 1)
    <3>1. \A k \in DOMAIN found' : k \in DOMAIN found \/ found'[k] = Found(Current, Search)
      BY <2>5 DEF new
    <3> QED
      BY <1>1, <2>4, <2>6, <2>7, <2>8, <3>1, NextIsAligned, GoOnWalks
  <2>9. CASE pc' = "done" /\ UNCHANGED <<searches, at, walked>>
    <3>1. SearchTypeOK'
      BY <1>1, <2>4, <2>9 DEF WalkInv, SearchTypeOK
    <3>2. ListsFit' /\ WalkFits'
      BY <1>1, <2>9 DEF WalkInv, ListsFit, WalkFits, Walking
    <3>3. HistoryFits'
      BY <1>1, <2>9 DEF WalkInv, HistoryFits
    <3>4. AnswersFit'
      <4>1. \E j \in 1 .. Len(asked.searches) : new.search = asked.searches[j]
        <5>1. 1 \in 1 .. Len(searches) /\ Search = searches[1]
          BY <1>1, WalkFacts
        <5>2. \E j \in 1 .. Len(asked.searches) : searches[1] = asked.searches[j]
          BY <5>1 DEF WalkInv, ListsFit
        <5> QED
          BY <2>2, <5>1, <5>2
      <4>2. new.prefix.len = asked.len /\ CoversEq(new.search, new.prefix)
        BY <1>1, <2>2, WalkFacts
      <4>3. \A k \in DOMAIN found' :
              /\ \E j \in 1 .. Len(asked.searches) : found'[k].search = asked.searches[j]
              /\ found'[k].prefix.len = asked.len
              /\ CoversEq(found'[k].search, found'[k].prefix)
        BY <2>4, <2>5, <4>1, <4>2 DEF WalkInv, AnswersFit
      <4> QED
        BY <1>1, <2>6, <2>9, <4>3
           DEF AnswersFit
    <3>5. \A s, c : PassedOf(s, c)' => PassedOf(s, c)
      BY <2>9 DEF PassedOf, Walking
    <3>6. NothingPassedOver'
      BY <1>1, <2>4, <3>5, AnswersGrow DEF WalkInv
    <3> QED
      BY <3>1, <3>2, <3>3, <3>4, <3>6 DEF WalkInv
  <2> QED
    BY <2>1, <2>8, <2>9
<1> QED
  BY <1>3, <1>4
LEMMA CallWalks ==
  ASSUME WalkInv, NEW list \in SearchLists, NEW len, NEW count,
         <<len, count>> \in Wanted, Call(list, len, count)
  PROVE  WalkInv'
<1>1. len \in 0 .. Width /\ count \in Nat
  BY SearchAssumption
<1>2. /\ list \in Seq(Cidr)
      /\ \A j, k \in 1 .. Len(list) : list[j] = list[k] => j = k
  BY SearchAssumption DEF SearchLists
<1>3. /\ pc = "idle" /\ pc' = "next"
      /\ asked' = [searches |-> list, len |-> len, count |-> count]
      /\ searches' = list /\ steady' = table /\ ever' = table
      /\ UNCHANGED <<table, at, found, walked, changes>>
  BY DEF Call
<1>4. found' = <<>> /\ walked' = {} /\ ~ Walking'
  BY <1>3 DEF WalkInv, HistoryFits, Walking
<1>5. SearchTypeOK'
  BY <1>1, <1>2, <1>3 DEF WalkInv, SearchTypeOK
<1>6. ListsFit'
  BY <1>2, <1>3 DEF ListsFit
<1>7. WalkFits' /\ AnswersFit' /\ HistoryFits'
  BY <1>3, <1>4 DEF WalkFits, AnswersFit, HistoryFits
<1>8. NothingPassedOver'
  BY <1>4 DEF NothingPassedOver, Walking
<1> QED
  BY <1>5, <1>6, <1>7, <1>8 DEF WalkInv

LEMMA ForgetWalks ==
  ASSUME Forget, table' \subseteq Cidr, changes' \in Nat
  PROVE  WalkInv'
<1>1. /\ NoCall.len \in 0 .. Width /\ 0 \in Addr
      /\ NoCall \in [searches : Seq(Cidr), len : 0 .. Width, count : Nat]
  BY WidthAssumption, WholeSpace DEF NoCall
<1>2. SearchTypeOK'
  BY <1>1 DEF Forget, SearchTypeOK
<1>3. ListsFit' /\ WalkFits' /\ AnswersFit' /\ HistoryFits' /\ NothingPassedOver'
  BY DEF Forget, ListsFit, WalkFits, AnswersFit, HistoryFits, NothingPassedOver, Walking
<1> QED
  BY <1>2, <1>3 DEF WalkInv

LEMMA AllocateWalks ==
  ASSUME WalkInv, Allocate
  PROVE  WalkInv'
<1>1. found \in Seq([prefix : Cidr, search : Cidr]) /\ found # <<>>
  BY DEF Allocate, WalkInv, SearchTypeOK
<1>2. found[1].prefix \in Cidr
  <2>1. 1 \in DOMAIN found
    BY <1>1
  <2>2. found[1] \in [prefix : Cidr, search : Cidr]
    BY <1>1, <2>1, ElementOfSeq
  <2> QED
    BY <2>2
<1>3. table' \subseteq Cidr /\ changes' \in Nat
  BY <1>2 DEF Allocate, WalkInv, SearchTypeOK
<1> QED
  BY <1>3, ForgetWalks DEF Allocate

LEMMA LeaveWalks ==
  ASSUME WalkInv, Leave
  PROVE  WalkInv'
BY ForgetWalks DEF Leave, WalkInv, SearchTypeOK

LEMMA OthersWalk ==
  ASSUME WalkInv, NEW c \in Cidr, Insert(c) \/ Delete(c)
  PROVE  WalkInv'
<1>1. /\ UNCHANGED <<pc, asked, searches, at, found, walked>>
      /\ table' \subseteq table \cup {c}
      /\ ever \subseteq ever' /\ ever' \subseteq Cidr
      /\ steady' \subseteq table' \cap ever'
      /\ pc # "idle" => table' \subseteq ever'
      /\ changes' \in Nat
  BY DEF Insert, Delete, call, WalkInv, SearchTypeOK, HistoryFits
<1>2. Current' = Current /\ Search' = Search /\ (Walking <=> Walking')
  BY <1>1 DEF Current, Search, Walking
<1>3. SearchTypeOK' /\ ListsFit' /\ HistoryFits'
  BY <1>1 DEF WalkInv, SearchTypeOK, ListsFit, HistoryFits
<1>4. WalkFits'
  BY <1>1, <1>2 DEF WalkInv, WalkFits, CoversEq, Addresses, Broadcast, BlockSize
<1>5. AnswersFit'
  BY <1>1, <1>2 DEF WalkInv, AnswersFit, CoversEq, Addresses, Broadcast, BlockSize
<1>6. NothingPassedOver'
  BY <1>1, <1>2, AnswersGrow DEF WalkInv, PassedOf
<1> QED
  BY <1>3, <1>4, <1>5, <1>6 DEF WalkInv

LEMMA WalkStep == WalkInv /\ [Next]_vars => WalkInv'
<1> SUFFICES ASSUME WalkInv, [Next]_vars PROVE WalkInv'
  OBVIOUS
<1>1. CASE \E list \in SearchLists, w \in Wanted : Call(list, w[1], w[2])
  <2>1. \A w \in Wanted : <<w[1], w[2]>> \in Wanted
    BY SearchAssumption
  <2> QED
    BY <1>1, <2>1, CallWalks
<1>2. CASE Step
  BY <1>2, NextSearchWalks, TestExistsWalks, TestCoveringWalks, TestBreakoutsWalks DEF Step
<1>3. CASE Allocate \/ Leave
  BY <1>3, AllocateWalks, LeaveWalks
<1>4. CASE \E c \in Cidr : Insert(c) \/ Delete(c)
  BY <1>4, OthersWalk
<1>5. CASE UNCHANGED vars
  <2>1. UNCHANGED <<table, pc, asked, searches, at, found, steady, ever, walked, changes>>
    BY <1>5 DEF vars, call, history
  <2>2. Current' = Current /\ Search' = Search /\ (Walking <=> Walking')
    BY <2>1 DEF Current, Search, Walking
  <2>3. SearchTypeOK' /\ ListsFit' /\ HistoryFits'
    BY <2>1 DEF WalkInv, SearchTypeOK, ListsFit, HistoryFits
  <2>4. WalkFits' /\ AnswersFit'
    BY <2>1, <2>2 DEF WalkInv, WalkFits, AnswersFit, CoversEq, Addresses, Broadcast, BlockSize
  <2>5. NothingPassedOver'
    BY <2>1, <2>2, AnswersGrow DEF WalkInv, PassedOf
  <2> QED
    BY <2>3, <2>4, <2>5 DEF WalkInv
<1> QED
  BY <1>1, <1>2, <1>3, <1>4, <1>5 DEF Next

LEMMA InitWalk == Init => WalkInv
<1> SUFFICES ASSUME Init PROVE WalkInv
  OBVIOUS
<1>1. table \subseteq Cidr
  BY DEF Init, kSubset
<1>2. /\ NoCall \in [searches : Seq(Cidr), len : 0 .. Width, count : Nat]
      /\ 0 \in Addr
  BY WidthAssumption, WholeSpace DEF NoCall
<1>3. SearchTypeOK
  BY <1>1, <1>2 DEF Init, SearchTypeOK
<1>4. ListsFit /\ WalkFits /\ AnswersFit /\ HistoryFits /\ NothingPassedOver
  BY DEF Init, ListsFit, WalkFits, AnswersFit, HistoryFits, NothingPassedOver, Walking
<1> QED
  BY <1>3, <1>4 DEF WalkInv

\* Two answers that overlap are the same prefix, found inside two of the searched
\* prefixes, one of which lies inside the other: as a row it speaks against the answer.
LEMMA AnswersOfRowsDisjoint ==
  ASSUME WalkInv, FoundAvoidsSteadyRows
  PROVE  PoolAnswersDisjoint
<1> SUFFICES ASSUME \A k \in DOMAIN asked.searches : asked.searches[k] \in steady,
                    NEW j \in DOMAIN found, NEW k \in DOMAIN found, j # k,
                    Overlap(found[j].prefix, found[k].prefix)
             PROVE  FALSE
  BY DEF PoolAnswersDisjoint
<1>1. found \in Seq([prefix : Cidr, search : Cidr]) /\ asked.searches \in Seq(Cidr)
  BY DEF WalkInv, SearchTypeOK
<1>2. found[j] \in [prefix : Cidr, search : Cidr] /\ found[k] \in [prefix : Cidr, search : Cidr]
  BY <1>1, ElementOfSeq
<1> DEFINE s == found[j].search
           r == found[k].search
           c == found[j].prefix
<1>3. s \in Cidr /\ r \in Cidr /\ c \in Cidr /\ found[k].prefix \in Cidr
  BY <1>2
<1>4. s \in steady /\ r \in steady
  <2>1. DOMAIN asked.searches = 1 .. Len(asked.searches)
    BY <1>1
  <2> QED
    BY <2>1 DEF WalkInv, AnswersFit
<1>5. c.len = asked.len /\ found[k].prefix.len = asked.len /\ CoversEq(s, c)
      /\ CoversEq(r, found[k].prefix)
  BY DEF WalkInv, AnswersFit
<1>6. found[k].prefix = c
  BY <1>3, <1>5, SameBlock DEF Overlap
<1>7. s # r
  <2>1. found[j] # found[k]
    BY DEF WalkInv, AnswersFit
  <2> QED
    BY <1>2, <1>6, <2>1
<1>8. Against(steady, c, s) = {} /\ Against(steady, c, r) = {}
  BY <1>6 DEF FoundAvoidsSteadyRows
<1>9. /\ s.len \in 0 .. Width /\ r.len \in 0 .. Width
      /\ s.first \in Nat /\ r.first \in Nat /\ c.first \in Nat
      /\ Broadcast(s) \in Int /\ Broadcast(r) \in Int /\ Broadcast(c) \in Int
  BY <1>3, CidrIsAligned, BroadcastOf
<1>10. /\ s.first <= c.first /\ c.first <= Broadcast(s)
       /\ r.first <= c.first /\ c.first <= Broadcast(r)
  BY <1>3, <1>5, <1>6, CoveredIsWithin
<1>11. CoversEq(s, r) \/ CoversEq(r, s)
  <2>1. s.first <= Broadcast(r) /\ r.first <= Broadcast(s)
    BY <1>9, <1>10
  <2>2. s.len <= r.len \/ r.len <= s.len
    BY <1>9
  <2> QED
    BY <1>3, <2>1, <2>2, OverlapIsNested
<1>12. s.len # r.len
  BY <1>3, <1>7, <1>11, SameBlock
<1>13. CASE CoversEq(s, r)
  <2>1. Covers(s, r)
    BY <1>9, <1>12, <1>13 DEF CoversEq, Covers
  <2> QED
    BY <1>4, <1>5, <1>6, <1>8, <2>1 DEF Against, Overlap
<1>14. CASE CoversEq(r, s)
  <2>1. Covers(r, s)
    BY <1>9, <1>12, <1>14 DEF CoversEq, Covers
  <2> QED
    BY <1>4, <1>5, <1>8, <2>1 DEF Against, Overlap
<1> QED
  BY <1>11, <1>13, <1>14

LEMMA Walks == Spec => [](WalkInv /\ SearchInv)
<1>1. Init => WalkInv /\ SearchInv
  BY InitWalk, InitSearch
<1>2. WalkInv /\ SearchInv /\ [Next]_vars => (WalkInv /\ SearchInv)'
  BY WalkStep, NextStep
<1> QED
  BY <1>1, <1>2, PTL DEF Spec

\* The walk stays inside the address space and on prefixes: no jump behind a row
\* leaves it at an address no prefix of the wanted length begins at.
THEOREM WalkStaysOnPrefixes == Spec => []SearchTypeOK
<1>1. WalkInv /\ SearchInv => SearchTypeOK
  BY DEF WalkInv
<1> QED
  BY <1>1, Walks, PTL

\* However far find_free_prefix jumps, and whatever rows come and go between its
\* queries, it has returned every prefix behind it that was free all the time.
THEOREM NoFreePrefixIsMissed == Spec => []NothingPassedOver
<1>1. WalkInv /\ SearchInv => NothingPassedOver
  BY DEF WalkInv
<1> QED
  BY <1>1, Walks, PTL

\* The prefixes returned for a pool do not overlap, though its members may lie
\* inside each other and are searched one by one.
THEOREM AnswersForPoolsAreDisjoint == Spec => []PoolAnswersDisjoint
<1>1. WalkInv /\ SearchInv => PoolAnswersDisjoint
  BY AnswersOfRowsDisjoint DEF SearchInv
<1> QED
  BY <1>1, Walks, PTL

=============================================================================
