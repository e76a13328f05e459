# Verification of NIPAP

NIPAP keeps an IP address plan in PostgreSQL. Much of its logic is in triggers and
functions of the database (`nipap/sql/*.plsql`, which `nipap/nipap/db_schema.py` holds
as the text that is executed); a Python backend (`nipap/nipap/backend.py`) turns
requests into statements; a Kafka producer forwards changes; a web interface and a
command line client work on it through a client library that caches objects. The
modules here model these parts, TLC checks them on small instances, and TLAPS proves
the main invariants for every instance.

Paths are relative to `src/`. `PROJECT.json` maps every definition to the lines it
stands for.

## Inventory

| Component | State | Operations | What makes it hard |
| --- | --- | --- | --- |
| Address plan: `ip_net_plan`, `ip_net_vrf`, `ip_net_pool` and their triggers (`nipap/sql`) | the prefixes; derived columns `indent`, `children`, `used_addresses`, `inherited_tags`, `display_prefix`; counters of VRFs and pools | INSERT, UPDATE, DELETE with BEFORE and AFTER triggers, `calc_indent`, `calc_tags`, foreign keys that cascade | every derived column is kept by increments or partial recounts, from records fetched before other triggers changed them; triggers fire inside triggers |
| Operations of the backend on prefixes, VRFs, pools and ASNs (`backend.py`) | the audit log `ip_net_log` | add, edit, remove, each several statements | autocommit: change and log entry are separate transactions; statements are repeated when a connection was lost |
| Free space (`functions.plsql`) | counts kept with pools | `find_free_prefix`, `find_free_ranges`, `iprange2cidr`, `cidr_count`, `calc_pool_free_prefixes` | a walk with jumps over a table that changes while it walks; off-by-one at both ends of everything |
| Kafka queue (`kafka_produce_event`, `kafka_producer.py`, `nipapd.py`) | events with `processed` flags; batch, client queue and session of each producer | write, commit, select, send, flush, mark | ids committed out of order, crashes, timeouts, lost sessions, two producers, retries of whole batches |
| Connection and schema (`backend.py`, `db_schema.py`, `nipapd.py`) | version in the database's comment, tables, functions, triggers; connection and call stack of each process | connect, install, upgrade, `_execute` with a retry | `_connect_db` and `_execute` call each other; scripts are transactions of their own, and daemons start at the same time |
| Search (`backend.py`, `smart_parsing.py`), paging in `nipap_cli.py` and the web interface | none; the client's offset | parse, expand to a WHERE clause, select with parents, children and neighbours | the limit applies to an inner query and the page to the outer one; rows change between pages |
| Authentication (`authlib.py`, `nipap_passwd.py`) | `_auth_cache` of each process; user databases | `get_auth`, `authenticate`, account changes | cached answers, refusals and broken objects |
| Client library (`pynipap.py`) | `_cache` of objects, shared `AuthOptions` | get, save, remove | objects and options shared by all threads of a process |
| Web interface (`xhr.py`, `auth.py`) | sessions | login, logout, add, edit, remove | several calls per request, threads, cached objects that are changed before they are saved |
| Front ends (`nipap_xmlrpc.py`, `rest.py`) | none | authentication and translation of calls | modelled only as the calls the modules make |
| Daemon, whois, Java and NSO clients, utilities | | | see "Not modelled" |

Interactions. Browsers call the web interface, whose threads share pynipap's cache and
options and call the XML-RPC front end; that authenticates the web interface's account
(through `AuthFactory`) and calls the backend; the backend sends statements; triggers
run inside the statement's transaction and write to the same tables and to
`kafka_produce_event`; producers poll that table. Backend workers meet only in the
database.

What each part must get right:

- **Plan.** Types nest (only reservations hold reservations and assignments, a host has
  an assignment right above it), every derived column is what the rows say, and the
  whole behaves like a registry of typed prefixes.
- **Backend.** An answered request has logged what it changed, the log says nothing
  else, a refused request has changed nothing.
- **Free space.** What is found is free, nothing free is passed over, the walk ends, and
  the kept counts agree with what can be found.
- **Queue.** Nothing is marked that was not attempted, everything is attempted in the
  end, a topic ends with the last change, and two producers share the work.
- **Schema.** Who is connected finds the tables its version needs, and starts end.
- **Search.** A line means what it says; the pages of an answer fit together.
- **Authentication, web.** Answers are recent, failures are forgotten, changes are
  logged under the right name, the object cache follows the database.

## Modules

| Module | Models |
| --- | --- |
| `PrefixTree` | containment of prefixes: `Above`, `Inside`, `Parent` as the queries with `>>`, `<<` and `ORDER BY masklen` find them |
| `PlanTriggers` | the AFTER trigger for its three commands, with `calc_indent`, `calc_tags` and the triggers these fire |
| `AddressPlan` | the state machine: BEFORE checks, INSERT, UPDATE (in place and renumbering), DELETE, the two statements of a recursive removal |
| `PrefixRegistry` | the abstract specification `AddressPlan` implements: typed prefixes that nest, with a depth |
| `PlanLifecycle` | `AddressPlan` with VRFs and pools that come and go: foreign keys, `remove_vrf` in its five statements |
| `AddressSpace` | arithmetic of prefixes as numbers: `set_masklen`, `broadcast`, containment |
| `FreeSearch` | `find_free_prefix`, one step per query, with other workers; the INSERT that allocates |
| `FreeSpace` | `find_free_ranges`, `iprange2cidr`, `cidr_count`, `calc_pool_free_prefixes` as operators over a table |
| `KafkaQueue` | the event queue, its producers and their failures |
| `Connection` | daemons and workers that connect, install, upgrade, lose connections and crash |
| `Backend` | extends `Connection`: the twelve operations that change something, statement by statement, and the audit log |
| `SmartQuery` | the parser and the expansion of queries, and what a line means |
| `Search` | extends `SmartQuery`: the four searches, their options, and clients that read page by page |
| `AuthCache` | `AuthFactory`'s cache, the SQLite, LDAP and token backends, `nipap-passwd`, a directory that fails |
| `WebRequests` | extends `AuthCache`: browsers, sessions, threads, pynipap's objects and cache, the calls to nipapd |
| `MC...` | small instances for TLC |
| `...Proofs` | theorems and proofs |

### How the modules correspond to the code

**AddressPlan, PlanTriggers.** A member of `Prefix` is a value of the unique key
`(vrf_id, prefix)`; `plan` maps each row to what the user writes (type, node, tags,
pool), `indent`, `display` and `stat` hold what triggers write. One action is one
statement with all its triggers: `AddPrefix` is the INSERT of `add_prefix`, `EditPrefix`
and `Renumber` the UPDATE of `edit_prefix`, without and with a new prefix, `RemovePrefix`
the DELETE of `remove_prefix`. `RemoveHosts`, `RemoveRest` and `RemoveRestFails` are a
removal with `recursive=True`: two DELETEs in two transactions, anything in between. The
checks of the BEFORE trigger are the guards `TypeRules`, `PoolRules`, `NodeRules`,
`TypeChangeRules`, and `FullCheck` is its early return. In `PlanTriggers` the AFTER trigger
is a pipeline on a database record, in the order of the code; what the code reads of a
record fetched early is read of the record `db` the trigger started with, so stale reads
stay stale. An UPDATE inside a trigger fires the AFTER triggers of the rows it changed
(`NestedTriggers`, `CascadeTags`).
Left out: `free_addresses` (total minus used), `vlan`, `status`, texts, and
`free_prefixes` and `total_prefixes` of a pool, which `FreeSpace` treats. A statement that
matches several rows is one row at a time for edits and all at once for removals, whose
AFTER triggers are folded in one order (they commute). The order in which a DELETE visits
its rows is free, so a removal may pass whenever some order passes.

**PlanLifecycle.** `StartRemoval`, four times `EmptyVrf` and `DeleteVrf` are `remove_vrf`;
`RemovalFails` ends it anywhere. `Cascade` is ON DELETE CASCADE, `Detach...` ON DELETE SET
NULL, which is an UPDATE with all checks and triggers.

**FreeSearch.** `find_free_prefix` is a VOLATILE function and transactions are READ
COMMITTED (autocommit, `backend.py:738`), so every query inside it has a snapshot of its
own. `pc` names the query that comes next, `searches` is what is left of `arg_prefixes`,
`at` is `current_prefix`, `found` what `RETURN NEXT` has collected. `Insert` and `Delete`
are other workers between any two queries; `Allocate` is the INSERT of `res[0]` in
`add_prefix`. The table holds reservations of one VRF and family, so the checks of
`AddressPlan` never forbid an INSERT. `steady`, `ever` and `walked` are history.

**FreeSpace.** Operators over every table of a small address space that INSERTs and DELETEs
can produce. The loops of `iprange2cidr` and the rounding of `num_cidrs` are kept; the
logarithm in `iprange2cidr` is taken to be exact.

**KafkaQueue.** `Change` draws an id inside a worker's transaction, `Commit` and `Abort` end
it; ids may become visible out of order, but not those of one row, which is locked. A
producer is `polling`, `sending`, `flushed` or `down`, with `batch` and `sent` the local
variables of `run()`, `session` the transaction that holds its `FOR UPDATE SKIP LOCKED`
locks, `buffer` the client library's queue. `Reset` is what every failure path ends in. A
message in flight while its client is replaced is taken to be lost.

**Connection.** `stack` is a process's Python call stack, of `_connect_db` ("connect", before
and after the version was read), `_db_upgrade`, a loop over scripts, and `_execute` with its
`callno`. A script of `db_schema.py` is one transaction; of what it makes the model keeps
the version it writes, the version its tables are of, whether there is hstore, and whether
functions and triggers are there and new. `Loses` and `LoseScript` lose the connection
before or after the commit; `Retry` is the branch of `_execute` that connects again.

**Backend.** An operation is a frame with the statements it has left (`Program`), each a call of
`_execute`; results that later statements depend on (rows listed before the change) stay in
the frame. `Logs` and `Removals` are the loops over these rows, one row at a time. `ledger` is history: what each request changed and logged. `MustRefuse` and
`MayRefuse` are keys, foreign keys and triggers. Rows have no content but their pool.

**SmartQuery, Search.** A line is a sequence of tokens; `AstToDictSql` and `Where` follow the code,
`Means` says what the line means without them. `Hits` is the inner query with its LIMIT,
`Answer` the join around it, `Page` what is returned; `ReadPage` is the loop of
`nipap_cli` ("cli") or of the web interface ("web"), which asks for its last row again.

**AuthCache.** A call of `get_auth` and `authenticate` is one step: nothing else runs in the
process in between. A cached object has been asked nothing yet (`NotYet`), keeps an answer,
or was left without its LDAP connection (`Unbound`). `lastTrue` and `lastTrouble` are
history: when the user databases would last have answered so, when the directory was last
not up.

**WebRequests.** A request of a thread is interrupted only at calls to nipapd. A process has
numbered copies of the object of an id, and `cached` names the one in pynipap's `_cache`; threads
share copies as the code does. `options` is `AuthOptions`, set by `setup_auth` before each
request. Of a prefix the model keeps its pool and one text. `behind`, `trail`, `mixed`, `old`,
`committed` are history.

## Runs

| Run | Bounds | Shows |
| --- | --- | --- |
| `plan_stable` | five IPv4 prefixes at four depths with a branch, one tag, one recursive removal at a time; no renumbering | nesting, hosts under assignments, `indent`, `children`, `used_addresses`, `inherited_tags`, `display_prefix`, and that the plan implements `PrefixRegistry` |
| `plan_renumber` | six prefixes: a path of depth four with neighbours; renumbering | `used_addresses` and VRF addresses survive moves up, down and sideways, rows moved into their own sub-prefixes included |
| `plan_lifecycle` | five prefixes in two VRFs and two families, one pool; one removal of a VRF at a time | counters of pools and VRFs stay true while VRFs and pools come and go; a pool stays in one VRF |
| `free_search` | addresses of two bits: all tables of up to two of the seven prefixes, all lists of one or two prefixes to search, one row added or removed during the call; wanted are one prefix of two addresses or two single ones | nothing found that a steady row speaks against, nothing passed over, answers from pool members disjoint even when members nest, every call returns |
| `free_space` | addresses of four bits, all tables of up to three of the 31 prefixes | free ranges are cut exactly; the count never hides a free prefix |
| `queue_one` | three rows, one of them never sendable, two workers, one producer, four events, batches of two, two failures | shape of the queue, nothing marked unattempted, the topic ends with the last change |
| `queue_two` | two rows, one worker, two producers, three events, one failure, fair | no event sent twice unless something failed; every event gets out |
| `backend` | two daemons, two workers; schemas empty, of versions 4 and 6, and current; all twelve operations, two at a time; two losses, a crash | what a connected process finds, that starts succeed and end, and what the audit log says |
| `search` | prefixes in a tree of depth four with another VRF, three rows of the other tables; lines of up to five tokens; pages of two, then three rows; two changes between pages | lines find what they mean, pages fit together, nothing is passed over |
| `web_requests` | one process with two threads, two browsers, one worker of nipapd, one prefix, pool and VRF, two requests, three logins, changes of accounts, directory and by other clients | recent answers, an end to trouble, right names in the log, a current object cache, errors that change nothing |
| `remove_ipv6`, `refused_edit` | as the runs above | disagreements, see below |

Why the bounds are enough. Triggers look at a row, its parent, its direct children and
what is inside, so a path of four rows with a sibling has every relative position of two
rows and an intermediate row to get wrong. The walk of `find_free_prefix` depends on one
block at a time; two search prefixes give overlap and nesting, one foreign change per call
hits every gap between two queries. A batch of two with four events has a full and a
partial batch and a second round; two failures allow a failure in the retry of a failure. A
lost connection while a statement is repeated needs two losses. Requests of the backend
interfere in pairs. Two threads of one process and two users are enough to send one
user's request with the other's options, and a request after a failed one reads what that
left in the cache. Three tokens in a row exercise the parser's two slots for operands.

**Slices.** `MCBackend`, `MCWebRequests` and `MCSearch` are unions of slices: in each slice
some budgets (requests, losses, logins, changes) are used up in the initial states, because their full
product is out of reach; the next-state relation is always the whole one. The comments
on the slices say what each combines. What no slice combines is not checked: losses of
connections while two requests run, changes of accounts while two threads work, changing
rows under lines of several tokens.
`plan_lifecycle` has a VIEW that leaves out the pool's used counters, which drift (see
`PoolUsed.cfg`) and which no guard and no checked property reads. `backend` and `search` have
ACTION_CONSTRAINTs: processes of a kind start in order (they do not differ), and rows change under
simple lines only. Symmetry of rows, threads and browsers is used where no property is
temporal. Runs that allow deadlock rest when their budgets are used up.

**Fairness.** `KafkaQueue!FairSpec`: weak fairness of each producer's loop, because `run()` is a
`while True` that nothing blocks for ever (send, flush and connect have timeouts), and of
`Deliver`, because a reachable broker answers. No fairness of workers, failures or `Start`:
nobody has to restart nipapd. `EventsGetOut` therefore asks that some producer stays
up, and that no event is of the kind `send()` always refuses, since one such event holds
back its whole batch for good. `FreeSearch!FairSpec`: weak fairness of `Step`, because the
database goes on with a statement it has begun. `Backend!Spec`: weak fairness of the processes'
own steps of connecting and executing, for `StartsEnd`: a process that runs goes on, and a
database that does not answer is the failure `OpenFails`. Losses are bounded: a connection that is
lost for ever is a sequence of losses, each of which fails the start at the latest when
`_execute` has retried once.

## Disagreements between code and documentation

Runs that TLC must find violated:

- `remove_ipv6`: on DELETE `i_max_pref_len` stays 32, so removing a /128 does not give its
  address back to `used_addresses` of the parent (`triggers.plsql:406`).
- `refused_edit`: an edit that nipapd refused stays in pynipap's cached object and is written
  by the next request for the same prefix (`xhr.py:702`).

Further configurations, kept because they show something a reader may meet; in each of them TLC finds the
property violated (`tlc -config X.cfg M`):

- `RenumberHosts.cfg` (`MCAddressPlan`): an assignment may be renumbered away from its hosts; the check looks at the
  written row only (`triggers.plsql:157`).
- `PoolUsed.cfg` (`MCAddressPlan`): a prefix put between a member and its sub-prefix is charged to the pool in full
  on top of what it covers.
- `AllocationRace.cfg` (`MCFreeSearch`): `find_free_prefix` and the INSERT are two transactions, so an allocated
  prefix may have been filled in between.
- `FreeCount.cfg` (`FreeSpace`): `cidr_count` counts a free block of half the wanted size as one free prefix,
  because `power(2, -1)` is rounded up.
- `PoolEntries.cfg` (`MCBackend`): `edit_prefix` without a pool logs that the prefixes left theirs
  (`backend.py:2620`).

Seen while modelling:

- Plan: `ChildrenCorrect` and `InheritedTagsCorrect` fail with renumbering (`new_parent` is fetched before `calc_indent`
  moves the parent, `triggers.plsql:505`; `calc_tags(OLD.prefix)` finds no row there, `:788`). Renumbering to the other
  family leaves `num_prefixes` and the totals of the VRF with the old one (`:595`). An edit of `node` alone returns
  before the check that forbids a node on a reservation (`:127`, `:206`).
- `find_free_prefix` documents a default count of 1000 (`backend.py:2707`); the code sets 1.
- Schema: a crash behind the script with the tables leaves a database that looks finished without functions and
  triggers (`backend.py:781`; `FineWhenDone` in `Connection`). The script of version 6 succeeds on its own result and sets the
  version back to 7 when it is repeated; later starts fail. A missing hstore with `--auto-install-db` on tables that
  exist recurses until Python's limit.
- nipapd takes the lock of its PID file (`nipapd.py:262`) after it has installed or upgraded the schema (`:192`), so that two
  starts may do so at the same time.
- Backend: an INSERT whose answer is lost is repeated and refused as a duplicate; its change is not logged. A recursive removal
  logs the prefixes that match the spec, not those it took along (`:2972`). Removing the default VRF removes its prefixes and
  then fails.
- Search: a page of `search_prefix` with a limited `parents_depth` may repeat or miss rows, since further hits add parents that come
  earlier in the order; clients of this repository ask for all parents. `search_asn` and the search for tags ignore the documented
  offset (`:4083`). The key `display` of a result is always true, though documented to tell rows apart (`:3117`). A line that begins with a boolean, or has
  only booleans, ends in an error nobody catches. The parser knows attributes the backend does not (`pool`, `vrf`,
  `display`, `match`, `children`, and the misspelt `free_adresses`, `used_adresses`), and `nipap_cli.py:1425` names an
  undefined variable.
- Two Kafka producers may send the events of one row in the wrong order; one event that is always refused holds back its batch.

## Theorems

TLAPS proves, for every finite set of prefixes with a containment order as in `CoversAssumption` (a strict order, the
prefixes around one form a chain, longer masks inside), any number of addresses per prefix (`TotalAssumption`), and any
tags, nodes and pools (`AddressPlanProofs`):

- `PlanHasItsShape`, `TypesNest`, `IndentIsDepth` (`Spec`, renumbering included) from the invariant `PlanInv`: table shape,
  nesting and indent together. Nesting needs no strengthening but a lemma: the check of the innermost row stands for
  all rows above, because what lies around a reservation is reservations (`AboveReserved`). For indent the argument is
  that one count and one shift of `calc_indent` turn depths in a table into depths in the table with one row more, or
  one less (`IndentOfNewRow`).
- `PoolsStayInOneVrf` (`Spec`) is inductive as it stands, `PoolMembersAreCounted` (`Spec`) from `PoolInv`: the counters of
  a pool are sums over its members. The trigger takes a member out as what it was and puts it in as what it
  is (`MembersLeft`, `SumTakes`), and a statement that removes many rows may take them in any order. The record that is
  taken out is the one fetched before other triggers wrote, so the invariant holds between two rows of a statement too.
- `HostsKeepTheirAssignment` (`SpecStable`) from `HostInv`: `PlanInv` and the property. It needs nesting, because an
  INSERT between a host and its assignment must be shown impossible. It is false with renumbering. `HostsAreDisplayed`
  (`SpecStable`) builds on it in `DisplayInv`: the assignment whose length is displayed does not change as long as the
  host stays, because nothing fits between them.
- `ChildrenAreCounted`, `TagsAreInherited` (`SpecStable`) from `ColumnInv`. The lemmas are in `PlanTriggersProofs` and speak
  of one trigger on one table: after an INSERT or DELETE of a row exactly the old and the new parent recount, and these are the rows
  whose direct children change (`KidsAfterInsert`). A change of tags is written level by level; each round of
  `CascadeTags` moves the rows that still have to be written one level down, so it ends after as many rounds as there are rows. For a
  DELETE of many rows the triggers run one after another on a table that is already empty of all of them; `Halfway`
  says what the columns are when some of them have run. Both statements are false with renumbering for reasons
  given above.
- `VrfsAreCounted` (`SpecStable`) and `VrfsStayCounted` (`Spec`) from `VrfInv`: `PlanInv` and `Balanced`, which says for every VRF,
  family and counter that nothing is over between what the counter says and what the top level rows come to. One statement
  changes the column `indent` of many rows, and each of these fires a trigger of its own inside the first, which moves the shares
  of its row; what is charged is computed from records fetched before. So the argument keeps books: every step of
  a trigger either changes columns and counters by the same amounts (`SameBooks`: `NestedBooks` for the triggers inside,
  `RecountBooks`, `CascadeBooks`) or posts what one row came or went with (`Posted`), and the row of the statement is what
  the sum has more or less (`ComingBalances`, `GoingBalances`, `ReplacingBalances`). For a DELETE of many rows whose
  triggers run one after another, `Mixed` says which columns are old and which are new in between. With renumbering the
  theorem assumes `OneFamilyPerVrf`, since a prefix that changes its family is booked where it was (see above).
- `UsedAddressesAreRight` (`SpecStable`) and `UsedAddressesStayRight` (`Spec`) from `UsedInv`: `VrfInv` and `UsedUp`, that a row
  has used what the rows right below it come to. What a row is charged for is its own addresses without those of the rows
  it takes over (`ChargeIsCost`), and this is what its parent's sum changes by (`BelowWithout`). A removal takes
  from a row what every removed row cost that has it for its innermost covering row among those that stay (`Left`), and this
  is what its sum loses in whatever order they go (`BelowAfterDelete`, `DeletesCharge`). A renumbering finds the rows
  right below the new prefix by an `indent` the old one still counts in; `UsedOfMovedIs` goes through the ways the two
  may lie to each other. Both assume `SingleAddressesAre32`: single addresses are those whose mask has 32 bits, because the
  DELETE branch takes every other prefix for a larger one, which is the finding of `remove_ipv6`.
- `RegistryIsImplemented` (`SpecStable`): the refinement to `PrefixRegistry`. Every statement is `Register`, `Retype` or
  `Withdraw` of the registry, or leaves it alone; what the registry demands of the new state is `HostInv`, and its
  depths are `IndentCorrect`.

With VRFs and pools that come and go (`LifeSpec`, at the end of `AddressPlanProofs`):

- `PoolsImplyOneVrf`, `PoolMembersStayCounted`, `VrfsAreCountedForLife`: what the foreign keys delete is a removal like any other, and what they detach is an UPDATE
  with its triggers; a removed pool has no members left when its row goes (`DetachTakesMembers`).

For any numbers of rows, workers, producers and events, and any batch size (`KafkaQueueProofs`):

- `QueueHasItsShape`, `MarkedIsAttempted` from `QueueInv`: what a producer has sent of its batch is on its way, delivered
  or refused (`SentIsOnItsWay`), so once it has flushed the whole batch was (`FlushedIsSent`); producers that are polling
  or down hold nothing (`IdleHasNoBatch`).
- `TopicsAreCurrent` (one producer) from `TopicInv`: events of a row become visible in the order of their ids, a batch holds
  everything that was unprocessed and visible up to its last event, and what is sent again starts at the first event of the batch that
  failed, so a topic may jump back but ends where the batch ends.
- `SentOnce` (any number of producers) from `QuietInv`: while nothing has failed, every event sent is processed or in the locked
  batch of one producer, and the sessions' locks keep batches apart.

For addresses of any width, any number of rows, searches and changes in between (`FreeSearchProofs`; the geometry of prefixes,
which the next part needs too, is in `AddressSpaceProofs`):

- `NothingTakenIsFound` from `SearchInv`: a row speaks against a prefix by being the prefix, by lying around it or by
  lying inside it, and each of the three queries rules out one of these for the rows that stay. The invariant (`Tested`)
  keeps what the earlier queries have ruled out until the last one is made.
- `WalkStaysOnPrefixes`, `NoFreePrefixIsMissed`, `AnswersForPoolsAreDisjoint` from `WalkInv`. They rest on the geometry of prefixes,
  proved from `WidthAssumption`: two prefixes are nested or disjoint, and rounding an address up to a multiple of the wanted size
  lands on the next place a prefix of that size can be. So a jump over a row passes over places that overlap the row only.

For addresses of any width and tables of any size (`FreeSpaceProofs`):

- `FreeSpaceIsCut` holds for every finite table (`FreeCidrsCover`), so the invariant of `Spec` is no more than that (`TableOK`).
  `find_free_ranges` adds up from child to child; what it has collected are the free addresses below `last_used`, each range as long as
  it can be (`Gaps`, from `GapsGrow`), because the direct children come in order and whatever else lies inside lies in one of
  them (`ChildrenAre`). It ends with all free addresses or with all but the last one (`FreeRangesAre`). `iprange2cidr` calls itself with what lies before
  and after the big prefix, both shorter (`RangeSplits`), so what it returns for a range is defined (`CutsExist`), and by the
  smallest range that would be cut wrongly there is none (`RangesAreCut`). The search for the big prefix finds
  one: a block that lies in the range is found at its length or, if it ends with the range, its first half at the next
  (`BlocksFind`, `FirstHalf`); a single address is found at the latest.
- `CountCoversWhatIsFree` needs to know how large the blocks are. What `BigPrefix` takes out of a range is the largest block
  but in one case: the upper block of two is refused when it ends with the range (`EXIT WHEN`), and then its first half may be
  taken. So a free prefix either lies inside one block or overlaps one which is its first half (`Charged`, `BigPrefixIs`); `numeric(40)` rounds
  this half up to one, and no block is charged with more prefixes than it is counted for (`ChargedCount`, `CoveredCount`). Adding
  up block by block gives the bound (`ClaimedCount`). It would be false without the rounding, which is the mutant of that run.

For any workers, user names, passwords, tokens, timeouts and account changes (`AuthSpec`, any caller at any time; the first part of
`WebRequestsProofs`):

- `CachedAnswersAreRecent`, `DirectoryRecovers` from `AuthInv`: an entry that may still be used was true, or its trouble was,
  not earlier than a timeout before it expires (`Timely`), and the history variables never fall behind the present
  (`HistoryOK`). A fresh object answers what the databases say or what the directory does to it (`FreshObject`).

For any number of processes, threads, browsers, workers and objects (`WebRequests!Spec`, the second part of it):

- `ChangesAreAttributed` from `WebInv`, which contains `AuthInv`: an active request whose process has seen no other request has its
  own user in the shared options (`OptionsOfAsker`), and whatever nipapd's caches hold for the account of the web interface, with
  these options, names that user or may not write (`CacheSpeaks`). This rests on `TrustAssumption`: the account of the web interface is
  trusted or read-only, as `nipap-passwd` and the documentation of the web interface set it up. With an account that may write and is not trusted every
  change would be logged under the account's own name.
- `WebAnswersAreRecent`: the composed system keeps `AuthInv` too.
- `CachedRowsAreCurrent`, `FailedRequestsChangeNothing` from `CacheInv`: while nothing has gone behind pynipap's back, the copy that
  `_cache` names is what the database says or is held by the one request that has changed it and not yet saved it;
  a request remembers what it has committed.

For any number of daemons, workers and requests, any versions, crashes and losses (`Backend!Spec`, `BackendProofs`):

- `SchemaIsSafe` from `ConnInv`: the version never promises tables that are not there and who is connected finds the tables. Every
  start has `_connect_db` at its bottom, so a process is done only when that has read the latest version; and every script
  on a stack moves the tables forward, so what was read stays true. Workers that serve requests have no scripts on their stacks,
  and every statement of theirs lies on an operation.
- `StartsGetThrough` from `StartInv`: a start that nothing disturbs is the only one (`Alone`) and is at one of the places of
  `OnItsWay`, where what it has read is the version and the scripts left fit the schema (`Fits`); or it has met a schema no script
  brings forward and will never get through (`Stuck`, `Hopeless`). `WayStep` goes through the first, `HopelessStep` through
  the second. That a start failed for its schema alone must stay true when others run later, which is why `Hopeless` speaks of
  every start and not only of the undisturbed ones.
- `VersionFallsBehindOnlyWhenDisturbed`, `ConnectedFindsAll` from `WholeInv`, which adds to `StartInv` what the scripts make of a
  schema when no connection is lost and no two daemons start (`MadeWhole`): the tables are the latest only with functions and
  triggers complete, or with the daemon that is finishing them. They assume of the first schemas what the invariant says of
  all (`FirstSchemasAreWhole`; the schemas of the run are).

- `AnsweredLogs`, `LogTells`, `RefusedHasChangedNothing` (second part of `BackendProofs`) from `LogInv` next to `ConnInv`. The properties speak of
  finished requests and of sets of entries; the invariant says of every operation on a worker's stack, at every one of its
  statements, what has been changed and logged so far and what is left to do (`Stage`, one predicate per place of the
  programs: `BeforeInsert`, `BeforeList`, `Emptying`, `Logging`, ...). What lies on an operation is the head of its agenda, so the same
  predicate holds while a statement waits for `_connect_db` below it (`Agenda`, `KeepsWork`). The argument, statement by statement:
  the list that was taken still fits the rows, or another operation has crossed (`AllListed`, `PoolsThere`, `GoneOrThere`); a
  statement that is repeated because its answer was lost finds its own change there (`BeforeUpdate`, `GoneOrThere` allow
  both); hence the change is what the entries will say (`Stands`); the loop over the rows writes them all (`LoggingTo`). `remove_vrf` has two
  frames: what is left in its VRFs lies within the removals it still has to call (`EmptyingTo`). Other workers either change nothing or
  mark the request as crossed (`Beside`), and no two workers serve the same request (`Apart`). `DataOK` says that
  references between rows hold. That a refused request has changed nothing rests on the order of statements: all that may be refused
  comes before the change, or is the change, except for `GetPool` of a pool that was listed, which is there (`PoolsThere`).

The assumptions on constants are evaluated by TLC in the runs. `BackendAssumption` says that a request names rows of one kind and
that a recursive removal takes along all that lies inside the prefixes it names (`RequestOK`); `RowsAssumption` that the
database starts without dangling references. Both follow from the tables' columns, keys and foreign keys.

Only model-checked: liveness (`EventsGetOut`, `EveryCallReturns`, `StartsEnd`), which is out of the prover's reach; `SmartQuery` and
`Search`, whose operators are recursive. The induction theorems of the library cannot be used with the installed provers;
where a proof needs induction (ranges, sums over sequences and sets) it takes the least number for which the claim would fail
(`LeastOf`, `UpTo`).

## Not modelled

- Overlapping transactions inside the triggers. A statement is one step of `AddressPlan`. The triggers take no locks on the rows they
  look at, so two workers under one parent may pass checks that contradict each other or write back old sums; no
  line of the code or its documentation orders them, so there is nothing to check the model against.
- The payloads of Kafka events, and the order of the triggers that write them.
- The form of values: route targets, VLANs, dates, ASN notation, JSON and XML conversion, the REST interface's translation.
- `search_prefix` with `parent_prefix`, in which only the first hits are marked; `list_*` and the search for tags, one SELECT each.
- Commands of the command line client other than lists (one call of pynipap and a print each), tags and ASNs in pynipap, pages and
  scripts of the web interface.
- Creation and upgrade of the SQLite file of accounts, TLS, keys of tokens.
- Options, PID file, logging and tracing of the daemon; the whois daemon (read-only look-ups); Java clients, the NSO package,
  import scripts (other programs that call the same interface).
