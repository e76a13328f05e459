------------------------------ MODULE WebRequests ------------------------------
(***************************************************************************)
(* Requests to the web interface (nipapwww/xhr.py, nipapwww/auth.py), run  *)
(* by the threads of its processes through pynipap, whose objects, object  *)
(* cache and authentication options the threads of a process share, and    *)
(* answered by the workers of nipapd.  A thread may be interrupted at      *)
(* every call to nipapd.  Pools and VRFs appear where prefixes refer to    *)
(* them and as objects that are edited and removed themselves.             *)
(***************************************************************************)
EXTENDS AuthCache, FiniteSets

CONSTANTS
  Process,      \* processes of the web interface
  Nipapd,       \* workers of nipapd
  Browser, Thread,
  ProcessOf,    \* the process of each thread
  Prefix, Pool, Vrf,  \* ids of the three tables
  VrfOf,        \* vrf_id of each prefix: no edit changes it
  Text,         \* values of the columns that refer to nothing
  FirstRows,    \* the tables a run starts with
  FirstSessions, \* the cookies it starts with: they outlive the processes
  NoPool, Gone, Unborn, Keep, NoSession,
  WebUser, WebPassword,  \* the account of the web interface in nipapd
  MaxRequests,  \* bound: requests to the web interface
  MaxLogins,    \* bound: requests to log in, and calls with a token
  MaxOthers     \* bound: changes by other clients of nipapd

ASSUME WebAssumption == /\ Process \cup Nipapd = Worker
                        /\ ProcessOf \in [Thread -> Process]
                        /\ WebUser \in Local /\ WebPassword \in Password
                        /\ FirstSessions \subseteq [Browser -> Identity \cup {NoSession}]
                        /\ NoOptions \notin Identity /\ NoSession \notin Identity
                        /\ MaxRequests \in Nat
                        /\ MaxLogins \in Nat
                        /\ MaxOthers \in Nat

\* The account of the web interface, if there is one, speaks for its users: it is
\* trusted, or it may not write.
ASSUME TrustAssumption ==
  /\ \A a \in FirstAccounts :
       a[WebUser] # NoAccount => a[WebUser].trusted \/ a[WebUser].readonly
  /\ \A account \in LocalAccounts : account.trusted \/ account.readonly

Id == Prefix \cup Pool \cup Vrf
Row == [text : Text, pool : Pool \cup {NoPool}]
Copies == 1 .. 1 + Cardinality(Thread)

\* The ids of the three tables are told apart, and the foreign keys hold at first.
ASSUME TablesAssumption ==
  /\ IsFiniteSet(Thread)
  /\ Prefix \cap Pool = {} /\ Prefix \cap Vrf = {} /\ Pool \cap Vrf = {}
  /\ VrfOf \in [Prefix -> Vrf]
  /\ NoPool \notin Id
  /\ Gone \notin Row /\ Unborn \notin Row /\ Gone # Unborn
  /\ FirstRows \subseteq [Id -> Row \cup {Gone, Unborn}]
  /\ \A first \in FirstRows : \A x \in Prefix :
       first[x] \in Row =>
         first[VrfOf[x]] \in Row /\ (first[x].pool # NoPool => first[first[x].pool] \in Row)

VARIABLES
  rows,       \* ip_net_plan, ip_net_pool and ip_net_vrf
  session,    \* the session cookie of every browser
  options,    \* the shared AuthOptions().options of a process
  memory,     \* pynipap objects of a process and the cache that names them
  request,    \* what every thread is doing
  requests, logins, others,  \* how many of each so far
  behind,     \* history: <<p, id>>, process p may not know the row as it is
  trail       \* history: who asked for a change and whom ip_net_log names

webVars == <<rows, session, options, memory, request, requests, others, logins, behind, trail>>
vars == <<authVars, webVars>>

Resting == {"idle", "done", "failed"}
Active(t) == request[t].pc \notin Resting

\* What is asked for, by whom, the row in hand and the number of the object;
\* history: did another request set the options of the process since, has the
\* row changed since it was in hand, has the request changed the database?
NoRequest ==
  [pc |-> "idle", op |-> "edit", id |-> Gone, text |-> Keep, pool |-> Keep,
   user |-> NoSession, row |-> Gone, copy |-> 0,
   mixed |-> FALSE, old |-> FALSE, committed |-> FALSE]

Exists(id) == rows[id] \notin {Gone, Unborn}

-----------------------------------------------------------------------------
(* pynipap objects.  A memory has numbered copies of the object of an id,  *)
(* and cached[id] is the number of the one in _cache, or 0.                *)

\* A copy that nothing refers to.
Spare(p, id) ==
  CHOOSE n \in Copies :
    /\ n # memory[p].cached[id]
    /\ \A t \in Thread : Active(t) /\ ProcessOf[t] = p /\ request[t].id = id =>
                           request[t].copy # n

\* VRF.get and Pool.get find the id in the cache or in the database.
Known(p, id) == memory[p].cached[id] # 0 \/ Exists(id)

\* The object of id is row, and the cache has it.
Store(mem, id, copy, row) == [mem EXCEPT !.object[id][copy] = row, !.cached[id] = copy]

\* A mutation: the cache keeps what was removed.
KeepEntry(mem, id) == mem

Evict(mem, id) == [mem EXCEPT !.cached[id] = 0]

\* VRF.get or Pool.get of what a prefix refers to.
Get(p, mem, id) ==
  IF mem.cached[id] # 0 THEN mem ELSE Store(mem, id, Spare(p, id), rows[id])

References(id, row) ==
  IF id \notin Prefix THEN {}
  ELSE {VrfOf[id]} \cup (IF row.pool = NoPool THEN {} ELSE {row.pool})

\* from_dict on the object copy of id, which gets what the row refers to, and
\* raises NipapNonExistentError when one of them is in neither place.
CanBuild(p, id, row) == \A r \in References(id, row) : Known(p, r)

\* They are fetched one after the other.
GetReferences(p, mem, id, row) ==
  IF id \notin Prefix THEN mem
  ELSE LET withVrf == Get(p, mem, VrfOf[id])
       IN  IF row.pool = NoPool THEN withVrf ELSE Get(p, withVrf, row.pool)

FromDict(p, mem, id, copy, row) == Store(GetReferences(p, mem, id, row), id, copy, row)

-----------------------------------------------------------------------------
(* What the steps of a request have in common.                             *)

\* requires_auth: nipapd authenticates the web interface, which speaks for the
\* user in the options of its process.
Authenticated(t) ==
  \E n \in Nipapd :
    Authenticate(n, [user |-> WebUser, password |-> WebPassword,
                     options |-> options[ProcessOf[t]]])
Speaker == answer'.result

\* The request of t goes on as r, or ends with an error.
Goes(t, r) == request' = [request EXCEPT ![t] = r]
Fails(t) == Goes(t, [request[t] EXCEPT !.pc = "failed"])

\* The process of t now has the objects and the cache mem.
Remember(t, mem) == memory' = [memory EXCEPT ![ProcessOf[t]] = mem]

\* History: the rows of ids are changed, by a request of process p if it is one.
\* Its own object of id is about to be refreshed.
KnowBehind(p, id, ids) ==
  {e \in Process \X ids : memory[e[1]].cached[e[2]] # 0 /\ e # <<p, id>>}

\* History: every other request has an old row in its hands.
Outdated(t, ids) ==
  [u \in Thread |-> IF u # t /\ request[u].id \in ids THEN [request[u] EXCEPT !.old = TRUE]
                    ELSE request[u]]

\* History: p has just stored the row of id, which may have been old.
Aware(p, id, old) ==
  IF old THEN behind \cup {<<p, id>>} ELSE behind \ {<<p, id>>}

-----------------------------------------------------------------------------
(* Sessions and the start of a request.                                    *)

\* A mutation: the options are set once and for all.
SetOnce(p, identity) == IF options[p] = NoOptions THEN identity ELSE options[p]

\* setup_auth, before every request
SetupAuth(p, identity) == identity

\* A request of browser b to process p.
Arrives(p, b) ==
  options' = [options EXCEPT ![p] =
    SetupAuth(p, IF session[b] = NoSession THEN Anonymous ELSE session[b])]

\* History: the requests p is at work on have seen another one.
Mixed(p) ==
  [t \in Thread |-> IF ProcessOf[t] = p /\ Active(t) THEN [request[t] EXCEPT !.mixed = TRUE]
                    ELSE request[t]]

\* auth.login: the web interface authenticates with its own AuthFactory.
Login(p, b, u, password) ==
  /\ logins < MaxLogins
  /\ logins' = logins + 1
  /\ Arrives(p, b)
  /\ Authenticate(p, [user |-> u, password |-> password, options |-> NoOptions])
  /\ session' = IF Speaker \in Identity THEN [session EXCEPT ![b] = Speaker] ELSE session
  /\ request' = Mixed(p)
  /\ UNCHANGED <<rows, memory, requests, others, behind, trail>>

Logout(p, b) ==
  /\ session[b] # NoSession
  /\ Arrives(p, b)
  /\ session' = [session EXCEPT ![b] = NoSession]
  /\ request' = Mixed(p)
  /\ UNCHANGED <<authVars, rows, memory, requests, others, logins, behind, trail>>

\* The database chooses the id of what is added.
Start(t, b, op, id, text, pool) ==
  LET p == ProcessOf[t]
  IN  /\ ~ Active(t)
      /\ requests < MaxRequests
      /\ requests' = requests + 1
      /\ session[b] # NoSession
      /\ op = "add" <=> rows[id] = Unborn
      /\ Arrives(p, b)
      /\ request' = [Mixed(p) EXCEPT ![t] =
           [NoRequest EXCEPT !.pc = IF op = "add" THEN "create" ELSE "get",
                             !.op = op, !.id = id, !.text = text, !.pool = pool,
                             !.user = session[b].username]]
      /\ UNCHANGED <<authVars, rows, session, memory, others, logins, behind, trail>>

-----------------------------------------------------------------------------
(* The object is fetched: Prefix.get, Pool.get or VRF.get.                 *)

GetCached(t) ==
  LET r == request[t]
      copy == memory[ProcessOf[t]].cached[r.id]
  IN  /\ r.pc = "get"
      /\ copy # 0
      /\ Goes(t, [r EXCEPT !.pc = r.op, !.copy = copy])
      /\ UNCHANGED <<authVars, rows, session, options, memory, requests, others, logins, behind, trail>>

List(t) ==
  LET r == request[t]
  IN  /\ r.pc = "get"
      /\ memory[ProcessOf[t]].cached[r.id] = 0
      /\ Authenticated(t)
      /\ IF Speaker \in Identity /\ Exists(r.id)
         THEN Goes(t, [r EXCEPT !.pc = "build", !.row = rows[r.id], !.old = FALSE])
         ELSE Fails(t)
      /\ UNCHANGED <<rows, session, options, memory, requests, others, logins, behind, trail>>

Build(t) ==
  LET r == request[t]
      p == ProcessOf[t]
      copy == Spare(p, r.id)
  IN  /\ r.pc = "build"
      /\ IF CanBuild(p, r.id, r.row)
         THEN /\ Goes(t, [r EXCEPT !.pc = r.op, !.copy = copy])
              /\ Remember(t, FromDict(p, memory[p], r.id, copy, r.row))
              /\ behind' = Aware(p, r.id, r.old)
         ELSE /\ Fails(t)
              /\ UNCHANGED <<memory, behind>>
      /\ UNCHANGED <<authVars, rows, session, options, requests, others, logins, trail>>

-----------------------------------------------------------------------------
(* The object is changed, and save() takes its attributes.                 *)

\* xhr.add_prefix, add_pool, add_vrf: a new object, in no cache.
Create(t) ==
  LET r == request[t]
      p == ProcessOf[t]
      row == [text |-> r.text, pool |-> r.pool]
  IN  /\ r.pc = "create"
      /\ IF CanBuild(p, r.id, row)
         THEN /\ Goes(t, [r EXCEPT !.pc = "send", !.row = row])
              /\ Remember(t, GetReferences(p, memory[p], r.id, row))
         ELSE /\ Fails(t)
              /\ UNCHANGED memory
      /\ UNCHANGED <<authVars, rows, session, options, requests, others, logins, behind, trail>>

\* The attributes in the request are set, the others stay as the object has them.
Edited(object, r) ==
  [text |-> IF r.text = Keep THEN object.text ELSE r.text,
   pool |-> IF r.pool = Keep THEN object.pool ELSE r.pool]

\* xhr.edit_prefix: when the new pool is not found, what was set before stays set.
EditPrefix(t) ==
  LET r == request[t]
      p == ProcessOf[t]
      object == memory[p].object[r.id][r.copy]
      found == r.pool \in Pool => Known(p, r.pool)
      row == Edited(object, IF found THEN r ELSE [r EXCEPT !.pool = Keep])
      mem == IF r.pool \in Pool /\ found THEN Get(p, memory[p], r.pool) ELSE memory[p]
  IN  /\ r.pc = "edit"
      /\ r.id \in Prefix
      /\ Remember(t, [mem EXCEPT !.object[r.id][r.copy] = row])
      /\ IF found THEN Goes(t, [r EXCEPT !.pc = "send", !.row = row]) /\ UNCHANGED behind
                  ELSE Fails(t) /\ behind' = behind \cup {<<p, r.id>>}
      /\ UNCHANGED <<authVars, rows, session, options, requests, others, logins, trail>>

\* xhr.edit_pool, xhr.edit_vrf
EditContainer(t) ==
  LET r == request[t]
      p == ProcessOf[t]
      row == Edited(memory[p].object[r.id][r.copy], r)
  IN  /\ r.pc = "edit"
      /\ r.id \notin Prefix
      /\ Remember(t, [memory[p] EXCEPT !.object[r.id][r.copy] = row])
      /\ Goes(t, [r EXCEPT !.pc = "send", !.row = row])
      /\ UNCHANGED <<authVars, rows, session, options, requests, others, logins, behind, trail>>

-----------------------------------------------------------------------------
(* nipapd carries the change out, or refuses it for any of its reasons.    *)

MayWrite == IF Speaker \in Identity THEN ~ Speaker.readonly ELSE FALSE

\* A mutation: no foreign keys.
AnyReference(r) == IF r.op = "add" THEN rows[r.id] = Unborn ELSE Exists(r.id)

\* Foreign keys; the other reasons to refuse are left open.
Accepts(r) ==
  /\ IF r.op = "add" THEN rows[r.id] = Unborn ELSE Exists(r.id)
  /\ \A ref \in References(r.id, r.row) : Exists(ref)

\* Did the change touch what the request did not ask for?
Unasked(r) ==
  r.op = "edit" /\ Edited(rows[r.id], r) # r.row

Entry(r) == [named |-> Speaker.username, asked |-> r.user, mixed |-> r.mixed,
             unasked |-> Unasked(r)]

Save(t) ==
  LET r == request[t]
      p == ProcessOf[t]
  IN  /\ r.pc = "send"
      /\ Authenticated(t)
      /\ \/ /\ MayWrite
            /\ Accepts(r)
            /\ rows' = [rows EXCEPT ![r.id] = r.row]
            /\ request' = [Outdated(t, {r.id}) EXCEPT
                 ![t] = [r EXCEPT !.pc = "refresh", !.old = FALSE, !.committed = TRUE]]
            /\ behind' = behind \cup KnowBehind(p, r.id, {r.id})
            /\ trail' = trail \cup {Entry(r)}
         \/ /\ Fails(t)
            /\ behind' = IF r.op = "edit" THEN behind \cup {<<p, r.id>>} ELSE behind
            /\ UNCHANGED <<rows, trail>>
      /\ UNCHANGED <<session, options, memory, requests, others, logins>>

\* The rest of save(): from_dict on the object itself, then the cache.
Refresh(t) ==
  LET r == request[t]
      p == ProcessOf[t]
      copy == IF r.op = "add" THEN Spare(p, r.id) ELSE r.copy
      mem == FromDict(p, memory[p], r.id, copy, r.row)
      pool == IF r.id \in Prefix THEN r.row.pool ELSE NoPool
  IN  /\ r.pc = "refresh"
      /\ IF CanBuild(p, r.id, r.row)
         THEN /\ Goes(t, [r EXCEPT !.pc = "done"])
              /\ Remember(t, IF pool = NoPool THEN mem ELSE Evict(mem, pool))
              /\ behind' = Aware(p, r.id, r.old) \ {<<p, pool>>}
         ELSE /\ Fails(t)
              /\ behind' = IF r.op = "edit" THEN behind \cup {<<p, r.id>>} ELSE behind
              /\ UNCHANGED memory
      /\ UNCHANGED <<authVars, rows, session, options, requests, others, logins, trail>>

-----------------------------------------------------------------------------
(* Removal.                                                                *)

\* The rows that go with id, and those that only lose their pool.
Cascade(id) == {id} \cup {x \in Prefix : Exists(x) /\ VrfOf[x] = id}
Orphans(id) == {x \in Prefix : Exists(x) /\ rows[x].pool = id}

WithoutRow(id) ==
  [x \in Id |-> IF x \in Cascade(id) THEN IF rows[x] = Unborn THEN Unborn ELSE Gone
                ELSE IF x \in Orphans(id) THEN [rows[x] EXCEPT !.pool = NoPool]
                ELSE rows[x]]

\* remove(): removing what is gone already succeeds as well.
Remove(t) ==
  LET r == request[t]
      p == ProcessOf[t]
      ids == Cascade(r.id) \cup Orphans(r.id)
  IN  /\ r.pc = "remove"
      /\ Authenticated(t)
      /\ \/ /\ MayWrite
            /\ rows' = WithoutRow(r.id)
            /\ request' = [Outdated(t, ids) EXCEPT
                 ![t] = [r EXCEPT !.pc = "forget", !.committed = TRUE]]
            /\ behind' = behind \cup KnowBehind(p, r.id, ids)
            /\ trail' = trail \cup {Entry(r)}
         \/ /\ Fails(t)
            /\ UNCHANGED <<rows, behind, trail>>
      /\ UNCHANGED <<session, options, memory, requests, others, logins>>

\* Only the entries of the object and of its own pool leave the cache.
Forget(t) ==
  LET r == request[t]
      p == ProcessOf[t]
      pool == IF r.id \in Prefix THEN memory[p].object[r.id][r.copy].pool ELSE NoPool
      mem == Evict(memory[p], r.id)
  IN  /\ r.pc = "forget"
      /\ Remember(t, IF pool = NoPool THEN mem ELSE Evict(mem, pool))
      /\ Goes(t, [r EXCEPT !.pc = "done"])
      /\ behind' = behind \ {<<p, r.id>>, <<p, pool>>}
      /\ UNCHANGED <<authVars, rows, session, options, requests, others, logins, trail>>

-----------------------------------------------------------------------------
(* Other clients of nipapd: the command line client, scripts.              *)

OtherChanges(ids) ==
  /\ others < MaxOthers
  /\ others' = others + 1
  /\ request' = [u \in Thread |-> IF request[u].id \in ids THEN [request[u] EXCEPT !.old = TRUE]
                                  ELSE request[u]]
  /\ behind' = behind \cup {e \in Process \X ids : memory[e[1]].cached[e[2]] # 0}
  /\ UNCHANGED <<authVars, session, options, memory, requests, logins, trail>>

OtherEdit(id, row) ==
  /\ Exists(id)
  /\ row # rows[id]
  /\ \A ref \in References(id, row) : Exists(ref)
  /\ rows' = [rows EXCEPT ![id] = row]
  /\ OtherChanges({id})

OtherRemove(id) ==
  /\ Exists(id)
  /\ rows' = WithoutRow(id)
  /\ OtherChanges(Cascade(id) \cup Orphans(id))

\* A call with a token.
OtherToken(token) ==
  /\ logins < MaxLogins
  /\ logins' = logins + 1
  /\ Bearer(token)
  /\ UNCHANGED <<rows, session, options, memory, request, requests, others, behind, trail>>

-----------------------------------------------------------------------------
NoMemory == [cached |-> [id \in Id |-> 0],
             object |-> [id \in Id |-> [n \in Copies |-> Gone]]]

Init ==
  /\ AuthInit
  /\ rows \in FirstRows
  /\ session \in FirstSessions
  /\ options = [p \in Process |-> NoOptions]
  /\ memory = [p \in Process |-> NoMemory]
  /\ request = [t \in Thread |-> NoRequest]
  /\ requests \in 0 .. MaxRequests
  /\ logins \in 0 .. MaxLogins
  /\ others \in 0 .. MaxOthers
  /\ behind = {}
  /\ trail = {}

PoolOf(id) == IF id \in Prefix THEN Pool \cup {NoPool} ELSE {NoPool}

\* The pages send every attribute of what is edited, or take a prefix out of its
\* pool with a request that names the pool alone.
Whole(id) == Text \X PoolOf(id)
Partial(id) == IF id \in Prefix THEN {<<Keep, NoPool>>} ELSE {}

Browse ==
  \/ \E p \in Process, b \in Browser :
       Logout(p, b) \/ \E u \in User, word \in Password : Login(p, b, u, word)
  \/ \E t \in Thread, b \in Browser, id \in Id :
       \/ \E given \in Whole(id) : Start(t, b, "add", id, given[1], given[2])
       \/ \E given \in Whole(id) \cup Partial(id) : Start(t, b, "edit", id, given[1], given[2])
       \/ Start(t, b, "remove", id, Keep, Keep)

Serve(t) ==
  \/ GetCached(t) \/ List(t) \/ Build(t)
  \/ Create(t) \/ EditPrefix(t) \/ EditContainer(t)
  \/ Save(t) \/ Refresh(t)
  \/ Remove(t) \/ Forget(t)

Others ==
  \/ \E id \in Id, text \in Text : \E pool \in PoolOf(id) :
       OtherEdit(id, [text |-> text, pool |-> pool])
  \/ \E id \in Id : OtherRemove(id)
  \/ \E token \in Tokens : OtherToken(token)

Next ==
  \/ Browse
  \/ \E t \in Thread : Serve(t)
  \/ Others
  \/ Accounts /\ UNCHANGED webVars

Spec == Init /\ [][Next]_vars

-----------------------------------------------------------------------------
(* Properties.                                                             *)

\* The audit log names the user whose browser sent the request, whatever the
\* caches of both sides hold, unless another request was started in the same
\* process before this one was carried out (pynipap.AuthOptions: "essentially
\* ... a global variable").
LogNamesTheUser ==
  \A e \in trail : ~ e.mixed => e.named = e.asked

\* A cached object is the row, through every save, failed save, removal and
\* repeated fetch by the threads of its process, unless others have changed the
\* row since it was read, or a request that changed the object has failed, or one
\* is at work on it.
CacheIsCurrent ==
  \A p \in Process, id \in Id :
    memory[p].cached[id] # 0 /\ <<p, id>> \notin behind =>
      \/ \E t \in Thread : /\ ProcessOf[t] = p
                           /\ request[t].id = id
                           /\ request[t].pc \in {"send", "refresh", "forget"}
      \/ memory[p].object[id][memory[p].cached[id]] = rows[id]

\* A request that answers with an error has changed nothing, unless the row was
\* changed once more before its attributes were read back (save() calls from_dict,
\* which fetches the pool by calls of its own).
ErrorsChangeNothing ==
  \A t \in Thread :
    request[t].pc = "failed" /\ request[t].committed => request[t].old

\* An edit leaves the attributes alone it was not asked to change.
OnlyWhatWasAsked ==
  \A e \in trail : ~ e.unasked

=============================================================================
