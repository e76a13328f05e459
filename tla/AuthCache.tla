------------------------------- MODULE AuthCache -------------------------------
(***************************************************************************)
(* Authentication in nipap/authlib.py.  Every process that authenticates   *)
(* callers (a worker of nipapd, a process of the web interface) keeps the  *)
(* objects AuthFactory.get_auth made, and each object keeps the result of  *)
(* its first authenticate().  A call is one step: nothing else runs in a   *)
(* worker between get_auth and authenticate.                               *)
(***************************************************************************)
EXTENDS Integers

CONSTANTS
  Worker,       \* processes with an _auth_cache of their own
  Local,        \* user names of the SQLite backend
  Remote,       \* user names of the LDAP backend
  Password,
  NoUser,       \* the user name of a request without a session
  NoOptions,    \* a call without options
  FirstAccounts, \* the user databases a run starts with
  LocalAccounts, RemoteAccounts,  \* what accounts are changed to
  Tokens,       \* what is given as a bearer token
  RoGroup,      \* is ro_group configured?
  RwGroup,      \* is rw_group configured?
  NoAccount, Refused, Raised, NotYet, Unbound, NoToken,
  Timeout,      \* auth_cache_timeout
  MaxTime,      \* bound: the clock stops here
  MaxChanges    \* bound: changes of the user databases

User == Local \cup Remote
Anonymous == [username |-> NoUser, readonly |-> FALSE]
Identity == [username : User, readonly : BOOLEAN] \cup {Anonymous}
Answer == Identity \cup {Refused, Raised}

\* User name, password and auth options of a call.
Credentials == [user : User, password : Password, options : Identity \cup {NoOptions}]

SqliteAccount == [password : Password, trusted : BOOLEAN, readonly : BOOLEAN]
LdapAccount == [password : Password, listed : BOOLEAN, groups : SUBSET {"ro", "rw"}]
Token == [username : Remote, groups : SUBSET {"ro", "rw"}, expires : 0 .. MaxTime]

ASSUME AuthAssumption == /\ Timeout \in Nat
                         /\ MaxTime \in Nat
                         /\ MaxChanges \in Nat
                         /\ Local \cap Remote = {}
                         /\ FirstAccounts \subseteq [User -> SqliteAccount \cup LdapAccount \cup {NoAccount}]
                         /\ \A a \in FirstAccounts :
                              /\ \A u \in Local : a[u] \in SqliteAccount \cup {NoAccount}
                              /\ \A u \in Remote : a[u] \in LdapAccount \cup {NoAccount}
                         /\ LocalAccounts \subseteq SqliteAccount
                         /\ RemoteAccounts \subseteq LdapAccount
                         /\ Tokens \subseteq Token \ {NoToken}
                         /\ {NotYet, Unbound, Refused, Raised} \cap Identity = {}
                         /\ NotYet # Unbound /\ {NotYet, Unbound} \cap {Refused, Raised} = {}
                         /\ Refused # Raised

VARIABLES
  now,         \* datetime.utcnow(), in units of the timeout
  accounts,    \* the rows of the user table and the entries of the directory
  directory,   \* the LDAP server: "up", "down", or "failing" its searches
  authCache,   \* _auth_cache of every worker
  answer,      \* the last answer: to whom, what and when
  changes,     \* changes of accounts so far
  lastTrue,    \* history: when the databases would last have given an answer
  lastTrouble  \* history: when the directory was last not up

authVars == <<now, accounts, directory, authCache, answer, changes, lastTrue, lastTrouble>>

-----------------------------------------------------------------------------
(* authenticate() of the backends.                                         *)

\* SqliteAuth: a trusted user speaks for the user in the options.
SqliteAnswer(c) ==
  LET account == accounts[c.user]
  IN  IF account = NoAccount THEN Refused
      ELSE IF account.password # c.password THEN Refused
      ELSE IF account.trusted /\ c.options # NoOptions THEN c.options
      ELSE [username |-> c.user, readonly |-> account.readonly]

\* LdapAuth once it is bound: the groups decide, as far as they are configured.
GroupAnswer(username, listed, groups) ==
  IF ~ listed /\ (RoGroup \/ RwGroup) THEN Refused
  ELSE IF RoGroup /\ RwGroup /\ groups = {} THEN Refused
  ELSE [username |-> username,
        readonly |-> IF RwGroup THEN "rw" \notin groups ELSE RoGroup /\ "ro" \in groups]

LdapAnswer(c) ==
  LET account == accounts[c.user]
  IN  IF account = NoAccount THEN Refused
      ELSE IF account.password # c.password THEN Refused
      ELSE GroupAnswer(c.user, account.listed, account.groups)

\* What the user databases say of the credentials, were they asked.
Truth(c) == IF c.user \in Local THEN SqliteAnswer(c) ELSE LdapAnswer(c)

\* JwtAuth: made anew for every call; read-only wins over read-write.
JwtAnswer(token) ==
  IF token.expires < now THEN Raised
  ELSE IF token.groups = {} THEN Refused
  ELSE [username |-> token.username, readonly |-> "ro" \in token.groups]

\* An object and what authenticate() returns or raises, [known, answer].  An
\* LDAP bind is refused before the search that fails; the search unbinds.
AskBackend(c, known) ==
  CASE known \notin {NotYet, Unbound} -> [known |-> known, answer |-> known]
    [] known = Unbound -> [known |-> Unbound, answer |-> Raised]
    [] known = NotYet /\ (c.user \in Local \/ directory = "up") ->
         [known |-> Truth(c), answer |-> Truth(c)]
    [] known = NotYet /\ c.user \in Remote /\ directory = "down" ->
         [known |-> NotYet, answer |-> Raised]
    [] known = NotYet /\ c.user \in Remote /\ directory = "failing" ->
         IF \/ accounts[c.user] = NoAccount
            \/ accounts[c.user] # NoAccount /\ accounts[c.user].password # c.password
         THEN [known |-> Refused, answer |-> Refused]
         ELSE [known |-> Unbound, answer |-> Raised]

-----------------------------------------------------------------------------
(* AuthFactory.                                                            *)

\* A mutation: invalid entries are not removed.
EveryEntry(w) == authCache[w]

\* "remove invalid cache entries"
ValidEntries(w) ==
  [c \in {k \in DOMAIN authCache[w] : authCache[w][k].validUntil >= now} |-> authCache[w][c]]

\* auth_str: all of the credentials make up the key.
CacheKeys(entries, c) == {k \in DOMAIN entries : k = c}

\* A mutation: a hit makes the entry valid for another timeout.
Renewed(entries, k) == [entries[k] EXCEPT !.validUntil = now + Timeout]

\* A cached object is used as it is.
CachedObject(entries, k) == entries[k]

\* get_auth and then authenticate of what it returned.
Authenticate(w, c) ==
  LET entries == ValidEntries(w)
      keys == CacheKeys(entries, c)
      key == IF keys = {} THEN c ELSE CHOOSE k \in keys : TRUE
      object == IF keys = {} THEN [known |-> NotYet, validUntil |-> now + Timeout]
                ELSE CachedObject(entries, key)
      result == AskBackend(c, object.known)
  IN  /\ authCache' = [authCache EXCEPT ![w] =
            [k \in DOMAIN entries \cup {key} |->
               IF k = key THEN [object EXCEPT !.known = result.known] ELSE entries[k]]]
      /\ answer' = [to |-> c, token |-> NoToken, result |-> result.answer, at |-> now]
      /\ UNCHANGED <<now, accounts, directory, changes, lastTrue, lastTrouble>>

\* get_auth_bearer_token and authenticate: nothing is cached.
Bearer(token) ==
  /\ answer' = [answer EXCEPT !.token = token, !.result = JwtAnswer(token), !.at = now]
  /\ UNCHANGED <<now, accounts, directory, authCache, changes, lastTrue, lastTrouble>>

-----------------------------------------------------------------------------
(* The user databases and the clock.                                       *)

\* History: the answers the databases now give are true now.
Note(truth, time) ==
  [c \in Credentials |-> [lastTrue[c] EXCEPT ![truth[c]] = time]]

ChangeAccount(u, account) ==
  /\ changes < MaxChanges
  /\ changes' = changes + 1
  /\ accounts' = [accounts EXCEPT ![u] = account]
  /\ lastTrue' = Note([c \in Credentials |-> Truth(c)'], now)
  /\ UNCHANGED <<now, directory, authCache, answer, lastTrouble>>

\* nipap-passwd add
AddUser(u, account) ==
  /\ accounts[u] = NoAccount
  /\ ChangeAccount(u, account)

\* nipap-passwd delete
RemoveUser(u) ==
  /\ accounts[u] # NoAccount
  /\ ChangeAccount(u, NoAccount)

\* nipap-passwd modify
ModifyUser(u, account) ==
  /\ accounts[u] \notin {NoAccount, account}
  /\ ChangeAccount(u, account)

\* The LDAP server breaks down, partly or altogether, or comes back.
DirectoryChange(state) ==
  /\ directory # state
  /\ changes < MaxChanges
  /\ changes' = changes + 1
  /\ directory' = state
  /\ lastTrouble' = now
  /\ UNCHANGED <<now, accounts, authCache, answer, lastTrue>>

Tick ==
  /\ now < MaxTime
  /\ now' = now + 1
  /\ lastTrue' = Note([c \in Credentials |-> Truth(c)], now + 1)
  /\ lastTrouble' = IF directory = "up" THEN lastTrouble ELSE now + 1
  /\ UNCHANGED <<accounts, directory, authCache, answer, changes>>

\* The clock starts anywhere, so that a run may leave it where it is.  "Never"
\* is a time that lies more than a timeout ago.
Never == - Timeout - 1

AuthInit ==
  /\ now \in 0 .. MaxTime
  /\ changes \in 0 .. MaxChanges
  /\ accounts \in FirstAccounts
  /\ directory \in {"up", "down", "failing"}
  /\ authCache = [w \in Worker |-> <<>>]
  /\ answer = [to |-> CHOOSE c \in Credentials : TRUE, token |-> NoToken,
               result |-> Raised, at |-> Never]
  /\ lastTrue = [c \in Credentials |->
        [a \in Identity \cup {Refused} |-> IF a = Truth(c) THEN now ELSE Never]]
  /\ lastTrouble = IF directory = "up" THEN Never ELSE now

Accounts ==
  \/ \E u \in Local, a \in LocalAccounts : AddUser(u, a) \/ ModifyUser(u, a)
  \/ \E u \in Remote, a \in RemoteAccounts : AddUser(u, a) \/ ModifyUser(u, a)
  \/ \E u \in User : RemoveUser(u)
  \/ \E state \in {"up", "down", "failing"} : DirectoryChange(state)
  \/ Tick

\* The cache by itself; WebRequests says who calls it.
AuthNext ==
  \/ \E w \in Worker, c \in Credentials : Authenticate(w, c)
  \/ \E token \in Tokens : Bearer(token)
  \/ Accounts

AuthSpec == AuthInit /\ [][AuthNext]_authVars

-----------------------------------------------------------------------------
(* Properties.                                                             *)

\* A cached answer, a refusal included, was what the user databases said at
\* some time within the timeout before it was given.
AnswersAreRecent ==
  answer.token = NoToken /\ answer.result # Raised =>
    lastTrue[answer.to][answer.result] + Timeout >= answer.at

\* When the directory is up again, its failure is felt for one timeout at most:
\* an object that was left unbound raises whenever it is used, and it is used
\* until its entry is removed.
TroubleEnds ==
  answer.token = NoToken /\ answer.result = Raised =>
    lastTrouble + Timeout >= answer.at

=============================================================================
