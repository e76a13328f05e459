--------------------------- MODULE WebRequestsProofs ---------------------------
(***************************************************************************)
(* For any number of processes, threads, workers, users, passwords and     *)
(* rows, any timeout and any history of the user databases:                *)
(*   - what AuthFactory's cache makes a worker answer is no older than the *)
(*     timeout (AuthInv);                                                  *)
(*   - the requests of the web interface use the cache of AuthFactory as   *)
(*     AuthCache allows, and what they change is logged under the name of  *)
(*     the user who asked (WebInv);                                        *)
(*   - the objects that the threads of a process share are the rows, and   *)
(*     a request that fails has changed nothing (CacheInv: what every      *)
(*     request has in hand at each of its steps, and the foreign keys).    *)
(***************************************************************************)
EXTENDS WebRequests, FiniteSetTheorems, TLAPS

-----------------------------------------------------------------------------
(* The cache of AuthFactory.                                               *)

Settled == Identity \cup {Refused}
CacheEntry == [known : Settled \cup {NotYet, Unbound}, validUntil : Int]

AccountsOK ==
  /\ accounts \in [User -> SqliteAccount \cup LdapAccount \cup {NoAccount}]
  /\ \A u \in Local : accounts[u] \in SqliteAccount \cup {NoAccount}
  /\ \A u \in Remote : accounts[u] \in LdapAccount \cup {NoAccount}

\* What the histories say of the present.
HistoryOK ==
  /\ now \in Int
  /\ lastTrue \in [Credentials -> [Settled -> Int]]
  /\ \A c \in Credentials : lastTrue[c][Truth(c)] = now
  /\ \A c \in Credentials, a \in Settled : lastTrue[c][a] <= now
  /\ directory \in {"up", "down", "failing"}
  /\ lastTrouble \in Int
  /\ lastTrouble <= now
  /\ directory # "up" => lastTrouble = now

\* An entry is not valid for longer than a timeout from the time at which its
\* answer was true, or from the directory's last trouble.
Timely(c, e) ==
  /\ c \in Credentials
  /\ e \in CacheEntry
  /\ e.validUntil <= now + Timeout
  /\ e.known \in Settled => lastTrue[c][e.known] + Timeout >= e.validUntil
  /\ e.known = Unbound => lastTrouble + Timeout >= e.validUntil

CacheOK ==
  /\ DOMAIN authCache = Worker
  /\ \A w \in Worker : \A c \in DOMAIN authCache[w] : Timely(c, authCache[w][c])

AnswerOK ==
  /\ {"token", "at"} \subseteq DOMAIN answer /\ answer.at \in Int
  /\ answer.token = NoToken /\ answer.result # Raised =>
       answer.to \in Credentials /\ answer.result \in Settled
  /\ AnswersAreRecent
  /\ TroubleEnds

AuthInv == AccountsOK /\ HistoryOK /\ CacheOK /\ AnswerOK

-----------------------------------------------------------------------------
\* The user databases have an answer to all credentials.
LEMMA TruthIsSettled ==
  ASSUME AccountsOK, NEW c \in Credentials
  PROVE  Truth(c) \in Settled
<1>1. c.user \in Local \cup Remote /\ c.options \in Identity \cup {NoOptions}
  BY DEF Credentials, User
<1>2. CASE c.user \in Local
  <2>1. accounts[c.user] # NoAccount => accounts[c.user].readonly \in BOOLEAN
    BY <1>2 DEF AccountsOK, SqliteAccount
  <2>2. accounts[c.user] # NoAccount =>
          [username |-> c.user, readonly |-> accounts[c.user].readonly] \in Identity
    BY <1>2, <2>1 DEF Identity, User
  <2> QED
    BY <1>1, <1>2, <2>2 DEF Truth, SqliteAnswer, Settled
<1>3. CASE c.user \notin Local
  <2>1. ASSUME NEW listed, NEW groups
        PROVE  GroupAnswer(c.user, listed, groups) \in Settled
    <3>1. (IF RwGroup THEN "rw" \notin groups ELSE RoGroup /\ "ro" \in groups) \in BOOLEAN
      BY AuthAssumption
    <3> QED
      BY <1>1, <1>3, <3>1 DEF GroupAnswer, Settled, Identity, User
  <2> QED
    BY <1>3, <2>1 DEF Truth, LdapAnswer, Settled
<1> QED
  BY <1>2, <1>3

LEMMA TruthStaysSettled == AccountsOK' => (\A c \in Credentials : Truth(c) \in Settled)'
<1>1. AccountsOK => \A c \in Credentials : Truth(c) \in Settled
  BY TruthIsSettled
<1> QED
  BY <1>1, PTL

\* A fresh object says what the user databases say, or the directory is in trouble.
LEMMA FreshObject ==
  ASSUME AccountsOK, directory \in {"up", "down", "failing"}, NEW c \in Credentials
  PROVE  LET result == AskBackend(c, NotYet)
         IN  /\ result.known \in {Truth(c), NotYet, Unbound}
             /\ result.known = Unbound => directory # "up"
             /\ result.answer \in {Truth(c), Raised}
             /\ result.answer = Raised => directory # "up"
<1>1. Truth(c) \in Settled
  BY TruthIsSettled
<1>2. Truth(c) # Raised /\ Truth(c) # Unbound /\ NotYet # Unbound
  BY <1>1, AuthAssumption DEF Settled
<1>3. c.user \in Local <=> c.user \notin Remote
  BY AuthAssumption DEF Credentials, User
<1>4. CASE c.user \in Local \/ directory = "up"
  <2>1. AskBackend(c, NotYet) = [known |-> Truth(c), answer |-> Truth(c)]
    BY <1>2, <1>3, <1>4 DEF AskBackend
  <2> QED
    BY <1>2, <2>1
<1>5. CASE c.user \notin Local /\ directory = "down"
  <2>1. AskBackend(c, NotYet) = [known |-> NotYet, answer |-> Raised]
    BY <1>2, <1>3, <1>5 DEF AskBackend
  <2> QED
    BY <1>2, <1>5, <2>1
<1>6. CASE c.user \notin Local /\ directory = "failing"
  <2>1. (\/ accounts[c.user] = NoAccount
         \/ accounts[c.user] # NoAccount /\ accounts[c.user].password # c.password)
        => Truth(c) = Refused
    BY <1>6 DEF Truth, LdapAnswer
  <2>2. \/ AskBackend(c, NotYet) = [known |-> Truth(c), answer |-> Truth(c)]
        \/ AskBackend(c, NotYet) = [known |-> Unbound, answer |-> Raised]
    BY <1>2, <1>3, <1>6, <2>1 DEF AskBackend
  <2> QED
    BY <1>2, <1>6, <2>2
<1> QED
  BY <1>3, <1>4, <1>5, <1>6

-----------------------------------------------------------------------------
LEMMA AuthInitOK == AuthInit => AuthInv
<1> SUFFICES ASSUME AuthInit PROVE AuthInv
  OBVIOUS
<1>1. AccountsOK
  BY AuthAssumption DEF AuthInit, AccountsOK
<1>2. now \in Int /\ Timeout \in Nat /\ Never \in Int /\ Never < now
  BY AuthAssumption DEF AuthInit, Never
<1>3. HistoryOK
  BY <1>1, <1>2, TruthIsSettled DEF AuthInit, HistoryOK, Settled
<1>4. CacheOK
  BY DEF AuthInit, CacheOK
<1>5. AnswerOK
  BY <1>2 DEF AuthInit, AnswerOK, AnswersAreRecent, TroubleEnds
<1> QED
  BY <1>1, <1>3, <1>4, <1>5 DEF AuthInv

\* The object that a call of a worker finds or makes: what it knows, and for how long.
KnownTo(w, c) ==
  IF c \in DOMAIN ValidEntries(w) THEN ValidEntries(w)[c].known ELSE NotYet
ValidUntil(w, c) ==
  IF c \in DOMAIN ValidEntries(w) THEN ValidEntries(w)[c].validUntil ELSE now + Timeout

LEMMA ValidEntriesOK ==
  ASSUME CacheOK, NEW w \in Worker, NEW k \in DOMAIN ValidEntries(w)
  PROVE  /\ k \in DOMAIN authCache[w] /\ ValidEntries(w)[k] = authCache[w][k]
         /\ Timely(k, ValidEntries(w)[k]) /\ ValidEntries(w)[k].validUntil >= now
BY DEF CacheOK, ValidEntries

LEMMA AuthenticateSays ==
  ASSUME CacheOK, NEW w \in Worker, NEW c \in Credentials, Authenticate(w, c)
  PROVE  LET result == AskBackend(c, KnownTo(w, c))
         IN  /\ authCache' = [authCache EXCEPT ![w] =
                  [k \in DOMAIN ValidEntries(w) \cup {c} |->
                     IF k = c THEN [known |-> result.known, validUntil |-> ValidUntil(w, c)]
                     ELSE ValidEntries(w)[k]]]
             /\ answer' = [to |-> c, token |-> NoToken, result |-> result.answer, at |-> now]
             /\ UNCHANGED <<now, accounts, directory, changes, lastTrue, lastTrouble>>
<1> DEFINE entries == ValidEntries(w)
           keys == CacheKeys(entries, c)
           key == IF keys = {} THEN c ELSE CHOOSE k \in keys : TRUE
           object == IF keys = {} THEN [known |-> NotYet, validUntil |-> now + Timeout]
                     ELSE CachedObject(entries, key)
           asked == AskBackend(c, object.known)
           result == AskBackend(c, KnownTo(w, c))
<1>1. /\ authCache' = [authCache EXCEPT ![w] =
            [k \in DOMAIN entries \cup {key} |->
               IF k = key THEN [object EXCEPT !.known = asked.known] ELSE entries[k]]]
      /\ answer' = [to |-> c, token |-> NoToken, result |-> asked.answer, at |-> now]
      /\ UNCHANGED <<now, accounts, directory, changes, lastTrue, lastTrouble>>
  BY DEF Authenticate
<1>2. keys = IF c \in DOMAIN entries THEN {c} ELSE {}
  BY DEF CacheKeys
<1>3. key = c
  <2>1. keys = {c} => (CHOOSE k \in keys : TRUE) = c
    OBVIOUS
  <2> QED
    BY <1>2, <2>1
<1>4. object = [known |-> KnownTo(w, c), validUntil |-> ValidUntil(w, c)]
  <2>1. c \in DOMAIN entries => entries[c] \in CacheEntry
    BY ValidEntriesOK DEF Timely
  <2>2. c \in DOMAIN entries =>
          entries[c] = [known |-> entries[c].known, validUntil |-> entries[c].validUntil]
    BY <2>1 DEF CacheEntry
  <2> QED
    BY <1>2, <1>3, <2>2 DEF CachedObject, KnownTo, ValidUntil
<1>5. asked = result /\ [object EXCEPT !.known = asked.known]
                         = [known |-> result.known, validUntil |-> ValidUntil(w, c)]
  BY <1>4
<1> HIDE DEF entries, keys, key, object, asked, result
<1>6. /\ authCache' = [authCache EXCEPT ![w] =
           [k \in DOMAIN entries \cup {c} |->
              IF k = c THEN [known |-> result.known, validUntil |-> ValidUntil(w, c)]
              ELSE entries[k]]]
      /\ answer' = [to |-> c, token |-> NoToken, result |-> result.answer, at |-> now]
  BY <1>1, <1>3, <1>5
<1> QED
  BY <1>1, <1>6 DEF entries, result

LEMMA AuthenticateOK ==
  ASSUME AuthInv, NEW w \in Worker, NEW c \in Credentials, Authenticate(w, c)
  PROVE  AuthInv'
<1> DEFINE entries == ValidEntries(w)
           known == KnownTo(w, c)
           until == ValidUntil(w, c)
           result == AskBackend(c, known)
<1>1. /\ AccountsOK /\ HistoryOK /\ CacheOK
      /\ now \in Int /\ Timeout \in Nat
  BY AuthAssumption DEF AuthInv, HistoryOK
<1>2. \A k \in DOMAIN entries : Timely(k, entries[k]) /\ entries[k].validUntil >= now
  BY <1>1, ValidEntriesOK
<1>3. /\ authCache' = [authCache EXCEPT ![w] =
           [k \in DOMAIN entries \cup {c} |->
              IF k = c THEN [known |-> result.known, validUntil |-> until] ELSE entries[k]]]
      /\ answer' = [to |-> c, token |-> NoToken, result |-> result.answer, at |-> now]
      /\ UNCHANGED <<now, accounts, directory, changes, lastTrue, lastTrouble>>
  BY <1>1, AuthenticateSays
<1>4. Truth(c) \in Settled /\ lastTrue[c][Truth(c)] = now
  BY <1>1, TruthIsSettled DEF HistoryOK
<1>5. until \in Int /\ now <= until /\ until <= now + Timeout
  BY <1>1, <1>2 DEF Timely, CacheEntry, ValidUntil
<1>6. known \in Settled \cup {NotYet, Unbound}
  BY <1>2 DEF Timely, CacheEntry, KnownTo
<1>7. /\ Raised \notin Settled /\ NotYet \notin Settled /\ Unbound \notin Settled
      /\ NotYet # Unbound
  BY AuthAssumption DEF Settled
<1>8. /\ Timely(c, [known |-> result.known, validUntil |-> until])
      /\ result.answer # Raised =>
           result.answer \in Settled /\ lastTrue[c][result.answer] + Timeout >= now
      /\ result.answer = Raised => lastTrouble + Timeout >= now
  <2>1. CASE known = NotYet
    <3>1. /\ result.known \in {Truth(c), NotYet, Unbound}
          /\ result.known = Unbound => directory # "up"
          /\ result.answer \in {Truth(c), Raised}
          /\ result.answer = Raised => directory # "up"
      BY <1>1, <2>1, FreshObject DEF HistoryOK
    <3>2. directory # "up" => lastTrouble = now
      BY <1>1 DEF HistoryOK
    <3>3. [known |-> result.known, validUntil |-> until] \in CacheEntry
      BY <1>4, <1>5, <3>1 DEF CacheEntry
    <3> HIDE DEF result, until, known
    <3>4. Timely(c, [known |-> result.known, validUntil |-> until])
      BY <1>1, <1>4, <1>5, <1>7, <3>1, <3>2, <3>3 DEF Timely
    <3> QED
      BY <1>1, <1>4, <3>1, <3>2, <3>4
  <2>2. CASE known # NotYet
    <3>1. c \in DOMAIN entries /\ known = entries[c].known /\ until = entries[c].validUntil
      BY <2>2 DEF KnownTo, ValidUntil
    <3>2. Timely(c, entries[c]) /\ entries[c] = [known |-> known, validUntil |-> until]
      BY <1>2, <3>1 DEF Timely, CacheEntry
    <3>3. /\ lastTrouble \in Int
          /\ \A a \in Settled : lastTrue[c][a] \in Int
      BY <1>1 DEF HistoryOK
    <3>4. CASE known = Unbound
      <4>1. result = [known |-> Unbound, answer |-> Raised]
        BY <1>7, <3>4 DEF AskBackend
      <4>2. lastTrouble + Timeout >= until
        BY <3>2, <3>4 DEF Timely
      <4> QED
        BY <1>1, <1>5, <3>2, <3>3, <3>4, <4>1, <4>2
    <3>5. CASE known \in Settled
      <4>1. result = [known |-> known, answer |-> known]
        BY <1>7, <3>5 DEF AskBackend
      <4>2. lastTrue[c][known] + Timeout >= until
        BY <3>2, <3>5 DEF Timely
      <4> QED
        BY <1>1, <1>5, <1>7, <3>2, <3>3, <3>5, <4>1, <4>2
    <3> QED
      BY <1>6, <2>2, <3>4, <3>5
  <2> QED
    BY <2>1, <2>2
<1> HIDE DEF known, until, result, entries
<1>9. AccountsOK' /\ HistoryOK'
  BY <1>1, <1>3 DEF AccountsOK, HistoryOK, Truth, SqliteAnswer, LdapAnswer
<1>10. \A k : \A e : Timely(k, e) => Timely(k, e)'
  BY <1>3 DEF Timely
<1>11. CacheOK'
  <2>1. DOMAIN authCache' = Worker
    BY <1>1, <1>3 DEF CacheOK
  <2>2. ASSUME NEW v \in Worker, NEW k \in DOMAIN authCache'[v]
        PROVE  Timely(k, authCache'[v][k])
    <3>1. CASE v = w
      BY <1>1, <1>2, <1>3, <1>8, <3>1 DEF CacheOK
    <3>2. CASE v # w
      BY <1>1, <1>3, <3>2 DEF CacheOK
    <3> QED
      BY <3>1, <3>2
  <2>3. ASSUME NEW v \in Worker, NEW k \in DOMAIN authCache'[v]
        PROVE  Timely(k, authCache[v][k])'
    BY <1>3, <2>2 DEF Timely
  <2> QED
    BY <2>1, <2>3 DEF CacheOK
<1>12. AnswerOK'
  BY <1>1, <1>3, <1>8 DEF AnswerOK, AnswersAreRecent, TroubleEnds
<1> QED
  BY <1>9, <1>11, <1>12 DEF AuthInv

LEMMA BearerOK ==
  ASSUME AuthInv, NEW token \in Tokens, Bearer(token)
  PROVE  AuthInv'
<1>1. token # NoToken /\ answer' = [answer EXCEPT !.token = token, !.result = JwtAnswer(token), !.at = now]
  BY AuthAssumption DEF Bearer
<1>2. AnswerOK'
  BY <1>1 DEF AuthInv, HistoryOK, AnswerOK, AnswersAreRecent, TroubleEnds
<1>3. AccountsOK' /\ HistoryOK' /\ CacheOK'
  BY DEF Bearer, AuthInv, AccountsOK, HistoryOK, CacheOK, Timely, Truth, SqliteAnswer, LdapAnswer
<1> QED
  BY <1>2, <1>3 DEF AuthInv

\* Whatever else happens: as time goes on, what was noted stays noted.
LEMMA HistoryGrows ==
  ASSUME AuthInv, HistoryOK', now <= now', lastTrouble <= lastTrouble',
         \A c \in Credentials, a \in Settled : lastTrue[c][a] <= lastTrue'[c][a],
         authCache' = authCache, answer' = answer
  PROVE  CacheOK' /\ AnswerOK'
<1>1. /\ now \in Int /\ now' \in Int /\ lastTrouble \in Int /\ lastTrouble' \in Int
      /\ Timeout \in Nat
      /\ \A c \in Credentials, a \in Settled : lastTrue[c][a] \in Int /\ lastTrue'[c][a] \in Int
  BY AuthAssumption DEF AuthInv, HistoryOK
<1>2. ASSUME NEW c, NEW e, Timely(c, e)
      PROVE  Timely(c, e)'
  <2>1. c \in Credentials /\ e \in CacheEntry /\ e.validUntil \in Int
    BY <1>2 DEF Timely, CacheEntry
  <2>2. e.validUntil <= now' + Timeout
    BY <1>1, <1>2, <2>1 DEF Timely
  <2>3. e.known \in Settled => lastTrue'[c][e.known] + Timeout >= e.validUntil
    BY <1>1, <1>2, <2>1 DEF Timely
  <2>4. e.known = Unbound => lastTrouble' + Timeout >= e.validUntil
    BY <1>1, <1>2, <2>1 DEF Timely
  <2> QED
    BY <2>1, <2>2, <2>3, <2>4 DEF Timely
<1>3. CacheOK'
  <2>1. CacheOK
    BY DEF AuthInv
  <2>2. ASSUME NEW w \in Worker, NEW c \in DOMAIN authCache[w]
        PROVE  Timely(c, authCache[w][c])'
    <3>1. \A e : Timely(c, e) => Timely(c, e)'
      BY <1>2
    <3> QED
      BY <2>1, <3>1 DEF CacheOK, Timely
  <2> QED
    BY <2>1, <2>2 DEF CacheOK
<1>4. AnswerOK'
  <2>1. AnswerOK /\ answer' = answer
    BY DEF AuthInv
  <2>2. answer.at \in Int
    BY <2>1 DEF AnswerOK
  <2>3. ASSUME answer.token = NoToken, answer.result # Raised
        PROVE  /\ answer.to \in Credentials /\ answer.result \in Settled
               /\ lastTrue'[answer.to][answer.result] + Timeout >= answer.at
    <3>1. /\ answer.to \in Credentials /\ answer.result \in Settled
          /\ lastTrue[answer.to][answer.result] + Timeout >= answer.at
      BY <2>1, <2>3 DEF AnswerOK, AnswersAreRecent
    <3> QED
      BY <1>1, <2>2, <3>1
  <2>4. ASSUME answer.token = NoToken, answer.result = Raised
        PROVE  lastTrouble' + Timeout >= answer.at
    BY <1>1, <2>1, <2>2, <2>4 DEF AnswerOK, TroubleEnds
  <2> QED
    BY <2>1, <2>3, <2>4 DEF AnswerOK, AnswersAreRecent, TroubleEnds
<1> QED
  BY <1>3, <1>4

\* What Note keeps of the history, at the present time or the next.
LEMMA Noted ==
  ASSUME AuthInv, NEW truth, \A c \in Credentials : truth[c] \in Settled,
         NEW time \in Int, now <= time, lastTrue' = Note(truth, time)
  PROVE  /\ lastTrue' \in [Credentials -> [Settled -> Int]]
         /\ \A c \in Credentials : lastTrue'[c][truth[c]] = time
         /\ \A c \in Credentials, a \in Settled :
              lastTrue[c][a] <= lastTrue'[c][a] /\ lastTrue'[c][a] <= time
<1>1. /\ now \in Int
      /\ lastTrue \in [Credentials -> [Settled -> Int]]
      /\ \A c \in Credentials, a \in Settled : lastTrue[c][a] <= now
  BY DEF AuthInv, HistoryOK
<1>2. \A c \in Credentials : lastTrue'[c] = [lastTrue[c] EXCEPT ![truth[c]] = time]
  BY DEF Note
<1>3. \A c \in Credentials : lastTrue'[c] \in [Settled -> Int]
  <2>1. ASSUME NEW c \in Credentials
        PROVE  lastTrue'[c] \in [Settled -> Int]
    <3>1. lastTrue[c] \in [Settled -> Int] /\ truth[c] \in Settled
      BY <1>1
    <3> QED
      BY <1>2, <3>1
  <2> QED
    BY <2>1
<1>4. lastTrue' = [c \in Credentials |-> lastTrue'[c]]
  BY DEF Note
<1>5. \A c \in Credentials, a \in Settled :
        lastTrue'[c][a] = IF a = truth[c] THEN time ELSE lastTrue[c][a]
  <2>1. ASSUME NEW c \in Credentials, NEW a \in Settled
        PROVE  lastTrue'[c][a] = IF a = truth[c] THEN time ELSE lastTrue[c][a]
    <3>1. lastTrue[c] \in [Settled -> Int]
      BY <1>1
    <3> QED
      BY <1>2, <3>1
  <2> QED
    BY <2>1
<1> QED
  BY <1>1, <1>3, <1>4, <1>5

LEMMA ChangeAccountOK ==
  ASSUME AuthInv, NEW u \in User, NEW account, ChangeAccount(u, account),
         account \in SqliteAccount \cup LdapAccount \cup {NoAccount},
         u \in Local => account \in SqliteAccount \cup {NoAccount},
         u \in Remote => account \in LdapAccount \cup {NoAccount}
  PROVE  AuthInv'
<1>1. AccountsOK'
  BY DEF AuthInv, AccountsOK, ChangeAccount, User
<1> DEFINE truth == [c \in Credentials |-> Truth(c)']
<1>2. \A c \in Credentials : truth[c] = Truth(c)' /\ truth[c] \in Settled
  BY <1>1, TruthStaysSettled
<1>3. /\ now \in Int /\ now' = now /\ lastTrouble \in Int
      /\ lastTrue' = Note(truth, now)
      /\ UNCHANGED <<directory, authCache, answer, lastTrouble>>
  BY DEF AuthInv, HistoryOK, ChangeAccount
<1> HIDE DEF truth
<1>4. /\ lastTrue' \in [Credentials -> [Settled -> Int]]
      /\ \A c \in Credentials : lastTrue'[c][truth[c]] = now
      /\ \A c \in Credentials, a \in Settled :
           lastTrue[c][a] <= lastTrue'[c][a] /\ lastTrue'[c][a] <= now
  BY <1>2, <1>3, Noted
<1>5. HistoryOK'
  BY <1>2, <1>3, <1>4 DEF AuthInv, HistoryOK
<1>6. CacheOK' /\ AnswerOK'
  BY <1>3, <1>4, <1>5, HistoryGrows
<1> QED
  BY <1>1, <1>5, <1>6 DEF AuthInv

LEMMA DirectoryChangeOK ==
  ASSUME AuthInv, NEW state \in {"up", "down", "failing"}, DirectoryChange(state)
  PROVE  AuthInv'
<1>1. AccountsOK'
  BY DEF AuthInv, AccountsOK, DirectoryChange
<1>2. HistoryOK'
  <2>1. \A c \in Credentials : Truth(c)' = Truth(c)
    BY DEF DirectoryChange, Truth, SqliteAnswer, LdapAnswer
  <2>2. /\ now \in Int /\ now' = now /\ lastTrouble' = now
        /\ lastTrue' = lastTrue /\ answer' = answer /\ directory' = state
    BY DEF AuthInv, HistoryOK, DirectoryChange
  <2> QED
    BY <2>1, <2>2 DEF AuthInv, HistoryOK
<1>3. CacheOK' /\ AnswerOK'
  <2>1. /\ now \in Int /\ now' = now /\ lastTrouble <= lastTrouble'
        /\ lastTrue' = lastTrue /\ authCache' = authCache /\ answer' = answer
        /\ \A c \in Credentials, a \in Settled : lastTrue[c][a] \in Int
    BY DEF AuthInv, HistoryOK, DirectoryChange
  <2> QED
    BY <1>2, <2>1, HistoryGrows
<1> QED
  BY <1>1, <1>2, <1>3 DEF AuthInv

LEMMA TickOK ==
  ASSUME AuthInv, Tick
  PROVE  AuthInv'
<1>1. AccountsOK'
  BY DEF AuthInv, AccountsOK, Tick
<1> DEFINE truth == [c \in Credentials |-> Truth(c)]
<1>2. \A c \in Credentials : truth[c] \in Settled
  BY TruthIsSettled DEF AuthInv
<1>3. /\ now \in Int /\ now' = now + 1 /\ lastTrouble \in Int /\ lastTrouble <= now
      /\ lastTrue' = Note(truth, now + 1)
      /\ lastTrouble' = IF directory = "up" THEN lastTrouble ELSE now + 1
      /\ UNCHANGED <<accounts, directory, authCache, answer, changes>>
  BY DEF AuthInv, HistoryOK, Tick
<1> HIDE DEF truth
<1>4. /\ lastTrue' \in [Credentials -> [Settled -> Int]]
      /\ \A c \in Credentials : lastTrue'[c][truth[c]] = now + 1
      /\ \A c \in Credentials, a \in Settled :
           lastTrue[c][a] <= lastTrue'[c][a] /\ lastTrue'[c][a] <= now + 1
  BY <1>2, <1>3, Noted
<1>5. \A c \in Credentials : truth[c] = Truth(c)'
  BY <1>3 DEF truth, Truth, SqliteAnswer, LdapAnswer
<1>6. HistoryOK'
  BY <1>3, <1>4, <1>5 DEF AuthInv, HistoryOK
<1>7. CacheOK' /\ AnswerOK'
  BY <1>3, <1>4, <1>6, HistoryGrows
<1> QED
  BY <1>1, <1>6, <1>7 DEF AuthInv

LEMMA AccountsStep ==
  ASSUME AuthInv, Accounts
  PROVE  AuthInv'
<1>1. ASSUME NEW u \in Local, NEW a \in LocalAccounts, AddUser(u, a) \/ ModifyUser(u, a)
      PROVE  AuthInv'
  <2>1. u \in User /\ u \notin Remote /\ a \in SqliteAccount
    BY AuthAssumption DEF User
  <2> QED
    BY <1>1, <2>1, ChangeAccountOK DEF AddUser, ModifyUser
<1>2. ASSUME NEW u \in Remote, NEW a \in RemoteAccounts, AddUser(u, a) \/ ModifyUser(u, a)
      PROVE  AuthInv'
  <2>1. u \in User /\ u \notin Local /\ a \in LdapAccount
    BY AuthAssumption DEF User
  <2> QED
    BY <1>2, <2>1, ChangeAccountOK DEF AddUser, ModifyUser
<1>3. ASSUME NEW u \in User, RemoveUser(u)
      PROVE  AuthInv'
  BY <1>3, ChangeAccountOK DEF RemoveUser
<1> QED
  BY <1>1, <1>2, <1>3, DirectoryChangeOK, TickOK DEF Accounts

LEMMA AuthStep == AuthInv /\ [AuthNext]_authVars => AuthInv'
<1> SUFFICES ASSUME AuthInv, [AuthNext]_authVars PROVE AuthInv'
  OBVIOUS
<1>1. CASE AuthNext
  BY <1>1, AuthenticateOK, BearerOK, AccountsStep DEF AuthNext
<1>2. CASE UNCHANGED authVars
  BY <1>2 DEF authVars, AuthInv, AccountsOK, HistoryOK, CacheOK, AnswerOK, Timely, Truth,
              SqliteAnswer, LdapAnswer, AnswersAreRecent, TroubleEnds
<1> QED
  BY <1>1, <1>2

\* A worker never answers with what was true longer than a timeout ago, a refusal
\* included: AuthFactory.get_auth removes old entries before it looks for one, and an
\* object settles its answer no later than its entry is made.
THEOREM CachedAnswersAreRecent == AuthSpec => []AnswersAreRecent
<1>1. AuthInv => AnswersAreRecent
  BY DEF AuthInv, AnswerOK
<1> QED
  BY <1>1, AuthInitOK, AuthStep, PTL DEF AuthSpec

\* A failure of the directory is over, for every caller, one timeout after it was mended:
\* an object that was left without its connection goes with its entry.
THEOREM DirectoryRecovers == AuthSpec => []TroubleEnds
<1>1. AuthInv => TroubleEnds
  BY DEF AuthInv, AnswerOK
<1> QED
  BY <1>1, AuthInitOK, AuthStep, PTL DEF AuthSpec

-----------------------------------------------------------------------------
(* The requests of the web interface.                                      *)

Fields == {"pc", "op", "id", "user", "copy", "row", "mixed", "old", "committed"}

WebTypes ==
  /\ options \in [Process -> Identity \cup {NoOptions}]
  /\ session \in [Browser -> Identity \cup {NoSession}]
  /\ DOMAIN request = Thread
  /\ \A t \in Thread : Fields \subseteq DOMAIN request[t]

\* As long as nobody else has set them, the options of a process are those of the
\* user for whom it works.
OptionsOfAsker ==
  \A t \in Thread :
    Active(t) /\ ~ request[t].mixed =>
      /\ options[ProcessOf[t]] \in Identity
      /\ options[ProcessOf[t]].username = request[t].user

\* The account of the web interface says nothing of its own that may write.
TrustOK ==
  accounts[WebUser] # NoAccount => accounts[WebUser].trusted \/ accounts[WebUser].readonly

\* Nor does a cached answer to it.
SpeaksFor(c, result) ==
  c.user = WebUser /\ c.options \in Identity /\ result \in Identity =>
    result.readonly \/ result.username = c.options.username
CacheSpeaks ==
  \A w \in Worker : \A c \in DOMAIN authCache[w] : SpeaksFor(c, authCache[w][c].known)

WebInv == AuthInv /\ WebTypes /\ OptionsOfAsker /\ TrustOK /\ CacheSpeaks /\ LogNamesTheUser

-----------------------------------------------------------------------------
\* The user databases let the web interface speak for the user in the options.
LEMMA TruthSpeaks ==
  ASSUME AccountsOK, TrustOK, NEW c \in Credentials
  PROVE  SpeaksFor(c, Truth(c))
<1> SUFFICES ASSUME c.user = WebUser, c.options \in Identity, Truth(c) \in Identity
             PROVE  Truth(c).readonly \/ Truth(c).username = c.options.username
  BY DEF SpeaksFor
<1>1. Truth(c) = SqliteAnswer(c)
  BY WebAssumption DEF Truth
<1>2. Refused \notin Identity
  BY AuthAssumption
<1>3. accounts[WebUser] # NoAccount
  BY <1>1, <1>2 DEF SqliteAnswer
<1>4. CASE accounts[WebUser].trusted
  <2>1. Truth(c) = c.options
    BY <1>1, <1>2, <1>3, <1>4, WebAssumption DEF SqliteAnswer
  <2> QED
    BY <2>1
<1>5. CASE ~ accounts[WebUser].trusted
  <2>1. Truth(c) = [username |-> WebUser, readonly |-> accounts[WebUser].readonly]
    BY <1>1, <1>2, <1>3, <1>5 DEF SqliteAnswer
  <2> QED
    BY <1>3, <1>5, <2>1 DEF TrustOK
<1> QED
  BY <1>4, <1>5

\* A call leaves a cache that speaks for its callers, and answers so itself.
LEMMA AuthenticateSpeaks ==
  ASSUME AuthInv, TrustOK, CacheSpeaks, NEW w \in Worker, NEW c \in Credentials, Authenticate(w, c)
  PROVE  AuthInv' /\ TrustOK' /\ CacheSpeaks' /\ SpeaksFor(c, Speaker)
<1> DEFINE entries == ValidEntries(w)
           known == KnownTo(w, c)
           result == AskBackend(c, known)
<1>1. /\ AccountsOK /\ CacheOK /\ directory \in {"up", "down", "failing"}
      /\ Raised \notin Identity /\ NotYet \notin Identity /\ Unbound \notin Identity
      /\ NotYet # Unbound
  BY AuthAssumption DEF AuthInv, HistoryOK
<1>2. \A k \in DOMAIN entries : SpeaksFor(k, entries[k].known)
  BY <1>1, ValidEntriesOK DEF CacheSpeaks
<1>3. SpeaksFor(c, result.known) /\ SpeaksFor(c, result.answer)
  <2>1. CASE known = NotYet
    <3>1. result.known \in {Truth(c), NotYet, Unbound} /\ result.answer \in {Truth(c), Raised}
      BY <1>1, <2>1, FreshObject
    <3>2. SpeaksFor(c, Truth(c))
      BY <1>1, TruthSpeaks
    <3> HIDE DEF result, known
    <3> QED
      BY <1>1, <3>1, <3>2 DEF SpeaksFor
  <2>2. CASE known # NotYet
    <3>1. known = entries[c].known /\ c \in DOMAIN entries
      BY <2>2 DEF KnownTo
    <3>2. SpeaksFor(c, known)
      BY <1>2, <3>1
    <3>3. \/ result = [known |-> known, answer |-> known]
          \/ result = [known |-> Unbound, answer |-> Raised]
      BY <2>2 DEF AskBackend
    <3> QED
      BY <1>1, <3>2, <3>3 DEF SpeaksFor
  <2> QED
    BY <2>1, <2>2
<1>4. /\ authCache' = [authCache EXCEPT ![w] =
           [k \in DOMAIN entries \cup {c} |->
              IF k = c THEN [known |-> result.known, validUntil |-> ValidUntil(w, c)]
              ELSE entries[k]]]
      /\ Speaker = result.answer
      /\ accounts' = accounts
  BY <1>1, AuthenticateSays DEF Speaker
<1> HIDE DEF entries, known, result
<1>5. CacheSpeaks'
  <2>1. ASSUME NEW v \in Worker, NEW k \in DOMAIN authCache'[v]
        PROVE  SpeaksFor(k, authCache'[v][k].known)
    BY <1>1, <1>2, <1>3, <1>4 DEF CacheSpeaks, CacheOK
  <2> QED
    BY <2>1 DEF CacheSpeaks, SpeaksFor
<1>6. AuthInv'
  BY AuthenticateOK
<1> QED
  BY <1>3, <1>4, <1>5, <1>6 DEF TrustOK

-----------------------------------------------------------------------------
\* Requests go on, and nobody is asked anything new.
Kept ==
  /\ DOMAIN request' = Thread
  /\ \A u \in Thread : /\ Fields \subseteq DOMAIN request'[u]
                       /\ Active(u)' => Active(u)
                       /\ request'[u].user = request[u].user
                       /\ request'[u].mixed = request[u].mixed

Calls == AuthInv /\ TrustOK /\ CacheSpeaks

LEMMA WebInvParts == WebInv <=> Calls /\ WebTypes /\ OptionsOfAsker /\ LogNamesTheUser
BY DEF WebInv, Calls

LEMMA WebInitOK == Init => WebInv
<1> SUFFICES ASSUME Init PROVE WebInv
  OBVIOUS
<1>1. AuthInit /\ AuthInv
  BY AuthInitOK DEF Init
<1>2. WebTypes
  BY WebAssumption DEF Init, WebTypes, NoRequest, Fields
<1>3. OptionsOfAsker /\ LogNamesTheUser
  BY DEF Init, OptionsOfAsker, LogNamesTheUser, Active, Resting, NoRequest
<1>4. TrustOK
  BY <1>1, TrustAssumption DEF AuthInit, TrustOK
<1>5. CacheSpeaks
  BY <1>1 DEF AuthInit, CacheSpeaks
<1> QED
  BY <1>1, <1>2, <1>3, <1>4, <1>5 DEF WebInv

LEMMA KeptIsEnough ==
  ASSUME WebTypes, OptionsOfAsker, Kept, UNCHANGED <<options, session>>
  PROVE  WebTypes' /\ OptionsOfAsker'
BY DEF WebTypes, OptionsOfAsker, Kept

\* The request of one thread goes on, and the others at most learn of a change.
LEMMA OneGoesOn ==
  ASSUME WebTypes, NEW t \in Thread, Active(t), NEW r,
         Fields \subseteq DOMAIN r, r.user = request[t].user, r.mixed = request[t].mixed,
         NEW ids,
         request' = [request EXCEPT ![t] = r] \/ request' = [Outdated(t, ids) EXCEPT ![t] = r]
  PROVE  Kept
<1>1. request'[t] = r /\ DOMAIN request' = Thread
  BY DEF WebTypes, Outdated
<1>2. ASSUME NEW u \in Thread, u # t
      PROVE  request'[u] = request[u] \/ request'[u] = [request[u] EXCEPT !.old = TRUE]
  BY <1>2 DEF WebTypes, Outdated
<1>3. ASSUME NEW u \in Thread, u # t
      PROVE  /\ Fields \subseteq DOMAIN request'[u]
             /\ request'[u].pc = request[u].pc
             /\ request'[u].user = request[u].user
             /\ request'[u].mixed = request[u].mixed
  BY <1>2, <1>3 DEF WebTypes, Fields
<1> QED
  BY <1>1, <1>3 DEF Kept, Active

LEMMA CallsKept ==
  ASSUME Calls, UNCHANGED authVars
  PROVE  Calls'
<1>1. AuthInv'
  BY AuthStep DEF Calls
<1>2. TrustOK' /\ CacheSpeaks'
  BY DEF Calls, TrustOK, CacheSpeaks, authVars
<1> QED
  BY <1>1, <1>2 DEF Calls

\* nipapd authenticates the web interface, and lets a request change something only
\* in the name of the user whose options it was sent with.
LEMMA CallOfThread ==
  ASSUME Calls, WebTypes, NEW t \in Thread, Authenticated(t)
  PROVE  /\ Calls'
         /\ options[ProcessOf[t]] \in Identity /\ MayWrite =>
              Speaker.username = options[ProcessOf[t]].username
<1>1. PICK n \in Nipapd :
        Authenticate(n, [user |-> WebUser, password |-> WebPassword,
                         options |-> options[ProcessOf[t]]])
  BY DEF Authenticated
<1> DEFINE c == [user |-> WebUser, password |-> WebPassword,
                 options |-> options[ProcessOf[t]]]
<1>2. n \in Worker /\ c \in Credentials
  BY WebAssumption DEF WebTypes, Credentials, User
<1>3. Calls' /\ SpeaksFor(c, Speaker)
  BY <1>1, <1>2, AuthenticateSpeaks DEF Calls
<1> QED
  BY <1>3 DEF MayWrite, SpeaksFor

-----------------------------------------------------------------------------
(* One lemma per kind of step.                                             *)

\* The request of t is still for the same user.
Went(t) ==
  /\ Active(t)
  /\ request' = [request EXCEPT ![t] = request'[t]]
  /\ Fields \subseteq DOMAIN request'[t]
  /\ request'[t].user = request[t].user
  /\ request'[t].mixed = request[t].mixed

LEMMA GoesIsWent ==
  ASSUME WebTypes, NEW t \in Thread, Active(t), NEW r, Goes(t, r),
         Fields \subseteq DOMAIN r, r.user = request[t].user, r.mixed = request[t].mixed
  PROVE  Went(t)
BY DEF WebTypes, Goes, Went

LEMMA FailsIsWent ==
  ASSUME WebTypes, NEW t \in Thread, Active(t), Fails(t)
  PROVE  Went(t)
<1> DEFINE r == [request[t] EXCEPT !.pc = "failed"]
<1>1. Fields \subseteq DOMAIN r /\ r.user = request[t].user /\ r.mixed = request[t].mixed
  BY DEF WebTypes, Fields
<1>2. Goes(t, r)
  BY DEF Fails
<1> HIDE DEF r
<1> QED
  BY <1>1, <1>2, GoesIsWent

\* A step of a thread that calls nobody.
LEMMA OwnStep ==
  ASSUME WebInv, NEW t \in Thread,
         \/ GetCached(t) \/ Build(t) \/ Create(t) \/ EditPrefix(t) \/ EditContainer(t)
         \/ Refresh(t) \/ Forget(t)
  PROVE  WebInv'
<1> DEFINE q == request[t]
<1>1. WebTypes
  BY DEF WebInv
<1> DEFINE ForHer(r) == /\ Fields \subseteq DOMAIN r
                        /\ r.user = q.user /\ r.mixed = q.mixed
<1>2. /\ \A pc : ForHer([q EXCEPT !.pc = pc])
      /\ \A pc, copy : ForHer([q EXCEPT !.pc = pc, !.copy = copy])
      /\ \A pc, row : ForHer([q EXCEPT !.pc = pc, !.row = row])
  BY <1>1 DEF WebTypes, Fields
<1>3. Went(t) /\ UNCHANGED authVars /\ UNCHANGED <<options, session, trail>>
  <2>1. CASE GetCached(t)
    <3>1. q.pc = "get" /\ Goes(t, [q EXCEPT !.pc = q.op, !.copy = memory[ProcessOf[t]].cached[q.id]])
      BY <2>1 DEF GetCached
    <3>2. Active(t)
      BY <3>1 DEF Active, Resting
    <3>3. Went(t)
      BY <1>1, <1>2, <3>1, <3>2, GoesIsWent, Zenon
    <3> QED
      BY <2>1, <3>3 DEF GetCached
  <2>2. CASE Build(t)
    <3>1. /\ q.pc = "build"
          /\ \/ Goes(t, [q EXCEPT !.pc = q.op, !.copy = Spare(ProcessOf[t], q.id)])
             \/ Fails(t)
      BY <2>2 DEF Build
    <3>2. Active(t)
      BY <3>1 DEF Active, Resting
    <3>3. Went(t)
      BY <1>1, <1>2, <3>1, <3>2, GoesIsWent, FailsIsWent
    <3> QED
      BY <2>2, <3>3 DEF Build
  <2>3. CASE Create(t)
    <3>1. /\ q.pc = "create"
          /\ \/ Goes(t, [q EXCEPT !.pc = "send", !.row = [text |-> q.text, pool |-> q.pool]])
             \/ Fails(t)
      BY <2>3, Zenon DEF Create
    <3>2. Active(t)
      BY <3>1 DEF Active, Resting
    <3>3. Goes(t, [q EXCEPT !.pc = "send", !.row = [text |-> q.text, pool |-> q.pool]]) => Went(t)
      BY <1>1, <1>2, <3>2, GoesIsWent, Zenon
    <3>4. Went(t)
      BY <1>1, <3>1, <3>2, <3>3, FailsIsWent
    <3> QED
      BY <2>3, <3>4, Zenon DEF Create
  <2>4. CASE EditPrefix(t)
    <3> DEFINE sent(row) == [q EXCEPT !.pc = "send", !.row = row]
    <3>1. q.pc = "edit"
      BY <2>4, Zenon DEF EditPrefix
    <3>2. (\E row : Goes(t, sent(row))) \/ Fails(t)
      BY <2>4, Zenon DEF EditPrefix
    <3>3. Active(t)
      BY <3>1 DEF Active, Resting
    <3>4. ASSUME NEW row, Goes(t, sent(row))
          PROVE  Went(t)
      <4>1. ForHer(sent(row))
        BY <1>2
      <4> HIDE DEF sent
      <4> QED
        BY <1>1, <3>3, <3>4, <4>1, GoesIsWent
    <3>5. Fails(t) => Went(t)
      BY <1>1, <3>3, FailsIsWent
    <3> HIDE DEF sent
    <3>6. Went(t)
      BY <3>2, <3>4, <3>5
    <3> QED
      BY <2>4, <3>6, Zenon DEF EditPrefix
  <2>5. CASE EditContainer(t)
    <3>1. q.pc = "edit" /\ \E row : Goes(t, [q EXCEPT !.pc = "send", !.row = row])
      BY <2>5, Zenon DEF EditContainer
    <3>2. Active(t)
      BY <3>1 DEF Active, Resting
    <3>3. Went(t)
      BY <1>1, <1>2, <3>1, <3>2, GoesIsWent
    <3> QED
      BY <2>5, <3>3, Zenon DEF EditContainer
  <2>6. CASE Refresh(t)
    <3>1. q.pc = "refresh" /\ (Goes(t, [q EXCEPT !.pc = "done"]) \/ Fails(t))
      BY <2>6 DEF Refresh
    <3>2. Active(t)
      BY <3>1 DEF Active, Resting
    <3>3. Goes(t, [q EXCEPT !.pc = "done"]) => Went(t)
      BY <1>1, <1>2, <3>2, GoesIsWent
    <3>4. Went(t)
      BY <1>1, <3>1, <3>2, <3>3, FailsIsWent
    <3> QED
      BY <2>6, <3>4 DEF Refresh
  <2>7. CASE Forget(t)
    <3>1. q.pc = "forget" /\ Goes(t, [q EXCEPT !.pc = "done"])
      BY <2>7, Zenon DEF Forget
    <3>2. Active(t)
      BY <3>1 DEF Active, Resting
    <3>3. Went(t)
      BY <1>1, <1>2, <3>1, <3>2, GoesIsWent
    <3> QED
      BY <2>7, <3>3, Zenon DEF Forget
  <2> QED
    BY <2>1, <2>2, <2>3, <2>4, <2>5, <2>6, <2>7
<1>4. Kept
  BY <1>1, <1>3, OneGoesOn DEF Went
<1>5. WebTypes' /\ OptionsOfAsker' /\ Calls'
  BY <1>3, <1>4, KeptIsEnough, CallsKept, WebInvParts
<1>6. LogNamesTheUser'
  BY <1>3 DEF WebInv, LogNamesTheUser
<1> QED
  BY <1>5, <1>6 DEF Calls, WebInv

\* A call of nipapd that changes nothing there.
LEMMA CallStep ==
  ASSUME WebInv, NEW t \in Thread, Authenticated(t), Went(t),
         UNCHANGED <<options, session, trail>>
  PROVE  WebInv'
<1>1. Calls'
  BY CallOfThread, WebInvParts
<1>2. Kept
  BY OneGoesOn DEF WebInv, Went
<1>3. WebTypes' /\ OptionsOfAsker'
  BY <1>2, KeptIsEnough DEF WebInv
<1>4. LogNamesTheUser'
  BY DEF WebInv, LogNamesTheUser
<1> QED
  BY <1>1, <1>3, <1>4 DEF Calls, WebInv

\* A call that changes something, and is logged.
LEMMA CommitStep ==
  ASSUME WebInv, NEW t \in Thread, Authenticated(t), Active(t), MayWrite,
         NEW ids, NEW r, Fields \subseteq DOMAIN r,
         r.user = request[t].user, r.mixed = request[t].mixed,
         request' = [Outdated(t, ids) EXCEPT ![t] = r],
         trail' = trail \cup {Entry(request[t])},
         UNCHANGED <<options, session>>
  PROVE  WebInv'
<1>1. /\ Calls'
      /\ options[ProcessOf[t]] \in Identity => Speaker.username = options[ProcessOf[t]].username
  BY CallOfThread, WebInvParts
<1>2. Kept
  BY OneGoesOn DEF WebInv
<1>3. WebTypes' /\ OptionsOfAsker'
  BY <1>2, KeptIsEnough DEF WebInv
<1>4. ~ request[t].mixed => Speaker.username = request[t].user
  BY <1>1 DEF WebInv, OptionsOfAsker
<1> DEFINE e == Entry(request[t])
<1>5. e.mixed = request[t].mixed /\ e.named = Speaker.username /\ e.asked = request[t].user
  BY DEF Entry
<1>6. trail' = trail \cup {e}
  OBVIOUS
<1> HIDE DEF e
<1>7. ~ e.mixed => e.named = e.asked
  BY <1>4, <1>5
<1>8. LogNamesTheUser'
  BY <1>6, <1>7 DEF WebInv, LogNamesTheUser
<1> QED
  BY <1>1, <1>3, <1>8 DEF Calls, WebInv

LEMMA ListStep ==
  ASSUME WebInv, NEW t \in Thread, List(t)
  PROVE  WebInv'
<1> DEFINE q == request[t]
           read == [q EXCEPT !.pc = "build", !.row = rows[q.id], !.old = FALSE]
<1>1. q.pc = "get" /\ (Goes(t, read) \/ Fails(t))
  BY DEF List
<1>2. Active(t) /\ WebTypes
  BY <1>1 DEF WebInv, Active, Resting
<1>3. Fields \subseteq DOMAIN read /\ read.user = q.user /\ read.mixed = q.mixed
  BY <1>2 DEF WebTypes, Fields
<1> HIDE DEF read
<1>4. Went(t)
  BY <1>1, <1>2, <1>3, GoesIsWent, FailsIsWent
<1> QED
  BY <1>4, CallStep DEF List

LEMMA SaveStep ==
  ASSUME WebInv, NEW t \in Thread, Save(t)
  PROVE  WebInv'
<1> DEFINE q == request[t]
           saved == [q EXCEPT !.pc = "refresh", !.old = FALSE, !.committed = TRUE]
<1>1. q.pc = "send" /\ Authenticated(t) /\ UNCHANGED <<options, session>>
  BY DEF Save
<1>2. Active(t) /\ WebTypes
  BY <1>1 DEF WebInv, Active, Resting
<1>3. Fields \subseteq DOMAIN saved /\ saved.user = q.user /\ saved.mixed = q.mixed
  BY <1>2 DEF WebTypes, Fields
<1>4. \/ /\ MayWrite
         /\ request' = [Outdated(t, {q.id}) EXCEPT ![t] = saved]
         /\ trail' = trail \cup {Entry(q)}
      \/ Fails(t) /\ UNCHANGED trail
  BY DEF Save
<1> HIDE DEF saved
<1>5. CASE Fails(t) /\ UNCHANGED trail
  BY <1>1, <1>2, <1>5, FailsIsWent, CallStep
<1> QED
  BY <1>1, <1>2, <1>3, <1>4, <1>5, CommitStep

LEMMA RemoveStep ==
  ASSUME WebInv, NEW t \in Thread, Remove(t)
  PROVE  WebInv'
<1> DEFINE q == request[t]
           ids == Cascade(q.id) \cup Orphans(q.id)
           removed == [q EXCEPT !.pc = "forget", !.committed = TRUE]
<1>1. q.pc = "remove" /\ Authenticated(t) /\ UNCHANGED <<options, session>>
  BY DEF Remove
<1>2. Active(t) /\ WebTypes
  BY <1>1 DEF WebInv, Active, Resting
<1>3. Fields \subseteq DOMAIN removed /\ removed.user = q.user /\ removed.mixed = q.mixed
  BY <1>2 DEF WebTypes, Fields
<1>4. \/ /\ MayWrite
         /\ request' = [Outdated(t, ids) EXCEPT ![t] = removed]
         /\ trail' = trail \cup {Entry(q)}
      \/ Fails(t) /\ UNCHANGED trail
  BY DEF Remove
<1> HIDE DEF removed, ids
<1>5. CASE Fails(t) /\ UNCHANGED trail
  BY <1>1, <1>2, <1>5, FailsIsWent, CallStep
<1> QED
  BY <1>1, <1>2, <1>3, <1>4, <1>5, CommitStep

-----------------------------------------------------------------------------
(* The steps of browsers.                                                  *)

\* A request to process p sets its options, ...
LEMMA OptionsSet ==
  ASSUME WebTypes, NEW p \in Process, NEW b \in Browser, Arrives(p, b)
  PROVE  /\ options' \in [Process -> Identity \cup {NoOptions}]
         /\ options'[p] \in Identity
         /\ session[b] # NoSession => options'[p] = session[b]
         /\ \A o \in Process : o # p => options'[o] = options[o]
<1> DEFINE identity == IF session[b] = NoSession THEN Anonymous ELSE session[b]
<1>1. identity \in Identity
  BY DEF WebTypes, Identity
<1>2. options' = [options EXCEPT ![p] = identity]
  BY DEF Arrives, SetupAuth
<1> HIDE DEF identity
<1>3. /\ options' \in [Process -> Identity \cup {NoOptions}]
      /\ options'[p] = identity
      /\ \A o \in Process : o # p => options'[o] = options[o]
  BY <1>1, <1>2 DEF WebTypes
<1> QED
  BY <1>1, <1>3 DEF identity

\* ... and marks those that are under way.
LEMMA MixedMarks ==
  ASSUME WebTypes, NEW p \in Process
  PROVE  /\ DOMAIN Mixed(p) = Thread
         /\ \A u \in Thread :
              /\ Fields \subseteq DOMAIN Mixed(p)[u]
              /\ Mixed(p)[u].pc = request[u].pc
              /\ Mixed(p)[u].user = request[u].user
              /\ Active(u) /\ ~ Mixed(p)[u].mixed => ProcessOf[u] # p /\ ~ request[u].mixed
<1>1. ASSUME NEW u \in Thread, ProcessOf[u] = p /\ Active(u)
      PROVE  /\ Fields \subseteq DOMAIN Mixed(p)[u]
             /\ Mixed(p)[u].pc = request[u].pc
             /\ Mixed(p)[u].user = request[u].user
             /\ Mixed(p)[u].mixed = TRUE
  BY <1>1 DEF WebTypes, Mixed, Fields
<1>2. ASSUME NEW u \in Thread, ~ (ProcessOf[u] = p /\ Active(u))
      PROVE  Mixed(p)[u] = request[u]
  BY <1>2 DEF Mixed
<1>3. DOMAIN Mixed(p) = Thread
  BY DEF Mixed
<1> QED
  BY <1>1, <1>2, <1>3 DEF WebTypes

LEMMA LoginStep ==
  ASSUME WebInv, NEW p \in Process, NEW b \in Browser, NEW u \in User, NEW word \in Password,
         Login(p, b, u, word)
  PROVE  WebInv'
<1> DEFINE c == [user |-> u, password |-> word, options |-> NoOptions]
<1>1. WebTypes /\ Calls /\ OptionsOfAsker
  BY WebInvParts
<1>2. Arrives(p, b) /\ Authenticate(p, c) /\ request' = Mixed(p) /\ trail' = trail
  BY DEF Login
<1>3. p \in Worker /\ c \in Credentials
  BY WebAssumption DEF Credentials
<1> HIDE DEF c
<1>4. Calls'
  BY <1>1, <1>2, <1>3, AuthenticateSpeaks DEF Calls
<1>5. session' \in [Browser -> Identity \cup {NoSession}]
  <2>1. session' = IF Speaker \in Identity THEN [session EXCEPT ![b] = Speaker] ELSE session
    BY DEF Login
  <2> QED
    BY <1>1, <2>1 DEF WebTypes
<1>6. WebTypes' /\ OptionsOfAsker'
  BY <1>1, <1>2, <1>5, OptionsSet, MixedMarks, WebAssumption DEF WebTypes, OptionsOfAsker, Active
<1>7. LogNamesTheUser'
  BY <1>2 DEF WebInv, LogNamesTheUser
<1> QED
  BY <1>4, <1>6, <1>7 DEF Calls, WebInv

LEMMA LogoutStep ==
  ASSUME WebInv, NEW p \in Process, NEW b \in Browser, Logout(p, b)
  PROVE  WebInv'
<1>1. WebTypes /\ Calls /\ OptionsOfAsker
  BY WebInvParts
<1>2. /\ Arrives(p, b) /\ request' = Mixed(p) /\ UNCHANGED authVars /\ trail' = trail
      /\ session' = [session EXCEPT ![b] = NoSession]
  BY DEF Logout
<1>3. Calls'
  BY <1>1, <1>2, CallsKept
<1>4. session' \in [Browser -> Identity \cup {NoSession}]
  BY <1>1, <1>2 DEF WebTypes
<1>5. WebTypes' /\ OptionsOfAsker'
  BY <1>1, <1>2, <1>4, OptionsSet, MixedMarks, WebAssumption DEF WebTypes, OptionsOfAsker, Active
<1>6. LogNamesTheUser'
  BY <1>2 DEF WebInv, LogNamesTheUser
<1> QED
  BY <1>3, <1>5, <1>6 DEF Calls, WebInv

LEMMA StartStep ==
  ASSUME WebInv, NEW t \in Thread, NEW b \in Browser, NEW op, NEW id, NEW text, NEW pool,
         Start(t, b, op, id, text, pool)
  PROVE  WebInv'
<1> DEFINE p == ProcessOf[t]
           new == [NoRequest EXCEPT !.pc = IF op = "add" THEN "create" ELSE "get",
                                    !.op = op, !.id = id, !.text = text, !.pool = pool,
                                    !.user = session[b].username]
<1>1. WebTypes /\ Calls /\ OptionsOfAsker /\ p \in Process
  BY WebInvParts, WebAssumption
<1>2. /\ Arrives(p, b) /\ session[b] # NoSession
      /\ UNCHANGED authVars /\ trail' = trail /\ session' = session
  BY DEF Start
<1>3. request' = [Mixed(p) EXCEPT ![t] = new]
  BY Zenon DEF Start
<1>4. Fields \subseteq DOMAIN new /\ new.user = session[b].username
  BY DEF Fields, NoRequest
<1> HIDE DEF new
<1>5. Calls'
  BY <1>1, <1>2, CallsKept
<1>6. /\ options' \in [Process -> Identity \cup {NoOptions}]
      /\ options'[p] \in Identity /\ options'[p] = session[b]
      /\ \A o \in Process : o # p => options'[o] = options[o]
  BY <1>1, <1>2, OptionsSet
<1> HIDE DEF p
<1>7. /\ DOMAIN request' = Thread /\ request'[t] = new
      /\ \A u \in Thread : u # t => request'[u] = Mixed(p)[u]
  BY <1>1, <1>3, MixedMarks
<1>8. WebTypes'
  BY <1>1, <1>2, <1>4, <1>6, <1>7, MixedMarks DEF WebTypes
<1>9. ASSUME NEW u \in Thread, Active(u)', ~ request'[u].mixed
      PROVE  /\ options'[ProcessOf[u]] \in Identity
             /\ options'[ProcessOf[u]].username = request'[u].user
  <2>1. CASE u = t
    BY <1>4, <1>6, <1>7, <2>1 DEF p
  <2>2. CASE u # t
    <3>1. /\ Active(u) /\ ProcessOf[u] # p /\ ~ request[u].mixed
          /\ request'[u].user = request[u].user
      BY <1>1, <1>7, <1>9, <2>2, MixedMarks DEF Active
    <3> QED
      BY <1>1, <1>6, <3>1, WebAssumption DEF OptionsOfAsker
  <2> QED
    BY <2>1, <2>2
<1>10. OptionsOfAsker'
  BY <1>9 DEF OptionsOfAsker
<1>11. LogNamesTheUser'
  BY <1>2 DEF WebInv, LogNamesTheUser
<1> QED
  BY <1>5, <1>8, <1>10, <1>11 DEF Calls, WebInv

-----------------------------------------------------------------------------
(* The steps of others.                                                    *)

LEMMA OthersStep ==
  ASSUME WebInv, Others
  PROVE  WebInv'
<1>1. WebTypes /\ Calls /\ OptionsOfAsker /\ LogNamesTheUser
  BY WebInvParts
<1>2. ASSUME NEW ids, OtherChanges(ids)
      PROVE  WebInv'
  <2>1. UNCHANGED authVars /\ UNCHANGED <<options, session, trail>>
    BY <1>2 DEF OtherChanges
  <2>2. ASSUME NEW u \in Thread
        PROVE  /\ Fields \subseteq DOMAIN request'[u]
               /\ request'[u].pc = request[u].pc
               /\ request'[u].user = request[u].user
               /\ request'[u].mixed = request[u].mixed
    BY <1>1, <1>2 DEF OtherChanges, WebTypes, Fields
  <2>3. DOMAIN request' = Thread
    BY <1>2 DEF OtherChanges
  <2>4. Kept
    BY <2>2, <2>3 DEF Kept, Active
  <2>5. WebTypes' /\ OptionsOfAsker' /\ Calls'
    BY <1>1, <2>1, <2>4, KeptIsEnough, CallsKept
  <2>6. LogNamesTheUser'
    BY <1>1, <2>1 DEF LogNamesTheUser
  <2> QED
    BY <2>5, <2>6 DEF Calls, WebInv
<1>3. ASSUME NEW token \in Tokens, OtherToken(token)
      PROVE  WebInv'
  <2>1. /\ Bearer(token) /\ UNCHANGED <<accounts, authCache>>
        /\ UNCHANGED <<options, session, request, trail>>
    BY <1>3 DEF OtherToken, Bearer
  <2>2. AuthInv' /\ TrustOK' /\ CacheSpeaks'
    BY <1>1, <2>1, BearerOK DEF Calls, TrustOK, CacheSpeaks
  <2>3. WebTypes' /\ OptionsOfAsker' /\ LogNamesTheUser'
    BY <1>1, <2>1 DEF WebTypes, OptionsOfAsker, LogNamesTheUser, Active
  <2> QED
    BY <2>2, <2>3 DEF WebInv
<1> QED
  BY <1>2, <1>3 DEF Others, OtherEdit, OtherRemove

\* An account the web interface is given is trusted too, or may not write.
LEMMA TrustKept ==
  ASSUME AuthInv, TrustOK, Accounts
  PROVE  TrustOK'
<1>1. AccountsOK
  BY DEF AuthInv
<1>2. ASSUME NEW u \in User, NEW account, ChangeAccount(u, account),
             u = WebUser /\ account # NoAccount => account.trusted \/ account.readonly
      PROVE  TrustOK'
  BY <1>1, <1>2, WebAssumption DEF ChangeAccount, TrustOK, AccountsOK, User
<1>3. WebUser \notin Remote /\ Local \subseteq User /\ Remote \subseteq User
  BY WebAssumption, AuthAssumption DEF User
<1>4. ASSUME NEW u \in Local, NEW a \in LocalAccounts, AddUser(u, a) \/ ModifyUser(u, a)
      PROVE  TrustOK'
  BY <1>2, <1>3, <1>4, TrustAssumption DEF AddUser, ModifyUser
<1>5. ASSUME NEW u \in Remote, NEW a \in RemoteAccounts, AddUser(u, a) \/ ModifyUser(u, a)
      PROVE  TrustOK'
  BY <1>2, <1>3, <1>5 DEF AddUser, ModifyUser
<1>6. ASSUME NEW u \in User, RemoveUser(u)
      PROVE  TrustOK'
  BY <1>2, <1>6 DEF RemoveUser
<1>7. ASSUME UNCHANGED accounts
      PROVE  TrustOK'
  BY <1>7 DEF TrustOK
<1> QED
  BY <1>4, <1>5, <1>6, <1>7 DEF Accounts, DirectoryChange, Tick

LEMMA AccountsAlone ==
  ASSUME WebInv, Accounts, UNCHANGED webVars
  PROVE  WebInv'
<1>1. AuthInv' /\ TrustOK'
  BY AccountsStep, TrustKept DEF WebInv
<1>2. authCache' = authCache
  BY DEF Accounts, AddUser, ModifyUser, RemoveUser, ChangeAccount, DirectoryChange, Tick
<1>3. CacheSpeaks'
  BY <1>2 DEF WebInv, CacheSpeaks
<1>4. WebTypes' /\ OptionsOfAsker' /\ LogNamesTheUser'
  BY DEF WebInv, WebTypes, OptionsOfAsker, LogNamesTheUser, Active, webVars
<1> QED
  BY <1>1, <1>3, <1>4 DEF WebInv

LEMMA WebStutter ==
  ASSUME WebInv, UNCHANGED vars
  PROVE  WebInv'
<1>1. UNCHANGED authVars /\ UNCHANGED <<options, session, request, trail>>
  BY DEF vars, webVars
<1>2. Calls'
  BY <1>1, CallsKept, WebInvParts
<1>3. WebTypes' /\ OptionsOfAsker' /\ LogNamesTheUser'
  BY <1>1 DEF WebInv, WebTypes, OptionsOfAsker, LogNamesTheUser, Active
<1> QED
  BY <1>2, <1>3 DEF Calls, WebInv

-----------------------------------------------------------------------------
LEMMA WebStep == WebInv /\ [Next]_vars => WebInv'
<1> SUFFICES ASSUME WebInv, [Next]_vars PROVE WebInv'
  OBVIOUS
<1>1. CASE Browse
  BY <1>1, LoginStep, LogoutStep, StartStep DEF Browse
<1>2. ASSUME NEW t \in Thread, Serve(t)
      PROVE  WebInv'
  BY <1>2, OwnStep, ListStep, SaveStep, RemoveStep DEF Serve
<1>3. CASE Others
  BY <1>3, OthersStep
<1>4. CASE Accounts /\ UNCHANGED webVars
  BY <1>4, AccountsAlone
<1>5. CASE UNCHANGED vars
  BY <1>5, WebStutter
<1> QED
  BY <1>1, <1>2, <1>3, <1>4, <1>5 DEF Next

\* The audit log names the user whose browser sent the request, however the
\* accounts and the directory change and whatever is cached, as long as no other
\* request was started in the process before this one was carried out
\* (setup_auth in nipapwww/auth.py, AuthOptions in pynipap, SqliteAuth.authenticate).
THEOREM ChangesAreAttributed == Spec => []LogNamesTheUser
<1>1. WebInv => LogNamesTheUser
  BY DEF WebInv
<1> QED
  BY <1>1, WebInitOK, WebStep, PTL DEF Spec

\* The web interface and the workers of nipapd, as they call AuthFactory, are given
\* answers that were true within the timeout.
THEOREM WebAnswersAreRecent == Spec => []AnswersAreRecent
<1>1. WebInv => AnswersAreRecent
  BY DEF WebInv, AuthInv, AnswerOK
<1> QED
  BY <1>1, WebInitOK, WebStep, PTL DEF Spec

-----------------------------------------------------------------------------
(* The object cache.                                                       *)

Memory == [cached : [Id -> Copies \cup {0}], object : [Id -> [Copies -> Row \cup {Gone}]]]

\* The foreign keys of ip_net_plan.
ForeignKeys ==
  \A x \in Prefix : rows[x] \in Row =>
    /\ rows[VrfOf[x]] \in Row
    /\ rows[x].pool # NoPool => rows[rows[x].pool] \in Row

\* What is in a cache was a row once.
CacheHasRows ==
  \A p \in Process : \A id \in Id :
    memory[p].cached[id] # 0 =>
      memory[p].object[id][memory[p].cached[id]] \in Row /\ rows[id] # Unborn

AllFields == Fields \cup {"text", "pool"}

\* A request r of process p and what it has in hand, step by step.  Unless the
\* history says otherwise, what it read and what it saved are the row as it is.
RequestFits(p, r) ==
  /\ r.id \in Id
  /\ r.text \in Text \cup {Keep} /\ r.pool \in Pool \cup {NoPool, Keep}
  /\ \/ r.pc = "create" /\ r.op = "add"
     \/ r.pc \in {"get", "build"} /\ r.op \in {"edit", "remove"}
     \/ r.pc = "edit" /\ r.op = "edit"
     \/ r.pc \in {"send", "refresh"} /\ r.op \in {"add", "edit"}
     \/ r.pc \in {"remove", "forget"} /\ r.op = "remove"
  /\ r.pc = "create" => r.text \in Text /\ r.pool \in Pool \cup {NoPool}
  /\ r.pc \in {"build", "send", "refresh"} => r.row \in Row
  /\ r.pc \in {"build", "refresh"} /\ ~ r.old => r.row = rows[r.id]
  /\ r.op # "add" \/ r.pc = "refresh" => rows[r.id] # Unborn
  /\ r.pc \in {"get", "create", "build"} \/ r.op = "add" => r.copy = 0
  /\ r.pc \in {"edit", "remove", "send", "refresh", "forget"} /\ r.op # "add" =>
       r.copy \in Copies /\ memory[p].object[r.id][r.copy] \in Row
  /\ r.committed => r.pc \in {"refresh", "forget"}

\* The object in the cache is changed before nipapd has agreed, and the cache keeps
\* what nipapd has removed, until the request has come to its end.
AtWorkOn(t, p, id) ==
  /\ ProcessOf[t] = p /\ request[t].id = id
  /\ \/ request[t].pc \in {"send", "refresh"} /\ request[t].op = "edit"
     \/ request[t].pc = "forget"

CachedIsRow ==
  \A p \in Process, id \in Id :
    memory[p].cached[id] # 0 /\ <<p, id>> \notin behind =>
      \/ \E t \in Thread : AtWorkOn(t, p, id)
      \/ memory[p].object[id][memory[p].cached[id]] = rows[id]

RequestsFit ==
  \A t \in Thread : /\ AllFields \subseteq DOMAIN request[t]
                    /\ Active(t) => RequestFits(ProcessOf[t], request[t])

CacheInv ==
  /\ rows \in [Id -> Row \cup {Gone, Unborn}]
  /\ DOMAIN request = Thread
  /\ memory \in [Process -> Memory]
  /\ ForeignKeys
  /\ CacheHasRows
  /\ RequestsFit
  /\ CachedIsRow
  /\ ErrorsChangeNothing

-----------------------------------------------------------------------------
(* What the operations on a memory do.                                     *)

LEMMA IdsApart ==
  /\ \A x \in Prefix : VrfOf[x] \in Vrf /\ x \notin Pool /\ x \notin Vrf
  /\ \A x \in Pool : x \notin Vrf /\ x # NoPool
  /\ 0 \notin Copies
BY TablesAssumption DEF Copies, Id

\* There is a copy that nothing refers to: a thread has one copy at most, and who
\* asks has none of this object.
LEMMA SpareIsThere ==
  ASSUME NEW t \in Thread, NEW p, NEW id, request[t].id # id \/ request[t].copy = 0
  PROVE  Spare(p, id) \in Copies
<1> DEFINE n == Cardinality(Thread)
           rest == Thread \ {t}
           inHand == {request[u].copy : u \in rest}
           taken == inHand \cup {memory[p].cached[id]}
<1>1. n \in Nat /\ IsFiniteSet(rest) /\ Cardinality(rest) = n - 1
  BY TablesAssumption, FS_CardinalityType, FS_RemoveElement
<1>2. IsFiniteSet(inHand) /\ Cardinality(inHand) <= Cardinality(rest)
  <2> DEFINE f == [u \in rest |-> request[u].copy]
  <2>1. f \in Surjection(rest, inHand)
    BY DEF Surjection
  <2> HIDE DEF f, inHand
  <2> QED
    BY <1>1, <2>1, FS_Surjection
<1>3. IsFiniteSet(taken) /\ Cardinality(taken) <= n
  <2>1. Cardinality(inHand) \in Nat
    BY <1>2, FS_CardinalityType
  <2> HIDE DEF inHand, n
  <2>2. IsFiniteSet(taken) /\ Cardinality(taken) \in {Cardinality(inHand), Cardinality(inHand) + 1}
    BY <1>2, <2>1, FS_AddElement
  <2> HIDE DEF taken
  <2> QED
    BY <1>1, <1>2, <2>1, <2>2
<1>4. IsFiniteSet(Copies) /\ Cardinality(Copies) = n + 1
  <2>1. 1 + n \in Int /\ 1 + n - 1 + 1 = n + 1
    BY <1>1
  <2> HIDE DEF n
  <2>2. IsFiniteSet(1 .. 1 + n) /\ Cardinality(1 .. 1 + n) = n + 1
    BY <1>1, FS_Interval
  <2> QED
    BY <2>2 DEF Copies, n
<1>5. ~ (Copies \subseteq taken)
  <2> HIDE DEF taken
  <2>1. Copies \subseteq taken => Cardinality(Copies) <= Cardinality(taken)
    BY <1>3, FS_Subset
  <2>2. Cardinality(taken) \in Nat
    BY <1>3, FS_CardinalityType
  <2> HIDE DEF n
  <2> QED
    BY <1>1, <1>3, <1>4, <2>1, <2>2
<1>6. PICK k \in Copies : k \notin taken
  BY <1>5
<1>7. \A u \in Thread : Active(u) /\ ProcessOf[u] = p /\ request[u].id = id => request[u].copy # k
  BY <1>6, IdsApart
<1> HIDE DEF n
<1> QED
  BY <1>6, <1>7 DEF Spare

LEMMA StoreStores ==
  ASSUME NEW mem \in Memory, NEW id \in Id, NEW copy \in Copies, NEW row \in Row
  PROVE  LET new == Store(mem, id, copy, row)
         IN  /\ new \in Memory
             /\ new.cached[id] = copy /\ new.object[id][copy] = row
             /\ \A k \in Copies : k # copy => new.object[id][k] = mem.object[id][k]
             /\ \A x \in Id : x # id => /\ new.cached[x] = mem.cached[x]
                                        /\ new.object[x] = mem.object[x]
BY DEF Store, Memory

LEMMA EvictEvicts ==
  ASSUME NEW mem \in Memory, NEW id \in Id
  PROVE  /\ Evict(mem, id) \in Memory
         /\ Evict(mem, id).object = mem.object
         /\ Evict(mem, id).cached[id] = 0
         /\ \A x \in Id : x # id => Evict(mem, id).cached[x] = mem.cached[x]
BY IdsApart DEF Evict, Memory

\* No object is lost.
Keeps(m, n) ==
  \A x \in Id, k \in Copies : m.object[x][k] \in Row => n.object[x][k] \in Row

\* n is m and perhaps the rows of ids as they are in the tables.
Grown(m, n, ids) ==
  /\ n \in Memory
  /\ Keeps(m, n)
  /\ \A x \in Id :
       \/ n.cached[x] = m.cached[x] /\ n.object[x] = m.object[x]
       \/ /\ x \in ids /\ n.cached[x] # 0 /\ rows[x] \in Row
          /\ n.object[x][n.cached[x]] = rows[x]

LEMMA GetGrows ==
  ASSUME NEW t \in Thread, NEW p, NEW mem \in Memory, NEW id \in Id,
         request[t].id # id, mem.cached[id] # 0 \/ rows[id] \in Row
  PROVE  Grown(mem, Get(p, mem, id), {id})
<1>1. CASE mem.cached[id] # 0
  BY <1>1 DEF Get, Grown, Keeps
<1>2. CASE mem.cached[id] = 0
  <2>1. Spare(p, id) \in Copies
    BY SpareIsThere
  <2> DEFINE new == Store(mem, id, Spare(p, id), rows[id])
  <2>2. /\ new \in Memory
        /\ new.cached[id] = Spare(p, id) /\ new.object[id][Spare(p, id)] = rows[id]
        /\ \A k \in Copies : k # Spare(p, id) => new.object[id][k] = mem.object[id][k]
        /\ \A x \in Id : x # id => /\ new.cached[x] = mem.cached[x]
                                   /\ new.object[x] = mem.object[x]
    BY <1>2, <2>1, StoreStores
  <2>3. Get(p, mem, id) = new
    BY <1>2 DEF Get
  <2> HIDE DEF new
  <2>4. Keeps(mem, new)
    BY <1>2, <2>1, <2>2 DEF Keeps
  <2> QED
    BY <1>2, <2>1, <2>2, <2>3, <2>4, IdsApart DEF Grown
<1> QED
  BY <1>1, <1>2

\* What a row of a prefix refers to is fetched, if it can be, and the prefix itself
\* stays as it is.
LEMMA ReferencesGrow ==
  ASSUME NEW t \in Thread, NEW p, memory[p] \in Memory,
         rows \in [Id -> Row \cup {Gone, Unborn}],
         NEW row \in Row, request[t].id \in Id, CanBuild(p, request[t].id, row)
  PROVE  LET id == request[t].id
             new == GetReferences(p, memory[p], id, row)
         IN  /\ Grown(memory[p], new, Pool \cup Vrf)
             /\ new.cached[id] = memory[p].cached[id] /\ new.object[id] = memory[p].object[id]
<1> DEFINE id == request[t].id
           first == Get(p, memory[p], VrfOf[id])
           both == Get(p, first, row.pool)
<1>1. \A x \in Id : Exists(x) => rows[x] \in Row
  BY DEF Exists
<1>2. CASE id \notin Prefix
  BY <1>2 DEF GetReferences, Grown, Keeps
<1>3. CASE id \in Prefix
  <2>1. VrfOf[id] \in Vrf /\ VrfOf[id] \in Id /\ VrfOf[id] # id
    BY <1>3, IdsApart DEF Id
  <2>2. memory[p].cached[VrfOf[id]] # 0 \/ rows[VrfOf[id]] \in Row
    BY <1>1, <1>3, <2>1 DEF CanBuild, References, Known
  <2>3. Grown(memory[p], first, {VrfOf[id]})
    BY <2>1, <2>2, GetGrows
  <2>4. CASE row.pool = NoPool
    <3>1. GetReferences(p, memory[p], id, row) = first
      BY <1>3, <2>4 DEF GetReferences
    <3> HIDE DEF first
    <3> QED
      BY <2>1, <2>3, <3>1 DEF Grown
  <2>5. CASE row.pool # NoPool
    <3>1. row.pool \in Pool /\ row.pool \in Id /\ row.pool # id /\ row.pool # VrfOf[id]
      BY <1>3, <2>1, <2>5, IdsApart DEF Id, Row
    <3>2. memory[p].cached[row.pool] # 0 \/ rows[row.pool] \in Row
      BY <1>1, <1>3, <2>5, <3>1 DEF CanBuild, References, Known
    <3>3. GetReferences(p, memory[p], id, row) = both
      BY <1>3, <2>5 DEF GetReferences
    <3> HIDE DEF first
    <3>4. first \in Memory /\ (first.cached[row.pool] # 0 \/ rows[row.pool] \in Row)
      BY <2>3, <3>1, <3>2 DEF Grown
    <3>5. Grown(first, both, {row.pool})
      BY <3>1, <3>4, GetGrows
    <3> HIDE DEF both
    <3>6. Keeps(memory[p], both)
      BY <2>3, <3>5 DEF Grown, Keeps
    <3>7. Grown(memory[p], both, Pool \cup Vrf)
      BY <2>1, <2>3, <3>1, <3>5, <3>6 DEF Grown
    <3> QED
      BY <2>1, <2>3, <3>1, <3>3, <3>5, <3>7 DEF Grown
  <2> QED
    BY <2>4, <2>5
<1> QED
  BY <1>2, <1>3

-----------------------------------------------------------------------------
(* What a step has to show.                                                *)

\* The request of u is as it was, but may have learnt of others; unless it did, its
\* row is as it was.
Undisturbed(u) ==
  /\ AllFields \subseteq DOMAIN request'[u]
  /\ request'[u].pc = request[u].pc /\ request'[u].op = request[u].op
  /\ request'[u].id = request[u].id /\ request'[u].text = request[u].text
  /\ request'[u].pool = request[u].pool /\ request'[u].row = request[u].row
  /\ request'[u].copy = request[u].copy
  /\ request'[u].committed => request[u].committed
  /\ ~ request'[u].old =>
       ~ request[u].old /\ (Active(u) => rows'[request[u].id] = rows[request[u].id])

\* The request of t still has in hand what it needs for what it does next.
Fits(t) ==
  /\ AllFields \subseteq DOMAIN request[t]
  /\ Active(t) => RequestFits(ProcessOf[t], request[t])
  /\ request[t].pc = "failed" /\ request[t].committed => request[t].old

Stays(id) == rows[id] # Unborn => rows'[id] # Unborn

LEMMA UndisturbedFits ==
  ASSUME CacheInv, NEW u \in Thread, Undisturbed(u), \A x \in Id : Stays(x),
         Keeps(memory[ProcessOf[u]], memory'[ProcessOf[u]])
  PROVE  Fits(u)'
<1> DEFINE q == request[u]
           r == request'[u]
           p == ProcessOf[u]
<1>1. AllFields \subseteq DOMAIN r
  BY DEF Undisturbed
<1>2. r.pc = "failed" /\ r.committed => r.old
  BY DEF CacheInv, ErrorsChangeNothing, Undisturbed
<1>3. ASSUME r.pc \notin Resting
      PROVE  RequestFits(p, request[u])'
  <2>1. RequestFits(p, q) /\ q.pc \notin Resting
    BY <1>3 DEF CacheInv, RequestsFit, Undisturbed, Active
  <2>2. q.id \in Id /\ (q.copy \in Copies /\ memory[p].object[q.id][q.copy] \in Row =>
                          memory'[p].object[q.id][q.copy] \in Row)
    BY <2>1 DEF RequestFits, Keeps
  <2>3. rows[q.id] # Unborn => rows'[q.id] # Unborn
    BY <2>2 DEF Stays
  <2> QED
    BY <2>1, <2>2, <2>3 DEF RequestFits, Undisturbed, Active
<1> QED
  BY <1>1, <1>2, <1>3 DEF Fits, Active

LEMMA FitTogether ==
  ASSUME DOMAIN request' = Thread, \A u \in Thread : Fits(u)'
  PROVE  (RequestsFit /\ ErrorsChangeNothing)'
BY DEF Fits, RequestsFit, ErrorsChangeNothing

\* A thread that is at work goes on undisturbed, and its object is excused as before.
LEMMA WorkGoesOn ==
  ASSUME NEW u, Undisturbed(u), NEW p, NEW id
  PROVE  AtWorkOn(u, p, id) => AtWorkOn(u, p, id)'
BY DEF Undisturbed, AtWorkOn

\* The entry of id in n, the new memory of the process of t, is accounted for.
Accounted(t, n, id) ==
  LET p == ProcessOf[t]
  IN  n.cached[id] # 0 =>
        /\ n.object[id][n.cached[id]] \in Row /\ rows[id] # Unborn
        /\ \/ <<p, id>> \in behind'
           \/ AtWorkOn(t, p, id)'
           \/ n.object[id][n.cached[id]] = rows[id]
           \/ /\ n.cached[id] = memory[p].cached[id] /\ n.object[id] = memory[p].object[id]
              /\ <<p, id>> \notin behind
              /\ ~ AtWorkOn(t, p, id)

\* What was fetched is the row as it is; what was not is as it was before.
LEMMA GrownIsAccounted ==
  ASSUME NEW t \in Thread, NEW n, NEW mem, NEW ids, NEW x \in Id,
         Grown(memory[ProcessOf[t]], mem, ids),
         n.cached[x] = mem.cached[x], n.object[x] = mem.object[x],
         memory[ProcessOf[t]].cached[x] # 0 =>
           /\ memory[ProcessOf[t]].object[x][memory[ProcessOf[t]].cached[x]] \in Row
           /\ rows[x] # Unborn,
         ~ AtWorkOn(t, ProcessOf[t], x),
         <<ProcessOf[t], x>> \in behind => <<ProcessOf[t], x>> \in behind'
  PROVE  Accounted(t, n, x)
<1> DEFINE m == memory[ProcessOf[t]]
<1>1. CASE n.cached[x] = m.cached[x] /\ n.object[x] = m.object[x]
  BY <1>1 DEF Accounted
<1>2. CASE n.cached[x] # 0 /\ rows[x] \in Row /\ n.object[x][n.cached[x]] = rows[x]
  BY <1>2, TablesAssumption DEF Accounted
<1> QED
  BY <1>1, <1>2 DEF Grown

\* A step of t that changes no row.
LEMMA MemoryStep ==
  ASSUME CacheInv, NEW t \in Thread, NEW n \in Memory,
         memory' = [memory EXCEPT ![ProcessOf[t]] = n],
         Keeps(memory[ProcessOf[t]], n),
         rows' = rows,
         request' = [request EXCEPT ![t] = request'[t]],
         Fits(t)',
         \A id \in Id : Accounted(t, n, id),
         \A q \in Process, id \in Id :
           q # ProcessOf[t] /\ <<q, id>> \in behind => <<q, id>> \in behind'
  PROVE  CacheInv'
<1> DEFINE p == ProcessOf[t]
<1>1. /\ rows \in [Id -> Row \cup {Gone, Unborn}]
      /\ DOMAIN request = Thread
      /\ memory \in [Process -> Memory]
      /\ ForeignKeys /\ CacheHasRows /\ RequestsFit /\ CachedIsRow /\ ErrorsChangeNothing
  BY DEF CacheInv
<1>2. p \in Process
  BY WebAssumption
<1>3. memory'[p] = n /\ \A q \in Process : q # p => memory'[q] = memory[q]
  BY <1>1, <1>2
<1>4. DOMAIN request' = Thread /\ \A u \in Thread : u # t => request'[u] = request[u]
  BY <1>1
<1>5. ASSUME NEW u \in Thread, u # t
      PROVE  Undisturbed(u)
  BY <1>1, <1>4, <1>5 DEF Undisturbed, RequestsFit
<1>6. \A q \in Process : Keeps(memory[q], memory'[q])
  BY <1>3 DEF Keeps
<1>7. ASSUME NEW u \in Thread
      PROVE  Fits(u)'
  <2>1. ProcessOf[u] \in Process
    BY WebAssumption
  <2> QED
    BY <1>5, <1>6, <2>1, UndisturbedFits DEF Stays
<1>8. (RequestsFit /\ ErrorsChangeNothing)'
  BY <1>4, <1>7, FitTogether
<1>9. CacheHasRows'
  BY <1>1, <1>3 DEF CacheHasRows, Accounted
<1>10. CachedIsRow'
  <2> SUFFICES ASSUME NEW q \in Process, NEW id \in Id,
                      memory'[q].cached[id] # 0, <<q, id>> \notin behind',
                      memory'[q].object[id][memory'[q].cached[id]] # rows[id]
               PROVE  \E u \in Thread : AtWorkOn(u, q, id)'
    BY DEF CachedIsRow
  <2>1. AtWorkOn(t, q, id)' \/ (/\ memory'[q].cached[id] = memory[q].cached[id]
                                /\ memory'[q].object[id] = memory[q].object[id]
                                /\ <<q, id>> \notin behind
                                /\ ~ AtWorkOn(t, q, id))
    <3>1. CASE q = p
      BY <1>3, <3>1 DEF Accounted
    <3>2. CASE q # p
      BY <1>3, <3>2 DEF AtWorkOn
    <3> QED
      BY <3>1, <3>2
  <2>2. CASE ~ AtWorkOn(t, q, id)'
    <3>1. PICK u \in Thread : AtWorkOn(u, q, id)
      BY <1>1, <2>1, <2>2 DEF CachedIsRow
    <3> QED
      BY <1>5, <2>1, <2>2, <3>1, WorkGoesOn
  <2> QED
    BY <2>2
<1>11. memory' \in [Process -> Memory]
  BY <1>1, <1>2
<1>12. ForeignKeys'
  BY <1>1 DEF ForeignKeys
<1> QED
  BY <1>1, <1>4, <1>8, <1>9, <1>10, <1>11, <1>12 DEF CacheInv

\* A step of t that changes neither rows nor memories: what t was at work on is in
\* its own order, or the process is known to be behind.
LEMMA QuietStep ==
  ASSUME CacheInv, NEW t \in Thread, UNCHANGED <<rows, memory>>,
         request' = [request EXCEPT ![t] = request'[t]],
         Fits(t)',
         behind \subseteq behind',
         \A id \in Id : AtWorkOn(t, ProcessOf[t], id) => <<ProcessOf[t], id>> \in behind'
  PROVE  CacheInv'
<1> DEFINE p == ProcessOf[t]
<1>1. p \in Process /\ memory \in [Process -> Memory] /\ CacheHasRows
  BY WebAssumption DEF CacheInv
<1>2. memory' = [memory EXCEPT ![p] = memory[p]] /\ memory[p] \in Memory
  BY <1>1
<1>3. \A id \in Id : Accounted(t, memory[p], id)
  BY <1>1 DEF Accounted, CacheHasRows
<1>4. Keeps(memory[p], memory[p])
  BY DEF Keeps
<1> QED
  BY <1>2, <1>3, <1>4, MemoryStep

\* A step that changes rows and no memory.
LEMMA RowsStep ==
  ASSUME CacheInv, NEW ids,
         rows' \in [Id -> Row \cup {Gone, Unborn}], ForeignKeys',
         \A x \in Id : Stays(x), \A x \in Id : x \notin ids => rows'[x] = rows[x],
         memory' = memory,
         DOMAIN request' = Thread,
         \A u \in Thread : \/ Undisturbed(u)
                           \/ Fits(u)' /\ \A p, id : AtWorkOn(u, p, id) => AtWorkOn(u, p, id)',
         behind \subseteq behind',
         \A p \in Process, id \in Id : id \in ids /\ memory[p].cached[id] # 0 =>
           <<p, id>> \in behind' \/ \E u \in Thread : AtWorkOn(u, p, id)'
  PROVE  CacheInv'
<1>1. memory \in [Process -> Memory] /\ CacheHasRows /\ CachedIsRow
  BY DEF CacheInv
<1>2. ASSUME NEW u \in Thread
      PROVE  Fits(u)'
  BY UndisturbedFits DEF Keeps
<1>3. (RequestsFit /\ ErrorsChangeNothing)'
  BY <1>2, FitTogether
<1>4. CacheHasRows'
  BY <1>1 DEF CacheHasRows, Stays
<1>5. \A u \in Thread : \A p, id : AtWorkOn(u, p, id) => AtWorkOn(u, p, id)'
  BY WorkGoesOn
<1>6. CachedIsRow'
  BY <1>1, <1>5 DEF CachedIsRow
<1> QED
  BY <1>1, <1>3, <1>4, <1>6 DEF CacheInv

-----------------------------------------------------------------------------
(* One lemma per action of a thread.                                       *)

LEMMA InHand ==
  ASSUME CacheInv, NEW t \in Thread
  PROVE  /\ AllFields \subseteq DOMAIN request[t]
         /\ Active(t) => RequestFits(ProcessOf[t], request[t])
         /\ ProcessOf[t] \in Process /\ memory[ProcessOf[t]] \in Memory
         /\ rows \in [Id -> Row \cup {Gone, Unborn}]
         /\ CacheHasRows /\ ForeignKeys
<1>1. ProcessOf[t] \in Process
  BY WebAssumption
<1> QED
  BY <1>1 DEF CacheInv, RequestsFit

LEMMA GoesOn ==
  ASSUME CacheInv, NEW t \in Thread, NEW r, Goes(t, r)
  PROVE  request'[t] = r /\ request' = [request EXCEPT ![t] = request'[t]]
BY DEF CacheInv, Goes

LEMMA FailingFits ==
  ASSUME CacheInv, NEW t \in Thread, Active(t), Fails(t),
         request[t].pc \in {"refresh", "forget"} => request[t].old
  PROVE  /\ Fits(t)' /\ request' = [request EXCEPT ![t] = request'[t]]
         /\ \A p, id : ~ AtWorkOn(t, p, id)'
<1> DEFINE r == [request[t] EXCEPT !.pc = "failed"]
<1>1. request'[t] = r /\ request' = [request EXCEPT ![t] = request'[t]]
  BY GoesOn DEF Fails
<1>2. /\ r.pc = "failed" /\ AllFields \subseteq DOMAIN r
      /\ r.old = request[t].old /\ r.committed = request[t].committed
  BY InHand DEF AllFields, Fields
<1> HIDE DEF r
<1>3. request[t].committed => request[t].old
  BY InHand DEF RequestFits
<1>4. Fits(t)'
  BY <1>1, <1>2, <1>3 DEF Fits, Active, Resting
<1> QED
  BY <1>1, <1>2, <1>4 DEF AtWorkOn

LEMMA CachedStep ==
  ASSUME CacheInv, NEW t \in Thread, GetCached(t)
  PROVE  CacheInv'
<1> DEFINE q == request[t]
           p == ProcessOf[t]
           r == [q EXCEPT !.pc = q.op, !.copy = memory[p].cached[q.id]]
<1>1. /\ q.pc = "get" /\ memory[p].cached[q.id] # 0 /\ Goes(t, r)
      /\ UNCHANGED <<rows, memory, behind>>
  BY DEF GetCached
<1>2. RequestFits(p, q) /\ AllFields \subseteq DOMAIN q /\ memory[p] \in Memory /\ p \in Process
  BY <1>1, InHand DEF Active, Resting
<1>3. /\ AllFields \subseteq DOMAIN r
      /\ r.pc = q.op /\ r.copy = memory[p].cached[q.id]
      /\ r.op = q.op /\ r.id = q.id /\ r.text = q.text /\ r.pool = q.pool
      /\ r.row = q.row /\ r.old = q.old /\ r.committed = q.committed
  BY <1>2 DEF AllFields, Fields
<1>4. request'[t] = r /\ request' = [request EXCEPT ![t] = request'[t]]
  BY <1>1, GoesOn
<1> HIDE DEF r
<1>5. /\ memory[p].cached[q.id] \in Copies
      /\ memory[p].object[q.id][memory[p].cached[q.id]] \in Row
  BY <1>1, <1>2, InHand DEF RequestFits, Memory, CacheHasRows
<1>6. RequestFits(p, request[t])'
  BY <1>1, <1>2, <1>3, <1>4, <1>5 DEF RequestFits
<1>7. Fits(t)'
  BY <1>1, <1>2, <1>3, <1>4, <1>6 DEF Fits, RequestFits
<1>8. \A id : ~ AtWorkOn(t, p, id)
  BY <1>1 DEF AtWorkOn
<1> QED
  BY <1>1, <1>4, <1>7, <1>8, QuietStep

LEMMA ReadStep ==
  ASSUME CacheInv, NEW t \in Thread, List(t)
  PROVE  CacheInv'
<1> DEFINE q == request[t]
           p == ProcessOf[t]
           r == [q EXCEPT !.pc = "build", !.row = rows[q.id], !.old = FALSE]
<1>1. /\ q.pc = "get" /\ ((Goes(t, r) /\ Exists(q.id)) \/ Fails(t))
      /\ UNCHANGED <<rows, memory, behind>>
  BY DEF List
<1>2. Active(t) /\ RequestFits(p, q) /\ AllFields \subseteq DOMAIN q
  BY <1>1, InHand DEF Active, Resting
<1>3. \A id : ~ AtWorkOn(t, p, id)
  BY <1>1 DEF AtWorkOn
<1>4. CASE Fails(t)
  <2>1. Fits(t)' /\ request' = [request EXCEPT ![t] = request'[t]]
    BY <1>1, <1>2, <1>4, FailingFits
  <2> QED
    BY <1>1, <1>3, <2>1, QuietStep
<1>5. CASE Goes(t, r) /\ Exists(q.id)
  <2>1. /\ AllFields \subseteq DOMAIN r
        /\ r.pc = "build" /\ r.row = rows[q.id] /\ r.copy = q.copy
        /\ r.op = q.op /\ r.id = q.id /\ r.text = q.text /\ r.pool = q.pool
        /\ r.committed = q.committed
    BY <1>2 DEF AllFields, Fields
  <2>2. request'[t] = r /\ request' = [request EXCEPT ![t] = request'[t]]
    BY <1>5, GoesOn
  <2> HIDE DEF r
  <2>3. rows[q.id] \in Row
    BY <1>2, <1>5, InHand DEF RequestFits, Exists
  <2>4. RequestFits(p, request[t])'
    BY <1>1, <1>2, <2>1, <2>2, <2>3 DEF RequestFits
  <2>5. Fits(t)'
    BY <2>1, <2>2, <2>4 DEF Fits
  <2> QED
    BY <1>1, <1>3, <2>2, <2>5, QuietStep
<1> QED
  BY <1>1, <1>4, <1>5

LEMMA BuildStep ==
  ASSUME CacheInv, NEW t \in Thread, Build(t)
  PROVE  CacheInv'
<1> DEFINE q == request[t]
           p == ProcessOf[t]
           copy == Spare(p, q.id)
           r == [q EXCEPT !.pc = q.op, !.copy = copy]
           grown == GetReferences(p, memory[p], q.id, q.row)
           n == Store(grown, q.id, copy, q.row)
<1>1. q.pc = "build" /\ UNCHANGED rows
  BY DEF Build
<1>2. /\ RequestFits(p, q) /\ AllFields \subseteq DOMAIN q /\ memory[p] \in Memory /\ p \in Process
      /\ Active(t)
  BY <1>1, InHand DEF Active, Resting
<1>3. \A id : ~ AtWorkOn(t, p, id)
  BY <1>1 DEF AtWorkOn
<1>4. CASE ~ CanBuild(p, q.id, q.row)
  <2>1. Fails(t) /\ UNCHANGED <<memory, behind>>
    BY <1>4 DEF Build
  <2>2. Fits(t)' /\ request' = [request EXCEPT ![t] = request'[t]]
    BY <1>1, <1>2, <2>1, FailingFits
  <2> QED
    BY <1>1, <1>3, <2>1, <2>2, QuietStep
<1>5. CASE CanBuild(p, q.id, q.row)
  <2>1. Goes(t, r) /\ Remember(t, n) /\ behind' = Aware(p, q.id, q.old)
    BY <1>5 DEF Build, FromDict
  <2>2. copy \in Copies /\ q.id \in Id /\ q.row \in Row
    BY <1>1, <1>2, SpareIsThere DEF RequestFits
  <2>3. /\ Grown(memory[p], grown, Pool \cup Vrf)
        /\ grown.cached[q.id] = memory[p].cached[q.id]
        /\ grown.object[q.id] = memory[p].object[q.id]
    BY <1>2, <1>5, <2>2, InHand, ReferencesGrow
  <2>4. /\ AllFields \subseteq DOMAIN r
        /\ r.pc = q.op /\ r.copy = copy
        /\ r.op = q.op /\ r.id = q.id /\ r.text = q.text /\ r.pool = q.pool
        /\ r.row = q.row /\ r.old = q.old /\ r.committed = q.committed
    BY <1>2 DEF AllFields, Fields
  <2>5. request'[t] = r /\ request' = [request EXCEPT ![t] = request'[t]]
    BY <2>1, GoesOn
  <2> HIDE DEF r, copy, grown
  <2>6. /\ n \in Memory
        /\ n.cached[q.id] = copy /\ n.object[q.id][copy] = q.row
        /\ \A k \in Copies : k # copy => n.object[q.id][k] = grown.object[q.id][k]
        /\ \A x \in Id : x # q.id => /\ n.cached[x] = grown.cached[x]
                                     /\ n.object[x] = grown.object[x]
    <3>1. grown \in Memory
      BY <2>3 DEF Grown
    <3> QED
      BY <2>2, <3>1, StoreStores
  <2> HIDE DEF n
  <2>7. Keeps(memory[p], n)
    BY <2>2, <2>3, <2>6 DEF Grown, Keeps
  <2>8. memory' = [memory EXCEPT ![p] = n] /\ memory'[p] = n
    BY <1>2, <2>1 DEF Remember, CacheInv
  <2>9. RequestFits(p, request[t])'
    BY <1>1, <1>2, <2>2, <2>4, <2>5, <2>6, <2>8 DEF RequestFits
  <2>10. Fits(t)'
    BY <1>1, <1>2, <2>4, <2>5, <2>9 DEF Fits, RequestFits
  <2>11. ASSUME NEW x \in Id
         PROVE  Accounted(t, n, x)
    <3>1. CASE x = q.id
      <4>1. q.old \/ q.row = rows[q.id]
        BY <1>1, <1>2 DEF RequestFits
      <4>2. rows[q.id] # Unborn
        BY <1>1, <1>2 DEF RequestFits
      <4> QED
        BY <2>1, <2>2, <2>6, <3>1, <4>1, <4>2 DEF Accounted, Aware
    <3>2. CASE x # q.id
      <4>1. n.cached[x] = grown.cached[x] /\ n.object[x] = grown.object[x]
        BY <2>6, <3>2
      <4>2. memory[p].cached[x] # 0 =>
              memory[p].object[x][memory[p].cached[x]] \in Row /\ rows[x] # Unborn
        BY <1>2, InHand DEF CacheHasRows
      <4>3. <<p, x>> \in behind => <<p, x>> \in behind'
        BY <2>1, <3>2 DEF Aware
      <4> QED
        BY <1>3, <2>3, <4>1, <4>2, <4>3, TablesAssumption DEF Accounted, Grown
    <3> QED
      BY <3>1, <3>2
  <2>12. \A o \in Process, x \in Id : o # p /\ <<o, x>> \in behind => <<o, x>> \in behind'
    BY <2>1 DEF Aware
  <2> QED
    BY <1>1, <2>5, <2>6, <2>7, <2>8, <2>10, <2>11, <2>12, MemoryStep
<1> QED
  BY <1>4, <1>5

LEMMA CreateStep ==
  ASSUME CacheInv, NEW t \in Thread, Create(t)
  PROVE  CacheInv'
<1> DEFINE q == request[t]
           p == ProcessOf[t]
           row == [text |-> q.text, pool |-> q.pool]
           r == [q EXCEPT !.pc = "send", !.row = row]
           n == GetReferences(p, memory[p], q.id, row)
<1>1. q.pc = "create" /\ UNCHANGED <<rows, behind>>
  BY Zenon DEF Create
<1>2. /\ RequestFits(p, q) /\ AllFields \subseteq DOMAIN q /\ memory[p] \in Memory /\ p \in Process
      /\ Active(t)
  BY <1>1, InHand DEF Active, Resting
<1>3. \A id : ~ AtWorkOn(t, p, id)
  BY <1>1 DEF AtWorkOn
<1>4. \/ Fails(t) /\ UNCHANGED memory
      \/ CanBuild(p, q.id, row) /\ Goes(t, r) /\ Remember(t, n)
  BY Zenon DEF Create
<1>5. CASE Fails(t) /\ UNCHANGED memory
  <2>1. Fits(t)' /\ request' = [request EXCEPT ![t] = request'[t]]
    BY <1>1, <1>2, <1>5, FailingFits
  <2> QED
    BY <1>1, <1>3, <1>5, <2>1, QuietStep
<1>6. CASE CanBuild(p, q.id, row) /\ Goes(t, r) /\ Remember(t, n)
  <2>1. row \in Row /\ q.op = "add" /\ q.id \in Id
    BY <1>1, <1>2 DEF RequestFits, Row
  <2>2. Grown(memory[p], n, Pool \cup Vrf)
    <3> HIDE DEF row
    <3> QED
      BY <1>2, <1>6, <2>1, InHand, ReferencesGrow
  <2>3. /\ AllFields \subseteq DOMAIN r
        /\ r.pc = "send" /\ r.row = row /\ r.copy = q.copy
        /\ r.op = q.op /\ r.id = q.id /\ r.text = q.text /\ r.pool = q.pool
        /\ r.old = q.old /\ r.committed = q.committed
    BY <1>2 DEF AllFields, Fields
  <2>4. request'[t] = r /\ request' = [request EXCEPT ![t] = request'[t]]
    BY <1>6, GoesOn
  <2> HIDE DEF r, n, row
  <2>5. memory' = [memory EXCEPT ![p] = n]
    BY <1>6 DEF Remember
  <2>6. RequestFits(p, request[t])'
    BY <1>1, <1>2, <2>1, <2>3, <2>4 DEF RequestFits
  <2>7. Fits(t)'
    BY <1>1, <1>2, <2>3, <2>4, <2>6 DEF Fits, RequestFits
  <2>8. ASSUME NEW x \in Id
        PROVE  Accounted(t, n, x)
    BY <1>1, <1>2, <1>3, <2>2, InHand, GrownIsAccounted, Zenon DEF CacheHasRows
  <2> QED
    BY <1>1, <2>2, <2>4, <2>5, <2>7, <2>8, MemoryStep DEF Grown
<1> QED
  BY <1>4, <1>5, <1>6

\* What both edits have in common: the object that is edited, and what was fetched.
LEMMA EditStep ==
  ASSUME CacheInv, NEW t \in Thread, request[t].pc = "edit", UNCHANGED rows,
         NEW mem, Grown(memory[ProcessOf[t]], mem, Pool \cup Vrf),
         mem.object[request[t].id] = memory[ProcessOf[t]].object[request[t].id],
         NEW row \in Row,
         Remember(t, [mem EXCEPT !.object[request[t].id][request[t].copy] = row]),
         \/ Goes(t, [request[t] EXCEPT !.pc = "send", !.row = row]) /\ UNCHANGED behind
         \/ Fails(t) /\ behind' = behind \cup {<<ProcessOf[t], request[t].id>>}
  PROVE  CacheInv'
<1> DEFINE q == request[t]
           p == ProcessOf[t]
           r == [q EXCEPT !.pc = "send", !.row = row]
           n == [mem EXCEPT !.object[q.id][q.copy] = row]
<1>1. /\ RequestFits(p, q) /\ AllFields \subseteq DOMAIN q /\ memory[p] \in Memory /\ p \in Process
      /\ Active(t)
  BY InHand DEF Active, Resting
<1>2. \A id : ~ AtWorkOn(t, p, id)
  BY DEF AtWorkOn
<1>3. q.id \in Id /\ q.copy \in Copies /\ q.op = "edit" /\ ~ q.committed
  BY <1>1, Zenon DEF RequestFits
<1>4. /\ n \in Memory /\ n.cached = mem.cached
      /\ n.object[q.id][q.copy] = row
      /\ \A k \in Copies : k # q.copy => n.object[q.id][k] = mem.object[q.id][k]
      /\ \A x \in Id : x # q.id => n.object[x] = mem.object[x]
  BY <1>3, Zenon DEF Grown, Memory
<1> HIDE DEF n
<1>5. Keeps(memory[p], n)
  BY <1>3, <1>4, Zenon DEF Grown, Keeps
<1>6. memory' = [memory EXCEPT ![p] = n] /\ memory'[p] = n
  BY <1>1 DEF Remember, CacheInv, n
<1>7. /\ Fits(t)' /\ request' = [request EXCEPT ![t] = request'[t]]
      /\ \A id : id = q.id => AtWorkOn(t, p, id)' \/ <<p, id>> \in behind'
      /\ behind \subseteq behind'
  <2>1. CASE Fails(t) /\ behind' = behind \cup {<<p, q.id>>}
    BY <1>1, <2>1, FailingFits
  <2>2. CASE Goes(t, r) /\ UNCHANGED behind
    <3>1. /\ AllFields \subseteq DOMAIN r
          /\ r.pc = "send" /\ r.row = row /\ r.copy = q.copy
          /\ r.op = q.op /\ r.id = q.id /\ r.text = q.text /\ r.pool = q.pool
          /\ r.old = q.old /\ r.committed = q.committed
      BY <1>1 DEF AllFields, Fields
    <3>2. request'[t] = r /\ request' = [request EXCEPT ![t] = request'[t]]
      BY <2>2, GoesOn, Zenon
    <3> HIDE DEF r
    <3>3. RequestFits(p, request[t])'
      <4>1. memory'[p].object[q.id][q.copy] \in Row /\ UNCHANGED rows
        BY <1>4, <1>6, Zenon
      <4>2. /\ q.text \in Text \cup {Keep} /\ q.pool \in Pool \cup {NoPool, Keep}
            /\ rows[q.id] # Unborn
        BY <1>1, <1>3, Zenon DEF RequestFits
      <4> QED
        BY <1>3, <3>1, <3>2, <4>1, <4>2, Zenon DEF RequestFits
    <3>4. Fits(t)'
      BY <1>3, <3>1, <3>2, <3>3 DEF Fits
    <3> QED
      BY <1>3, <2>2, <3>1, <3>2, <3>4 DEF AtWorkOn
  <2> QED
    BY <2>1, <2>2
<1>8. ASSUME NEW x \in Id
      PROVE  Accounted(t, n, x)
  <2>1. memory[p].cached[x] # 0 =>
          memory[p].object[x][memory[p].cached[x]] \in Row /\ rows[x] # Unborn
    BY <1>1, InHand, Zenon DEF CacheHasRows
  <2>2. CASE x # q.id
    BY <1>2, <1>4, <1>7, <2>1, <2>2, GrownIsAccounted, Zenon
  <2>3. CASE x = q.id
    <3>1. rows[x] # Unborn /\ n.cached[x] \in Copies \cup {0}
      BY <1>1, <1>3, <1>4, <2>3, Zenon DEF RequestFits, Memory
    <3>2. n.cached[x] = memory[p].cached[x] \/ mem.object[x][n.cached[x]] \in Row
      BY <1>4, Zenon DEF Grown
    <3>3. n.cached[x] # 0 => n.object[x][n.cached[x]] \in Row
      BY <1>4, <2>1, <2>3, <3>1, <3>2, Zenon
    <3>4. AtWorkOn(t, p, x)' \/ <<p, x>> \in behind'
      BY <1>7, <2>3
    <3> QED
      BY <3>1, <3>3, <3>4 DEF Accounted
  <2> QED
    BY <2>2, <2>3
<1> QED
  BY <1>4, <1>5, <1>6, <1>7, <1>8, MemoryStep, Zenon

LEMMA EditedIsRow ==
  ASSUME NEW object \in Row, NEW r, r.text \in Text \cup {Keep}, r.pool \in Pool \cup {NoPool, Keep}
  PROVE  Edited(object, r) \in Row
BY Zenon DEF Edited, Row

LEMMA EditPrefixStep ==
  ASSUME CacheInv, NEW t \in Thread, EditPrefix(t)
  PROVE  CacheInv'
<1> DEFINE q == request[t]
           p == ProcessOf[t]
           object == memory[p].object[q.id][q.copy]
           found == q.pool \in Pool => Known(p, q.pool)
           given == IF found THEN q ELSE [q EXCEPT !.pool = Keep]
           row == Edited(object, given)
           mem == IF q.pool \in Pool /\ found THEN Get(p, memory[p], q.pool) ELSE memory[p]
<1>1. /\ q.pc = "edit" /\ q.id \in Prefix /\ UNCHANGED rows
      /\ Remember(t, [mem EXCEPT !.object[q.id][q.copy] = row])
      /\ \/ Goes(t, [q EXCEPT !.pc = "send", !.row = row]) /\ UNCHANGED behind
         \/ Fails(t) /\ behind' = behind \cup {<<p, q.id>>}
  BY Zenon DEF EditPrefix
<1>2. RequestFits(p, q) /\ AllFields \subseteq DOMAIN q /\ memory[p] \in Memory
  <2>1. q.pc = "edit"
    BY <1>1, Zenon
  <2> QED
    BY <2>1, InHand, Zenon DEF Active, Resting
<1>3. object \in Row
  BY <1>1, <1>2, Zenon DEF RequestFits
<1>4. row \in Row
  <2>1. given.text \in Text \cup {Keep} /\ given.pool \in Pool \cup {NoPool, Keep}
    BY <1>2 DEF RequestFits, AllFields, Fields
  <2> HIDE DEF given, object
  <2> QED
    BY <1>3, <2>1, EditedIsRow
<1>5. Grown(memory[p], mem, Pool \cup Vrf) /\ mem.object[q.id] = memory[p].object[q.id]
  <2>1. CASE q.pool \in Pool /\ found
    <3>1. q.pool \in Id /\ q.pool # q.id
      BY <1>1, <2>1, IdsApart, Zenon DEF Id
    <3>2. memory[p].cached[q.pool] # 0 \/ rows[q.pool] \in Row
      BY <2>1, <3>1, InHand DEF Known, Exists
    <3>3. Grown(memory[p], Get(p, memory[p], q.pool), {q.pool})
      BY <1>2, <3>1, <3>2, GetGrows, Zenon
    <3>4. q.id \in Id
      BY <1>1, Zenon DEF Id
    <3> QED
      BY <2>1, <3>1, <3>3, <3>4, Zenon DEF Grown
  <2>2. CASE ~ (q.pool \in Pool /\ found)
    BY <1>2, <2>2, Zenon DEF Grown, Keeps
  <2> QED
    BY <2>1, <2>2, Zenon
<1> HIDE DEF row, mem, q, p
<1> QED
  BY <1>1, <1>4, <1>5, EditStep, Zenon DEF q, p

LEMMA EditContainerStep ==
  ASSUME CacheInv, NEW t \in Thread, EditContainer(t)
  PROVE  CacheInv'
<1> DEFINE q == request[t]
           p == ProcessOf[t]
           row == Edited(memory[p].object[q.id][q.copy], q)
<1>1. /\ q.pc = "edit" /\ UNCHANGED rows /\ UNCHANGED behind
      /\ Remember(t, [memory[p] EXCEPT !.object[q.id][q.copy] = row])
      /\ Goes(t, [q EXCEPT !.pc = "send", !.row = row])
  BY Zenon DEF EditContainer
<1>2. RequestFits(p, q) /\ memory[p] \in Memory
  <2>1. q.pc = "edit"
    BY <1>1, Zenon
  <2> QED
    BY <2>1, InHand, Zenon DEF Active, Resting
<1>3. row \in Row
  BY <1>1, <1>2, EditedIsRow, Zenon DEF RequestFits
<1>4. Grown(memory[p], memory[p], Pool \cup Vrf)
  BY <1>2 DEF Grown, Keeps
<1> HIDE DEF row, q, p
<1> QED
  BY <1>1, <1>3, <1>4, EditStep, Zenon DEF q, p

-----------------------------------------------------------------------------
(* What nipapd carries out.                                                *)

LEMMA OutdatedLeaves ==
  ASSUME CacheInv, NEW t \in Thread, NEW u \in Thread, u # t, NEW ids,
         request'[u] = Outdated(t, ids)[u],
         \A x \in Id : x \notin ids => rows'[x] = rows[x]
  PROVE  Undisturbed(u)
<1> DEFINE q == request[u]
<1>1. AllFields \subseteq DOMAIN q /\ (Active(u) => q.id \in Id)
  BY InHand DEF RequestFits
<1>2. request'[u] = IF q.id \in ids THEN [q EXCEPT !.old = TRUE] ELSE q
  BY DEF Outdated
<1>3. CASE q.id \in ids
  BY <1>1, <1>2, <1>3 DEF Undisturbed, AllFields, Fields
<1>4. CASE q.id \notin ids
  BY <1>1, <1>2, <1>4 DEF Undisturbed
<1> QED
  BY <1>3, <1>4

LEMMA EditKeepsKeys ==
  ASSUME CacheInv, NEW id \in Id, NEW row \in Row,
         \A x \in References(id, row) : Exists(x),
         rows' = [rows EXCEPT ![id] = row]
  PROVE  /\ rows' \in [Id -> Row \cup {Gone, Unborn}] /\ ForeignKeys'
         /\ rows'[id] = row
         /\ \A x \in Id : x # id => rows'[x] = rows[x]
         /\ \A x \in Id : Stays(x)
<1>1. rows \in [Id -> Row \cup {Gone, Unborn}] /\ ForeignKeys
  BY DEF CacheInv
<1>2. \A x \in Id : rows'[x] = IF x = id THEN row ELSE rows[x]
  BY <1>1
<1>3. \A x \in Id : Exists(x) => rows[x] \in Row
  BY <1>1 DEF Exists
<1>4. \A x \in Id : rows[x] \in Row => rows'[x] \in Row
  BY <1>2
<1>5. ASSUME NEW x \in Prefix, rows'[x] \in Row
      PROVE  /\ rows'[VrfOf[x]] \in Row
             /\ rows'[x].pool # NoPool => rows'[rows'[x].pool] \in Row
  <2>1. x \in Id /\ VrfOf[x] \in Id
    BY IdsApart DEF Id
  <2>2. CASE x = id
    <3>1. rows'[x] = row /\ VrfOf[x] \in References(id, row)
      BY <1>2, <2>1, <2>2 DEF References
    <3>2. row.pool # NoPool => row.pool \in Id /\ row.pool \in References(id, row)
      BY <2>2 DEF References, Row, Id
    <3> QED
      BY <1>3, <1>4, <2>1, <3>1, <3>2
  <2>3. CASE x # id
    <3>1. rows'[x] = rows[x] /\ (rows[x].pool # NoPool => rows[x].pool \in Id)
      BY <1>2, <1>5, <2>1, <2>3 DEF Row, Id
    <3> QED
      BY <1>1, <1>4, <1>5, <2>1, <3>1 DEF ForeignKeys
  <2> QED
    BY <2>2, <2>3
<1>6. rows' \in [Id -> Row \cup {Gone, Unborn}]
  BY <1>1
<1>7. \A x \in Id : Stays(x)
  BY <1>2, TablesAssumption DEF Stays
<1> QED
  BY <1>2, <1>5, <1>6, <1>7 DEF ForeignKeys

LEMMA RemovalKeepsKeys ==
  ASSUME CacheInv, NEW id \in Id, rows' = WithoutRow(id)
  PROVE  /\ rows' \in [Id -> Row \cup {Gone, Unborn}] /\ ForeignKeys'
         /\ \A x \in Id : x \notin Cascade(id) \cup Orphans(id) => rows'[x] = rows[x]
         /\ \A x \in Id : Stays(x)
<1>1. rows \in [Id -> Row \cup {Gone, Unborn}] /\ ForeignKeys
  BY DEF CacheInv
<1>2. \A x \in Id : Exists(x) <=> rows[x] \in Row
  BY <1>1, TablesAssumption DEF Exists
<1>3. \A x \in Id : rows'[x] =
        IF x \in Cascade(id) THEN IF rows[x] = Unborn THEN Unborn ELSE Gone
        ELSE IF x \in Orphans(id) THEN [rows[x] EXCEPT !.pool = NoPool]
        ELSE rows[x]
  BY DEF WithoutRow
<1>4. \A x \in Orphans(id) : rows[x] \in Row /\ x \in Prefix
  BY <1>2 DEF Orphans, Id
<1>5. \A x \in Orphans(id) : /\ [rows[x] EXCEPT !.pool = NoPool] \in Row
                             /\ [rows[x] EXCEPT !.pool = NoPool].pool = NoPool
  BY <1>4 DEF Row
<1>6. DOMAIN rows' = Id /\ rows' = [x \in Id |-> rows'[x]]
  BY DEF WithoutRow
<1>7. \A x \in Id : rows'[x] \in Row \cup {Gone, Unborn}
  BY <1>1, <1>3, <1>5
<1>8. rows' \in [Id -> Row \cup {Gone, Unborn}]
  BY <1>6, <1>7
<1>9. \A x \in Id : Stays(x)
  <2> SUFFICES ASSUME NEW x \in Id, rows[x] # Unborn PROVE rows'[x] # Unborn
    BY DEF Stays
  <2>1. Gone # Unborn /\ Unborn \notin Row
    BY TablesAssumption
  <2>2. CASE x \in Cascade(id)
    BY <1>3, <2>1, <2>2
  <2>3. CASE x \notin Cascade(id) /\ x \in Orphans(id)
    BY <1>3, <1>5, <2>1, <2>3
  <2>4. CASE x \notin Cascade(id) /\ x \notin Orphans(id)
    BY <1>3, <2>4
  <2> QED
    BY <2>2, <2>3, <2>4
<1>10. ASSUME NEW y \in Id, y \notin Prefix, y # id, rows[y] \in Row
       PROVE  rows'[y] \in Row
  <2>1. y \notin Cascade(id) /\ y \notin Orphans(id)
    BY <1>4, <1>10 DEF Cascade
  <2> QED
    BY <1>3, <1>10, <2>1
<1>11. ASSUME NEW x \in Prefix, rows'[x] \in Row
       PROVE  /\ rows'[VrfOf[x]] \in Row
              /\ rows'[x].pool # NoPool => rows'[rows'[x].pool] \in Row
  <2>1. x \in Id /\ VrfOf[x] \in Id /\ VrfOf[x] \notin Prefix
    BY IdsApart DEF Id
  <2>2. x \notin Cascade(id)
    BY <1>3, <1>11, <2>1, TablesAssumption
  <2>3. rows[x] \in Row
    BY <1>3, <1>4, <1>11, <2>1, <2>2
  <2>4. VrfOf[x] # id
    BY <1>2, <2>1, <2>2, <2>3 DEF Cascade
  <2>5. rows'[VrfOf[x]] \in Row
    BY <1>1, <1>10, <2>1, <2>3, <2>4 DEF ForeignKeys
  <2>6. CASE x \in Orphans(id)
    BY <1>3, <1>5, <2>1, <2>2, <2>5, <2>6
  <2>7. CASE x \notin Orphans(id) /\ rows[x].pool # NoPool
    <3>1. rows'[x] = rows[x] /\ rows[x].pool # id
      BY <1>2, <1>3, <2>1, <2>2, <2>3, <2>7 DEF Orphans
    <3>2. rows[x].pool \in Pool /\ rows[x].pool \in Id /\ rows[x].pool \notin Prefix
      BY <2>3, <2>7, IdsApart DEF Row, Id
    <3>3. rows[rows[x].pool] \in Row
      BY <1>1, <2>3, <2>7 DEF ForeignKeys
    <3> QED
      BY <1>10, <2>5, <3>1, <3>2, <3>3
  <2>8. CASE x \notin Orphans(id) /\ rows[x].pool = NoPool
    BY <1>3, <2>1, <2>2, <2>5, <2>8
  <2> QED
    BY <2>6, <2>7, <2>8
<1>12. ForeignKeys'
  BY <1>11 DEF ForeignKeys
<1> QED
  BY <1>3, <1>8, <1>9, <1>12

LEMMA SavedStep ==
  ASSUME CacheInv, NEW t \in Thread, Save(t)
  PROVE  CacheInv'
<1> DEFINE q == request[t]
           p == ProcessOf[t]
           ids == {q.id}
           r == [q EXCEPT !.pc = "refresh", !.old = FALSE, !.committed = TRUE]
<1>1. q.pc = "send" /\ UNCHANGED memory
  BY DEF Save
<1>2. /\ RequestFits(p, q) /\ AllFields \subseteq DOMAIN q /\ Active(t)
      /\ DOMAIN request = Thread
  BY <1>1, InHand DEF Active, Resting, CacheInv
<1>3. q.id \in Id /\ q.row \in Row /\ q.op \in {"add", "edit"}
  BY <1>1, <1>2 DEF RequestFits
<1>4. \/ /\ Fails(t) /\ UNCHANGED rows
         /\ behind' = IF q.op = "edit" THEN behind \cup {<<p, q.id>>} ELSE behind
      \/ /\ Accepts(q)
         /\ rows' = [rows EXCEPT ![q.id] = q.row]
         /\ request' = [Outdated(t, ids) EXCEPT ![t] = r]
         /\ behind' = behind \cup KnowBehind(p, q.id, ids)
  BY DEF Save
<1>5. CASE Fails(t) /\ UNCHANGED rows
             /\ behind' = IF q.op = "edit" THEN behind \cup {<<p, q.id>>} ELSE behind
  <2>1. Fits(t)' /\ request' = [request EXCEPT ![t] = request'[t]]
    BY <1>1, <1>2, <1>5, FailingFits
  <2>2. \A id : AtWorkOn(t, p, id) => <<p, id>> \in behind'
    BY <1>1, <1>5 DEF AtWorkOn
  <2> QED
    BY <1>1, <1>5, <2>1, <2>2, QuietStep
<1>6. CASE /\ Accepts(q)
           /\ rows' = [rows EXCEPT ![q.id] = q.row]
           /\ request' = [Outdated(t, ids) EXCEPT ![t] = r]
           /\ behind' = behind \cup KnowBehind(p, q.id, ids)
  <2>1. /\ rows' \in [Id -> Row \cup {Gone, Unborn}] /\ ForeignKeys'
        /\ rows'[q.id] = q.row
        /\ \A x \in Id : x \notin ids => rows'[x] = rows[x]
        /\ \A x \in Id : Stays(x)
    BY <1>3, <1>6, EditKeepsKeys DEF Accepts
  <2>2. /\ AllFields \subseteq DOMAIN r
        /\ r.pc = "refresh" /\ r.row = q.row /\ r.copy = q.copy
        /\ r.op = q.op /\ r.id = q.id /\ r.text = q.text /\ r.pool = q.pool
    BY <1>2 DEF AllFields, Fields
  <2>3. /\ request'[t] = r /\ DOMAIN request' = Thread
        /\ \A u \in Thread : u # t => request'[u] = Outdated(t, ids)[u]
    BY <1>2, <1>6 DEF Outdated
  <2> HIDE DEF r
  <2>4. RequestFits(p, request[t])'
    BY <1>1, <1>2, <1>3, <2>1, <2>2, <2>3, TablesAssumption DEF RequestFits
  <2>5. Fits(t)'
    BY <2>2, <2>3, <2>4 DEF Fits
  <2>6. \A o, id : AtWorkOn(t, o, id) => AtWorkOn(t, o, id)'
    BY <1>1, <2>2, <2>3 DEF AtWorkOn
  <2>7. \A u \in Thread : u # t => Undisturbed(u)
    BY <2>1, <2>3, OutdatedLeaves
  <2>8. ASSUME NEW o \in Process, NEW id \in Id, id \in ids, memory[o].cached[id] # 0
        PROVE  <<o, id>> \in behind' \/ \E u \in Thread : AtWorkOn(u, o, id)'
    <3>1. CASE o # p
      BY <1>6, <2>8, <3>1 DEF KnowBehind
    <3>2. CASE o = p /\ q.op = "edit"
      BY <2>2, <2>3, <2>8, <3>2 DEF AtWorkOn
    <3>3. CASE q.op = "add"
      <4>1. rows[id] = Unborn
        BY <1>6, <2>8, <3>3 DEF Accepts
      <4>2. memory[o].cached[id] # 0 => rows[id] # Unborn
        BY <1>3, <2>8, InHand DEF CacheHasRows
      <4> QED
        BY <2>8, <4>1, <4>2
    <3> QED
      BY <1>3, <3>1, <3>2, <3>3
  <2>9. \A u \in Thread : \/ Undisturbed(u)
                          \/ Fits(u)' /\ \A o, id : AtWorkOn(u, o, id) => AtWorkOn(u, o, id)'
    <3> SUFFICES ASSUME NEW u \in Thread, ~ Undisturbed(u)
                 PROVE  Fits(u)' /\ \A o, id : AtWorkOn(u, o, id) => AtWorkOn(u, o, id)'
      OBVIOUS
    <3>1. u = t
      BY <2>7
    <3> QED
      BY <2>5, <2>6, <3>1
  <2> HIDE DEF ids, q
  <2> QED
    BY <1>1, <1>6, <2>1, <2>3, <2>8, <2>9, RowsStep
<1> QED
  BY <1>4, <1>5, <1>6

LEMMA RemovedStep ==
  ASSUME CacheInv, NEW t \in Thread, Remove(t)
  PROVE  CacheInv'
<1> DEFINE q == request[t]
           p == ProcessOf[t]
           ids == Cascade(q.id) \cup Orphans(q.id)
           r == [q EXCEPT !.pc = "forget", !.committed = TRUE]
<1>1. q.pc = "remove" /\ UNCHANGED memory
  BY DEF Remove
<1>2. /\ RequestFits(p, q) /\ AllFields \subseteq DOMAIN q /\ Active(t)
      /\ DOMAIN request = Thread
  BY <1>1, InHand DEF Active, Resting, CacheInv
<1>3. q.id \in Id /\ q.op = "remove"
  BY <1>1, <1>2 DEF RequestFits
<1>4. \/ Fails(t) /\ UNCHANGED <<rows, behind>>
      \/ /\ rows' = WithoutRow(q.id)
         /\ request' = [Outdated(t, ids) EXCEPT ![t] = r]
         /\ behind' = behind \cup KnowBehind(p, q.id, ids)
  BY DEF Remove
<1>5. \A o, id : ~ AtWorkOn(t, o, id)
  BY <1>1 DEF AtWorkOn
<1>6. CASE Fails(t) /\ UNCHANGED <<rows, behind>>
  <2>1. Fits(t)' /\ request' = [request EXCEPT ![t] = request'[t]]
    BY <1>1, <1>2, <1>6, FailingFits
  <2> QED
    BY <1>1, <1>5, <1>6, <2>1, QuietStep
<1>7. CASE /\ rows' = WithoutRow(q.id)
           /\ request' = [Outdated(t, ids) EXCEPT ![t] = r]
           /\ behind' = behind \cup KnowBehind(p, q.id, ids)
  <2>1. /\ rows' \in [Id -> Row \cup {Gone, Unborn}] /\ ForeignKeys'
        /\ \A x \in Id : x \notin ids => rows'[x] = rows[x]
        /\ \A x \in Id : Stays(x)
    BY <1>3, <1>7, RemovalKeepsKeys
  <2>2. /\ AllFields \subseteq DOMAIN r
        /\ r.pc = "forget" /\ r.row = q.row /\ r.copy = q.copy
        /\ r.op = q.op /\ r.id = q.id /\ r.text = q.text /\ r.pool = q.pool
    BY <1>2 DEF AllFields, Fields
  <2>3. /\ request'[t] = r /\ DOMAIN request' = Thread
        /\ \A u \in Thread : u # t => request'[u] = Outdated(t, ids)[u]
    BY <1>2, <1>7 DEF Outdated
  <2> HIDE DEF r
  <2>4. RequestFits(p, request[t])'
    BY <1>1, <1>2, <1>3, <2>1, <2>2, <2>3 DEF RequestFits, Stays
  <2>5. Fits(t)'
    BY <2>2, <2>3, <2>4 DEF Fits
  <2>6. \A u \in Thread : u # t => Undisturbed(u)
    BY <2>1, <2>3, OutdatedLeaves
  <2>7. ASSUME NEW o \in Process, NEW id \in Id, id \in ids, memory[o].cached[id] # 0
        PROVE  <<o, id>> \in behind' \/ \E u \in Thread : AtWorkOn(u, o, id)'
    <3>1. CASE <<o, id>> # <<p, q.id>>
      BY <1>7, <2>7, <3>1 DEF KnowBehind
    <3>2. CASE o = p /\ id = q.id
      BY <2>2, <2>3, <3>2 DEF AtWorkOn
    <3> QED
      BY <3>1, <3>2
  <2>8. \A u \in Thread : \/ Undisturbed(u)
                          \/ Fits(u)' /\ \A o, id : AtWorkOn(u, o, id) => AtWorkOn(u, o, id)'
    <3> SUFFICES ASSUME NEW u \in Thread, ~ Undisturbed(u)
                 PROVE  Fits(u)' /\ \A o, id : AtWorkOn(u, o, id) => AtWorkOn(u, o, id)'
      OBVIOUS
    <3>1. u = t
      BY <2>6
    <3> QED
      BY <1>5, <2>5, <3>1
  <2> HIDE DEF ids, q
  <2> QED
    BY <1>1, <1>7, <2>1, <2>3, <2>7, <2>8, RowsStep
<1> QED
  BY <1>4, <1>6, <1>7

-----------------------------------------------------------------------------
(* What a request does when nipapd has answered.                           *)

\* What was just saved can be read back, unless the row has changed again.
LEMMA SavedCanBeBuilt ==
  ASSUME CacheInv, NEW t \in Thread, request[t].pc = "refresh", ~ request[t].old
  PROVE  CanBuild(ProcessOf[t], request[t].id, request[t].row)
<1> DEFINE q == request[t]
<1>1. RequestFits(ProcessOf[t], q) /\ ForeignKeys
  BY InHand DEF Active, Resting
<1>2. q.id \in Id /\ q.row \in Row /\ rows[q.id] = q.row
  BY <1>1 DEF RequestFits
<1>3. \A x : rows[x] \in Row => Exists(x)
  BY TablesAssumption DEF Exists
<1>4. \A x \in References(q.id, q.row) : Exists(x)
  BY <1>1, <1>2, <1>3 DEF ForeignKeys, References
<1> QED
  BY <1>4 DEF CanBuild, Known

LEMMA RefreshStep ==
  ASSUME CacheInv, NEW t \in Thread, Refresh(t)
  PROVE  CacheInv'
<1> DEFINE q == request[t]
           p == ProcessOf[t]
           copy == IF q.op = "add" THEN Spare(p, q.id) ELSE q.copy
           r == [q EXCEPT !.pc = "done"]
           grown == GetReferences(p, memory[p], q.id, q.row)
           mem == Store(grown, q.id, copy, q.row)
           pool == IF q.id \in Prefix THEN q.row.pool ELSE NoPool
           n == IF pool = NoPool THEN mem ELSE Evict(mem, pool)
<1>1. q.pc = "refresh" /\ UNCHANGED rows
  BY DEF Refresh
<1>2. /\ RequestFits(p, q) /\ AllFields \subseteq DOMAIN q /\ memory[p] \in Memory /\ p \in Process
      /\ Active(t)
  BY <1>1, InHand DEF Active, Resting
<1>3. CASE ~ CanBuild(p, q.id, q.row)
  <2>1. /\ Fails(t) /\ UNCHANGED memory
        /\ behind' = IF q.op = "edit" THEN behind \cup {<<p, q.id>>} ELSE behind
    BY <1>3 DEF Refresh
  <2>2. q.old
    BY <1>1, <1>3, SavedCanBeBuilt
  <2>3. Fits(t)' /\ request' = [request EXCEPT ![t] = request'[t]]
    BY <1>1, <1>2, <2>1, <2>2, FailingFits
  <2>4. \A id : AtWorkOn(t, p, id) => <<p, id>> \in behind'
    BY <1>1, <2>1 DEF AtWorkOn
  <2> QED
    BY <1>1, <2>1, <2>3, <2>4, QuietStep
<1>4. CASE CanBuild(p, q.id, q.row)
  <2>1. Goes(t, r) /\ Remember(t, n) /\ behind' = Aware(p, q.id, q.old) \ {<<p, pool>>}
    BY <1>4 DEF Refresh, FromDict
  <2>2. q.id \in Id /\ q.row \in Row
    BY <1>1, <1>2 DEF RequestFits
  <2>3. copy \in Copies
    <3>1. CASE q.op = "add"
      BY <1>2, <3>1, SpareIsThere DEF RequestFits
    <3>2. CASE q.op # "add"
      BY <1>1, <1>2, <3>2 DEF RequestFits
    <3> QED
      BY <3>1, <3>2
  <2>4. /\ Grown(memory[p], grown, Pool \cup Vrf)
        /\ grown.cached[q.id] = memory[p].cached[q.id]
        /\ grown.object[q.id] = memory[p].object[q.id]
    BY <1>2, <1>4, <2>2, InHand, ReferencesGrow
  <2>5. AllFields \subseteq DOMAIN r /\ r.pc = "done"
    BY <1>2 DEF AllFields, Fields
  <2>6. request'[t] = r /\ request' = [request EXCEPT ![t] = request'[t]]
    BY <2>1, GoesOn
  <2>7. Fits(t)'
    BY <2>5, <2>6 DEF Fits, Active, Resting
  <2> HIDE DEF r, copy, grown
  <2>8. /\ mem \in Memory
        /\ mem.cached[q.id] = copy /\ mem.object[q.id][copy] = q.row
        /\ \A k \in Copies : k # copy => mem.object[q.id][k] = grown.object[q.id][k]
        /\ \A x \in Id : x # q.id => /\ mem.cached[x] = grown.cached[x]
                                     /\ mem.object[x] = grown.object[x]
    <3>1. grown \in Memory
      BY <2>4 DEF Grown
    <3> QED
      BY <2>2, <2>3, <3>1, StoreStores
  <2> HIDE DEF mem
  <2>9. pool = NoPool \/ (pool \in Pool /\ pool \in Id /\ pool # q.id)
    <3>1. q.row.pool \in Pool \cup {NoPool}
      BY <2>2 DEF Row
    <3> QED
      BY <3>1, IdsApart DEF Id
  <2>10. NoPool \notin Id
    BY TablesAssumption
  <2> HIDE DEF pool
  <2>11. /\ n \in Memory /\ n.object = mem.object
         /\ \A x \in Id : n.cached[x] = IF x = pool THEN 0 ELSE mem.cached[x]
    <3>1. CASE pool = NoPool
      BY <2>8, <2>10, <3>1
    <3>2. CASE pool # NoPool
      BY <2>8, <2>9, <3>2, EvictEvicts
    <3> QED
      BY <3>1, <3>2
  <2> HIDE DEF n
  <2>12. Keeps(memory[p], n)
    BY <2>2, <2>4, <2>8, <2>11, SMTT(30) DEF Grown, Keeps
  <2>13. memory' = [memory EXCEPT ![p] = n]
    BY <2>1 DEF Remember
  <2>14. ASSUME NEW x \in Id
         PROVE  Accounted(t, n, x)
    <3>1. CASE x = q.id
      <4>1. q.old \/ q.row = rows[q.id]
        BY <1>1, <1>2 DEF RequestFits
      <4>2. rows[q.id] # Unborn
        BY <1>1, <1>2 DEF RequestFits
      <4>3. q.old => <<p, q.id>> \in behind'
        BY <2>1, <2>2, <2>9, <2>10 DEF Aware
      <4> QED
        BY <2>2, <2>8, <2>11, <3>1, <4>1, <4>2, <4>3 DEF Accounted
    <3>2. CASE x # q.id /\ x = pool
      BY <2>11, <3>2 DEF Accounted
    <3>3. CASE x # q.id /\ x # pool
      <4>1. n.cached[x] = grown.cached[x] /\ n.object[x] = grown.object[x]
        BY <2>8, <2>11, <3>3
      <4>2. memory[p].cached[x] # 0 =>
              memory[p].object[x][memory[p].cached[x]] \in Row /\ rows[x] # Unborn
        BY <1>2, InHand DEF CacheHasRows
      <4>3. <<p, x>> \in behind => <<p, x>> \in behind'
        BY <2>1, <3>3 DEF Aware
      <4>4. ~ AtWorkOn(t, p, x)
        BY <3>3 DEF AtWorkOn
      <4> QED
        BY <2>4, <4>1, <4>2, <4>3, <4>4, TablesAssumption DEF Accounted, Grown
    <3> QED
      BY <3>1, <3>2, <3>3
  <2>15. \A o \in Process, x \in Id : o # p /\ <<o, x>> \in behind => <<o, x>> \in behind'
    BY <2>1 DEF Aware
  <2> QED
    BY <1>1, <2>6, <2>7, <2>11, <2>12, <2>13, <2>14, <2>15, MemoryStep
<1> QED
  BY <1>3, <1>4

LEMMA ForgetStep ==
  ASSUME CacheInv, NEW t \in Thread, Forget(t)
  PROVE  CacheInv'
<1> DEFINE q == request[t]
           p == ProcessOf[t]
           r == [q EXCEPT !.pc = "done"]
           mem == Evict(memory[p], q.id)
           pool == IF q.id \in Prefix THEN memory[p].object[q.id][q.copy].pool ELSE NoPool
           n == IF pool = NoPool THEN mem ELSE Evict(mem, pool)
<1>1. /\ q.pc = "forget" /\ UNCHANGED rows
      /\ Remember(t, n) /\ Goes(t, r)
      /\ behind' = behind \ {<<p, q.id>>, <<p, pool>>}
  BY Zenon DEF Forget
<1>2. /\ RequestFits(p, q) /\ AllFields \subseteq DOMAIN q /\ memory[p] \in Memory /\ p \in Process
      /\ Active(t)
  <2>1. q.pc = "forget"
    BY <1>1, Zenon
  <2> QED
    BY <2>1, InHand DEF Active, Resting
<1>3. q.id \in Id /\ q.copy \in Copies /\ memory[p].object[q.id][q.copy] \in Row
  BY <1>1, <1>2, Zenon DEF RequestFits
<1>4. AllFields \subseteq DOMAIN r /\ r.pc = "done"
  BY <1>2 DEF AllFields, Fields
<1>5. request'[t] = r /\ request' = [request EXCEPT ![t] = request'[t]]
  <2>1. Goes(t, r)
    BY <1>1, Zenon
  <2> HIDE DEF r
  <2> QED
    BY <2>1, GoesOn, Zenon
<1>6. Fits(t)'
  BY <1>4, <1>5 DEF Fits, Active, Resting
<1>7. pool = NoPool \/ (pool \in Pool /\ pool \in Id)
  <2>1. memory[p].object[q.id][q.copy].pool \in Pool \cup {NoPool}
    BY <1>3 DEF Row
  <2> HIDE DEF q
  <2> QED
    BY <2>1, Zenon DEF Id
<1>8. NoPool \notin Id
  BY TablesAssumption
<1>9. /\ mem \in Memory /\ mem.object = memory[p].object
      /\ mem.cached[q.id] = 0
      /\ \A x \in Id : x # q.id => mem.cached[x] = memory[p].cached[x]
  BY <1>2, <1>3, EvictEvicts
<1> HIDE DEF r, mem, pool
<1>10. /\ n \in Memory /\ n.object = memory[p].object
       /\ \A x \in Id : n.cached[x] = IF x = pool \/ x = q.id THEN 0 ELSE memory[p].cached[x]
  <2>1. CASE pool = NoPool
    BY <1>8, <1>9, <2>1
  <2>2. CASE pool # NoPool
    <3>1. /\ n \in Memory /\ n.object = mem.object
          /\ n.cached[pool] = 0
          /\ \A x \in Id : x # pool => n.cached[x] = mem.cached[x]
      BY <1>7, <1>9, <2>2, EvictEvicts
    <3> QED
      BY <1>9, <3>1
  <2> QED
    BY <2>1, <2>2
<1>11. memory' = [memory EXCEPT ![p] = n]
  BY <1>1 DEF Remember
<1> HIDE DEF n
<1>12. Keeps(memory[p], n)
  BY <1>10 DEF Keeps
<1>13. ASSUME NEW x \in Id
       PROVE  Accounted(t, n, x)
  <2>1. CASE x = pool \/ x = q.id
    BY <1>10, <2>1 DEF Accounted
  <2>2. CASE x # pool /\ x # q.id
    <3>1. memory[p].cached[x] # 0 =>
            memory[p].object[x][memory[p].cached[x]] \in Row /\ rows[x] # Unborn
      BY <1>2, InHand DEF CacheHasRows
    <3>2. <<p, x>> \in behind => <<p, x>> \in behind'
      BY <1>1, <2>2
    <3>3. ~ AtWorkOn(t, p, x)
      BY <2>2 DEF AtWorkOn
    <3> QED
      BY <1>10, <2>2, <3>1, <3>2, <3>3 DEF Accounted
  <2> QED
    BY <2>1, <2>2
<1>14. \A o \in Process, x \in Id : o # p /\ <<o, x>> \in behind => <<o, x>> \in behind'
  BY <1>1
<1>15. n \in Memory /\ rows' = rows
  BY <1>1, <1>10
<1> HIDE DEF p
<1> QED
  BY <1>5, <1>6, <1>11, <1>12, <1>13, <1>14, <1>15, MemoryStep, Zenon DEF p

-----------------------------------------------------------------------------
(* The other steps.                                                        *)

LEMMA MixedLeaves ==
  ASSUME CacheInv, NEW u \in Thread, NEW p, request'[u] = Mixed(p)[u], rows' = rows
  PROVE  Undisturbed(u)
<1> DEFINE q == request[u]
<1>1. AllFields \subseteq DOMAIN q
  BY InHand
<1>2. request'[u] = IF ProcessOf[u] = p /\ Active(u) THEN [q EXCEPT !.mixed = TRUE] ELSE q
  BY DEF Mixed
<1>3. CASE request'[u] = [q EXCEPT !.mixed = TRUE]
  BY <1>1, <1>3 DEF Undisturbed, AllFields, Fields
<1>4. CASE request'[u] = q
  BY <1>1, <1>4 DEF Undisturbed
<1> QED
  BY <1>2, <1>3, <1>4

\* Nothing happens to rows, memories and what is known of them.
LEMMA OnlyRequests ==
  ASSUME CacheInv, UNCHANGED <<rows, memory, behind>>, DOMAIN request' = Thread,
         \A u \in Thread : \/ Undisturbed(u)
                           \/ Fits(u)' /\ \A p, id : AtWorkOn(u, p, id) => AtWorkOn(u, p, id)'
  PROVE  CacheInv'
<1> DEFINE none == {}
<1>1. rows' \in [Id -> Row \cup {Gone, Unborn}] /\ ForeignKeys'
  BY DEF CacheInv, ForeignKeys
<1>2. \A x \in Id : Stays(x) /\ (x \notin none => rows'[x] = rows[x])
  BY DEF Stays
<1>3. \A p \in Process, id \in Id : id \in none /\ memory[p].cached[id] # 0 =>
        <<p, id>> \in behind' \/ \E u \in Thread : AtWorkOn(u, p, id)'
  OBVIOUS
<1> HIDE DEF none
<1> QED
  BY <1>1, <1>2, <1>3, RowsStep

LEMMA VisitStep ==
  ASSUME CacheInv, NEW p \in Process, NEW b \in Browser,
         Logout(p, b) \/ \E u \in User, word \in Password : Login(p, b, u, word)
  PROVE  CacheInv'
<1>1. UNCHANGED <<rows, memory, behind>> /\ request' = Mixed(p)
  BY DEF Logout, Login
<1>2. DOMAIN request' = Thread /\ \A u \in Thread : Undisturbed(u)
  BY <1>1, MixedLeaves DEF Mixed
<1> QED
  BY <1>1, <1>2, OnlyRequests

LEMMA BeginStep ==
  ASSUME CacheInv, NEW t \in Thread, NEW b \in Browser, NEW id \in Id,
         NEW op \in {"add", "edit", "remove"},
         NEW text \in Text \cup {Keep}, NEW pool \in Pool \cup {NoPool, Keep},
         op = "add" => text \in Text /\ pool \in Pool \cup {NoPool},
         Start(t, b, op, id, text, pool)
  PROVE  CacheInv'
<1> DEFINE p == ProcessOf[t]
           new == [NoRequest EXCEPT !.pc = IF op = "add" THEN "create" ELSE "get",
                                    !.op = op, !.id = id, !.text = text, !.pool = pool,
                                    !.user = session[b].username]
<1>1. /\ ~ Active(t) /\ UNCHANGED <<rows, memory, behind>>
      /\ op = "add" <=> rows[id] = Unborn
  BY DEF Start
<1>2. request' = [Mixed(p) EXCEPT ![t] = new]
  BY Zenon DEF Start
<1>3. /\ AllFields \subseteq DOMAIN new
      /\ new.pc = IF op = "add" THEN "create" ELSE "get"
      /\ new.op = op /\ new.id = id /\ new.text = text /\ new.pool = pool
      /\ new.copy = 0 /\ new.committed = FALSE
  BY DEF NoRequest, AllFields, Fields
<1> HIDE DEF new
<1>4. /\ DOMAIN request' = Thread /\ request'[t] = new
      /\ \A u \in Thread : u # t => request'[u] = Mixed(p)[u]
  BY <1>2 DEF Mixed
<1>5. RequestFits(p, request[t])'
  BY <1>1, <1>3, <1>4 DEF RequestFits
<1>6. Fits(t)'
  BY <1>3, <1>4, <1>5 DEF Fits
<1>7. \A o, x : ~ AtWorkOn(t, o, x)
  BY <1>1 DEF AtWorkOn, Active, Resting
<1>8. \A u \in Thread : u # t => Undisturbed(u)
  BY <1>1, <1>4, MixedLeaves
<1>9. \A u \in Thread : \/ Undisturbed(u)
                        \/ Fits(u)' /\ \A o, x : AtWorkOn(u, o, x) => AtWorkOn(u, o, x)'
  <2> SUFFICES ASSUME NEW u \in Thread, ~ Undisturbed(u)
               PROVE  Fits(u)' /\ \A o, x : AtWorkOn(u, o, x) => AtWorkOn(u, o, x)'
    OBVIOUS
  <2>1. u = t
    BY <1>8
  <2> QED
    BY <1>6, <1>7, <2>1
<1> QED
  BY <1>1, <1>4, <1>9, OnlyRequests

LEMMA BrowseStep ==
  ASSUME CacheInv, Browse
  PROVE  CacheInv'
<1>1. CASE \E p \in Process, b \in Browser :
             Logout(p, b) \/ \E u \in User, word \in Password : Login(p, b, u, word)
  BY <1>1, VisitStep
<1>2. ASSUME NEW t \in Thread, NEW b \in Browser, NEW id \in Id,
             NEW given \in Whole(id) \cup Partial(id), NEW op \in {"add", "edit"},
             op = "add" => given \in Whole(id),
             Start(t, b, op, id, given[1], given[2])
      PROVE  CacheInv'
  <2>1. given \in Whole(id) => given[1] \in Text /\ given[2] \in Pool \cup {NoPool}
    BY DEF Whole, PoolOf
  <2>2. given[1] \in Text \cup {Keep} /\ given[2] \in Pool \cup {NoPool, Keep}
    BY <2>1 DEF Partial
  <2> QED
    BY <1>2, <2>1, <2>2, BeginStep
<1>3. ASSUME NEW t \in Thread, NEW b \in Browser, NEW id \in Id,
             Start(t, b, "remove", id, Keep, Keep)
      PROVE  CacheInv'
  BY <1>3, BeginStep
<1> QED
  BY <1>1, <1>2, <1>3 DEF Browse

LEMMA ElsewhereStep ==
  ASSUME CacheInv, Others
  PROVE  CacheInv'
<1>1. ASSUME NEW ids, OtherChanges(ids),
             rows' \in [Id -> Row \cup {Gone, Unborn}], ForeignKeys',
             \A x \in Id : Stays(x), \A x \in Id : x \notin ids => rows'[x] = rows[x]
      PROVE  CacheInv'
  <2>1. /\ memory' = memory /\ DOMAIN request' = Thread
        /\ behind' = behind \cup {e \in Process \X ids : memory[e[1]].cached[e[2]] # 0}
    BY <1>1 DEF OtherChanges
  <2>2. ASSUME NEW u \in Thread
        PROVE  Undisturbed(u)
    <3> DEFINE q == request[u]
    <3>1. AllFields \subseteq DOMAIN q /\ (Active(u) => q.id \in Id)
      BY InHand DEF RequestFits
    <3>2. request'[u] = IF q.id \in ids THEN [q EXCEPT !.old = TRUE] ELSE q
      BY <1>1 DEF OtherChanges
    <3>3. CASE q.id \in ids
      BY <3>1, <3>2, <3>3 DEF Undisturbed, AllFields, Fields
    <3>4. CASE q.id \notin ids
      BY <1>1, <3>1, <3>2, <3>4 DEF Undisturbed
    <3> QED
      BY <3>3, <3>4
  <2>3. \A p \in Process, id \in Id : id \in ids /\ memory[p].cached[id] # 0 =>
          <<p, id>> \in behind' \/ \E u \in Thread : AtWorkOn(u, p, id)'
    BY <2>1
  <2> QED
    BY <1>1, <2>1, <2>2, <2>3, RowsStep
<1>2. ASSUME NEW id \in Id, NEW text \in Text, NEW pool \in PoolOf(id),
             OtherEdit(id, [text |-> text, pool |-> pool])
      PROVE  CacheInv'
  <2> DEFINE row == [text |-> text, pool |-> pool]
  <2>1. row \in Row
    BY DEF Row, PoolOf
  <2> HIDE DEF row
  <2>2. /\ \A ref \in References(id, row) : Exists(ref)
        /\ rows' = [rows EXCEPT ![id] = row]
        /\ OtherChanges({id})
    BY <1>2 DEF OtherEdit, row
  <2> QED
    BY <1>1, <2>1, <2>2, EditKeepsKeys
<1>3. ASSUME NEW id \in Id, OtherRemove(id)
      PROVE  CacheInv'
  BY <1>1, <1>3, RemovalKeepsKeys DEF OtherRemove
<1>4. ASSUME NEW token \in Tokens, OtherToken(token)
      PROVE  CacheInv'
  BY <1>4, SMTT(30) DEF OtherToken, CacheInv, ForeignKeys, CacheHasRows, RequestsFit, RequestFits,
              CachedIsRow, AtWorkOn, ErrorsChangeNothing, Active
<1> QED
  BY <1>2, <1>3, <1>4 DEF Others

LEMMA NothingHappens ==
  ASSUME CacheInv, UNCHANGED webVars
  PROVE  CacheInv'
BY SMTT(30) DEF webVars, CacheInv, ForeignKeys, CacheHasRows, RequestsFit, RequestFits, CachedIsRow,
       AtWorkOn, ErrorsChangeNothing, Active

LEMMA CacheStep == CacheInv /\ [Next]_vars => CacheInv'
<1> SUFFICES ASSUME CacheInv, [Next]_vars PROVE CacheInv'
  OBVIOUS
<1>1. CASE Browse
  BY <1>1, BrowseStep
<1>2. ASSUME NEW t \in Thread, Serve(t)
      PROVE  CacheInv'
  BY <1>2, CachedStep, ReadStep, BuildStep, CreateStep, EditPrefixStep, EditContainerStep,
     SavedStep, RefreshStep, RemovedStep, ForgetStep DEF Serve
<1>3. CASE Others
  BY <1>3, ElsewhereStep
<1>4. CASE (Accounts /\ UNCHANGED webVars) \/ UNCHANGED vars
  BY <1>4, NothingHappens DEF vars
<1> QED
  BY <1>1, <1>2, <1>3, <1>4 DEF Next

LEMMA CacheInitOK == Init => CacheInv
<1> SUFFICES ASSUME Init PROVE CacheInv
  OBVIOUS
<1>1. /\ rows \in [Id -> Row \cup {Gone, Unborn}] /\ ForeignKeys
  BY TablesAssumption DEF Init, ForeignKeys
<1>2. \A p \in Process : memory[p] = NoMemory
  BY DEF Init
<1>3. NoMemory \in Memory /\ \A id \in Id : NoMemory.cached[id] = 0
  BY DEF NoMemory, Memory
<1>4. memory \in [Process -> Memory] /\ CacheHasRows /\ CachedIsRow
  BY <1>2, <1>3 DEF Init, CacheHasRows, CachedIsRow
<1>5. \A t \in Thread : request[t] = NoRequest
  BY DEF Init
<1>6. AllFields \subseteq DOMAIN NoRequest /\ NoRequest.pc = "idle"
  BY DEF NoRequest, AllFields, Fields
<1>7. DOMAIN request = Thread /\ RequestsFit /\ ErrorsChangeNothing
  BY <1>5, <1>6 DEF Init, RequestsFit, ErrorsChangeNothing, Active, Resting
<1> QED
  BY <1>1, <1>4, <1>7 DEF CacheInv

\* The objects that the threads of a process share are the rows, through every
\* interleaving of fetches, edits, saves, refreshes and removals, except where it
\* is known why not: others have changed the row since, an edit of the object has
\* failed, or a request is between its edit and its refresh (_cache, save, remove
\* and from_dict of pynipap.py).
THEOREM CachedRowsAreCurrent == Spec => []CacheIsCurrent
<1>1. CacheInv => CacheIsCurrent
  BY DEF CacheInv, CachedIsRow, CacheIsCurrent, AtWorkOn
<1> QED
  BY <1>1, CacheInitOK, CacheStep, PTL DEF Spec

\* A request that is answered with an error has changed nothing, unless its row was
\* changed once more before save() could read it back: what nipapd accepted refers
\* to rows that are there (save() and from_dict() of pynipap.py, the foreign keys of
\* ip_net.plsql).
THEOREM FailedRequestsChangeNothing == Spec => []ErrorsChangeNothing
<1>1. CacheInv => ErrorsChangeNothing
  BY DEF CacheInv
<1> QED
  BY <1>1, CacheInitOK, CacheStep, PTL DEF Spec

=============================================================================
