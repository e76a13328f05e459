----------------------------- MODULE MCWebRequests -----------------------------
(***************************************************************************)
(* A web interface with two threads in one process, one worker of nipapd,  *)
(* and slices of the behaviours: what a slice leaves out has already been  *)
(* used up in its initial states.                                          *)
(***************************************************************************)
EXTENDS WebRequests, TLC

CONSTANTS p1, n1, t1, t2, b1, b2, web, ann, pw, wrong, x1, o1, v1

MCProcessOf == [t \in Thread |-> p1]
MCVrfOf == [x \in Prefix |-> v1]

Account == [u \in User |->
  IF u = web THEN [password |-> pw, trusted |-> TRUE, readonly |-> FALSE]
  ELSE [password |-> pw, listed |-> TRUE, groups |-> {"rw"}]]
MCAccounts == {Account}
MCLocalAccounts == {[password |-> wrong, trusted |-> TRUE, readonly |-> FALSE],
                    [password |-> pw, trusted |-> FALSE, readonly |-> TRUE]}
MCRemoteAccounts == {[password |-> wrong, listed |-> TRUE, groups |-> {"rw"}],
                     [password |-> pw, listed |-> TRUE, groups |-> {"ro"}],
                     [password |-> pw, listed |-> TRUE, groups |-> {}],
                     [password |-> pw, listed |-> FALSE, groups |-> {}]}
MCTokens == {[username |-> ann, groups |-> {"ro", "rw"}, expires |-> 1]}

Plain == [text |-> "a", pool |-> NoPool]
AllRows == [id \in Id |-> Plain]
BeforeTheFirst == [id \in Id |-> IF id \in Prefix THEN Unborn ELSE Plain]
PoolsOnly == [id \in Id |-> IF id \in Pool THEN Plain ELSE Gone]
MCRows == {AllRows, BeforeTheFirst, PoolsOnly}

Writer == [username |-> ann, readonly |-> FALSE]
Reader == [username |-> web, readonly |-> TRUE]
Nobody == [b \in Browser |-> NoSession]
OneUser == [b \in Browser |-> Writer]
TwoUsers == {b1 :> Writer @@ b2 :> Reader, b1 :> Reader @@ b2 :> Writer}
MCSessions == {Nobody, OneUser} \cup TwoUsers

NothingElse == /\ directory = "up"
               /\ now = MaxTime
               /\ changes = MaxChanges
               /\ logins = MaxLogins

\* The accounts and the clock change while users log in.
LoginSlice == /\ session = Nobody
              /\ rows = PoolsOnly
              /\ now = 0 /\ changes = 0 /\ logins = 0
              /\ requests = MaxRequests /\ others = MaxOthers

\* The accounts and the clock change while a thread is at work.
AccountSlice == /\ session \in TwoUsers
                /\ rows = AllRows
                /\ directory = "up" /\ now = MaxTime - 1 /\ changes = 0
                /\ logins = MaxLogins
                /\ requests = MaxRequests - 1 /\ others = MaxOthers

\* Two threads are at work for two users, on a pool.
UserSlice == /\ session \in TwoUsers
             /\ rows = PoolsOnly
             /\ NothingElse
             /\ requests = 0 /\ others = MaxOthers

\* Two threads are at work for one user.
ThreadSlice == /\ session = OneUser
               /\ rows # PoolsOnly
               /\ NothingElse
               /\ requests = 0 /\ others = MaxOthers

\* One thread is at work while other clients of nipapd make changes.
ClientSlice == /\ session = OneUser
               /\ rows # PoolsOnly
               /\ NothingElse
               /\ requests = MaxRequests - 1 /\ others = 0

MCInit == Init /\ (LoginSlice \/ AccountSlice \/ UserSlice \/ ThreadSlice \/ ClientSlice)

Symmetry == Permutations(Thread) \cup Permutations(Browser)

MCSpec == MCInit /\ [][Next]_vars
OneUserSpec == Init /\ ThreadSlice /\ [][Next]_vars

=============================================================================
