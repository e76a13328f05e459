------------------------------ MODULE Connection ------------------------------
(***************************************************************************)
(* How the processes of nipapd get at the database (backend.py):           *)
(* _connect_db, which may install or upgrade the schema, and _execute,     *)
(* which connects again when a statement fails and repeats it.  The two    *)
(* call each other, so a process is a stack of calls, the last one on top. *)
(* A script is one transaction; the answer to it may get lost.             *)
(***************************************************************************)
EXTENDS Integers, Sequences, SequencesExt

CONSTANTS
  Daemon,       \* first processes of nipapd, one of them per start
  Worker,       \* the processes they fork
  AutoInstall, AutoUpgrade,  \* --auto-install-db and --auto-upgrade-db
  Latest,       \* nipap.__db_version__
  Repeatable,   \* upgrade scripts that succeed on what they have made themselves
  FirstHstore,  \* the version whose upgrade script creates the hstore extension
  FirstSchemas, \* the schemas a run starts with
  MaxDepth,     \* bound: calls on a stack (Python's recursion limit)
  MaxStarts, MaxCrashes, MaxLosses  \* bounds

Process == Daemon \cup Worker
Schema == [version : 0 .. Latest, tables : 0 .. Latest, hstore : BOOLEAN,
           functions : {"none", "old", "new"}, triggers : {"none", "old", "new"}]

ASSUME ConnectionAssumption ==
  /\ Latest \in Nat \ {0}
  /\ Repeatable \subseteq 1 .. Latest - 1
  /\ FirstHstore \in 1 .. Latest
  /\ {AutoInstall, AutoUpgrade} \subseteq BOOLEAN
  /\ Daemon \cap Worker = {}
  /\ MaxDepth \in Nat /\ MaxDepth >= 3
  /\ {MaxStarts, MaxCrashes, MaxLosses} \subseteq Nat
  /\ FirstSchemas \subseteq Schema
  /\ \A first \in FirstSchemas : first.version <= first.tables

VARIABLES
  schema,   \* the version its comment states and what is really there
  stack,    \* the calls of every process
  status,   \* "down", "starting", "up" or "failed"
  alive,    \* is the connection of the process usable?
  seen,     \* the version it has read last
  starts, crashes, losses,  \* how many so far
  shaken,   \* history: the start of the process was disturbed
  trouble   \* history: has anything been lost, crashed, or started twice at a time?

connVars == <<schema, stack, status, alive, seen, starts, crashes, losses, shaken, trouble>>

-----------------------------------------------------------------------------
(* Calls.                                                                  *)

Connect == [call |-> "connect", at |-> "open"]
Checking == [call |-> "connect", at |-> "check"]
Upgrade == [call |-> "upgrade"]
Execute(stmt, callno) == [call |-> "execute", stmt |-> stmt, callno |-> callno]
Scripts(todo) == [call |-> "scripts", todo |-> todo]

IsCall(p, call) == stack[p] # <<>> /\ Last(stack[p]).call = call
IsAt(p, at) == IsCall(p, "connect") /\ Last(stack[p]).at = at
Top(p) == Last(stack[p])
Under(p) == Front(stack[p])

\* The process goes on with these calls on its stack.
Goes(p, calls) ==
  /\ stack' = [stack EXCEPT ![p] = calls]
  /\ status' = [status EXCEPT ![p] = IF calls = <<>> /\ @ = "starting" THEN "up" ELSE @]

\* An exception nobody catches: a start fails, and so does the request of a worker.
Raises(p) ==
  /\ stack' = [stack EXCEPT ![p] = <<>>]
  /\ status' = [status EXCEPT ![p] = IF @ = "starting" THEN "failed" ELSE @]

Calls(p, calls) ==
  IF Len(calls) > MaxDepth THEN Raises(p) ELSE Goes(p, calls)

-----------------------------------------------------------------------------
(* The scripts of db_schema.py; an upgrade is known by the version it      *)
(* starts from.                                                            *)

Version == [do |-> "version"]   \* the statement of _get_db_version
Tables == [do |-> "ip_net"]
Functions == [do |-> "functions"]
Triggers == [do |-> "triggers"]
Migration(from) == [do |-> "upgrade", from |-> from]

\* A mutation: the functions are installed before the tables they refer to.
FunctionsFirst == <<Functions, Tables, Triggers>>

\* _db_install
InstallScripts == <<Tables, Functions, Triggers>>

\* A mutation: an upgrade leaves the triggers out.
NoTriggers(from) == <<Functions>> \o [i \in 1 .. Latest - from |-> Migration(from + i - 1)]

\* _db_upgrade: the functions come first, then the scripts one by one.
UpgradeScripts(from) ==
  <<Functions>> \o [i \in 1 .. Latest - from |-> Migration(from + i - 1)] \o <<Triggers>>

CanApply(script) ==
  CASE script.do = "ip_net" -> schema.tables = 0
    [] script.do = "upgrade" -> \/ schema.tables = script.from
                                \/ schema.tables > script.from /\ script.from \in Repeatable
    [] OTHER -> schema.tables > 0

\* A mutation: the version is raised in a transaction of its own, before the tables.
VersionFirst(script) ==
  CASE script.do = "functions" -> [schema EXCEPT !.functions = "new", !.version = Latest]
    [] script.do = "triggers" -> [schema EXCEPT !.triggers = "new"]
    [] script.do = "ip_net" -> [schema EXCEPT !.version = Latest, !.tables = Latest, !.hstore = TRUE]
    [] OTHER -> [schema EXCEPT !.tables = script.from + 1, !.hstore = TRUE, !.triggers = "old"]

Applied(script) ==
  CASE script.do = "ip_net" ->
         [schema EXCEPT !.version = Latest, !.tables = Latest, !.hstore = TRUE]
    [] script.do = "functions" -> [schema EXCEPT !.functions = "new"]
    [] script.do = "triggers" -> [schema EXCEPT !.triggers = "new"]
    [] OTHER -> LET to == script.from + 1
                IN  [schema EXCEPT !.version = to,
                                   !.tables = IF @ < to THEN to ELSE @,
                                   !.hstore = @ \/ to >= FirstHstore,
                                   !.triggers = "old"]

IsScript(stmt) == stmt.do \in {"ip_net", "functions", "triggers", "upgrade"}

-----------------------------------------------------------------------------
(* _connect_db                                                             *)

Open(p) ==
  /\ IsAt(p, "open")
  /\ IF schema.hstore
     THEN /\ Calls(p, Under(p) \o <<Checking, Execute(Version, 0)>>)
          /\ alive' = [alive EXCEPT ![p] = TRUE]
     ELSE /\ alive' = [alive EXCEPT ![p] = TRUE]
          /\ IF p \in Daemon /\ AutoInstall
             THEN Calls(p, stack[p] \o <<Scripts(InstallScripts)>>)
             ELSE Raises(p)
  /\ UNCHANGED <<schema, seen, starts, crashes, losses, shaken, trouble>>

\* The database does not answer.
OpenFails(p) ==
  /\ IsAt(p, "open")
  /\ losses < MaxLosses
  /\ losses' = losses + 1
  /\ trouble' = trouble \cup {"loss"}
  /\ shaken' = [shaken EXCEPT ![p] = TRUE]
  /\ alive' = [alive EXCEPT ![p] = FALSE]
  /\ Raises(p)
  /\ UNCHANGED <<schema, seen, starts, crashes>>

Check(p) ==
  /\ IsAt(p, "check")
  /\ LET again == Under(p) \o <<Connect>>
     IN  CASE seen[p] = 0 /\ p \in Daemon /\ AutoInstall ->
                Calls(p, again \o <<Scripts(InstallScripts)>>)
           [] seen[p] \notin {0, Latest} /\ p \in Daemon /\ AutoUpgrade ->
                Calls(p, again \o <<Upgrade, Execute(Version, 0)>>)
           [] seen[p] = Latest -> Goes(p, Under(p))
           [] OTHER -> Raises(p)
  /\ UNCHANGED <<schema, alive, seen, starts, crashes, losses, shaken, trouble>>

\* _db_upgrade has read the version once more.
PlanUpgrade(p) ==
  /\ IsCall(p, "upgrade")
  /\ Goes(p, Under(p) \o <<Scripts(UpgradeScripts(seen[p]))>>)
  /\ UNCHANGED <<schema, alive, seen, starts, crashes, losses, shaken, trouble>>

NextScript(p) ==
  /\ IsCall(p, "scripts")
  /\ LET todo == Top(p).todo
     IN  IF todo = <<>> THEN Goes(p, Under(p))
         ELSE Calls(p, Under(p) \o <<Scripts(Tail(todo)), Execute(Head(todo), 0)>>)
  /\ UNCHANGED <<schema, alive, seen, starts, crashes, losses, shaken, trouble>>

-----------------------------------------------------------------------------
(* _execute                                                                *)

\* A mutation: every failure is followed by one more attempt.
RetryForEver(p) == Calls(p, stack[p] \o <<Connect>>)

\* "abort if we've already tried to reconnect", else reconnect and retry.
Retry(p) ==
  IF Top(p).callno > 0 THEN Raises(p)
  ELSE Calls(p, Under(p) \o <<Execute(Top(p).stmt, 1), Connect>>)

ReadVersion(p) ==
  /\ IsCall(p, "execute") /\ alive[p]
  /\ Top(p).stmt.do = "version"
  /\ seen' = [seen EXCEPT ![p] = schema.version]
  /\ Goes(p, Under(p))
  /\ UNCHANGED <<schema, alive, starts, crashes, losses, shaken, trouble>>

RunScript(p) ==
  /\ IsCall(p, "execute") /\ alive[p]
  /\ IsScript(Top(p).stmt)
  /\ IF CanApply(Top(p).stmt)
     THEN schema' = Applied(Top(p).stmt) /\ Goes(p, Under(p))
     ELSE Retry(p) /\ UNCHANGED schema
  /\ UNCHANGED <<alive, seen, starts, crashes, losses, shaken, trouble>>

\* The connection turns out to be dead.
FindDead(p) ==
  /\ IsCall(p, "execute") /\ ~ alive[p]
  /\ Retry(p)
  /\ UNCHANGED <<schema, alive, seen, starts, crashes, losses, shaken, trouble>>

\* The connection of p is lost during a statement.
Loses(p) ==
  /\ IsCall(p, "execute") /\ alive[p]
  /\ losses < MaxLosses
  /\ losses' = losses + 1
  /\ trouble' = trouble \cup {"loss"}
  /\ shaken' = [shaken EXCEPT ![p] = TRUE]
  /\ alive' = [alive EXCEPT ![p] = FALSE]
  /\ Retry(p)
  /\ UNCHANGED <<seen, starts, crashes>>

\* It is lost before a script was committed, or after.
LoseScript(p) ==
  /\ Loses(p)
  /\ \/ UNCHANGED schema
     \/ IsScript(Top(p).stmt) /\ CanApply(Top(p).stmt) /\ schema' = Applied(Top(p).stmt)

-----------------------------------------------------------------------------
(* Processes.                                                              *)

\* A daemon is started, or a worker once its daemon has got through.
Start(p) ==
  /\ status[p] \in {"down", "failed"}
  /\ starts < MaxStarts
  /\ p \in Worker => \E d \in Daemon : status[d] = "up"
  /\ starts' = starts + 1
  /\ stack' = [stack EXCEPT ![p] = <<Connect>>]
  /\ status' = [status EXCEPT ![p] = "starting"]
  /\ alive' = [alive EXCEPT ![p] = FALSE]
  /\ seen' = [seen EXCEPT ![p] = 0]
  /\ LET busy == {d \in Daemon : status[d] = "starting"}
     IN  /\ trouble' = IF p \in Daemon /\ busy # {} THEN trouble \cup {"overlap"} ELSE trouble
         /\ shaken' = [q \in Process |->
              IF q = p THEN p \in Daemon /\ busy # {}
              ELSE shaken[q] \/ (p \in Daemon /\ q \in busy)]
  /\ UNCHANGED <<schema, crashes, losses>>

Crash(p) ==
  /\ status[p] \in {"starting", "up"}
  /\ crashes < MaxCrashes
  /\ crashes' = crashes + 1
  /\ trouble' = trouble \cup {"crash"}
  /\ stack' = [stack EXCEPT ![p] = <<>>]
  /\ status' = [status EXCEPT ![p] = "down"]
  /\ alive' = [alive EXCEPT ![p] = FALSE]
  /\ UNCHANGED <<schema, seen, starts, losses, shaken>>

ConnInit ==
  /\ schema \in FirstSchemas
  /\ stack = [p \in Process |-> <<>>]
  /\ status = [p \in Process |-> "down"]
  /\ alive = [p \in Process |-> FALSE]
  /\ seen = [p \in Process |-> 0]
  /\ starts \in 0 .. MaxStarts
  /\ crashes \in 0 .. MaxCrashes
  /\ losses \in 0 .. MaxLosses
  /\ shaken = [p \in Process |-> FALSE]
  /\ trouble = {}

\* What a process does by itself, without what goes wrong.
Proceed(p) ==
  \/ Open(p) \/ Check(p) \/ PlanUpgrade(p) \/ NextScript(p)
  \/ ReadVersion(p) \/ RunScript(p) \/ FindDead(p)

-----------------------------------------------------------------------------
(* Properties.                                                             *)

Complete == /\ schema.tables = Latest
            /\ schema.functions = "new"
            /\ schema.triggers = "new"

\* The version in the comment of the database never promises tables that are not
\* there, ...
VersionPromisesTables == schema.version <= schema.tables

\* ... and it falls behind them only when a script was repeated after its answer was
\* lost, or by a second daemon.
VersionIsHonest ==
  /\ VersionPromisesTables
  /\ schema.version < schema.tables => trouble \cap {"loss", "overlap"} # {}

\* A process that is connected finds the tables of the version it was written for,
\* whatever crashes, is lost or runs at the same time; ...
ConnectedFindsTables == \A p \in Process : status[p] = "up" => schema.tables = Latest

\* ... functions and triggers as well as long as nothing has crashed or been lost and
\* no two daemons were started at the same time.
ConnectedFindsSchema ==
  /\ ConnectedFindsTables
  /\ (\E p \in Process : status[p] = "up") /\ trouble = {} => Complete

\* Whatever earlier starts left behind when they crashed, a start that may install
\* and upgrade gets through, unless its own connection is lost, another daemon
\* starts as well, the version has fallen behind, or hstore is missing from a
\* database that is not empty.
StartsSucceed ==
  \A d \in Daemon :
    AutoInstall /\ AutoUpgrade /\ status[d] = "failed" /\ ~ shaken[d] =>
      \/ schema.version < schema.tables
      \/ ~ schema.hstore /\ schema.tables > 0

\* Starts come to an end: whenever processes are starting, there comes a time when none
\* of them is.
StartsEnd ==
  (\E p \in Process : status[p] = "starting")
    ~> (\A p \in Process : status[p] # "starting")

\* backend.py:781: "if we reach this we should be fine and done".  It does not hold:
\* a crash behind the script with the tables leaves out the functions and triggers.
FineWhenDone ==
  \A p \in Process : status[p] = "up" => Complete

=============================================================================
