----------------------------- MODULE BackendProofs -----------------------------
(***************************************************************************)
(* For any number of daemons and workers, versions, requests, crashes and  *)
(* lost connections: what a process that is connected finds, what the      *)
(* version of the schema promises, and why a start gets through; then what *)
(* the audit log of a request says of what the request did.  The invariant *)
(* LogInv says of every frame of a worker's stack what has been done and   *)
(* what is left to do at each stage of its operation.                      *)
(***************************************************************************)
EXTENDS Backend, SequenceTheorems, TLAPS

-----------------------------------------------------------------------------
(* Stacks of calls.                                                        *)

IsSequence(s) == \E S : s \in Seq(S)

LEMMA Joins ==
  ASSUME NEW s, NEW t, IsSequence(s), IsSequence(t)
  PROVE  /\ IsSequence(s \o t)
         /\ Len(s) \in Nat /\ Len(t) \in Nat /\ Len(s \o t) = Len(s) + Len(t)
         /\ \A i \in 1 .. Len(s) : (s \o t)[i] = s[i]
         /\ \A i \in 1 .. Len(t) : (s \o t)[Len(s) + i] = t[i]
<1>1. PICK S : s \in Seq(S)
  BY DEF IsSequence
<1>2. PICK T : t \in Seq(T)
  BY DEF IsSequence
<1>3. s \in Seq(S \cup T) /\ t \in Seq(S \cup T)
  BY <1>1, <1>2
<1>4. s \o t \in Seq(S \cup T)
  BY <1>3
<1> QED
  BY <1>3, <1>4 DEF IsSequence

LEMMA LastAndFront ==
  ASSUME NEW s, IsSequence(s), s # <<>>
  PROVE  /\ IsSequence(Front(s)) /\ Len(s) \in Nat \ {0} /\ Len(Front(s)) = Len(s) - 1
         /\ \A i \in 1 .. Len(s) - 1 : Front(s)[i] = s[i]
         /\ Last(s) = s[Len(s)]
<1>1. PICK S : s \in Seq(S)
  BY DEF IsSequence
<1> DEFINE n == Len(s)
<1>2. n \in Nat \ {0} /\ \A i \in 1 .. n : s[i] \in S
  BY <1>1
<1>3. /\ Front(s) \in Seq(S)
      /\ Len(Front(s)) = IF 1 <= n - 1 THEN n - 1 - 1 + 1 ELSE 0
      /\ \A i \in 1 .. n - 1 - 1 + 1 : Front(s)[i] = s[1 + i - 1]
  BY <1>1, <1>2, SubSeqProperties DEF Front
<1> HIDE DEF n
<1>4. Len(Front(s)) = n - 1 /\ \A i \in 1 .. n - 1 : Front(s)[i] = s[i]
  BY <1>2, <1>3
<1>5. IsSequence(Front(s))
  BY <1>3 DEF IsSequence
<1> QED
  BY <1>2, <1>4, <1>5 DEF Last, n

LEMMA Lists ==
  /\ IsSequence(<<>>) /\ Len(<<>>) = 0
  /\ \A a : IsSequence(<<a>>) /\ Len(<<a>>) = 1 /\ <<a>>[1] = a /\ <<a>> # <<>>
  /\ \A a, b : /\ IsSequence(<<a, b>>) /\ Len(<<a, b>>) = 2
               /\ <<a, b>>[1] = a /\ <<a, b>>[2] = b /\ <<a, b>> # <<>>
<1>1. \A a, b : <<>> \in Seq({a, b}) /\ <<a>> \in Seq({a, b}) /\ <<a, b>> \in Seq({a, b})
  OBVIOUS
<1> QED
  BY <1>1 DEF IsSequence

LEMMA AppendJoins ==
  ASSUME NEW s, IsSequence(s), NEW x
  PROVE  Append(s, x) = s \o <<x>> /\ Append(s, x) # <<>> /\ Last(Append(s, x)) = x
<1>1. PICK S : s \in Seq(S)
  BY DEF IsSequence
<1>2. s \in Seq(S \cup {x}) /\ x \in S \cup {x}
  BY <1>1
<1>3. Append(s, x) = s \o <<x>>
  BY <1>2, AppendIsConcat
<1>4. /\ Append(s, x) \in Seq(S \cup {x}) /\ Len(Append(s, x)) = Len(s) + 1 /\ Len(s) \in Nat
      /\ Append(s, x)[Len(s) + 1] = x
  BY <1>2
<1>5. Append(s, x) # <<>>
  BY <1>4, Lists
<1> QED
  BY <1>3, <1>4, <1>5 DEF Last

-----------------------------------------------------------------------------
(* What is on a stack.                                                     *)

Data == {"get_pool", "resolve", "list", "insert", "fetch", "update", "delete", "log"}
Script == {Tables, Functions, Triggers} \cup {Migration(from) : from \in 0 .. Latest - 1}

StatementOK(s) == s.do \in Data \cup {"logs", "removals"} \/ (s.do = "call" /\ s.q.op \in Operations)
ProgramOK(todo) == IsSequence(todo) /\ \A i \in 1 .. Len(todo) : StatementOK(todo[i])

\* A daemon only connects, installs and upgrades; only a worker that is up serves requests.
Sound(p, s, f) ==
  \/ f.call = "connect"
  \/ f.call = "execute" /\ f.stmt = Version
  \/ /\ p \in Daemon
     /\ \/ f.call = "upgrade"
        \/ f.call = "execute" /\ f.stmt \in Script
        \/ f.call = "scripts" /\ f.todo \in Seq(Script)
  \/ /\ p \notin Daemon /\ s # "starting"
     /\ \/ f.call = "request" /\ ProgramOK(f.todo)
        \/ f.call = "execute" /\ f.stmt.do \in Data

Sounds(p, s, calls) == IsSequence(calls) /\ \A i \in 1 .. Len(calls) : Sound(p, s, calls[i])

IsStatement(f) == f.call = "execute" /\ f.stmt.do \in Data

\* A statement of an operation lies right on the operation.
Rests(calls) ==
  \A i \in 1 .. Len(calls) : IsStatement(calls[i]) => i > 1 /\ calls[i - 1].call = "request"

OnRequest(below, top) ==
  \A i \in 1 .. Len(top) :
    IsStatement(top[i]) => i = 1 /\ below # <<>> /\ Last(below).call = "request"

LEMMA ProgramJoins ==
  ASSUME NEW s, NEW t, ProgramOK(s), ProgramOK(t)
  PROVE  ProgramOK(s \o t)
<1>1. /\ IsSequence(s \o t) /\ Len(s) \in Nat /\ Len(t) \in Nat /\ Len(s \o t) = Len(s) + Len(t)
      /\ \A i \in 1 .. Len(s) : (s \o t)[i] = s[i]
      /\ \A i \in 1 .. Len(t) : (s \o t)[Len(s) + i] = t[i]
  BY Joins DEF ProgramOK
<1>2. ASSUME NEW i \in 1 .. Len(s \o t) PROVE StatementOK((s \o t)[i])
  <2>1. CASE i <= Len(s)
    <3>1. i \in 1 .. Len(s)
      BY <1>1, <2>1
    <3> QED
      BY <1>1, <3>1 DEF ProgramOK
  <2>2. CASE i > Len(s)
    <3>1. i - Len(s) \in 1 .. Len(t) /\ i = Len(s) + (i - Len(s))
      BY <1>1, <2>2
    <3>2. (s \o t)[i] = t[i - Len(s)]
      BY <1>1, <3>1
    <3> QED
      BY <3>1, <3>2 DEF ProgramOK
  <2> QED
    BY <1>1, <2>1, <2>2
<1> QED
  BY <1>1, <1>2 DEF ProgramOK

LEMMA ProgramOfOne ==
  /\ ProgramOK(<<>>)
  /\ \A s : StatementOK(s) => ProgramOK(<<s>>)
  /\ \A s, t : StatementOK(s) /\ StatementOK(t) => ProgramOK(<<s, t>>)
<1>1. ProgramOK(<<>>)
  BY Lists DEF ProgramOK
<1>2. ASSUME NEW s, StatementOK(s) PROVE ProgramOK(<<s>>)
  BY <1>2, Lists DEF ProgramOK
<1>3. ASSUME NEW s, NEW t, StatementOK(s), StatementOK(t) PROVE ProgramOK(<<s, t>>)
  <2>1. IsSequence(<<s, t>>) /\ Len(<<s, t>>) = 2 /\ <<s, t>>[1] = s /\ <<s, t>>[2] = t
    BY Lists
  <2> QED
    BY <1>3, <2>1 DEF ProgramOK
<1> QED
  BY <1>1, <1>2, <1>3

LEMMA ProgramTail ==
  ASSUME NEW s, ProgramOK(s), s # <<>>
  PROVE  ProgramOK(Tail(s)) /\ StatementOK(Head(s))
<1>1. PICK S : s \in Seq(S)
  BY DEF ProgramOK, IsSequence
<1>2. /\ Tail(s) \in Seq(S) /\ Len(Tail(s)) = Len(s) - 1 /\ Len(s) \in Nat \ {0}
      /\ \A i \in 1 .. Len(s) - 1 : Tail(s)[i] = s[i + 1]
      /\ Head(s) = s[1]
  BY <1>1
<1>3. \A i \in 1 .. Len(s) - 1 : i + 1 \in 1 .. Len(s)
  BY <1>2
<1> QED
  BY <1>2, <1>3 DEF ProgramOK, IsSequence

LEMMA SoundFront ==
  ASSUME NEW p, NEW s, NEW calls, Sounds(p, s, calls), calls # <<>>
  PROVE  /\ Sounds(p, s, Front(calls)) /\ Sound(p, s, Last(calls))
         /\ Front(calls) # <<>> => Front(calls)[1] = calls[1]
         /\ Front(calls) = <<>> => Last(calls) = calls[1]
<1>1. /\ IsSequence(Front(calls)) /\ Len(calls) \in Nat \ {0}
      /\ Len(Front(calls)) = Len(calls) - 1
      /\ \A i \in 1 .. Len(calls) - 1 : Front(calls)[i] = calls[i]
      /\ Last(calls) = calls[Len(calls)]
  BY LastAndFront DEF Sounds
<1>2. Front(calls) = <<>> => Len(calls) = 1
  BY <1>1, Lists
<1>3. Front(calls) # <<>> => 1 \in 1 .. Len(calls) - 1
  <2>1. PICK S : Front(calls) \in Seq(S)
    BY <1>1 DEF IsSequence
  <2>2. Front(calls) # <<>> => Len(Front(calls)) # 0
    BY <2>1
  <2> QED
    BY <1>1, <2>2
<1> QED
  BY <1>1, <1>2, <1>3 DEF Sounds

LEMMA SoundJoins ==
  ASSUME NEW p, NEW s, NEW below, NEW top, Sounds(p, s, below), Sounds(p, s, top)
  PROVE  /\ Sounds(p, s, below \o top)
         /\ top # <<>> => below \o top # <<>>
         /\ below # <<>> => below \o top # <<>>
         /\ below # <<>> => (below \o top)[1] = below[1]
         /\ below = <<>> => below \o top = top
<1>1. /\ IsSequence(below \o top) /\ Len(below) \in Nat /\ Len(top) \in Nat
      /\ Len(below \o top) = Len(below) + Len(top)
      /\ \A i \in 1 .. Len(below) : (below \o top)[i] = below[i]
      /\ \A i \in 1 .. Len(top) : (below \o top)[Len(below) + i] = top[i]
  BY Joins DEF Sounds
<1>2. ASSUME NEW i \in 1 .. Len(below \o top) PROVE Sound(p, s, (below \o top)[i])
  <2>1. CASE i <= Len(below)
    <3>1. i \in 1 .. Len(below)
      BY <1>1, <2>1
    <3> QED
      BY <1>1, <3>1 DEF Sounds
  <2>2. CASE i > Len(below)
    <3>1. i - Len(below) \in 1 .. Len(top) /\ i = Len(below) + (i - Len(below))
      BY <1>1, <2>2
    <3>2. (below \o top)[i] = top[i - Len(below)]
      BY <1>1, <3>1
    <3> QED
      BY <3>1, <3>2 DEF Sounds
  <2> QED
    BY <1>1, <2>1, <2>2
<1>3. PICK S : below \in Seq(S)
  BY DEF Sounds, IsSequence
<1>4. PICK T : top \in Seq(T)
  BY DEF Sounds, IsSequence
<1>5. below # <<>> => Len(below) > 0 /\ 1 \in 1 .. Len(below)
  BY <1>3
<1>6. top # <<>> => Len(top) > 0
  BY <1>4
<1>7. below \o top = <<>> => Len(below \o top) = 0
  BY Lists
<1>8. below = <<>> => below \o top = top
  BY <1>4
<1> QED
  BY <1>1, <1>2, <1>5, <1>6, <1>7, <1>8 DEF Sounds

LEMMA CallsAre ==
  /\ Connect.call = "connect" /\ Connect.at = "open"
  /\ Checking.call = "connect" /\ Checking.at = "check"
  /\ Upgrade.call = "upgrade"
  /\ \A stmt, callno : /\ Execute(stmt, callno).call = "execute"
                       /\ Execute(stmt, callno).stmt = stmt /\ Execute(stmt, callno).callno = callno
  /\ \A todo : Scripts(todo).call = "scripts" /\ Scripts(todo).todo = todo
BY DEF Connect, Checking, Upgrade, Execute, Scripts

LEMMA ScriptsAre ==
  /\ Version.do = "version" /\ Version.do \notin Data
  /\ \A script \in Script : IsScript(script) /\ script.do \notin Data /\ script # Version
  /\ \A stmt : IsScript(stmt) => stmt # Version /\ stmt.do \notin Data
  /\ \A stmt : IsData(stmt) <=> stmt.do \in Data
BY DEF Version, Script, Tables, Functions, Triggers, Migration, IsScript, Data, IsData

LEMMA RestsFront ==
  ASSUME NEW calls, IsSequence(calls), calls # <<>>, Rests(calls)
  PROVE  /\ Rests(Front(calls))
         /\ IsStatement(Last(calls)) => Front(calls) # <<>> /\ Last(Front(calls)).call = "request"
<1>1. /\ IsSequence(Front(calls)) /\ Len(calls) \in Nat \ {0} /\ Len(Front(calls)) = Len(calls) - 1
      /\ \A i \in 1 .. Len(calls) - 1 : Front(calls)[i] = calls[i]
      /\ Last(calls) = calls[Len(calls)]
  BY LastAndFront
<1>2. Rests(Front(calls))
  <2>1. ASSUME NEW i \in 1 .. Len(calls) - 1, IsStatement(calls[i])
        PROVE  i > 1 /\ Front(calls)[i - 1].call = "request"
    <3>1. i \in 1 .. Len(calls)
      BY <1>1
    <3>2. i > 1 /\ calls[i - 1].call = "request"
      BY <2>1, <3>1 DEF Rests
    <3>3. i - 1 \in 1 .. Len(calls) - 1
      BY <1>1, <3>2
    <3> QED
      BY <1>1, <3>2, <3>3
  <2> QED
    BY <1>1, <2>1 DEF Rests
<1>3. ASSUME IsStatement(Last(calls))
      PROVE  Front(calls) # <<>> /\ Last(Front(calls)).call = "request"
  <2>1. Len(calls) > 1 /\ calls[Len(calls) - 1].call = "request"
    BY <1>1, <1>3 DEF Rests
  <2>2. Front(calls) # <<>>
    BY <1>1, <2>1, Lists
  <2>3. Last(Front(calls)) = Front(calls)[Len(calls) - 1]
    BY <1>1 DEF Last
  <2>4. Len(calls) - 1 \in 1 .. Len(calls) - 1
    BY <1>1, <2>1
  <2> QED
    BY <1>1, <2>1, <2>2, <2>3, <2>4
<1> QED
  BY <1>2, <1>3

LEMMA RestsJoins ==
  ASSUME NEW below, NEW top, IsSequence(below), IsSequence(top),
         Rests(below), OnRequest(below, top)
  PROVE  Rests(below \o top)
<1>1. /\ Len(below) \in Nat /\ Len(top) \in Nat
      /\ Len(below \o top) = Len(below) + Len(top)
      /\ \A i \in 1 .. Len(below) : (below \o top)[i] = below[i]
      /\ \A i \in 1 .. Len(top) : (below \o top)[Len(below) + i] = top[i]
  BY Joins
<1>2. below # <<>> => Len(below) > 0 /\ Last(below) = below[Len(below)]
  BY LastAndFront
<1> DEFINE s == below \o top
<1> HIDE DEF s
<1>3. ASSUME NEW i \in 1 .. Len(s), IsStatement(s[i])
      PROVE  i > 1 /\ s[i - 1].call = "request"
  <2>1. CASE i <= Len(below)
    <3>1. i \in 1 .. Len(below) /\ s[i] = below[i]
      BY <1>1, <2>1 DEF s
    <3>2. i > 1 /\ below[i - 1].call = "request"
      BY <1>3, <3>1 DEF Rests
    <3>3. i - 1 \in 1 .. Len(below)
      BY <1>1, <3>1, <3>2
    <3> QED
      BY <1>1, <3>2, <3>3 DEF s
  <2>2. CASE i > Len(below)
    <3>1. i - Len(below) \in 1 .. Len(top) /\ i = Len(below) + (i - Len(below))
      BY <1>1, <2>2 DEF s
    <3>2. s[i] = top[i - Len(below)]
      BY <1>1, <3>1 DEF s
    <3>3. i - Len(below) = 1 /\ below # <<>> /\ Last(below).call = "request"
      BY <1>3, <3>1, <3>2 DEF OnRequest
    <3>4. i - 1 = Len(below) /\ i - 1 \in 1 .. Len(below)
      BY <1>1, <1>2, <3>3
    <3> QED
      BY <1>1, <1>2, <3>3, <3>4 DEF s
  <2> QED
    BY <1>1, <2>1, <2>2 DEF s
<1> QED
  BY <1>3 DEF Rests, s

\* Without statements nothing has to rest on anything.
LEMMA NothingRests ==
  ASSUME NEW top, \A i \in 1 .. Len(top) : ~ IsStatement(top[i])
  PROVE  Rests(top) /\ \A below : OnRequest(below, top)
BY DEF Rests, OnRequest

LEMMA NoneRests == Rests(<<>>)
<1>1. \A i \in 1 .. Len(<<>>) : FALSE
  BY Lists
<1> QED
  BY <1>1 DEF Rests

LEMMA StartsRest ==
  ASSUME NEW p, NEW s, NEW calls, Sounds(p, s, calls), p \in Daemon \/ s = "starting"
  PROVE  \A i \in 1 .. Len(calls) : ~ IsStatement(calls[i])
BY ScriptsAre DEF Sounds, Sound, IsStatement

LEMMA OnTop ==
  ASSUME NEW below
  PROVE  /\ \A f : ~ IsStatement(f) => OnRequest(below, <<f>>)
         /\ \A f : below # <<>> /\ Last(below).call = "request" => OnRequest(below, <<f>>)
         /\ \A f, g : ~ IsStatement(f) /\ ~ IsStatement(g) => OnRequest(below, <<f, g>>)
         /\ \A f, g : below # <<>> /\ Last(below).call = "request" /\ ~ IsStatement(g) =>
              OnRequest(below, <<f, g>>)
<1>1. \A f, g : /\ Len(<<f>>) = 1 /\ <<f>>[1] = f
               /\ Len(<<f, g>>) = 2 /\ <<f, g>>[1] = f /\ <<f, g>>[2] = g
  BY Lists
<1>2. \A i \in 1 .. 1 : i = 1
  OBVIOUS
<1>3. \A i \in 1 .. 2 : i = 1 \/ i = 2
  OBVIOUS
<1> QED
  BY <1>1, <1>2, <1>3 DEF OnRequest

LEMMA NoStatements ==
  /\ ~ IsStatement(Connect) /\ ~ IsStatement(Checking) /\ ~ IsStatement(Upgrade)
  /\ \A callno : ~ IsStatement(Execute(Version, callno))
  /\ \A script \in Script : ~ IsStatement(Execute(script, 0))
  /\ \A todo : ~ IsStatement(Scripts(todo))
BY CallsAre, ScriptsAre DEF IsStatement

LEMMA SoundOfOne ==
  ASSUME NEW p, NEW s
  PROVE  /\ Sounds(p, s, <<>>)
         /\ \A f : Sound(p, s, f) => Sounds(p, s, <<f>>) /\ <<f>> # <<>> /\ <<f>>[1] = f
         /\ \A f, g : Sound(p, s, f) /\ Sound(p, s, g) =>
              Sounds(p, s, <<f, g>>) /\ <<f, g>> # <<>> /\ <<f, g>>[1] = f
<1>1. Sounds(p, s, <<>>)
  BY Lists DEF Sounds
<1>2. ASSUME NEW f, Sound(p, s, f)
      PROVE  Sounds(p, s, <<f>>) /\ <<f>> # <<>> /\ <<f>>[1] = f
  BY <1>2, Lists DEF Sounds
<1>3. ASSUME NEW f, NEW g, Sound(p, s, f), Sound(p, s, g)
      PROVE  Sounds(p, s, <<f, g>>) /\ <<f, g>> # <<>> /\ <<f, g>>[1] = f
  <2>1. IsSequence(<<f, g>>) /\ Len(<<f, g>>) = 2 /\ <<f, g>>[1] = f /\ <<f, g>>[2] = g
        /\ Len(<<>>) = 0
    BY Lists
  <2> QED
    BY <1>3, <2>1 DEF Sounds
<1> QED
  BY <1>1, <1>2, <1>3

-----------------------------------------------------------------------------
(* The schema and the stacks.                                              *)

\* The first call of every start is _connect_db, and only a start occupies a daemon.
StacksOK ==
  /\ stack = [p \in Process |-> stack[p]]
  /\ \A p \in Process : Sounds(p, status[p], stack[p]) /\ Rests(stack[p])
  /\ \A p \in Process : status[p] = "starting" => stack[p] # <<>> /\ stack[p][1].call = "connect"
  /\ \A d \in Daemon : status[d] # "starting" => stack[d] = <<>>

SchemaOK == schema \in Schema /\ VersionPromisesTables

\* A process has read what the tables were, or less.
SeenOK ==
  /\ seen \in [Process -> 0 .. Latest]
  /\ \A p \in Process : seen[p] <= schema.tables

FlagsOK == alive \in [Process -> BOOLEAN] /\ shaken \in [Process -> BOOLEAN]
StatusOK == status \in [Process -> {"down", "starting", "up", "failed"}]

ConnInv == StacksOK /\ SchemaOK /\ SeenOK /\ FlagsOK /\ StatusOK /\ ConnectedFindsTables

\* What is on top and what lies under it.
LEMMA TopIs ==
  ASSUME StacksOK, NEW p \in Process, stack[p] # <<>>
  PROVE  /\ Sounds(p, status[p], Under(p)) /\ Sound(p, status[p], Top(p)) /\ Rests(Under(p))
         /\ IsStatement(Top(p)) => Under(p) # <<>> /\ Last(Under(p)).call = "request"
         /\ status[p] = "starting" =>
              IF Under(p) = <<>> THEN Top(p).call = "connect" ELSE Under(p)[1].call = "connect"
         /\ p \in Daemon => status[p] = "starting"
<1>1. Sounds(p, status[p], stack[p]) /\ Rests(stack[p]) /\ IsSequence(stack[p])
  BY DEF StacksOK, Sounds
<1> QED
  <2>1. /\ Sounds(p, status[p], Under(p)) /\ Sound(p, status[p], Top(p))
        /\ Under(p) # <<>> => Under(p)[1] = stack[p][1]
        /\ Under(p) = <<>> => Top(p) = stack[p][1]
    BY <1>1, SoundFront DEF Under, Top
  <2>2. /\ Rests(Under(p))
        /\ IsStatement(Top(p)) => Under(p) # <<>> /\ Last(Under(p)).call = "request"
    BY <1>1, RestsFront DEF Under, Top
  <2> QED
    BY <2>1, <2>2 DEF StacksOK

\* The tables only move forward, and what was read stays a lower bound.
Forward ==
  /\ SchemaOK'
  /\ schema.tables <= schema'.tables
  /\ seen' \in [Process -> 0 .. Latest]
  /\ \A p \in Process : seen'[p] <= schema'.tables
  /\ FlagsOK'

LEMMA ForwardOK ==
  ASSUME ConnInv, FlagsOK', UNCHANGED <<schema, seen>>
  PROVE  Forward
BY ConnectionAssumption DEF ConnInv, SchemaOK, VersionPromisesTables, Schema, SeenOK, Forward

LEMMA StayReady ==
  ASSUME ConnInv, Forward, NEW p \in Process, status[p] = "up"
  PROVE  schema'.tables = Latest
<1>1. schema.tables = Latest /\ schema'.tables \in 0 .. Latest /\ schema.tables <= schema'.tables
  BY DEF ConnInv, ConnectedFindsTables, Forward, SchemaOK, Schema
<1> QED
  BY <1>1, ConnectionAssumption

\* A process goes on with other calls; a start is done only when the tables are there.
LEMMA GoesOn ==
  ASSUME ConnInv, Forward, NEW p \in Process, stack[p] # <<>>,
         NEW calls, Sounds(p, status[p], calls), Rests(calls),
         status[p] = "starting" =>
           IF calls = <<>> THEN schema'.tables = Latest ELSE calls[1].call = "connect",
         Goes(p, calls)
  PROVE  ConnInv'
<1>1. /\ stack' = [stack EXCEPT ![p] = calls]
      /\ status' = [status EXCEPT ![p] =
           IF calls = <<>> /\ status[p] = "starting" THEN "up" ELSE status[p]]
  BY DEF Goes
<1>2. /\ stack = [q \in Process |-> stack[q]]
      /\ status \in [Process -> {"down", "starting", "up", "failed"}]
      /\ \A q \in Process : Sounds(q, status[q], stack[q]) /\ Rests(stack[q])
      /\ \A q \in Process : status[q] = "starting" => stack[q] # <<>> /\ stack[q][1].call = "connect"
      /\ \A d \in Daemon : status[d] # "starting" => stack[d] = <<>>
  BY DEF ConnInv, StacksOK, StatusOK
<1>3. /\ stack' = [q \in Process |-> IF q = p THEN calls ELSE stack[q]]
      /\ status' = [q \in Process |->
           IF q = p THEN IF calls = <<>> /\ status[p] = "starting" THEN "up" ELSE status[p]
                    ELSE status[q]]
  BY <1>1, <1>2
<1>4. \A q \in Process : /\ stack'[q] = IF q = p THEN calls ELSE stack[q]
                         /\ q # p => status'[q] = status[q]
      /\ status'[p] = IF calls = <<>> /\ status[p] = "starting" THEN "up" ELSE status[p]
  BY <1>3
<1>5. stack' = [q \in Process |-> stack'[q]]
  BY <1>3
<1>6. \A q \in Process : Sounds(q, status'[q], stack'[q]) /\ Rests(stack'[q])
  <2>1. Sounds(p, "up", <<>>) /\ Rests(<<>>)
    BY SoundOfOne, NoneRests
  <2>2. Sounds(p, status'[p], stack'[p])
    BY <1>4, <2>1
  <2> QED
    BY <1>2, <1>4, <2>2
<1>7. \A q \in Process : status'[q] = "starting" => stack'[q] # <<>> /\ stack'[q][1].call = "connect"
  BY <1>2, <1>4
<1>8. \A d \in Daemon : status'[d] # "starting" => stack'[d] = <<>>
  BY <1>2, <1>4 DEF Process
<1>9. StacksOK'
  BY <1>5, <1>6, <1>7, <1>8 DEF StacksOK
<1>10. StatusOK'
  BY <1>2, <1>3 DEF StatusOK
<1>11. ConnectedFindsTables'
  BY <1>2, <1>4, StayReady DEF ConnectedFindsTables
<1> QED
  BY <1>9, <1>10, <1>11 DEF ConnInv, Forward, SeenOK

LEMMA Raised ==
  ASSUME ConnInv, Forward, NEW p \in Process, stack[p] # <<>>, Raises(p)
  PROVE  ConnInv'
<1>1. /\ stack' = [stack EXCEPT ![p] = <<>>]
      /\ status' = [status EXCEPT ![p] = IF status[p] = "starting" THEN "failed" ELSE status[p]]
  BY DEF Raises
<1>2. /\ stack = [q \in Process |-> stack[q]]
      /\ status \in [Process -> {"down", "starting", "up", "failed"}]
      /\ \A q \in Process : Sounds(q, status[q], stack[q]) /\ Rests(stack[q])
      /\ \A q \in Process : status[q] = "starting" => stack[q] # <<>> /\ stack[q][1].call = "connect"
      /\ \A d \in Daemon : status[d] # "starting" => stack[d] = <<>>
  BY DEF ConnInv, StacksOK, StatusOK
<1>3. /\ stack' = [q \in Process |-> IF q = p THEN <<>> ELSE stack[q]]
      /\ status' = [q \in Process |->
           IF q = p THEN IF status[p] = "starting" THEN "failed" ELSE status[p] ELSE status[q]]
  BY <1>1, <1>2
<1>4. \A q \in Process : /\ stack'[q] = IF q = p THEN <<>> ELSE stack[q]
                         /\ q # p => status'[q] = status[q]
      /\ status'[p] = IF status[p] = "starting" THEN "failed" ELSE status[p]
  BY <1>3
<1>5. stack' = [q \in Process |-> stack'[q]]
  BY <1>3
<1>6. \A q \in Process : Sounds(q, status'[q], stack'[q]) /\ Rests(stack'[q])
  <2>1. Sounds(p, status'[p], <<>>) /\ Rests(<<>>)
    BY SoundOfOne, NoneRests
  <2> QED
    BY <1>2, <1>4, <2>1
<1>7. \A q \in Process : status'[q] = "starting" => stack'[q] # <<>> /\ stack'[q][1].call = "connect"
  BY <1>2, <1>4
<1>8. \A d \in Daemon : status'[d] # "starting" => stack'[d] = <<>>
  BY <1>2, <1>4 DEF Process
<1>9. StacksOK'
  BY <1>5, <1>6, <1>7, <1>8 DEF StacksOK
<1>10. StatusOK'
  BY <1>2, <1>3 DEF StatusOK
<1>11. ConnectedFindsTables'
  BY <1>2, <1>4, StayReady DEF ConnectedFindsTables
<1> QED
  BY <1>9, <1>10, <1>11 DEF ConnInv, Forward, SeenOK

\* Calls are put on those underneath.
LEMMA PutsOn ==
  ASSUME ConnInv, Forward, NEW p \in Process, stack[p] # <<>>,
         NEW below, Sounds(p, status[p], below), Rests(below),
         NEW top, Sounds(p, status[p], top), top # <<>>, OnRequest(below, top),
         status[p] = "starting" =>
           IF below = <<>> THEN top[1].call = "connect" ELSE below[1].call = "connect",
         Goes(p, below \o top) \/ Calls(p, below \o top)
  PROVE  ConnInv'
<1>1. /\ Sounds(p, status[p], below \o top) /\ below \o top # <<>>
      /\ status[p] = "starting" => (below \o top)[1].call = "connect"
      /\ Rests(below \o top)
  <2>1. Rests(below \o top)
    BY RestsJoins DEF Sounds
  <2> QED
    BY <2>1, SoundJoins
<1>2. Goes(p, below \o top) \/ Raises(p)
  BY DEF Calls
<1> QED
  BY <1>1, <1>2, GoesOn, Raised

\* A call returns to the one underneath, which a start is never without.
LEMMA ReturnsTo ==
  ASSUME ConnInv, Forward, NEW p \in Process, stack[p] # <<>>, Top(p).call # "connect",
         Goes(p, Under(p))
  PROVE  ConnInv'
<1>1. /\ Sounds(p, status[p], Under(p)) /\ Rests(Under(p))
      /\ status[p] = "starting" => Under(p) # <<>> /\ Under(p)[1].call = "connect"
  BY TopIs DEF ConnInv
<1> QED
  BY <1>1, GoesOn

LEMMA Retries ==
  ASSUME ConnInv, Forward, NEW p \in Process, IsCall(p, "execute"), Retry(p)
  PROVE  ConnInv'
<1>1. stack[p] # <<>> /\ Top(p).call = "execute" /\ StacksOK
  BY DEF IsCall, Top, ConnInv
<1> DEFINE top == <<Execute(Top(p).stmt, 1), Connect>>
<1>2. /\ Sounds(p, status[p], Under(p)) /\ Sound(p, status[p], Top(p)) /\ Rests(Under(p))
      /\ status[p] = "starting" => Under(p) # <<>> /\ Under(p)[1].call = "connect"
      /\ IsStatement(Top(p)) => Under(p) # <<>> /\ Last(Under(p)).call = "request"
  BY <1>1, TopIs
<1>5. OnRequest(Under(p), top)
  <2>1. IsStatement(Execute(Top(p).stmt, 1)) <=> IsStatement(Top(p))
    BY <1>1, CallsAre DEF IsStatement
  <2> QED
    BY <1>2, <2>1, OnTop, NoStatements
<1>3. Sounds(p, status[p], top) /\ top # <<>>
  <2>1. Sound(p, status[p], Execute(Top(p).stmt, 1))
    BY <1>1, <1>2, CallsAre DEF Sound
  <2>2. Sound(p, status[p], Connect)
    BY CallsAre DEF Sound
  <2> QED
    BY <2>1, <2>2, SoundOfOne
<1>4. Raises(p) \/ Calls(p, Under(p) \o top)
  BY DEF Retry
<1> HIDE DEF top
<1> QED
  BY <1>1, <1>2, <1>3, <1>4, <1>5, Raised, PutsOn

-----------------------------------------------------------------------------
(* The steps of a connection.                                              *)

LEMMA ScriptLists ==
  /\ InstallScripts \in Seq(Script)
  /\ \A from \in 0 .. Latest : UpgradeScripts(from) \in Seq(Script)
<1>1. InstallScripts \in Seq(Script)
  BY DEF InstallScripts, Script
<1>2. ASSUME NEW from \in 0 .. Latest PROVE UpgradeScripts(from) \in Seq(Script)
  <2> DEFINE migrations == [i \in 1 .. Latest - from |-> Migration(from + i - 1)]
  <2>2. \A i \in 1 .. Latest - from : Migration(from + i - 1) \in Script
    <3>1. \A i \in 1 .. Latest - from : from + i - 1 \in 0 .. Latest - 1
      BY <1>2, ConnectionAssumption
    <3> QED
      BY <3>1 DEF Script
  <2>3. migrations \in Seq(Script)
    <3>1. Latest - from \in Nat
      BY <1>2, ConnectionAssumption
    <3>2. migrations \in [1 .. Latest - from -> Script]
      BY <2>2
    <3> HIDE DEF migrations
    <3> QED
      BY <3>1, <3>2
  <2>4. <<Functions>> \in Seq(Script) /\ <<Triggers>> \in Seq(Script)
    BY DEF Script
  <2> HIDE DEF migrations
  <2>5. <<Functions>> \o migrations \o <<Triggers>> \in Seq(Script)
    BY <2>3, <2>4
  <2> QED
    BY <2>5 DEF UpgradeScripts, migrations
<1> QED
  BY <1>1, <1>2

LEMMA OpenOK ==
  ASSUME ConnInv, NEW p \in Process, Open(p) \/ OpenFails(p)
  PROVE  ConnInv'
<1>1. stack[p] # <<>> /\ StacksOK
  BY DEF ConnInv, Open, OpenFails, IsAt, IsCall
<1>2. Forward
  <2>1. FlagsOK'
    BY DEF ConnInv, FlagsOK, Open, OpenFails
  <2> QED
    BY <2>1, ForwardOK DEF Open, OpenFails
<1> DEFINE top == <<Checking, Execute(Version, 0)>>
           install == <<Scripts(InstallScripts)>>
<1>3. \/ Calls(p, Under(p) \o top)
      \/ p \in Daemon /\ Calls(p, stack[p] \o install)
      \/ Raises(p)
  BY DEF Open, OpenFails
<1>4. Sounds(p, status[p], top) /\ top # <<>> /\ top[1].call = "connect"
  <2>1. Sound(p, status[p], Checking) /\ Sound(p, status[p], Execute(Version, 0))
    BY CallsAre DEF Sound
  <2> QED
    BY <2>1, SoundOfOne, CallsAre
<1>5. p \in Daemon => Sounds(p, status[p], install) /\ install # <<>>
  <2>1. p \in Daemon => Sound(p, status[p], Scripts(InstallScripts))
    BY ScriptLists, CallsAre DEF Sound
  <2> QED
    BY <2>1, SoundOfOne
<1>6. /\ Sounds(p, status[p], Under(p)) /\ Sounds(p, status[p], stack[p])
      /\ status[p] = "starting" =>
           /\ stack[p][1].call = "connect"
           /\ Under(p) # <<>> => Under(p)[1].call = "connect"
      /\ Rests(Under(p)) /\ Rests(stack[p])
  BY <1>1, TopIs DEF StacksOK
<1>9. OnRequest(Under(p), top) /\ OnRequest(stack[p], install)
  BY OnTop, NoStatements
<1> HIDE DEF top, install
<1>7. CASE Calls(p, Under(p) \o top)
  BY <1>1, <1>2, <1>4, <1>6, <1>7, <1>9, PutsOn
<1>8. CASE p \in Daemon /\ Calls(p, stack[p] \o install)
  BY <1>1, <1>2, <1>5, <1>6, <1>8, <1>9, PutsOn
<1> QED
  BY <1>1, <1>2, <1>3, <1>7, <1>8, Raised

LEMMA CheckOK ==
  ASSUME ConnInv, NEW p \in Process, Check(p)
  PROVE  ConnInv'
<1>1. stack[p] # <<>> /\ StacksOK
  BY DEF ConnInv, Check, IsAt, IsCall
<1>2. Forward
  <2>1. FlagsOK'
    BY DEF ConnInv, FlagsOK, Check
  <2> QED
    BY <2>1, ForwardOK DEF Check
<1> DEFINE again == Under(p) \o <<Connect>>
           install == <<Scripts(InstallScripts)>>
           upgrade == <<Upgrade, Execute(Version, 0)>>
<1>3. /\ Sounds(p, status[p], Under(p)) /\ Rests(Under(p))
      /\ status[p] = "starting" /\ Under(p) # <<>> => Under(p)[1].call = "connect"
  BY <1>1, TopIs
<1>4. /\ Sounds(p, status[p], again) /\ again # <<>>
      /\ status[p] = "starting" => again[1].call = "connect"
      /\ Rests(again)
  <2>1. Sounds(p, status[p], <<Connect>>) /\ <<Connect>> # <<>> /\ <<Connect>>[1].call = "connect"
    <3>1. Sound(p, status[p], Connect)
      BY CallsAre DEF Sound
    <3> QED
      BY <3>1, SoundOfOne, CallsAre
  <2>2. OnRequest(Under(p), <<Connect>>)
    BY OnTop, NoStatements
  <2>3. Rests(again)
    BY <1>3, <2>1, <2>2, RestsJoins DEF Sounds
  <2> HIDE DEF again
  <2> QED
    BY <1>3, <2>1, <2>3, SoundJoins DEF again
<1>10. OnRequest(again, install) /\ OnRequest(again, upgrade)
  BY OnTop, NoStatements
<1>5. p \in Daemon => /\ Sounds(p, status[p], install) /\ install # <<>>
                      /\ Sounds(p, status[p], upgrade) /\ upgrade # <<>>
  <2>1. p \in Daemon => /\ Sound(p, status[p], Scripts(InstallScripts))
                        /\ Sound(p, status[p], Upgrade) /\ Sound(p, status[p], Execute(Version, 0))
    BY ScriptLists, CallsAre DEF Sound
  <2> QED
    BY <2>1, SoundOfOne
<1>6. \/ p \in Daemon /\ Calls(p, again \o install)
      \/ p \in Daemon /\ Calls(p, again \o upgrade)
      \/ seen[p] = Latest /\ Goes(p, Under(p))
      \/ Raises(p)
  BY DEF Check
<1> HIDE DEF again, install, upgrade
<1>7. CASE seen[p] = Latest /\ Goes(p, Under(p))
  <2>1. schema'.tables = Latest
    BY <1>2, <1>7, ConnectionAssumption DEF ConnInv, SeenOK, Forward, SchemaOK, Schema, Check
  <2> QED
    BY <1>1, <1>2, <1>3, <1>7, <2>1, GoesOn
<1>8. CASE p \in Daemon /\ Calls(p, again \o install)
  BY <1>1, <1>2, <1>4, <1>5, <1>8, <1>10, PutsOn
<1>9. CASE p \in Daemon /\ Calls(p, again \o upgrade)
  BY <1>1, <1>2, <1>4, <1>5, <1>9, <1>10, PutsOn
<1> QED
  BY <1>1, <1>2, <1>6, <1>7, <1>8, <1>9, Raised

LEMMA PlanUpgradeOK ==
  ASSUME ConnInv, NEW p \in Process, PlanUpgrade(p)
  PROVE  ConnInv'
<1>1. stack[p] # <<>> /\ StacksOK /\ Top(p).call = "upgrade"
  BY DEF ConnInv, PlanUpgrade, IsCall, Top
<1>2. Forward
  <2>1. FlagsOK'
    BY DEF ConnInv, FlagsOK, PlanUpgrade
  <2> QED
    BY <2>1, ForwardOK DEF PlanUpgrade
<1>3. /\ Sounds(p, status[p], Under(p)) /\ Rests(Under(p))
      /\ status[p] = "starting" => Under(p) # <<>> /\ Under(p)[1].call = "connect"
  BY <1>1, TopIs
<1> DEFINE top == <<Scripts(UpgradeScripts(seen[p]))>>
<1>4. p \in Daemon
  BY <1>1, TopIs DEF Sound
<1>5. Sounds(p, status[p], top) /\ top # <<>>
  <2>1. UpgradeScripts(seen[p]) \in Seq(Script)
    BY ScriptLists DEF ConnInv, SeenOK
  <2>2. Sound(p, status[p], Scripts(UpgradeScripts(seen[p])))
    BY <1>4, <2>1, CallsAre DEF Sound
  <2> QED
    BY <2>2, SoundOfOne
<1>6. Goes(p, Under(p) \o top) /\ OnRequest(Under(p), top)
  BY OnTop, NoStatements DEF PlanUpgrade
<1> HIDE DEF top
<1> QED
  BY <1>1, <1>2, <1>3, <1>5, <1>6, PutsOn

LEMMA NextScriptOK ==
  ASSUME ConnInv, NEW p \in Process, NextScript(p)
  PROVE  ConnInv'
<1> DEFINE todo == Top(p).todo
           top == <<Scripts(Tail(todo)), Execute(Head(todo), 0)>>
<1>1. stack[p] # <<>> /\ StacksOK /\ Top(p).call = "scripts"
  BY DEF ConnInv, NextScript, IsCall, Top
<1>2. Forward
  <2>1. FlagsOK'
    BY DEF ConnInv, FlagsOK, NextScript
  <2> QED
    BY <2>1, ForwardOK DEF NextScript
<1>3. /\ Sounds(p, status[p], Under(p)) /\ Rests(Under(p))
      /\ status[p] = "starting" => Under(p) # <<>> /\ Under(p)[1].call = "connect"
      /\ p \in Daemon /\ todo \in Seq(Script)
  BY <1>1, TopIs DEF Sound
<1>4. Goes(p, Under(p)) \/ (todo # <<>> /\ Calls(p, Under(p) \o top))
  BY DEF NextScript
<1>5. CASE todo # <<>> /\ Calls(p, Under(p) \o top)
  <2>1. Head(todo) \in Script /\ Tail(todo) \in Seq(Script)
    BY <1>3, <1>5
  <2> HIDE DEF todo
  <2>2. Sound(p, status[p], Scripts(Tail(todo)))
    BY <1>3, <2>1, CallsAre DEF Sound
  <2>4. Sound(p, status[p], Execute(Head(todo), 0))
    <3>1. Execute(Head(todo), 0).call = "execute" /\ Execute(Head(todo), 0).stmt = Head(todo)
      BY CallsAre
    <3> QED
      BY <1>3, <2>1, <3>1 DEF Sound
  <2>3. Sounds(p, status[p], top) /\ top # <<>>
    BY <2>2, <2>4, SoundOfOne
  <2>5. OnRequest(Under(p), top)
    BY <2>1, OnTop, NoStatements
  <2> HIDE DEF top
  <2> QED
    BY <1>1, <1>2, <1>3, <1>5, <2>3, <2>5, PutsOn
<1> QED
  BY <1>1, <1>2, <1>4, <1>5, ReturnsTo

LEMMA ReadVersionOK ==
  ASSUME ConnInv, NEW p \in Process, ReadVersion(p)
  PROVE  ConnInv'
<1>1. stack[p] # <<>> /\ Top(p).call = "execute" /\ Goes(p, Under(p))
  BY DEF ReadVersion, IsCall, Top
<1>2. /\ seen' = [seen EXCEPT ![p] = schema.version] /\ schema' = schema
      /\ seen \in [Process -> 0 .. Latest] /\ \A q \in Process : seen[q] <= schema.tables
      /\ schema \in Schema /\ schema.version <= schema.tables
  BY DEF ConnInv, SeenOK, SchemaOK, VersionPromisesTables, ReadVersion
<1>3. /\ seen' \in [Process -> 0 .. Latest]
      /\ \A q \in Process : seen'[q] <= schema'.tables
  BY <1>2 DEF Schema
<1>4. FlagsOK'
  BY DEF ConnInv, FlagsOK, ReadVersion
<1>5. Forward
  BY <1>2, <1>3, <1>4, ConnectionAssumption DEF Forward, SchemaOK, Schema, VersionPromisesTables
<1> QED
  BY <1>1, <1>5, CallsAre, ReturnsTo

\* A script leaves a version that is true of the tables.
LEMMA AppliedForward ==
  ASSUME ConnInv, NEW script \in Script, CanApply(script),
         schema' = Applied(script), UNCHANGED seen, FlagsOK'
  PROVE  Forward
<1>1. /\ schema \in Schema /\ schema.version <= schema.tables
      /\ seen \in [Process -> 0 .. Latest] /\ \A q \in Process : seen[q] <= schema.tables
      /\ Latest \in Nat \ {0}
  BY ConnectionAssumption DEF ConnInv, SeenOK, SchemaOK, VersionPromisesTables
<1>2. /\ schema' \in Schema /\ schema'.version <= schema'.tables
      /\ schema.tables <= schema'.tables
  <2>1. CASE script \in {Functions, Triggers}
    BY <1>1, <2>1 DEF Applied, Schema, Functions, Triggers
  <2>2. CASE script = Tables
    <3>1. schema' = [schema EXCEPT !.version = Latest, !.tables = Latest, !.hstore = TRUE]
      BY <2>2 DEF Applied, Tables
    <3>2. Latest \in 0 .. Latest /\ schema.tables <= Latest
      BY <1>1 DEF Schema
    <3>3. schema' \in Schema
      BY <1>1, <3>1, <3>2 DEF Schema
    <3>4. schema'.version = Latest /\ schema'.tables = Latest
      BY <1>1, <3>1 DEF Schema
    <3> QED
      BY <3>2, <3>3, <3>4
  <2>3. ASSUME NEW from \in 0 .. Latest - 1, script = Migration(from)
        PROVE  /\ schema' \in Schema /\ schema'.version <= schema'.tables
               /\ schema.tables <= schema'.tables
    <3> DEFINE to == from + 1
               tables == IF schema.tables < to THEN to ELSE schema.tables
               hstore == schema.hstore \/ to >= FirstHstore
    <3>1. schema' = [schema EXCEPT !.version = to, !.tables = tables, !.hstore = hstore,
                                   !.triggers = "old"]
      BY <2>3 DEF Applied, Migration
    <3>2. /\ to \in 0 .. Latest /\ tables \in 0 .. Latest /\ to <= tables
          /\ schema.tables <= tables /\ hstore \in BOOLEAN
      BY <1>1, <2>3, ConnectionAssumption DEF Schema
    <3> HIDE DEF to, tables, hstore
    <3> QED
      BY <1>1, <3>1, <3>2 DEF Schema
  <2> QED
    BY <2>1, <2>2, <2>3 DEF Script
<1>3. \A q \in Process : seen[q] <= schema'.tables
  BY <1>1, <1>2 DEF Schema
<1> QED
  BY <1>1, <1>2, <1>3 DEF Forward, SchemaOK, VersionPromisesTables

LEMMA RunScriptOK ==
  ASSUME ConnInv, NEW p \in Process, RunScript(p)
  PROVE  ConnInv' /\ (p \in Daemon \/ schema' = schema)
<1>1. /\ stack[p] # <<>> /\ Top(p).call = "execute" /\ StacksOK /\ IsCall(p, "execute")
      /\ IsScript(Top(p).stmt) /\ seen' = seen
      /\ \/ /\ CanApply(Top(p).stmt) /\ schema' = Applied(Top(p).stmt)
            /\ Goes(p, Under(p))
         \/ Retry(p) /\ schema' = schema
  BY DEF ConnInv, RunScript, IsCall, Top
<1>2. p \in Daemon /\ Top(p).stmt \in Script
  BY <1>1, TopIs, ScriptsAre DEF Sound
<1>3. FlagsOK'
  BY DEF ConnInv, FlagsOK, RunScript
<1>4. CASE CanApply(Top(p).stmt) /\ schema' = Applied(Top(p).stmt) /\ Goes(p, Under(p))
  BY <1>1, <1>2, <1>3, <1>4, AppliedForward, ReturnsTo
<1>5. CASE Retry(p) /\ schema' = schema
  BY <1>1, <1>3, <1>5, ForwardOK, Retries
<1> QED
  BY <1>1, <1>2, <1>4, <1>5

LEMMA DeadOK ==
  ASSUME ConnInv, NEW p \in Process, FindDead(p) \/ LoseScript(p)
  PROVE  ConnInv' /\ (p \in Daemon \/ schema' = schema)
<1>1. /\ stack[p] # <<>> /\ Top(p).call = "execute" /\ StacksOK /\ IsCall(p, "execute")
      /\ Retry(p) /\ seen' = seen
      /\ \/ UNCHANGED schema
         \/ /\ IsScript(Top(p).stmt) /\ CanApply(Top(p).stmt)
            /\ schema' = Applied(Top(p).stmt)
  BY DEF ConnInv, FindDead, LoseScript, Loses, IsCall, Top
<1>2. IsScript(Top(p).stmt) => p \in Daemon /\ Top(p).stmt \in Script
  BY <1>1, TopIs, ScriptsAre DEF Sound
<1>3. FlagsOK'
  BY DEF ConnInv, FlagsOK, FindDead, LoseScript, Loses
<1>4. Forward
  BY <1>1, <1>2, <1>3, ForwardOK, AppliedForward
<1> QED
  BY <1>1, <1>2, <1>4, Retries

LEMMA StartOK ==
  ASSUME ConnInv, NEW p \in Process, Start(p)
  PROVE  ConnInv'
<1>1. /\ stack' = [stack EXCEPT ![p] = <<Connect>>]
      /\ status' = [status EXCEPT ![p] = "starting"]
      /\ seen' = [seen EXCEPT ![p] = 0] /\ schema' = schema
      /\ alive' = [alive EXCEPT ![p] = FALSE]
      /\ shaken' \in [Process -> BOOLEAN]
  <2> DEFINE busy == {d \in Daemon : status[d] = "starting"}
  <2>1. shaken' = [q \in Process |-> IF q = p THEN p \in Daemon /\ busy # {}
                                     ELSE shaken[q] \/ (p \in Daemon /\ q \in busy)]
    BY DEF Start
  <2>2. \A q \in Process : shaken[q] \in BOOLEAN
    BY DEF ConnInv, FlagsOK
  <2> HIDE DEF busy
  <2>3. shaken' \in [Process -> BOOLEAN]
    BY <2>1, <2>2
  <2> QED
    BY <2>3 DEF Start
<1>2. Sounds(p, "starting", <<Connect>>) /\ Rests(<<Connect>>) /\ <<Connect>> # <<>> /\ <<Connect>>[1].call = "connect"
  <2>1. Sound(p, "starting", Connect)
    BY CallsAre DEF Sound
  <2> QED
    BY <2>1, SoundOfOne, CallsAre, StartsRest, NothingRests
<1>3. /\ stack = [q \in Process |-> stack[q]]
      /\ status \in [Process -> {"down", "starting", "up", "failed"}]
  BY DEF ConnInv, StacksOK, StatusOK
<1>4. /\ stack' = [q \in Process |-> IF q = p THEN <<Connect>> ELSE stack[q]]
      /\ status' = [q \in Process |-> IF q = p THEN "starting" ELSE status[q]]
  BY <1>1, <1>3
<1>5. \A q \in Process : /\ stack'[q] = IF q = p THEN <<Connect>> ELSE stack[q]
                         /\ status'[q] = IF q = p THEN "starting" ELSE status[q]
  BY <1>4
<1>6. StacksOK'
  <2>1. stack' = [q \in Process |-> stack'[q]]
    BY <1>4
  <2>2. \A q \in Process : Sounds(q, status'[q], stack'[q]) /\ Rests(stack'[q])
    BY <1>2, <1>5 DEF ConnInv, StacksOK
  <2>3. \A q \in Process : status'[q] = "starting" => stack'[q] # <<>> /\ stack'[q][1].call = "connect"
    BY <1>2, <1>5 DEF ConnInv, StacksOK
  <2>4. \A d \in Daemon : status'[d] # "starting" => stack'[d] = <<>>
    BY <1>5 DEF ConnInv, StacksOK, Process
  <2> QED
    BY <2>1, <2>2, <2>3, <2>4 DEF StacksOK
<1>7. StatusOK' /\ ConnectedFindsTables'
  BY <1>1, <1>3, <1>4, <1>5 DEF ConnInv, StatusOK, ConnectedFindsTables
<1>8. SeenOK' /\ SchemaOK' /\ FlagsOK'
  BY <1>1, ConnectionAssumption
     DEF ConnInv, SeenOK, SchemaOK, Schema, VersionPromisesTables, FlagsOK
<1> QED
  BY <1>6, <1>7, <1>8 DEF ConnInv

LEMMA CrashOK ==
  ASSUME ConnInv, NEW p \in Process, Crash(p)
  PROVE  ConnInv'
<1>1. /\ stack' = [stack EXCEPT ![p] = <<>>]
      /\ status' = [status EXCEPT ![p] = "down"]
      /\ alive' = [alive EXCEPT ![p] = FALSE]
      /\ UNCHANGED <<seen, schema, shaken>>
  BY DEF Crash
<1>2. /\ stack = [q \in Process |-> stack[q]]
      /\ status \in [Process -> {"down", "starting", "up", "failed"}]
  BY DEF ConnInv, StacksOK, StatusOK
<1>3. /\ stack' = [q \in Process |-> IF q = p THEN <<>> ELSE stack[q]]
      /\ status' = [q \in Process |-> IF q = p THEN "down" ELSE status[q]]
  BY <1>1, <1>2
<1>4. \A q \in Process : /\ stack'[q] = IF q = p THEN <<>> ELSE stack[q]
                         /\ status'[q] = IF q = p THEN "down" ELSE status[q]
  BY <1>3
<1>5. StacksOK'
  <2>1. stack' = [q \in Process |-> stack'[q]]
    BY <1>3
  <2>2. Sounds(p, "down", <<>>) /\ Rests(<<>>)
    BY SoundOfOne, NoneRests
  <2>3. \A q \in Process : Sounds(q, status'[q], stack'[q]) /\ Rests(stack'[q])
    BY <1>4, <2>2 DEF ConnInv, StacksOK
  <2>4. \A q \in Process : status'[q] = "starting" => stack'[q] # <<>> /\ stack'[q][1].call = "connect"
    BY <1>4 DEF ConnInv, StacksOK
  <2>5. \A d \in Daemon : status'[d] # "starting" => stack'[d] = <<>>
    BY <1>4 DEF ConnInv, StacksOK, Process
  <2> QED
    BY <2>1, <2>3, <2>4, <2>5 DEF StacksOK
<1>6. StatusOK' /\ ConnectedFindsTables'
  BY <1>1, <1>2, <1>3, <1>4 DEF ConnInv, StatusOK, ConnectedFindsTables
<1>7. SeenOK' /\ SchemaOK' /\ FlagsOK'
  BY <1>1 DEF ConnInv, SeenOK, SchemaOK, VersionPromisesTables, FlagsOK
<1> QED
  BY <1>5, <1>6, <1>7 DEF ConnInv

-----------------------------------------------------------------------------
(* Workers that serve requests.                                            *)

LEMMA StatementsOK ==
  /\ \A q : /\ StatementOK(Insert(q)) /\ StatementOK(Fetch(q)) /\ StatementOK(List(q))
            /\ StatementOK(Update(q)) /\ StatementOK(Resolve(q))
  /\ \A x : StatementOK(Delete(x)) /\ StatementOK(Log(x)) /\ StatementOK(GetPool(x))
  /\ StatementOK(Logs) /\ StatementOK(Removals)
BY DEF StatementOK, Data, Insert, Fetch, List, Update, Resolve, Delete, Log, GetPool, Logs, Removals

LEMMA ProgramOfThree ==
  \A a, b, c : /\ StatementOK(a) /\ StatementOK(b) /\ StatementOK(c) => ProgramOK(<<a, b, c>>)
               /\ <<a, b, c>> = <<a>> \o <<b, c>>
<1> TAKE a, b, c
<1>1. <<a, b, c>> = <<a>> \o <<b, c>>
  <2>1. <<a>> \in Seq({a, b, c}) /\ <<b, c>> \in Seq({a, b, c}) /\ <<a, b, c>> \in Seq({a, b, c})
    OBVIOUS
  <2> QED
    BY <2>1
<1>2. ASSUME StatementOK(a), StatementOK(b), StatementOK(c) PROVE ProgramOK(<<a, b, c>>)
  <2>1. ProgramOK(<<a>>) /\ ProgramOK(<<b, c>>)
    BY <1>2, ProgramOfOne
  <2>2. ProgramOK(<<a>> \o <<b, c>>)
    BY <2>1, ProgramJoins
  <2> QED
    BY <1>1, <2>2
<1> QED
  BY <1>1, <1>2

LEMMA ProgramOfFour ==
  \A a, b, c, d :
    StatementOK(a) /\ StatementOK(b) /\ StatementOK(c) /\ StatementOK(d) => ProgramOK(<<a, b, c, d>>)
<1> SUFFICES ASSUME NEW a, NEW b, NEW c, NEW d,
                    StatementOK(a), StatementOK(b), StatementOK(c), StatementOK(d)
             PROVE  ProgramOK(<<a, b, c, d>>)
  OBVIOUS
<1>1. <<a, b, c, d>> = <<a, b>> \o <<c, d>>
  <2>1. <<a, b>> \in Seq({a, b, c, d}) /\ <<c, d>> \in Seq({a, b, c, d})
        /\ <<a, b, c, d>> \in Seq({a, b, c, d})
    OBVIOUS
  <2> QED
    BY <2>1
<1>2. ProgramOK(<<a, b>>) /\ ProgramOK(<<c, d>>)
  BY ProgramOfOne
<1>3. ProgramOK(<<a, b>> \o <<c, d>>)
  BY <1>2, ProgramJoins
<1> QED
  BY <1>1, <1>3

LEMMA ProgramIf ==
  ASSUME NEW condition, NEW statements, condition => ProgramOK(statements)
  PROVE  ProgramOK(If(condition, statements))
BY ProgramOfOne DEF If

LEMMA ProgramsOK ==
  ASSUME NEW q, q.op \in Operations
  PROVE  ProgramOK(Program(q))
<1>1. ProgramOK(<<Insert(q), Fetch(q), Logs>>) /\ ProgramOK(<<List(q), Update(q), Logs>>)
      /\ ProgramOK(<<List(q), Delete(q.spec), Logs>>)
  BY StatementsOK, ProgramOfThree
<1>2. ProgramOK(<<List(q), Removals, Delete(q.spec), Logs>>)
  BY StatementsOK, ProgramOfFour
<1>3. ProgramOK(If(NamesPool(q), <<GetPool(q.pool)>>))
  <2>1. ProgramOK(<<GetPool(q.pool)>>)
    BY StatementsOK, ProgramOfOne
  <2> QED
    BY <2>1, ProgramIf
<1>4. ProgramOK(AddPrefix(q)) /\ ProgramOK(EditPrefix(q))
  BY <1>1, <1>3, ProgramJoins DEF AddPrefix, EditPrefix
<1>5. ProgramOK(RemovePrefix(q))
  <2> DEFINE deletes == IF q.recursive THEN <<Delete(q.within \cap Host), Delete(q.within)>>
                                       ELSE <<Delete(q.spec)>>
  <2>1. ProgramOK(<<Resolve(q)>>) /\ ProgramOK(<<List(q)>>) /\ ProgramOK(<<Logs>>) /\ ProgramOK(deletes)
    BY StatementsOK, ProgramOfOne
  <2> HIDE DEF deletes
  <2>2. ProgramOK(If(q.byId, <<Resolve(q)>>))
    BY <2>1, ProgramIf
  <2>3. ProgramOK(If(q.byId, <<Resolve(q)>>) \o <<List(q)>> \o deletes \o <<Logs>>)
    BY <2>1, <2>2, ProgramJoins
  <2> QED
    BY <2>3 DEF RemovePrefix, deletes
<1> QED
  BY <1>1, <1>2, <1>4, <1>5
     DEF Program, Operations, AddVrf, EditVrf, RemoveVrf, AddPool, EditPool, RemovePool,
         AddAsn, EditAsn, RemoveAsn

LEMMA EntriesOK ==
  ASSUME NEW q, NEW row, NEW pool
  PROVE  ProgramOK(Entries(q, row, pool))
<1>1. /\ ProgramOK(<<>>)
      /\ \A e : ProgramOK(<<Log(e)>>)
      /\ \A e, o : ProgramOK(<<GetPool(o), Log(e)>>)
  BY StatementsOK, ProgramOfOne
<1> DEFINE asked == IF q.pool = Same THEN NoPool ELSE q.pool
           left == <<GetPool(pool), Log(Left(row, pool))>>
           joined(o) == <<Log(Joined(row, o))>>
           more == CASE q.op = "add_prefix" -> If(NamesPool(q), joined(q.pool))
                     [] q.op = "edit_prefix" ->
                          If(pool # asked, If(asked # NoPool, joined(asked)) \o If(pool # NoPool, left))
                     [] q.op = "remove_prefix" -> If(pool # NoPool, left)
                     [] OTHER -> <<>>
<1>2. ProgramOK(left) /\ \A o : ProgramOK(joined(o))
  BY <1>1
<1> HIDE DEF left, joined
<1>3. ProgramOK(If(asked # NoPool, joined(asked)) \o If(pool # NoPool, left))
  <2>1. ProgramOK(If(asked # NoPool, joined(asked)))
    BY <1>2, ProgramIf
  <2>2. ProgramOK(If(pool # NoPool, left))
    BY <1>2, ProgramIf
  <2> QED
    BY <2>1, <2>2, ProgramJoins
<1> HIDE DEF asked
<1>4. /\ ProgramOK(If(pool # asked, If(asked # NoPool, joined(asked)) \o If(pool # NoPool, left)))
      /\ ProgramOK(If(NamesPool(q), joined(q.pool)))
      /\ ProgramOK(If(pool # NoPool, left))
  BY <1>2, <1>3, ProgramIf
<1>5. ProgramOK(more)
  <2>1. CASE q.op = "add_prefix"
    BY <1>4, <2>1
  <2>2. CASE q.op = "edit_prefix"
    BY <1>4, <2>2
  <2>3. CASE q.op = "remove_prefix"
    BY <1>4, <2>3
  <2>4. CASE q.op \notin {"add_prefix", "edit_prefix", "remove_prefix"}
    BY <1>1, <2>4
  <2> QED
    BY <2>1, <2>2, <2>3, <2>4
<1>6. Entries(q, row, pool) = <<Log(Touched(row))>> \o more
  BY DEF Entries, more, asked, left, joined
<1> HIDE DEF more
<1> QED
  BY <1>1, <1>5, <1>6, ProgramJoins

LEMMA BodyOK ==
  ASSUME NEW loop, NEW q, NEW x
  PROVE  ProgramOK(Body(loop, q, x))
<1>1. CASE loop.do = "logs"
  BY <1>1, EntriesOK DEF Body
<1>2. CASE loop.do # "logs"
  <2> DEFINE body == [i \in 1 .. 2 |-> [do |-> "call", q |-> EmptyVrf(x.row)[i]]]
  <2>1. EmptyVrf(x.row)[1].op = "remove_prefix" /\ EmptyVrf(x.row)[2].op = "remove_prefix"
    BY DEF EmptyVrf
  <2>2. \A i \in 1 .. 2 : body[i].do = "call" /\ body[i].q.op \in Operations
    BY <2>1 DEF Operations
  <2>3. IsSequence(body) /\ Len(body) = 2
    <3> DEFINE call(i) == [do |-> "call", q |-> EmptyVrf(x.row)[i]]
    <3>1. body = [i \in 1 .. 2 |-> call(i)]
      OBVIOUS
    <3> HIDE DEF body, call
    <3>2. body = <<call(1), call(2)>>
      BY <3>1
    <3> QED
      BY <3>2, Lists
  <2> HIDE DEF body
  <2>4. ProgramOK(body)
    BY <2>2, <2>3 DEF ProgramOK, StatementOK
  <2> QED
    BY <1>2, <2>4 DEF Body, body
<1> QED
  BY <1>1, <1>2

\* What a step of a worker with its request leaves as it is.
Serves(p) ==
  /\ Continue(p) \/ RunStatement(p) \/ RefuseStatement(p) \/ LoseStatement(p) \/ Receive(p)

\* An operation is on top, or one of its statements.
LEMMA Serving ==
  ASSUME ConnInv, NEW p \in Process, Serves(p)
  PROVE  /\ p \notin Daemon /\ status[p] # "starting"
         /\ UNCHANGED <<schema, seen>> /\ FlagsOK' /\ Forward
<1>1. CASE Receive(p)
  <2>1. p \notin Daemon /\ status[p] # "starting"
    BY <1>1, ConnectionAssumption DEF Receive
  <2>2. UNCHANGED <<schema, seen, alive, shaken>>
    BY <1>1 DEF Receive
  <2> QED
    BY <2>1, <2>2, ForwardOK DEF ConnInv, FlagsOK
<1>2. CASE ~ Receive(p)
  <2>1. stack[p] # <<>> /\ StacksOK
        /\ (Top(p).call = "request" \/ (Top(p).call = "execute" /\ IsData(Top(p).stmt)))
    BY <1>2 DEF Serves, Continue, RunStatement, RefuseStatement, LoseStatement, Loses, IsCall, Top, ConnInv
  <2>2. p \notin Daemon /\ status[p] # "starting"
    BY <2>1, TopIs, ScriptsAre DEF Sound
  <2>3. UNCHANGED <<schema, seen>> /\ FlagsOK'
    BY <1>2 DEF Serves, Continue, RunStatement, RefuseStatement, LoseStatement, Loses, ConnInv, FlagsOK
  <2> QED
    BY <2>2, <2>3, ForwardOK
<1> QED
  BY <1>1, <1>2

LEMMA ContinueOK ==
  ASSUME ConnInv, NEW p \in Process, Continue(p)
  PROVE  ConnInv'
<1>1. p \notin Daemon /\ status[p] # "starting" /\ Forward
  BY Serving DEF Serves
<1> DEFINE call == Top(p)
           next == Head(call.todo)
           frame(statements) == [call EXCEPT !.todo = statements \o Tail(call.todo)]
           left == call.listed \ next.done
           x == CHOOSE y \in left : TRUE
           body == Append(Body(next, call.q, x), [next EXCEPT !.done = @ \cup {x}])
<1>2. /\ stack[p] # <<>> /\ StacksOK /\ call.call = "request"
      /\ Sounds(p, status[p], Under(p)) /\ Rests(Under(p)) /\ ProgramOK(call.todo)
  BY TopIs, ScriptsAre DEF Continue, IsCall, Top, ConnInv, Sound
<1>3. ASSUME NEW statements, ProgramOK(statements), call.todo # <<>>
      PROVE  /\ Sounds(p, status[p], Append(Under(p), frame(statements)))
             /\ Rests(Append(Under(p), frame(statements)))
             /\ Append(Under(p), frame(statements)) # <<>>
             /\ Last(Append(Under(p), frame(statements))).call = "request"
  <2>1. ProgramOK(statements \o Tail(call.todo))
    BY <1>2, <1>3, ProgramTail, ProgramJoins
  <2>2. frame(statements).call = "request" /\ frame(statements).todo = statements \o Tail(call.todo)
    BY <1>2
  <2> HIDE DEF frame
  <2>3. Sound(p, status[p], frame(statements))
    BY <1>1, <2>1, <2>2 DEF Sound
  <2>4. /\ Append(Under(p), frame(statements)) = Under(p) \o <<frame(statements)>>
        /\ Append(Under(p), frame(statements)) # <<>>
        /\ Last(Append(Under(p), frame(statements))) = frame(statements)
    BY <1>2, AppendJoins DEF Sounds
  <2>5. OnRequest(Under(p), <<frame(statements)>>)
    BY <2>2, OnTop DEF IsStatement
  <2>6. Sounds(p, status[p], <<frame(statements)>>)
    BY <2>3, SoundOfOne
  <2>7. Rests(Under(p) \o <<frame(statements)>>)
    BY <1>2, <2>5, <2>6, RestsJoins DEF Sounds
  <2> QED
    BY <1>2, <2>2, <2>4, <2>6, <2>7, SoundJoins
<1>4. CASE call.todo = <<>>
  <2>1. Goes(p, Under(p))
    BY <1>4 DEF Continue
  <2> QED
    BY <1>1, <1>2, <2>1, GoesOn
<1>5. CASE call.todo # <<>> /\ next.do \in {"logs", "removals"}
  <2> DEFINE statements == IF left = {} THEN <<>> ELSE body
  <2>1. Goes(p, Append(Under(p), frame(statements)))
    BY <1>5 DEF Continue
  <2>2. ProgramOK(statements)
    <3>1. StatementOK([next EXCEPT !.done = @ \cup {x}])
      <4>1. [next EXCEPT !.done = @ \cup {x}].do = next.do
        OBVIOUS
      <4> QED
        BY <1>5, <4>1 DEF StatementOK
    <3>2. ProgramOK(Body(next, call.q, x)) /\ ProgramOK(<<[next EXCEPT !.done = @ \cup {x}]>>)
      BY <3>1, BodyOK, ProgramOfOne
    <3>3. body = Body(next, call.q, x) \o <<[next EXCEPT !.done = @ \cup {x}]>>
      BY <3>2, AppendJoins DEF ProgramOK
    <3>4. ProgramOK(body)
      BY <3>2, <3>3, ProgramJoins
    <3> HIDE DEF body
    <3> QED
      BY <3>4, ProgramOfOne
  <2> HIDE DEF statements, frame
  <2> QED
    BY <1>1, <1>2, <1>3, <1>5, <2>1, <2>2, GoesOn
<1>6. CASE call.todo # <<>> /\ next.do \notin {"logs", "removals"}
  <2>1. PICK top : /\ Goes(p, Append(Append(Under(p), frame(<<>>)), top))
                   /\ \/ next.do = "call" /\ top = Serve(call.r, next.q)
                      \/ next.do # "call" /\ top = Execute(next, 0)
    BY <1>6 DEF Continue
  <2>2. StatementOK(next)
    BY <1>2, <1>6, ProgramTail
  <2>3. Sound(p, status[p], top)
    <3>1. CASE next.do = "call" /\ top = Serve(call.r, next.q)
      <4>1. next.q.op \in Operations
        BY <2>2, <3>1 DEF StatementOK, Data
      <4>2. ProgramOK(Program(next.q))
        BY <4>1, ProgramsOK
      <4>3. top.call = "request" /\ top.todo = Program(next.q)
        BY <3>1 DEF Serve
      <4> QED
        BY <1>1, <4>2, <4>3 DEF Sound
    <3>2. CASE next.do # "call" /\ top = Execute(next, 0)
      <4>1. next.do \in Data
        BY <1>6, <2>2, <3>2 DEF StatementOK
      <4>2. top.call = "execute" /\ top.stmt = next
        BY <3>2, CallsAre
      <4> QED
        BY <1>1, <4>1, <4>2 DEF Sound
    <3> QED
      BY <2>1, <3>1, <3>2
  <2>4. ProgramOK(<<>>)
    BY ProgramOfOne
  <2> DEFINE below == Append(Under(p), frame(<<>>))
  <2>5. Sounds(p, status[p], below) /\ Rests(below) /\ below # <<>> /\ Last(below).call = "request"
    BY <1>3, <1>6, <2>4
  <2> HIDE DEF below, frame
  <2>6. Append(below, top) = below \o <<top>>
    BY <2>5, AppendJoins DEF Sounds
  <2>7. Sounds(p, status[p], Append(below, top)) /\ Rests(Append(below, top))
    <3>1. Sounds(p, status[p], <<top>>)
      BY <2>3, SoundOfOne
    <3>2. OnRequest(below, <<top>>)
      BY <2>5, OnTop
    <3>3. Rests(below \o <<top>>)
      BY <2>5, <3>1, <3>2, RestsJoins DEF Sounds
    <3> QED
      BY <2>5, <2>6, <3>1, <3>3, SoundJoins
  <2>8. Goes(p, Append(below, top))
    BY <2>1 DEF below
  <2> QED
    BY <1>1, <1>2, <2>7, <2>8, GoesOn
<1> QED
  BY <1>4, <1>5, <1>6

LEMMA StatementStepOK ==
  ASSUME ConnInv, NEW p \in Process, RunStatement(p)
  PROVE  ConnInv'
<1>1. p \notin Daemon /\ status[p] # "starting" /\ Forward
  BY Serving DEF Serves
<1> DEFINE stmt == Top(p).stmt
           below == Last(Under(p))
           calls == Front(Under(p))
           frame == [below EXCEPT !.listed = Listing(stmt.rows)]
<1>2. /\ stack[p] # <<>> /\ StacksOK /\ Top(p).call = "execute" /\ IsData(stmt)
      /\ Returns(p, stmt)
  BY DEF RunStatement, IsCall, Top, ConnInv
<1>3. IsStatement(Top(p))
  BY <1>2, ScriptsAre DEF IsStatement
<1>4. /\ Sounds(p, status[p], Under(p)) /\ Rests(Under(p)) /\ Under(p) # <<>>
      /\ below.call = "request"
  BY <1>2, <1>3, TopIs
<1>5. /\ Sounds(p, status[p], calls) /\ Rests(calls) /\ Sound(p, status[p], below)
      /\ IsSequence(calls)
  BY <1>4, SoundFront, RestsFront DEF Sounds
<1>6. Sound(p, status[p], frame) /\ frame.call = "request"
  <2>1. frame.call = below.call /\ frame.todo = below.todo
    OBVIOUS
  <2> HIDE DEF frame
  <2> QED
    BY <1>1, <1>4, <1>5, <2>1 DEF Sound
<1>7. \/ Raises(p)
      \/ \E top \in {frame, below} : Goes(p, Append(calls, top))
  BY <1>2 DEF Returns
<1> HIDE DEF frame, below, calls
<1>8. ASSUME NEW top \in {frame, below}, Goes(p, Append(calls, top))
      PROVE  ConnInv'
  <2>1. Append(calls, top) = calls \o <<top>>
    BY <1>5, AppendJoins
  <2>2. Sounds(p, status[p], <<top>>)
    BY <1>4, <1>5, <1>6, SoundOfOne
  <2>3. OnRequest(calls, <<top>>)
    BY <1>4, <1>6, OnTop DEF IsStatement
  <2>4. Rests(Append(calls, top)) /\ Sounds(p, status[p], Append(calls, top))
    <3>1. Rests(calls \o <<top>>)
      BY <1>5, <2>2, <2>3, RestsJoins DEF Sounds
    <3>2. Sounds(p, status[p], calls \o <<top>>)
      BY <1>5, <2>2, SoundJoins
    <3> QED
      BY <2>1, <3>1, <3>2
  <2> QED
    BY <1>1, <1>2, <1>8, <2>4, GoesOn
<1> QED
  BY <1>1, <1>2, <1>7, <1>8, Raised

LEMMA ServiceOK ==
  ASSUME ConnInv, NEW p \in Process, Serves(p)
  PROVE  ConnInv'
<1>1. p \notin Daemon /\ status[p] # "starting" /\ Forward
  BY Serving
<1>2. CASE Continue(p) \/ RunStatement(p)
  BY <1>2, ContinueOK, StatementStepOK
<1>3. CASE RefuseStatement(p)
  BY <1>1, <1>3, Raised DEF RefuseStatement, IsCall
<1>4. CASE LoseStatement(p)
  BY <1>1, <1>4, Retries DEF LoseStatement, Loses
<1>5. CASE Receive(p)
  <2>1. PICK q \in Requests : /\ stack' = [stack EXCEPT ![p] = <<Serve(Len(ledger) + 1, q)>>]
                              /\ status' = status
    BY <1>5 DEF Receive
  <2> DEFINE frame == Serve(Len(ledger) + 1, q)
  <2>2. Sound(p, status[p], frame) /\ ~ IsStatement(frame)
    <3>1. ProgramOK(Program(q))
      BY BackendAssumption, ProgramsOK DEF RequestOK
    <3>2. frame.call = "request" /\ frame.todo = Program(q)
      BY DEF Serve
    <3> QED
      BY <1>1, <3>1, <3>2 DEF Sound, IsStatement
  <2> HIDE DEF frame
  <2>3. Sounds(p, status[p], <<frame>>) /\ Rests(<<frame>>)
    <3>1. Len(<<frame>>) = 1 /\ <<frame>>[1] = frame
      BY Lists
    <3>2. \A i \in 1 .. Len(<<frame>>) : ~ IsStatement(<<frame>>[i])
      BY <2>2, <3>1
    <3> QED
      BY <2>2, <3>2, SoundOfOne, NothingRests
  <2>4. stack = [q1 \in Process |-> stack[q1]]
    BY DEF ConnInv, StacksOK
  <2>5. /\ stack' = [q1 \in Process |-> IF q1 = p THEN <<frame>> ELSE stack[q1]]
        /\ \A q1 \in Process : stack'[q1] = IF q1 = p THEN <<frame>> ELSE stack[q1]
    BY <2>1, <2>4 DEF frame
  <2>6. StacksOK'
    <3>1. stack' = [q1 \in Process |-> stack'[q1]]
      BY <2>5
    <3>2. \A q1 \in Process : Sounds(q1, status'[q1], stack'[q1]) /\ Rests(stack'[q1])
      BY <2>1, <2>3, <2>5 DEF ConnInv, StacksOK
    <3>3. \A q1 \in Process : status'[q1] = "starting" => stack'[q1] # <<>> /\ stack'[q1][1].call = "connect"
      BY <1>1, <2>1, <2>5 DEF ConnInv, StacksOK
    <3>4. \A d \in Daemon : status'[d] # "starting" => stack'[d] = <<>>
      BY <1>1, <2>1, <2>5 DEF ConnInv, StacksOK, Process
    <3> QED
      BY <3>1, <3>2, <3>3, <3>4 DEF StacksOK
  <2>7. UNCHANGED <<schema, seen, alive, shaken, status>>
    BY <1>5 DEF Receive
  <2> QED
    BY <2>6, <2>7 DEF ConnInv, SchemaOK, VersionPromisesTables, SeenOK, FlagsOK, StatusOK, ConnectedFindsTables
<1> QED
  BY <1>2, <1>3, <1>4, <1>5 DEF Serves

-----------------------------------------------------------------------------
LEMMA ConnInitOK == ConnInit => ConnInv
<1> SUFFICES ASSUME ConnInit PROVE ConnInv
  OBVIOUS
<1>1. StacksOK
  <2>1. \A p \in Process : stack[p] = <<>> /\ status[p] = "down"
    BY DEF ConnInit
  <2>2. \A p \in Process : Sounds(p, status[p], stack[p]) /\ Rests(stack[p])
    BY <2>1, SoundOfOne, NoneRests
  <2>3. stack = [p \in Process |-> stack[p]]
    BY DEF ConnInit
  <2> QED
    BY <2>1, <2>2, <2>3 DEF StacksOK, Process
<1> QED
  BY <1>1, ConnectionAssumption
     DEF ConnInit, ConnInv, SchemaOK, VersionPromisesTables, Schema, SeenOK, FlagsOK,
         StatusOK, ConnectedFindsTables

\* What one process does.
Steps(p) ==
  Proceed(p) \/ OpenFails(p) \/ LoseScript(p) \/ Serves(p) \/ Start(p) \/ Crash(p)

LEMMA NextSteps ==
  ASSUME [Next]_vars
  PROVE  (\E p \in Process : Steps(p)) \/ UNCHANGED connVars
BY DEF Next, Works, Reconnects, Disconnects, Steps, Serves, vars

LEMMA StepOK ==
  ASSUME ConnInv, NEW p \in Process, Steps(p)
  PROVE  ConnInv'
<1>1. Proceed(p) => ConnInv'
  BY OpenOK, CheckOK, PlanUpgradeOK, NextScriptOK, ReadVersionOK, RunScriptOK, DeadOK DEF Proceed
<1> QED
  BY <1>1, OpenOK, DeadOK, StartOK, CrashOK, ServiceOK DEF Steps

LEMMA ConnStep == ConnInv /\ [Next]_vars => ConnInv'
<1> SUFFICES ASSUME ConnInv, [Next]_vars PROVE ConnInv'
  OBVIOUS
<1>1. CASE UNCHANGED connVars
  BY <1>1 DEF connVars, ConnInv, StacksOK, SchemaOK, VersionPromisesTables, SeenOK, FlagsOK, StatusOK,
              ConnectedFindsTables
<1> QED
  BY <1>1, NextSteps, StepOK

\* Whoever is connected finds the tables of the version it was written for, and the
\* version in the comment of the database is never ahead of the tables, whatever
\* crashes, is lost or is started at the same time, and wherever an installation or
\* an upgrade stops (_connect_db, _execute, _db_install and _db_upgrade).
THEOREM SchemaIsSafe == Spec => [](VersionPromisesTables /\ ConnectedFindsTables)
<1>1. ConnInv => VersionPromisesTables /\ ConnectedFindsTables
  BY DEF ConnInv, SchemaOK
<1>2. Init => ConnInv
  BY ConnInitOK DEF Init
<1> QED
  BY <1>1, <1>2, ConnStep, PTL DEF Spec

-----------------------------------------------------------------------------
(* Why starts get through.                                                 *)

\* The migrations that are left, and the triggers.
Rest(from) == [i \in 1 .. Latest - from |-> Migration(from + i - 1)] \o <<Triggers>>

\* No script of nipapd brings such a schema forward.
FallenBehind == schema.version < schema.tables /\ schema.version \notin Repeatable
Stuck == FallenBehind \/ (~ schema.hstore /\ schema.tables > 0)

\* The daemon will not get through, whatever it does next.
Hopeless(d) ==
  /\ stack[d] # <<>>
  /\ \/ Top(d) \in {Connect, Scripts(InstallScripts), Execute(Tables, 0)}
     \/ /\ FallenBehind
        /\ \/ Top(d) = Checking /\ seen[d] = schema.version
           \/ Top(d) = Execute(Version, 0) /\ Last(Under(d)) = Checking
     \/ /\ FallenBehind /\ schema.version > 0
        /\ \/ Top(d) = Execute(Version, 0) /\ Last(Under(d)) = Upgrade
           \/ Top(d) = Upgrade /\ seen[d] = schema.version
           \/ Top(d) \in {Scripts(UpgradeScripts(schema.version)), Scripts(Rest(schema.version))}
           \/ /\ Top(d) = Execute(Functions, 0)
              /\ Last(Under(d)) = Scripts(Rest(schema.version))
           \/ Top(d) = Execute(Migration(schema.version), 0)

\* The scripts that are left fit the schema.
Fits(todo) ==
  \/ todo = InstallScripts /\ schema.tables = 0
  \/ todo = <<Functions, Triggers>> /\ schema.version = Latest
  \/ todo = UpgradeScripts(schema.version) /\ schema.version \in 1 .. Latest - 1
  \/ todo = Rest(schema.version) /\ schema.version \in 1 .. Latest /\ schema.functions = "new"
  \/ todo = <<>> /\ schema.version = Latest /\ schema.functions = "new" /\ schema.triggers = "new"

RunsScripts(d, todo) ==
  \/ stack[d] = <<Connect, Scripts(todo)>>
  \/ todo # <<>> /\ stack[d] = <<Connect, Scripts(Tail(todo)), Execute(Head(todo), 0)>>

\* Where a start is that nothing disturbs.
OnItsWay(d) ==
  \/ stack[d] = <<Connect>>
  \/ alive[d] /\ stack[d] = <<Checking, Execute(Version, 0)>>
  \/ alive[d] /\ stack[d] = <<Checking>> /\ seen[d] = schema.version
  \/ /\ alive[d] /\ schema.version \in 1 .. Latest - 1
     /\ \/ stack[d] = <<Connect, Upgrade, Execute(Version, 0)>>
        \/ stack[d] = <<Connect, Upgrade>> /\ seen[d] = schema.version
  \/ alive[d] /\ \E todo \in Seq(Script) : Fits(todo) /\ RunsScripts(d, todo)

\* The last scripts are on their way.
Finishing(d) ==
  /\ alive[d]
  /\ \E todo \in {<<Functions, Triggers>>, Rest(Latest)} : Fits(todo) /\ RunsScripts(d, todo)

Starting(d) == status[d] = "starting"

\* A start that nothing disturbs has the database for itself.
Alone == \A d, e \in Daemon : Starting(d) /\ ~ shaken[d] /\ Starting(e) => d = e

UnshakenOK ==
  \A d \in Daemon : Starting(d) /\ ~ shaken[d] => OnItsWay(d) \/ (Stuck /\ Hopeless(d))

FailedOK ==
  AutoInstall /\ AutoUpgrade =>
    \A d \in Daemon : status[d] = "failed" /\ ~ shaken[d] =>
      Stuck /\ \A e \in Daemon : Starting(e) => Hopeless(e)

StartInv == ConnInv /\ Alone /\ UnshakenOK /\ FailedOK

LEMMA RestIs ==
  /\ \A from \in 1 .. Latest - 1 :
       /\ Rest(from) \in Seq(Script) /\ Rest(from) # <<>>
       /\ Head(Rest(from)) = Migration(from) /\ Tail(Rest(from)) = Rest(from + 1)
       /\ UpgradeScripts(from) \in Seq(Script) /\ UpgradeScripts(from) # <<>>
       /\ Head(UpgradeScripts(from)) = Functions /\ Tail(UpgradeScripts(from)) = Rest(from)
  /\ Rest(Latest) = <<Triggers>>
<1> DEFINE migrations(from) == [i \in 1 .. Latest - from |-> Migration(from + i - 1)]
<1>1. ASSUME NEW from \in 1 .. Latest
      PROVE  /\ Latest - from \in Nat
             /\ migrations(from) \in Seq(Script) /\ Len(migrations(from)) = Latest - from
             /\ \A i \in 1 .. Latest - from : migrations(from)[i] = Migration(from + i - 1)
  <2>1. \A i \in 1 .. Latest - from : from + i - 1 \in 0 .. Latest - 1
    BY ConnectionAssumption
  <2>2. \A i \in 1 .. Latest - from : Migration(from + i - 1) \in Script
    BY <2>1 DEF Script
  <2>3. Latest - from \in Nat
    BY ConnectionAssumption
  <2>4. migrations(from) \in [1 .. Latest - from -> Script]
    BY <2>2
  <2>5. \A i \in 1 .. Latest - from : migrations(from)[i] = Migration(from + i - 1)
    OBVIOUS
  <2> HIDE DEF migrations
  <2> QED
    BY <2>3, <2>4, <2>5
<1>2. \A from : Rest(from) = migrations(from) \o <<Triggers>>
  BY DEF Rest
<1>3. \A from : UpgradeScripts(from) = <<Functions>> \o migrations(from) \o <<Triggers>>
  BY DEF UpgradeScripts
<1> HIDE DEF migrations
<1>4. Triggers \in Script /\ Functions \in Script
  BY DEF Script
<1>5. ASSUME NEW from \in 1 .. Latest
      PROVE  /\ Rest(from) \in Seq(Script) /\ Len(Rest(from)) = Latest - from + 1
             /\ \A i \in 1 .. Latest - from : Rest(from)[i] = Migration(from + i - 1)
             /\ Rest(from)[Latest - from + 1] = Triggers
  <2> DEFINE m == migrations(from)
  <2>1. m \in Seq(Script) /\ <<Triggers>> \in Seq(Script) /\ Len(m) \in Nat
        /\ IsSequence(m) /\ IsSequence(<<Triggers>>) /\ Len(<<Triggers>>) = 1 /\ <<Triggers>>[1] = Triggers
    <3>1. m \in Seq(Script) /\ Len(m) \in Nat
      BY <1>1
    <3> QED
      BY <3>1, <1>4 DEF IsSequence
  <2>2. /\ m \o <<Triggers>> \in Seq(Script) /\ Len(m \o <<Triggers>>) = Len(m) + 1
        /\ \A i \in 1 .. Len(m) : (m \o <<Triggers>>)[i] = m[i]
        /\ (m \o <<Triggers>>)[Len(m) + 1] = Triggers
    <3> HIDE DEF m
    <3>1. m \o <<Triggers>> \in Seq(Script)
      BY <2>1
    <3>2. 1 \in 1 .. 1
      OBVIOUS
    <3> QED
      BY <2>1, <3>1, <3>2, Joins
  <2>3. Len(m) = Latest - from /\ \A i \in 1 .. Latest - from : m[i] = Migration(from + i - 1)
    BY <1>1
  <2> HIDE DEF m
  <2> QED
    BY <1>2, <2>2, <2>3 DEF m
<1>6. ASSUME NEW from \in 1 .. Latest - 1
      PROVE  /\ Rest(from) \in Seq(Script) /\ Rest(from) # <<>>
             /\ Head(Rest(from)) = Migration(from) /\ Tail(Rest(from)) = Rest(from + 1)
  <2> DEFINE rest == Rest(from)
             next == Rest(from + 1)
  <2>1. from \in 1 .. Latest /\ from + 1 \in 1 .. Latest /\ Latest \in Nat
    BY ConnectionAssumption
  <2>2. /\ rest \in Seq(Script) /\ Len(rest) = Latest - from + 1
        /\ \A i \in 1 .. Latest - from : rest[i] = Migration(from + i - 1)
        /\ rest[Latest - from + 1] = Triggers
        /\ next \in Seq(Script) /\ Len(next) = Latest - from
        /\ \A i \in 1 .. Latest - from - 1 : next[i] = Migration(from + i)
        /\ next[Latest - from] = Triggers
    <3>1. /\ next \in Seq(Script) /\ Len(next) = Latest - (from + 1) + 1
          /\ \A i \in 1 .. Latest - (from + 1) : next[i] = Migration((from + 1) + i - 1)
          /\ next[Latest - (from + 1) + 1] = Triggers
      BY <1>5, <2>1
    <3>2. Latest - (from + 1) + 1 = Latest - from /\ Latest - (from + 1) = Latest - from - 1
      BY <2>1
    <3>3. \A i \in 1 .. Latest - from - 1 : next[i] = Migration(from + i)
      <4> TAKE i \in 1 .. Latest - from - 1
      <4>1. (from + 1) + i - 1 = from + i
        BY <2>1
      <4> HIDE DEF next
      <4>2. i \in 1 .. Latest - (from + 1)
        BY <3>2
      <4>3. next[i] = Migration((from + 1) + i - 1)
        BY <3>1, <4>2
      <4> QED
        BY <4>1, <4>3
    <3>4. /\ rest \in Seq(Script) /\ Len(rest) = Latest - from + 1
          /\ \A i \in 1 .. Latest - from : rest[i] = Migration(from + i - 1)
          /\ rest[Latest - from + 1] = Triggers
      BY <1>5, <2>1
    <3> HIDE DEF rest, next
    <3>5. next \in Seq(Script) /\ Len(next) = Latest - from /\ next[Latest - from] = Triggers
      BY <3>1, <3>2
    <3> QED
      BY <3>3, <3>4, <3>5
  <2> HIDE DEF rest, next
  <2>3. rest # <<>> /\ Head(rest) = rest[1] /\ rest[1] = Migration(from)
    <3>1. Head(rest) = rest[1] /\ rest # <<>> /\ 1 \in 1 .. Latest - from /\ from + 1 - 1 = from
      BY <2>1, <2>2
    <3> QED
      BY <2>2, <3>1
  <2>4. Tail(rest) \in Seq(Script) /\ Len(Tail(rest)) = Latest - from
        /\ \A i \in 1 .. Latest - from : Tail(rest)[i] = rest[i + 1]
    BY <2>1, <2>2
  <2>5. \A i \in 1 .. Latest - from : Tail(rest)[i] = next[i]
    <3> TAKE i \in 1 .. Latest - from
    <3>1. CASE i = Latest - from
      BY <2>1, <2>2, <2>4, <3>1
    <3>2. CASE i \in 1 .. Latest - from - 1
      <4>1. i + 1 \in 1 .. Latest - from /\ from + (i + 1) - 1 = from + i
        BY <2>1, <3>2
      <4> QED
        BY <2>2, <2>4, <3>2, <4>1
    <3>3. i = Latest - from \/ i \in 1 .. Latest - from - 1
      BY <2>1
    <3> QED
      BY <3>1, <3>2, <3>3
  <2>6. Tail(rest) = next
    BY <2>2, <2>4, <2>5, SMTT(30)
  <2> QED
    BY <2>2, <2>3, <2>6 DEF rest, next
<1>7. ASSUME NEW from \in 1 .. Latest - 1
      PROVE  /\ UpgradeScripts(from) \in Seq(Script) /\ UpgradeScripts(from) # <<>>
             /\ Head(UpgradeScripts(from)) = Functions /\ Tail(UpgradeScripts(from)) = Rest(from)
  <2>1. from \in 1 .. Latest
    BY ConnectionAssumption
  <2>2. UpgradeScripts(from) = <<Functions>> \o Rest(from)
    <3>1. migrations(from) \in Seq(Script) /\ <<Functions>> \in Seq(Script) /\ <<Triggers>> \in Seq(Script)
      BY <1>1, <1>4, <2>1
    <3>2. (<<Functions>> \o migrations(from)) \o <<Triggers>>
            = <<Functions>> \o (migrations(from) \o <<Triggers>>)
      BY <3>1, ConcatAssociative
    <3> QED
      BY <1>2, <1>3, <3>2
  <2> DEFINE rest == Rest(from)
  <2>3. rest \in Seq(Script)
    BY <1>5, <2>1
  <2> HIDE DEF rest
  <2>4. /\ <<Functions>> \o rest \in Seq(Script) /\ <<Functions>> \o rest # <<>>
        /\ Head(<<Functions>> \o rest) = Functions
        /\ Tail(<<Functions>> \o rest) = rest
    BY <1>4, <2>3
  <2> QED
    BY <2>2, <2>4 DEF rest
<1>8. Rest(Latest) = <<Triggers>>
  <2>1. Latest \in 1 .. Latest /\ Latest - Latest + 1 = 1
    BY ConnectionAssumption
  <2>2. Rest(Latest) \in Seq(Script) /\ Len(Rest(Latest)) = 1 /\ Rest(Latest)[1] = Triggers
    BY <1>5, <2>1
  <2> QED
    BY <2>2
<1> QED
  BY <1>6, <1>7, <1>8

-----------------------------------------------------------------------------
(* What a step does to the stack of a daemon.                              *)

LEMMA FlatJoins ==
  /\ \A a : <<>> \o <<a>> = <<a>>
  /\ \A a, b : <<>> \o <<a, b>> = <<a, b>> /\ <<a>> \o <<b>> = <<a, b>>
  /\ \A a, b, c : <<a>> \o <<b, c>> = <<a, b, c>> /\ <<a, b>> \o <<c>> = <<a, b, c>>
<1>1. ASSUME NEW a, NEW b, NEW c
      PROVE  /\ <<>> \o <<a>> = <<a>> /\ <<>> \o <<a, b>> = <<a, b>>
             /\ <<a>> \o <<b>> = <<a, b>>
             /\ <<a>> \o <<b, c>> = <<a, b, c>> /\ <<a, b>> \o <<c>> = <<a, b, c>>
  <2> DEFINE S == Seq({a, b, c})
  <2>1. <<>> \in S /\ <<a>> \in S /\ <<b>> \in S /\ <<c>> \in S
    OBVIOUS
  <2>2. <<a, b>> \in S /\ <<b, c>> \in S /\ <<a, b, c>> \in S
    OBVIOUS
  <2>3. <<>> \o <<a>> = <<a>>
    BY <2>1
  <2>4. <<>> \o <<a, b>> = <<a, b>>
    BY <2>1, <2>2
  <2>5. <<a, b>> = <<a>> \o <<b>>
    <3> DEFINE s == <<a>>
               t == <<b>>
               u == <<a, b>>
    <3>1. /\ IsSequence(s) /\ IsSequence(t) /\ Len(s) = 1 /\ Len(t) = 1 /\ s[1] = a /\ t[1] = b
          /\ IsSequence(u) /\ Len(u) = 2 /\ u[1] = a /\ u[2] = b
      BY Lists
    <3> HIDE DEF s, t, u
    <3>2. PICK T : u \in Seq(T)
      BY <3>1 DEF IsSequence
    <3>3. 1 \in 1 .. 1 /\ 1 + 1 = 2
      OBVIOUS
    <3>4. /\ IsSequence(s \o t) /\ Len(s \o t) = 2 /\ (s \o t)[1] = a /\ (s \o t)[2] = b
      BY <3>1, <3>3, Joins
    <3> DEFINE v == s \o t
    <3>5. PICK V : v \in Seq(V)
      BY <3>4 DEF IsSequence
    <3>6. Len(v) = 2 /\ v[1] = a /\ v[2] = b
      BY <3>4
    <3> HIDE DEF v
    <3>7. u = v
      BY <3>1, <3>2, <3>5, <3>6
    <3> QED
      BY <3>7 DEF u, v, s, t
  <2>6. <<a, b, c>> = <<a>> \o <<b, c>>
    BY <2>1, <2>2
  <2>7. <<a, b, c>> = <<a, b>> \o <<c>>
    BY <2>1, <2>2
  <2> QED
    BY <2>3, <2>4, <2>5, <2>6, <2>7
<1> QED
  BY <1>1

\* Calls put on those underneath.
LEMMA OnThem ==
  ASSUME NEW below, IsSequence(below)
  PROVE  /\ \A f : below \o <<f>> # <<>> /\ Last(below \o <<f>>) = f /\ Front(below \o <<f>>) = below
                  /\ IsSequence(below \o <<f>>)
         /\ \A f, g : /\ below \o <<f, g>> # <<>> /\ Last(below \o <<f, g>>) = g
                      /\ Last(Front(below \o <<f, g>>)) = f
<1>1. PICK S : below \in Seq(S)
  BY DEF IsSequence
<1>2. \A f : /\ below \o <<f>> # <<>> /\ Last(below \o <<f>>) = f /\ Front(below \o <<f>>) = below
             /\ IsSequence(below \o <<f>>)
  <2> TAKE f
  <2> DEFINE s == below \o <<f>>
  <2>1. /\ s \in Seq(S \cup {f}) /\ Len(s) = Len(below) + 1 /\ s # <<>>
        /\ s[Len(below) + 1] = f /\ \A i \in 1 .. Len(below) : s[i] = below[i]
    BY <1>1
  <2> HIDE DEF s
  <2>2. Last(s) = f
    BY <1>1, <2>1 DEF Last
  <2>3. Front(s) = below
    <3>1. Len(s) \in Nat \ {0} /\ IsSequence(s)
      BY <1>1, <2>1 DEF IsSequence
    <3>2. /\ IsSequence(Front(s)) /\ Len(Front(s)) = Len(below)
          /\ \A i \in 1 .. Len(below) : Front(s)[i] = below[i]
      <4>1. Len(s) - 1 = Len(below)
        BY <1>1, <2>1
      <4> QED
        BY <2>1, <3>1, <4>1, LastAndFront
    <3>3. PICK T : Front(s) \in Seq(T)
      BY <3>2 DEF IsSequence
    <3> QED
      BY <1>1, <3>2, <3>3
  <2> QED
    BY <2>1, <2>2, <2>3 DEF s, IsSequence
<1>3. \A f, g : /\ below \o <<f, g>> # <<>> /\ Last(below \o <<f, g>>) = g
                /\ Last(Front(below \o <<f, g>>)) = f
  <2> TAKE f, g
  <2>1. below \o <<f, g>> = (below \o <<f>>) \o <<g>>
    <3>1. <<f>> \o <<g>> = <<f, g>>
      BY FlatJoins
    <3>2. <<f>> \in Seq(S \cup {f, g}) /\ <<g>> \in Seq(S \cup {f, g}) /\ below \in Seq(S \cup {f, g})
      BY <1>1
    <3>3. (below \o <<f>>) \o <<g>> = below \o (<<f>> \o <<g>>)
      BY <3>2, ConcatAssociative
    <3> QED
      BY <3>1, <3>3
  <2> DEFINE s == below \o <<f>>
  <2>2. s # <<>> /\ Last(s) = f /\ IsSequence(s)
    BY <1>2
  <2> HIDE DEF s
  <2>3. PICK T : s \in Seq(T)
    BY <2>2 DEF IsSequence
  <2> DEFINE t == s \o <<g>>
  <2>4. /\ t \in Seq(T \cup {g}) /\ Len(t) = Len(s) + 1 /\ t # <<>>
        /\ t[Len(s) + 1] = g /\ Len(s) \in Nat /\ Len(s) # 0
        /\ \A i \in 1 .. Len(s) : t[i] = s[i]
    BY <2>2, <2>3
  <2> HIDE DEF t
  <2>5. Last(t) = g
    BY <2>3, <2>4 DEF Last
  <2>6. Last(Front(t)) = f
    <3>1. /\ IsSequence(Front(t)) /\ Len(Front(t)) = Len(s)
          /\ \A i \in 1 .. Len(s) : Front(t)[i] = s[i]
      <4>1. Len(t) - 1 = Len(s) /\ IsSequence(t)
        BY <2>3, <2>4 DEF IsSequence
      <4> QED
        BY <2>4, <4>1, LastAndFront
    <3>2. Len(s) \in 1 .. Len(s)
      BY <2>3, <2>4
    <3> QED
      BY <2>2, <3>1, <3>2 DEF Last
  <2> QED
    BY <2>1, <2>4, <2>5, <2>6 DEF t, s
<1> QED
  BY <1>2, <1>3

LEMMA Flat ==
  /\ Len(<<>>) = 0
  /\ \A a : Len(<<a>>) = 1 /\ <<a>> # <<>> /\ Last(<<a>>) = a /\ Front(<<a>>) = <<>>
  /\ \A a, b : /\ Len(<<a, b>>) = 2 /\ <<a, b>> # <<>>
               /\ Last(<<a, b>>) = b /\ Front(<<a, b>>) = <<a>>
  /\ \A a, b, c : /\ Len(<<a, b, c>>) = 3 /\ <<a, b, c>> # <<>>
                  /\ Last(<<a, b, c>>) = c /\ Front(<<a, b, c>>) = <<a, b>>
<1>1. \A a : Last(<<a>>) = a /\ Front(<<a>>) = <<>>
  <2> TAKE a
  <2>1. Last(<<>> \o <<a>>) = a /\ Front(<<>> \o <<a>>) = <<>>
    BY Lists, OnThem
  <2> QED
    BY <2>1, FlatJoins
<1>2. \A a, b : Last(<<a, b>>) = b /\ Front(<<a, b>>) = <<a>>
  <2> TAKE a, b
  <2>1. Last(<<a>> \o <<b>>) = b /\ Front(<<a>> \o <<b>>) = <<a>>
    BY Lists, OnThem
  <2> QED
    BY <2>1, FlatJoins
<1>3. \A a, b, c : Last(<<a, b, c>>) = c /\ Front(<<a, b, c>>) = <<a, b>>
  <2> TAKE a, b, c
  <2>1. Last(<<a, b>> \o <<c>>) = c /\ Front(<<a, b>> \o <<c>>) = <<a, b>>
    BY Lists, OnThem
  <2>2. <<a, b>> \o <<c>> = <<a, b, c>>
    BY FlatJoins
  <2> QED
    BY <2>1, <2>2
<1>4. \A a, b, c : Len(<<a, b, c>>) = 3 /\ <<a, b, c>> # <<>>
  OBVIOUS
<1> QED
  BY <1>1, <1>2, <1>3, <1>4, Lists

\* A start goes on with these calls, or fails.
Got(d, calls) == stack'[d] = calls /\ status'[d] = IF calls = <<>> THEN "up" ELSE "starting"
Fell(d) == stack'[d] = <<>> /\ status'[d] = "failed"

LEMMA Gets ==
  ASSUME ConnInv, NEW d \in Daemon, Starting(d)
  PROVE  /\ \A calls : Goes(d, calls) => Got(d, calls)
         /\ \A calls : Calls(d, calls) => Got(d, calls) \/ Fell(d)
         /\ \A calls : Calls(d, calls) /\ Len(calls) \in 0 .. 3 => Got(d, calls)
         /\ Raises(d) => Fell(d)
<1>1. /\ d \in Process /\ status[d] = "starting"
      /\ stack = [p \in Process |-> stack[p]]
      /\ status \in [Process -> {"down", "starting", "up", "failed"}]
  BY DEF ConnInv, StacksOK, StatusOK, Process, Starting
<1>2. \A calls : Goes(d, calls) => Got(d, calls)
  <2> SUFFICES ASSUME NEW calls, Goes(d, calls) PROVE Got(d, calls)
    OBVIOUS
  <2>1. stack'[d] = calls
    BY <1>1 DEF Goes
  <2>2. status'[d] = IF calls = <<>> THEN "up" ELSE "starting"
    BY <1>1 DEF Goes
  <2> QED
    BY <2>1, <2>2 DEF Got
<1>3. Raises(d) => Fell(d)
  <2> SUFFICES ASSUME Raises(d) PROVE Fell(d)
    OBVIOUS
  <2>1. stack'[d] = <<>>
    BY <1>1 DEF Raises
  <2>2. status'[d] = "failed"
    BY <1>1 DEF Raises
  <2> QED
    BY <2>1, <2>2 DEF Fell
<1>4. \A n \in 0 .. 3 : ~ (n > MaxDepth)
  BY ConnectionAssumption
<1> QED
  BY <1>2, <1>3, <1>4 DEF Calls

\* The call on top says which step comes next.
LEMMA ByTop ==
  ASSUME NEW d, stack[d] # <<>>, Proceed(d)
  PROVE  /\ Top(d) = Connect => Open(d)
         /\ Top(d) = Checking => Check(d)
         /\ Top(d) = Upgrade => PlanUpgrade(d)
         /\ \A todo : Top(d) = Scripts(todo) => NextScript(d)
         /\ \A n : Top(d) = Execute(Version, n) => ReadVersion(d) \/ FindDead(d)
         /\ \A script \in Script : \A n : Top(d) = Execute(script, n) => RunScript(d) \/ FindDead(d)
         /\ FindDead(d) => ~ alive[d]
<1>1. /\ Open(d) => Top(d).call = "connect" /\ Top(d).at = "open"
      /\ Check(d) => Top(d).call = "connect" /\ Top(d).at = "check"
      /\ PlanUpgrade(d) => Top(d).call = "upgrade"
      /\ NextScript(d) => Top(d).call = "scripts"
      /\ ReadVersion(d) => Top(d).call = "execute" /\ Top(d).stmt.do = "version"
      /\ RunScript(d) => Top(d).call = "execute" /\ IsScript(Top(d).stmt)
      /\ FindDead(d) => Top(d).call = "execute" /\ ~ alive[d]
  BY DEF Open, Check, PlanUpgrade, NextScript, ReadVersion, RunScript, FindDead, IsAt, IsCall, Top
<1>2. /\ ~ IsScript(Version) /\ Version.do = "version"
      /\ \A script \in Script : script.do # "version"
  BY ScriptsAre DEF IsScript, Version
<1>3. Open(d) \/ Check(d) \/ PlanUpgrade(d) \/ NextScript(d) \/ ReadVersion(d) \/ RunScript(d) \/ FindDead(d)
  BY DEF Proceed
<1> DEFINE top == Top(d)
<1> HIDE DEF top
<1>4. top = Connect => top.call = "connect" /\ top.at = "open"
  BY CallsAre
<1>5. top = Checking => top.call = "connect" /\ top.at = "check"
  BY CallsAre
<1>6. top = Upgrade => top.call = "upgrade"
  BY CallsAre
<1>7. \A todo : top = Scripts(todo) => top.call = "scripts"
  BY CallsAre
<1>8. \A stmt, n : top = Execute(stmt, n) => top.call = "execute" /\ top.stmt = stmt
  BY CallsAre
<1>9. \A todo : Top(d) = Scripts(todo) => NextScript(d)
  BY <1>1, <1>3, <1>7 DEF top
<1>10. \A n : Top(d) = Execute(Version, n) => ReadVersion(d) \/ FindDead(d)
  BY <1>1, <1>2, <1>3, <1>8 DEF top
<1>11. \A script \in Script : \A n : Top(d) = Execute(script, n) => RunScript(d) \/ FindDead(d)
  BY <1>1, <1>2, <1>3, <1>8 DEF top
<1>12. Top(d) = Connect => Open(d)
  BY <1>1, <1>3, <1>4 DEF top
<1>13. Top(d) = Checking => Check(d)
  BY <1>1, <1>3, <1>5 DEF top
<1>14. Top(d) = Upgrade => PlanUpgrade(d)
  BY <1>1, <1>3, <1>6 DEF top
<1> QED
  BY <1>1, <1>9, <1>10, <1>11, <1>12, <1>13, <1>14

-----------------------------------------------------------------------------
(* A start that is stuck.                                                  *)

\* What a start does that is stuck.
Kept == /\ schema'.version = schema.version /\ schema'.tables = schema.tables
        /\ schema'.hstore = schema.hstore /\ schema'.triggers = schema.triggers
        /\ schema'.functions \in {schema.functions, "new"}
Sinks(d) == Kept /\ (Fell(d) \/ (Starting(d)' /\ Hopeless(d)'))

LEMMA StuckIs ==
  ASSUME ConnInv, Stuck
  PROVE  /\ schema.tables # 0 /\ schema.tables > 0
         /\ FallenBehind => schema.version \in 0 .. Latest - 1
         /\ schema.hstore => FallenBehind
         /\ ~ CanApply(Tables)
         /\ \A script \in Script : script = Functions => CanApply(script)
         /\ FallenBehind => ~ CanApply(Migration(schema.version))
<1>1. schema \in Schema /\ Latest \in Nat \ {0}
  BY ConnectionAssumption DEF ConnInv, SchemaOK
<1>2. schema.tables \in 0 .. Latest /\ schema.version \in 0 .. Latest
  BY <1>1 DEF Schema
<1>3. schema.tables > 0 /\ (FallenBehind => schema.version \in 0 .. Latest - 1)
  BY <1>1, <1>2 DEF Stuck, FallenBehind
<1>4. ~ CanApply(Tables)
  BY <1>2, <1>3 DEF CanApply, Tables
<1>5. CanApply(Functions)
  BY <1>3 DEF CanApply, Functions
<1>6. FallenBehind => ~ CanApply(Migration(schema.version))
  BY <1>2 DEF CanApply, Migration, FallenBehind
<1> QED
  BY <1>2, <1>3, <1>4, <1>5, <1>6 DEF Stuck

LEMMA Keeps ==
  ASSUME schema' = schema
  PROVE  Kept /\ (FallenBehind' <=> FallenBehind) /\ (Stuck' <=> Stuck)
BY DEF Kept, FallenBehind, Stuck

LEMMA KeptStuck ==
  ASSUME Kept
  PROVE  (FallenBehind' <=> FallenBehind) /\ (Stuck' <=> Stuck)
BY DEF Kept, FallenBehind, Stuck

LEMMA RetryAgain ==
  ASSUME ConnInv, NEW d \in Daemon, Starting(d), stack[d] # <<>>, Retry(d)
  PROVE  Fell(d) \/ (Starting(d)' /\ stack'[d] # <<>> /\ Top(d)' = Connect)
<1> DEFINE calls == Under(d) \o <<Execute(Top(d).stmt, 1), Connect>>
<1>1. Sounds(d, status[d], Under(d)) /\ IsSequence(Under(d))
  BY TopIs DEF ConnInv, Process, Sounds
<1>2. calls # <<>> /\ Last(calls) = Connect
  BY <1>1, OnThem
<1>3. Raises(d) \/ Calls(d, calls)
  BY DEF Retry
<1> HIDE DEF calls
<1>4. Fell(d) \/ Got(d, calls)
  BY <1>3, Gets
<1> QED
  BY <1>2, <1>4 DEF Got, Starting, Top

\* Retrying does not help.
LEMMA RetrySinks ==
  ASSUME ConnInv, NEW d \in Daemon, Starting(d), stack[d] # <<>>, Retry(d), schema' = schema
  PROVE  Sinks(d)
<1>1. Fell(d) \/ (Starting(d)' /\ stack'[d] # <<>> /\ Top(d)' = Connect)
  BY RetryAgain
<1>2. stack'[d] # <<>> /\ Top(d)' = Connect => Hopeless(d)'
  BY DEF Hopeless
<1> QED
  BY <1>1, <1>2, Keeps DEF Sinks

\* At the beginning, and where the tables are to be created.
LEMMA SinksAtOpen ==
  ASSUME ConnInv, NEW d \in Daemon, Starting(d), stack[d] # <<>>, Stuck, Top(d) = Connect, Open(d)
  PROVE  Sinks(d)
<1>1. IsSequence(Under(d)) /\ IsSequence(stack[d]) /\ schema' = schema
  BY TopIs DEF ConnInv, StacksOK, Process, Sounds, Open
<1> DEFINE read == Under(d) \o <<Checking, Execute(Version, 0)>>
           install == stack[d] \o <<Scripts(InstallScripts)>>
<1>2. /\ read # <<>> /\ Last(read) = Execute(Version, 0) /\ Last(Front(read)) = Checking
      /\ install # <<>> /\ Last(install) = Scripts(InstallScripts)
  BY <1>1, OnThem
<1>3. \/ schema.hstore /\ Calls(d, read)
      \/ Calls(d, install) \/ Raises(d)
  BY DEF Open
<1> HIDE DEF read, install
<1>4. \/ schema.hstore /\ Got(d, read)
      \/ Got(d, install) \/ Fell(d)
  BY <1>3, Gets
<1>5. CASE schema.hstore /\ Got(d, read)
  <2>1. stack'[d] # <<>> /\ Top(d)' = Execute(Version, 0) /\ Last(Under(d))' = Checking /\ Starting(d)'
    BY <1>2, <1>5 DEF Got, Top, Under, Starting
  <2>2. FallenBehind'
    BY <1>1, <1>5, StuckIs, Keeps
  <2>3. Hopeless(d)'
    BY <2>1, <2>2 DEF Hopeless
  <2> QED
    BY <1>1, <2>1, <2>3, Keeps DEF Sinks
<1>6. CASE Got(d, install)
  <2>1. stack'[d] # <<>> /\ Top(d)' = Scripts(InstallScripts) /\ Starting(d)'
    BY <1>2, <1>6 DEF Got, Top, Starting
  <2>2. Hopeless(d)'
    BY <2>1 DEF Hopeless
  <2> QED
    BY <1>1, <2>1, <2>2, Keeps DEF Sinks
<1> QED
  BY <1>1, <1>4, <1>5, <1>6, Keeps DEF Sinks

\* The next of its scripts.
LEMMA GetsScript ==
  ASSUME ConnInv, NEW d \in Daemon, Starting(d), stack[d] # <<>>,
         NEW todo, Top(d) = Scripts(todo), todo # <<>>, NextScript(d)
  PROVE  /\ schema' = schema /\ seen' = seen
         /\ \/ Fell(d)
            \/ /\ Starting(d)' /\ stack'[d] # <<>> /\ Top(d)' = Execute(Head(todo), 0)
               /\ Last(Under(d))' = Scripts(Tail(todo))
<1>1. IsSequence(Under(d)) /\ schema' = schema /\ seen' = seen
  BY TopIs DEF ConnInv, Process, Sounds, NextScript
<1> DEFINE calls == Under(d) \o <<Scripts(Tail(todo)), Execute(Head(todo), 0)>>
<1>2. calls # <<>> /\ Last(calls) = Execute(Head(todo), 0) /\ Last(Front(calls)) = Scripts(Tail(todo))
  BY <1>1, OnThem
<1>3. Calls(d, calls)
  BY CallsAre DEF NextScript
<1> HIDE DEF calls
<1>4. Fell(d) \/ Got(d, calls)
  BY <1>3, Gets
<1> QED
  BY <1>1, <1>2, <1>4 DEF Got, Top, Under, Starting

\* The version is read, and the call underneath goes on.
LEMMA ReadsVersion ==
  ASSUME ConnInv, NEW d \in Daemon, Starting(d), stack[d] # <<>>,
         NEW n, Top(d) = Execute(Version, n), ReadVersion(d)
  PROVE  /\ schema' = schema /\ alive' = alive /\ seen'[d] = schema.version
         /\ Starting(d)' /\ stack'[d] # <<>> /\ stack'[d] = Under(d) /\ Top(d)' = Last(Under(d))
<1>1. Under(d) # <<>> /\ d \in Process
  <2>1. Top(d).call = "execute"
    BY CallsAre
  <2> QED
    BY <2>1, TopIs DEF ConnInv, Process, Starting
<1>2. Got(d, Under(d))
  BY Gets DEF ReadVersion
<1>3. seen'[d] = schema.version
  BY <1>1 DEF ConnInv, SeenOK, ReadVersion
<1> QED
  BY <1>1, <1>2, <1>3 DEF Got, Top, Starting, ReadVersion

\* A script is run, and the call underneath goes on; or it is repeated.
LEMMA RunsScript ==
  ASSUME ConnInv, NEW d \in Daemon, Starting(d), stack[d] # <<>>,
         NEW script \in Script, NEW n, Top(d) = Execute(script, n), RunScript(d)
  PROVE  /\ seen' = seen /\ alive' = alive
         /\ IF CanApply(script)
            THEN /\ schema' = Applied(script)
                 /\ Starting(d)' /\ stack'[d] # <<>> /\ stack'[d] = Under(d) /\ Top(d)' = Last(Under(d))
            ELSE schema' = schema /\ Retry(d)
<1>1. Under(d) # <<>> /\ d \in Process /\ Top(d).stmt = script
  <2>1. Top(d).call = "execute" /\ Top(d).stmt = script
    BY CallsAre
  <2> QED
    BY <2>1, TopIs DEF ConnInv, Process, Starting
<1>2. IF CanApply(script) THEN schema' = Applied(script) /\ Goes(d, Under(d))
                          ELSE Retry(d) /\ schema' = schema
  BY <1>1 DEF RunScript
<1>3. Goes(d, Under(d)) => Got(d, Under(d))
  BY Gets
<1> QED
  BY <1>1, <1>2, <1>3 DEF Got, Top, Starting, RunScript

LEMMA DeadSinks ==
  ASSUME ConnInv, NEW d \in Daemon, Starting(d), stack[d] # <<>>, FindDead(d)
  PROVE  Sinks(d)
BY RetrySinks DEF FindDead

LEMMA SinksAtScripts ==
  ASSUME ConnInv, NEW d \in Daemon, Starting(d), stack[d] # <<>>, Stuck, Proceed(d),
         \/ Top(d) = Scripts(InstallScripts)
         \/ FallenBehind /\ schema.version > 0 /\ Top(d) = Scripts(UpgradeScripts(schema.version))
         \/ FallenBehind /\ schema.version > 0 /\ Top(d) = Scripts(Rest(schema.version))
  PROVE  Sinks(d)
<1> DEFINE v == schema.version
<1>1. PICK todo : /\ Top(d) = Scripts(todo)
                  /\ \/ todo = InstallScripts
                     \/ FallenBehind /\ v > 0 /\ todo = UpgradeScripts(v)
                     \/ FallenBehind /\ v > 0 /\ todo = Rest(v)
  OBVIOUS
<1>2. NextScript(d)
  BY <1>1, ByTop
<1>3. InstallScripts # <<>> /\ Head(InstallScripts) = Tables
  BY DEF InstallScripts
<1>4. FallenBehind /\ v > 0 => v \in 1 .. Latest - 1
  BY StuckIs, ConnectionAssumption
<1>5. FallenBehind /\ v > 0 =>
        /\ UpgradeScripts(v) # <<>> /\ Head(UpgradeScripts(v)) = Functions
        /\ Tail(UpgradeScripts(v)) = Rest(v)
        /\ Rest(v) # <<>> /\ Head(Rest(v)) = Migration(v)
  BY <1>4, RestIs
<1>6. todo # <<>>
  BY <1>1, <1>3, <1>5
<1>7. /\ schema' = schema
      /\ \/ Fell(d)
         \/ /\ Starting(d)' /\ stack'[d] # <<>> /\ Top(d)' = Execute(Head(todo), 0)
            /\ Last(Under(d))' = Scripts(Tail(todo))
  BY <1>1, <1>2, <1>6, GetsScript
<1>8. CASE Fell(d)
  BY <1>7, <1>8, Keeps DEF Sinks
<1>9. CASE ~ Fell(d)
  <2>1. CASE todo = InstallScripts
    <3>1. Top(d)' = Execute(Tables, 0)
      BY <1>3, <1>7, <1>9, <2>1
    <3>2. Hopeless(d)'
      BY <1>7, <1>9, <3>1 DEF Hopeless
    <3> QED
      BY <1>7, <1>9, <3>2, Keeps DEF Sinks
  <2>2. CASE FallenBehind /\ v > 0 /\ todo = UpgradeScripts(v)
    <3>1. Top(d)' = Execute(Functions, 0) /\ Last(Under(d))' = Scripts(Rest(v))
      BY <1>5, <1>7, <1>9, <2>2
    <3>2. FallenBehind' /\ schema'.version = v /\ Scripts(Rest(v))' = Scripts(Rest(v))
      BY <1>7, <2>2, Keeps
    <3>3. Hopeless(d)'
      BY <1>7, <1>9, <2>2, <3>1, <3>2 DEF Hopeless
    <3> QED
      BY <1>7, <1>9, <3>3, Keeps DEF Sinks
  <2>3. CASE FallenBehind /\ v > 0 /\ todo = Rest(v)
    <3>1. Top(d)' = Execute(Migration(v), 0)
      BY <1>5, <1>7, <1>9, <2>3
    <3>2. FallenBehind' /\ schema'.version = v
      BY <1>7, <2>3, Keeps
    <3>3. Hopeless(d)'
      BY <1>7, <1>9, <2>3, <3>1, <3>2 DEF Hopeless
    <3> QED
      BY <1>7, <1>9, <3>3, Keeps DEF Sinks
  <2> QED
    BY <1>1, <2>1, <2>2, <2>3
<1> QED
  BY <1>8, <1>9

LEMMA SinksAtExecute ==
  ASSUME ConnInv, NEW d \in Daemon, Starting(d), stack[d] # <<>>, Stuck, Proceed(d),
         \/ Top(d) = Execute(Tables, 0)
         \/ /\ FallenBehind /\ schema.version > 0 /\ Top(d) = Execute(Functions, 0)
            /\ Last(Under(d)) = Scripts(Rest(schema.version))
         \/ FallenBehind /\ schema.version > 0 /\ Top(d) = Execute(Migration(schema.version), 0)
  PROVE  Sinks(d)
<1>1. PICK script : /\ Top(d) = Execute(script, 0)
                    /\ \/ script = Tables
                       \/ /\ FallenBehind /\ schema.version > 0 /\ script = Functions
                          /\ Last(Under(d)) = Scripts(Rest(schema.version))
                       \/ FallenBehind /\ schema.version > 0 /\ script = Migration(schema.version)
  OBVIOUS
<1>2. script \in Script
  <2>1. FallenBehind => schema.version \in 0 .. Latest - 1
    BY StuckIs
  <2> QED
    BY <1>1, <2>1 DEF Script
<1>3. RunScript(d) \/ FindDead(d)
  BY <1>1, <1>2, ByTop
<1>4. CASE FindDead(d)
  BY <1>4, DeadSinks
<1>5. CASE RunScript(d)
  <2>1. IF CanApply(script)
        THEN /\ schema' = Applied(script)
             /\ Starting(d)' /\ stack'[d] # <<>> /\ stack'[d] = Under(d) /\ Top(d)' = Last(Under(d))
        ELSE schema' = schema /\ Retry(d)
    BY <1>1, <1>2, <1>5, RunsScript
  <2>2. CASE ~ CanApply(script)
    BY <2>1, <2>2, RetrySinks
  <2>3. CASE CanApply(script)
    <3>1. /\ FallenBehind /\ schema.version > 0 /\ script = Functions
          /\ Last(Under(d)) = Scripts(Rest(schema.version))
      BY <1>1, <2>3, StuckIs
    <3>2. schema' = [schema EXCEPT !.functions = "new"]
      BY <2>1, <2>3, <3>1 DEF Applied, Functions
    <3>3. Kept
      BY <3>2 DEF Kept, ConnInv, SchemaOK, Schema
    <3>4. FallenBehind' /\ schema'.version = schema.version
      BY <3>1, <3>3, KeptStuck DEF Kept
    <3>5. Top(d)' = Scripts(Rest(schema'.version))
      BY <2>1, <2>3, <3>1, <3>4
    <3>6. Hopeless(d)'
      BY <2>1, <2>3, <3>1, <3>4, <3>5 DEF Hopeless, Rest
    <3> QED
      BY <2>1, <2>3, <3>3, <3>6 DEF Sinks
  <2> QED
    BY <2>2, <2>3
<1> QED
  BY <1>3, <1>4, <1>5

LEMMA SinksAtVersion ==
  ASSUME ConnInv, NEW d \in Daemon, Starting(d), stack[d] # <<>>, Stuck, Proceed(d),
         FallenBehind, Top(d) = Execute(Version, 0),
         \/ Last(Under(d)) = Checking
         \/ schema.version > 0 /\ Last(Under(d)) = Upgrade
  PROVE  Sinks(d)
<1>1. ReadVersion(d) \/ FindDead(d)
  BY ByTop
<1>2. CASE FindDead(d)
  BY <1>2, DeadSinks
<1>3. CASE ReadVersion(d)
  <2>1. /\ schema' = schema /\ seen'[d] = schema.version
        /\ Starting(d)' /\ stack'[d] # <<>> /\ Top(d)' = Last(Under(d))
    BY <1>3, ReadsVersion
  <2>2. FallenBehind'
    BY <2>1, Keeps
  <2>3. CASE Last(Under(d)) = Checking
    <3>1. Top(d)' = Checking /\ seen'[d] = schema'.version
      BY <2>1, <2>3
    <3>2. Hopeless(d)'
      BY <2>1, <2>2, <3>1 DEF Hopeless
    <3> QED
      BY <2>1, <3>2, Keeps DEF Sinks
  <2>4. CASE schema.version > 0 /\ Last(Under(d)) = Upgrade
    <3>1. Top(d)' = Upgrade /\ seen'[d] = schema'.version /\ schema'.version > 0
      BY <2>1, <2>4
    <3>2. Hopeless(d)'
      BY <2>1, <2>2, <3>1 DEF Hopeless
    <3> QED
      BY <2>1, <3>2, Keeps DEF Sinks
  <2> QED
    BY <2>3, <2>4
<1> QED
  BY <1>1, <1>2, <1>3

LEMMA SinksAtUpgrade ==
  ASSUME ConnInv, NEW d \in Daemon, Starting(d), stack[d] # <<>>, Stuck, Proceed(d),
         FallenBehind, schema.version > 0, Top(d) = Upgrade, seen[d] = schema.version
  PROVE  Sinks(d)
<1> DEFINE todo == UpgradeScripts(schema.version)
           calls == Under(d) \o <<Scripts(todo)>>
<1>1. PlanUpgrade(d) /\ schema' = schema
  <2>1. PlanUpgrade(d)
    BY ByTop
  <2> QED
    BY <2>1 DEF PlanUpgrade
<1>2. IsSequence(Under(d))
  BY TopIs DEF ConnInv, Process, Sounds
<1>3. calls # <<>> /\ Last(calls) = Scripts(todo)
  BY <1>2, OnThem
<1>4. Goes(d, calls)
  BY <1>1 DEF PlanUpgrade
<1> HIDE DEF calls, todo
<1>5. Got(d, calls)
  BY <1>4, Gets
<1>6. /\ stack'[d] # <<>> /\ Starting(d)' /\ Top(d)' = Scripts(todo)
      /\ FallenBehind' /\ schema'.version > 0 /\ schema'.version = schema.version
  BY <1>1, <1>3, <1>5, Keeps DEF Got, Starting, Top
<1>7. Top(d)' = Scripts(UpgradeScripts(schema'.version))
  BY <1>6 DEF todo
<1>8. Hopeless(d)'
  BY <1>6, <1>7 DEF Hopeless, UpgradeScripts
<1> QED
  BY <1>1, <1>6, <1>8, Keeps DEF Sinks

LEMMA SinksAtCheck ==
  ASSUME ConnInv, NEW d \in Daemon, Starting(d), stack[d] # <<>>, Stuck, Proceed(d),
         FallenBehind, Top(d) = Checking, seen[d] = schema.version
  PROVE  Sinks(d)
<1>1. Check(d) /\ schema' = schema /\ seen[d] \in 0 .. Latest - 1 /\ seen[d] # Latest
  <2>1. Check(d) /\ schema.version \in 0 .. Latest - 1
    BY ByTop, StuckIs
  <2> QED
    BY <2>1, ConnectionAssumption DEF Check
<1>2. IsSequence(Under(d))
  BY TopIs DEF ConnInv, Process, Sounds
<1> DEFINE again == Under(d) \o <<Connect>>
           install == again \o <<Scripts(InstallScripts)>>
           upgrade == again \o <<Upgrade, Execute(Version, 0)>>
<1>3. /\ install # <<>> /\ Last(install) = Scripts(InstallScripts)
      /\ upgrade # <<>> /\ Last(upgrade) = Execute(Version, 0) /\ Last(Front(upgrade)) = Upgrade
  <2>1. IsSequence(again)
    BY <1>2, OnThem
  <2> HIDE DEF again
  <2> QED
    BY <2>1, OnThem
<1>4. \/ Calls(d, install)
      \/ seen[d] # 0 /\ Calls(d, upgrade)
      \/ Raises(d)
  BY <1>1 DEF Check
<1> HIDE DEF install, upgrade
<1>5. Got(d, install) \/ (seen[d] # 0 /\ Got(d, upgrade)) \/ Fell(d)
  BY <1>4, Gets
<1>6. CASE Got(d, install)
  <2>1. stack'[d] # <<>> /\ Top(d)' = Scripts(InstallScripts) /\ Starting(d)'
    BY <1>3, <1>6 DEF Got, Top, Starting
  <2>2. Hopeless(d)'
    BY <2>1 DEF Hopeless
  <2> QED
    BY <1>1, <2>1, <2>2, Keeps DEF Sinks
<1>7. CASE seen[d] # 0 /\ Got(d, upgrade)
  <2>1. stack'[d] # <<>> /\ Top(d)' = Execute(Version, 0) /\ Last(Under(d))' = Upgrade /\ Starting(d)'
    BY <1>3, <1>7 DEF Got, Top, Under, Starting
  <2>2. FallenBehind' /\ schema'.version > 0
    BY <1>1, <1>7, Keeps, ConnectionAssumption
  <2>3. Hopeless(d)'
    BY <2>1, <2>2 DEF Hopeless
  <2> QED
    BY <1>1, <2>1, <2>3, Keeps DEF Sinks
<1> QED
  BY <1>1, <1>5, <1>6, <1>7, Keeps DEF Sinks

\* Nothing that a start does then gets it through, or changes the tables.
LEMMA HopelessStep ==
  ASSUME ConnInv, NEW d \in Daemon, Starting(d), Stuck, Hopeless(d),
         Proceed(d) \/ OpenFails(d) \/ LoseScript(d)
  PROVE  Sinks(d)
<1>1. stack[d] # <<>>
  BY DEF Hopeless
<1>2. CASE Proceed(d)
  <2>1. CASE Top(d) = Connect
    BY <1>1, <1>2, <2>1, ByTop, SinksAtOpen
  <2>2. CASE \/ Top(d) = Scripts(InstallScripts)
             \/ FallenBehind /\ schema.version > 0 /\ Top(d) = Scripts(UpgradeScripts(schema.version))
             \/ FallenBehind /\ schema.version > 0 /\ Top(d) = Scripts(Rest(schema.version))
    BY <1>1, <1>2, <2>2, SinksAtScripts
  <2>3. CASE \/ Top(d) = Execute(Tables, 0)
             \/ /\ FallenBehind /\ schema.version > 0 /\ Top(d) = Execute(Functions, 0)
                /\ Last(Under(d)) = Scripts(Rest(schema.version))
             \/ FallenBehind /\ schema.version > 0 /\ Top(d) = Execute(Migration(schema.version), 0)
    BY <1>1, <1>2, <2>3, SinksAtExecute
  <2>4. CASE /\ FallenBehind /\ Top(d) = Execute(Version, 0)
             /\ Last(Under(d)) = Checking \/ (schema.version > 0 /\ Last(Under(d)) = Upgrade)
    BY <1>1, <1>2, <2>4, SinksAtVersion
  <2>5. CASE FallenBehind /\ schema.version > 0 /\ Top(d) = Upgrade /\ seen[d] = schema.version
    BY <1>1, <1>2, <2>5, SinksAtUpgrade
  <2>6. CASE FallenBehind /\ Top(d) = Checking /\ seen[d] = schema.version
    BY <1>1, <1>2, <2>6, SinksAtCheck
  <2> QED
    BY <2>1, <2>2, <2>3, <2>4, <2>5, <2>6 DEF Hopeless
<1>3. CASE OpenFails(d)
  <2>1. Raises(d) /\ schema' = schema
    BY <1>3 DEF OpenFails
  <2>2. Fell(d)
    BY <2>1, Gets
  <2> QED
    BY <2>1, <2>2, Keeps DEF Sinks
<1>4. CASE LoseScript(d)
  <2>1. /\ Retry(d) /\ Top(d).call = "execute"
        /\ \/ schema' = schema
           \/ IsScript(Top(d).stmt) /\ CanApply(Top(d).stmt) /\ schema' = Applied(Top(d).stmt)
    BY <1>4 DEF LoseScript, Loses, IsCall, Top
  <2>2. CASE schema' = schema
    BY <1>1, <2>1, <2>2, RetrySinks
  <2>3. CASE IsScript(Top(d).stmt) /\ CanApply(Top(d).stmt) /\ schema' = Applied(Top(d).stmt)
    <3>1. PICK script : /\ Top(d).stmt = script
                        /\ \/ script = Tables
                           \/ script = Functions
                           \/ FallenBehind /\ script = Migration(schema.version)
      BY <2>1, <2>3, CallsAre, ScriptsAre DEF Hopeless
    <3>2. script = Functions
      BY <2>3, <3>1, StuckIs
    <3>3. schema' = [schema EXCEPT !.functions = "new"]
      BY <2>3, <3>1, <3>2 DEF Applied, Functions
    <3>4. Kept
      BY <3>3 DEF Kept, ConnInv, SchemaOK, Schema
    <3>5. Fell(d) \/ (Starting(d)' /\ stack'[d] # <<>> /\ Top(d)' = Connect)
      BY <1>1, <2>1, RetryAgain
    <3>6. stack'[d] # <<>> /\ Top(d)' = Connect => Hopeless(d)'
      BY DEF Hopeless
    <3> QED
      BY <3>4, <3>5, <3>6 DEF Sinks
  <2> QED
    BY <2>1, <2>2, <2>3
<1> QED
  BY <1>2, <1>3, <1>4

-----------------------------------------------------------------------------
(* A start that nothing disturbs.                                          *)

\* What such a start does.
GotOn(d) ==
  /\ Starting(d)' => OnItsWay(d)' \/ (Stuck' /\ Hopeless(d)')
  /\ status'[d] = "failed" /\ AutoInstall /\ AutoUpgrade => Stuck'

\* ... and what it makes of the schema, if the version was that of the tables.
MadeWhole(d) ==
  /\ schema.version = schema.tables =>
       /\ schema'.version = schema'.tables
       /\ Complete => Complete'
       /\ schema'.tables = Latest /\ (schema.tables = Latest => Complete \/ Finishing(d)) =>
            Complete' \/ (Starting(d)' /\ Finishing(d)')
  /\ status'[d] = "up" => schema' = schema /\ schema.tables = Latest /\ ~ Finishing(d)

\* Only scripts are run in between.
LEMMA StaysWhole ==
  ASSUME NEW d \in Daemon, schema' = schema, ~ Finishing(d), status'[d] # "up"
  PROVE  MadeWhole(d)
BY DEF MadeWhole, Complete

LEMMA NotFinishing ==
  ASSUME NEW d \in Daemon,
         \/ stack[d] = <<Connect>>
         \/ stack[d] = <<Checking, Execute(Version, 0)>>
         \/ stack[d] = <<Checking>>
         \/ stack[d] = <<Connect, Upgrade, Execute(Version, 0)>>
         \/ stack[d] = <<Connect, Upgrade>>
  PROVE  ~ Finishing(d)
<1> SUFFICES ASSUME NEW todo, RunsScripts(d, todo) PROVE FALSE
  BY DEF Finishing
<1>1. PICK f : \/ stack[d] = <<Connect, Scripts(f)>>
               \/ \E g : stack[d] = <<Connect, Scripts(f), g>>
  BY DEF RunsScripts
<1>2. Len(stack[d]) > 1 /\ stack[d][1] = Connect /\ stack[d][2] = Scripts(f)
  <2>1. CASE stack[d] = <<Connect, Scripts(f)>>
    BY <2>1, Lists
  <2>2. ASSUME NEW g, stack[d] = <<Connect, Scripts(f), g>>
        PROVE  Len(stack[d]) > 1 /\ stack[d][1] = Connect /\ stack[d][2] = Scripts(f)
    <3>1. /\ Len(<<Connect, Scripts(f), g>>) = 3 /\ <<Connect, Scripts(f), g>>[1] = Connect
          /\ <<Connect, Scripts(f), g>>[2] = Scripts(f)
      OBVIOUS
    <3> QED
      BY <2>2, <3>1
  <2> QED
    BY <1>1, <2>1, <2>2
<1>3. Connect # Checking /\ Scripts(f) # Upgrade /\ Scripts(f) # Execute(Version, 0)
  BY CallsAre
<1> QED
  BY <1>2, <1>3

LEMMA OpensOnItsWay ==
  ASSUME ConnInv, NEW d \in Daemon, Starting(d), stack[d] = <<Connect>>, Proceed(d)
  PROVE  GotOn(d) /\ MadeWhole(d)
<1>1. /\ stack[d] # <<>> /\ Top(d) = Connect /\ Under(d) = <<>>
      /\ Open(d) /\ schema' = schema /\ d \in Process
  <2>1. stack[d] # <<>> /\ Top(d) = Connect /\ Under(d) = <<>>
    BY Flat DEF Top, Under
  <2> QED
    BY <2>1, ByTop DEF Open, Process
<1> DEFINE read == <<Checking, Execute(Version, 0)>>
           install == <<Connect, Scripts(InstallScripts)>>
<1>2. /\ Under(d) \o <<Checking, Execute(Version, 0)>> = read
      /\ stack[d] \o <<Scripts(InstallScripts)>> = install
      /\ Len(read) = 2 /\ Len(install) = 2 /\ read # <<>> /\ install # <<>>
      /\ Last(install) = Scripts(InstallScripts)
  BY <1>1, FlatJoins, Flat
<1>3. alive'[d]
  BY <1>1 DEF Open, ConnInv, FlagsOK
<1>4. IF schema.hstore THEN Calls(d, read)
      ELSE IF AutoInstall THEN Calls(d, install) ELSE Raises(d)
  BY <1>1, <1>2 DEF Open
<1> HIDE DEF read, install
<1>5. IF schema.hstore THEN Got(d, read)
      ELSE IF AutoInstall THEN Got(d, install) ELSE Fell(d)
  <2>1. Len(read) \in 0 .. 3 /\ Len(install) \in 0 .. 3
    BY <1>2
  <2> QED
    BY <1>4, <2>1, Gets
<1>6. status'[d] # "up"
  BY <1>2, <1>5 DEF Got, Fell
<1>7. MadeWhole(d)
  BY <1>1, <1>6, NotFinishing, StaysWhole
<1>8. CASE schema.hstore
  <2>1. OnItsWay(d)' /\ status'[d] = "starting"
    BY <1>2, <1>3, <1>5, <1>8 DEF OnItsWay, Got, read
  <2> QED
    BY <1>7, <2>1 DEF GotOn
<1>9. CASE ~ schema.hstore /\ AutoInstall
  <2>1. stack'[d] = install /\ status'[d] = "starting"
    BY <1>2, <1>5, <1>9 DEF Got
  <2>2. CASE schema.tables = 0
    <3>1. Fits(InstallScripts)' /\ InstallScripts \in Seq(Script)
      BY <1>1, <2>2, ScriptLists DEF Fits, InstallScripts
    <3>2. RunsScripts(d, InstallScripts)'
      BY <2>1 DEF RunsScripts, install
    <3>3. OnItsWay(d)'
      BY <1>3, <3>1, <3>2 DEF OnItsWay
    <3> QED
      BY <1>7, <2>1, <3>3 DEF GotOn
  <2>3. CASE schema.tables # 0
    <3>1. schema.tables > 0
      BY <2>3 DEF ConnInv, SchemaOK, Schema
    <3>2. Stuck'
      BY <1>1, <1>9, <3>1 DEF Stuck
    <3>3. stack'[d] # <<>> /\ Top(d)' = Scripts(InstallScripts)
      BY <1>2, <2>1 DEF Top
    <3>4. Hopeless(d)'
      BY <3>3 DEF Hopeless
    <3> QED
      BY <1>7, <2>1, <3>2, <3>4 DEF GotOn
  <2> QED
    BY <2>2, <2>3
<1>10. CASE ~ schema.hstore /\ ~ AutoInstall
  <2>1. status'[d] = "failed"
    BY <1>5, <1>10 DEF Fell
  <2> QED
    BY <1>7, <1>10, <2>1 DEF GotOn, Starting
<1> QED
  BY <1>8, <1>9, <1>10

LEMMA ReadsOnItsWay ==
  ASSUME ConnInv, NEW d \in Daemon, Starting(d), Proceed(d), alive[d],
         \/ stack[d] = <<Checking, Execute(Version, 0)>>
         \/ schema.version \in 1 .. Latest - 1 /\ stack[d] = <<Connect, Upgrade, Execute(Version, 0)>>
  PROVE  GotOn(d) /\ MadeWhole(d)
<1>1. PICK below : /\ Under(d) = below /\ stack[d] # <<>> /\ Top(d) = Execute(Version, 0)
                   /\ \/ below = <<Checking>>
                      \/ schema.version \in 1 .. Latest - 1 /\ below = <<Connect, Upgrade>>
  <2>1. CASE stack[d] = <<Checking, Execute(Version, 0)>>
    <3>1. Under(d) = <<Checking>> /\ stack[d] # <<>> /\ Top(d) = Execute(Version, 0)
      BY <2>1, Flat DEF Top, Under
    <3> QED
      BY <3>1
  <2>2. CASE schema.version \in 1 .. Latest - 1 /\ stack[d] = <<Connect, Upgrade, Execute(Version, 0)>>
    <3>1. Under(d) = <<Connect, Upgrade>> /\ stack[d] # <<>> /\ Top(d) = Execute(Version, 0)
      BY <2>2, Flat DEF Top, Under
    <3> QED
      BY <2>2, <3>1
  <2> QED
    BY <2>1, <2>2
<1>2. ReadVersion(d)
  BY <1>1, ByTop
<1>3. /\ schema' = schema /\ alive' = alive /\ seen'[d] = schema.version
      /\ Starting(d)' /\ stack'[d] = below
  BY <1>1, <1>2, ReadsVersion
<1>4. OnItsWay(d)'
  BY <1>1, <1>3 DEF OnItsWay
<1>5. status'[d] # "up" /\ status'[d] # "failed"
  BY <1>3 DEF Starting
<1>6. MadeWhole(d)
  BY <1>3, <1>5, NotFinishing, StaysWhole
<1> QED
  BY <1>3, <1>4, <1>5, <1>6 DEF GotOn

LEMMA ChecksOnItsWay ==
  ASSUME ConnInv, NEW d \in Daemon, Starting(d), Proceed(d), alive[d],
         stack[d] = <<Checking>>, seen[d] = schema.version
  PROVE  GotOn(d) /\ MadeWhole(d)
<1> DEFINE v == schema.version
<1>1. /\ Under(d) = <<>> /\ stack[d] # <<>> /\ Top(d) = Checking
      /\ Check(d) /\ schema' = schema /\ alive' = alive /\ seen' = seen
  <2>1. Under(d) = <<>> /\ stack[d] # <<>> /\ Top(d) = Checking
    BY Flat DEF Top, Under
  <2> QED
    BY <2>1, ByTop DEF Check
<1>2. /\ v \in 0 .. Latest /\ schema.tables \in 0 .. Latest /\ v <= schema.tables
      /\ Latest \in Nat \ {0} /\ 0 \notin Repeatable
      /\ AutoInstall \in BOOLEAN /\ AutoUpgrade \in BOOLEAN
  BY ConnectionAssumption DEF ConnInv, SchemaOK, Schema, VersionPromisesTables
<1> DEFINE install == <<Connect, Scripts(InstallScripts)>>
           upgrade == <<Connect, Upgrade, Execute(Version, 0)>>
<1>3. /\ Under(d) \o <<Connect>> \o <<Scripts(InstallScripts)>> = install
      /\ Under(d) \o <<Connect>> \o <<Upgrade, Execute(Version, 0)>> = upgrade
      /\ Len(install) = 2 /\ Len(upgrade) = 3 /\ install # <<>> /\ upgrade # <<>>
      /\ Last(install) = Scripts(InstallScripts)
  BY <1>1, FlatJoins, Flat
<1>4. CASE v = 0 /\ AutoInstall
  <2> HIDE DEF install
  <2>1. Calls(d, install)
    <3>1. Calls(d, Under(d) \o <<Connect>> \o <<Scripts(InstallScripts)>>)
      BY <1>1, <1>2, <1>4 DEF Check
    <3> QED
      BY <1>3, <3>1
  <2>2. Len(install) \in 0 .. 3
    BY <1>3
  <2>3. Got(d, install)
    BY <2>1, <2>2, Gets
  <2>4. status'[d] = "starting" /\ stack'[d] = install
    BY <1>3, <2>3 DEF Got
  <2>5. MadeWhole(d)
    BY <1>1, <2>4, NotFinishing, StaysWhole
  <2>6. CASE schema.tables = 0
    <3>1. Fits(InstallScripts)' /\ InstallScripts \in Seq(Script)
      BY <1>1, <2>6, ScriptLists DEF Fits, InstallScripts
    <3>2. RunsScripts(d, InstallScripts)'
      BY <2>4 DEF RunsScripts, install
    <3>3. OnItsWay(d)'
      BY <1>1, <3>1, <3>2 DEF OnItsWay
    <3> QED
      BY <2>4, <2>5, <3>3 DEF GotOn
  <2>7. CASE schema.tables # 0
    <3>1. Stuck'
      BY <1>1, <1>2, <1>4, <2>7 DEF Stuck, FallenBehind
    <3>2. stack'[d] # <<>> /\ Top(d)' = Scripts(InstallScripts)
      BY <1>3, <2>4 DEF Top
    <3>3. Hopeless(d)'
      BY <3>2 DEF Hopeless
    <3> QED
      BY <2>4, <2>5, <3>1, <3>3 DEF GotOn
  <2> QED
    BY <2>6, <2>7
<1>5. CASE v \notin {0, Latest} /\ AutoUpgrade
  <2>1. Calls(d, upgrade)
    BY <1>1, <1>3, <1>5 DEF Check
  <2>2. Len(upgrade) \in 0 .. 3
    BY <1>3
  <2> HIDE DEF upgrade
  <2>3. Got(d, upgrade)
    BY <2>1, <2>2, Gets
  <2>4. status'[d] = "starting" /\ stack'[d] = upgrade
    BY <1>3, <2>3 DEF Got
  <2>5. MadeWhole(d)
    BY <1>1, <2>4, NotFinishing, StaysWhole
  <2>6. v \in 1 .. Latest - 1
    BY <1>2, <1>5
  <2>7. OnItsWay(d)'
    BY <1>1, <2>4, <2>6 DEF OnItsWay, upgrade
  <2> QED
    BY <2>4, <2>5, <2>7 DEF GotOn
<1>6. CASE v = Latest
  <2>1. Goes(d, <<>>)
    BY <1>1, <1>2, <1>6 DEF Check
  <2>2. status'[d] = "up"
    BY <2>1, Gets DEF Got
  <2>3. schema.tables = Latest /\ ~ Finishing(d)
    BY <1>2, <1>6, NotFinishing
  <2>4. MadeWhole(d)
    BY <1>1, <2>2, <2>3 DEF MadeWhole, Complete
  <2> QED
    BY <2>2, <2>4 DEF GotOn, Starting
<1>7. CASE ~ (v = 0 /\ AutoInstall) /\ ~ (v \notin {0, Latest} /\ AutoUpgrade) /\ v # Latest
  <2>1. Raises(d)
    BY <1>1, <1>7 DEF Check
  <2>2. status'[d] = "failed"
    BY <2>1, Gets DEF Fell
  <2>3. MadeWhole(d)
    BY <1>1, <2>2, NotFinishing, StaysWhole
  <2> QED
    BY <1>2, <1>7, <2>2, <2>3 DEF GotOn, Starting
<1> QED
  BY <1>4, <1>5, <1>6, <1>7

LEMMA PlansOnItsWay ==
  ASSUME ConnInv, NEW d \in Daemon, Starting(d), Proceed(d), alive[d],
         stack[d] = <<Connect, Upgrade>>, seen[d] = schema.version, schema.version \in 1 .. Latest - 1
  PROVE  GotOn(d) /\ MadeWhole(d)
<1> DEFINE todo == UpgradeScripts(schema.version)
           calls == <<Connect, Scripts(todo)>>
<1>1. /\ Under(d) = <<Connect>> /\ stack[d] # <<>> /\ Top(d) = Upgrade
      /\ PlanUpgrade(d) /\ schema' = schema /\ alive' = alive
  <2>1. Under(d) = <<Connect>> /\ stack[d] # <<>> /\ Top(d) = Upgrade
    BY Flat DEF Top, Under
  <2> QED
    BY <2>1, ByTop DEF PlanUpgrade
<1>2. Goes(d, Under(d) \o <<Scripts(todo)>>)
  BY <1>1 DEF PlanUpgrade
<1>3. Got(d, calls) /\ calls # <<>>
  <2>1. <<Connect>> \o <<Scripts(todo)>> = calls
    BY FlatJoins
  <2> HIDE DEF todo
  <2> QED
    BY <1>1, <1>2, <2>1, Gets, Flat
<1>4. stack'[d] = calls /\ status'[d] = "starting"
  BY <1>3 DEF Got
<1>5. todo \in Seq(Script) /\ todo = UpgradeScripts(schema'.version)
  BY <1>1, RestIs
<1>6. Fits(todo)'
  BY <1>1, <1>5 DEF Fits, UpgradeScripts
<1>7. RunsScripts(d, todo)'
  BY <1>1, <1>4 DEF RunsScripts
<1>8. OnItsWay(d)'
  BY <1>1, <1>5, <1>6, <1>7 DEF OnItsWay
<1>9. MadeWhole(d)
  BY <1>1, <1>4, NotFinishing, StaysWhole
<1> QED
  BY <1>4, <1>8, <1>9 DEF GotOn

\* Where it goes on with other scripts.
LEMMA GoesOnWith ==
  ASSUME NEW d \in Daemon, alive'[d], NEW todo \in Seq(Script), Fits(todo)', RunsScripts(d, todo)',
         status'[d] = "starting"
  PROVE  GotOn(d) /\ (todo \in {<<Functions, Triggers>>, Rest(Latest)} => Finishing(d)')
<1>1. OnItsWay(d)'
  BY DEF OnItsWay
<1>2. Rest(Latest)' = Rest(Latest)
  BY DEF Rest
<1>3. todo \in {<<Functions, Triggers>>, Rest(Latest)} => Finishing(d)'
  BY <1>2 DEF Finishing
<1> QED
  BY <1>1, <1>3 DEF GotOn

LEMMA ScriptOnItsWay ==
  ASSUME ConnInv, NEW d \in Daemon, Starting(d), Proceed(d), alive[d],
         NEW todo \in Seq(Script), Fits(todo), stack[d] = <<Connect, Scripts(todo)>>
  PROVE  GotOn(d) /\ MadeWhole(d)
<1>1. /\ Under(d) = <<Connect>> /\ stack[d] # <<>> /\ Top(d) = Scripts(todo)
      /\ NextScript(d) /\ schema' = schema /\ alive' = alive
  <2>1. Under(d) = <<Connect>> /\ stack[d] # <<>> /\ Top(d) = Scripts(todo)
    BY Flat DEF Top, Under
  <2>2. NextScript(d)
    BY <2>1, ByTop
  <2> QED
    BY <2>1, <2>2 DEF NextScript
<1>2. CASE todo = <<>>
  <2>1. Goes(d, Under(d))
    BY <1>1, <1>2, CallsAre DEF NextScript
  <2>2. stack'[d] = <<Connect>> /\ status'[d] = "starting"
    BY <1>1, <2>1, Gets, Flat DEF Got
  <2>3. OnItsWay(d)'
    BY <2>2 DEF OnItsWay
  <2>4. Complete \/ schema.tables # schema.version
    <3>1. todo # InstallScripts /\ todo # <<Functions, Triggers>>
      BY <1>2 DEF InstallScripts
    <3>2. schema.version \in 1 .. Latest - 1 => todo # UpgradeScripts(schema.version) /\ todo # Rest(schema.version)
      BY <1>2, RestIs
    <3>3. schema.version = Latest => todo # Rest(schema.version)
      <4>1. <<Triggers>> # <<>>
        BY Lists
      <4> QED
        BY <1>2, <4>1, RestIs
    <3>4. schema.version \in 1 .. Latest => schema.version \in 1 .. Latest - 1 \/ schema.version = Latest
      BY ConnectionAssumption
    <3> QED
      BY <1>2, <3>1, <3>2, <3>3, <3>4 DEF Fits, Complete
  <2> QED
    BY <1>1, <2>2, <2>3, <2>4 DEF GotOn, MadeWhole, Complete
<1>3. CASE todo # <<>>
  <2> DEFINE calls == <<Connect, Scripts(Tail(todo)), Execute(Head(todo), 0)>>
  <2>1. Calls(d, Under(d) \o <<Scripts(Tail(todo)), Execute(Head(todo), 0)>>)
    BY <1>1, <1>3, CallsAre DEF NextScript
  <2>2. Under(d) \o <<Scripts(Tail(todo)), Execute(Head(todo), 0)>> = calls
        /\ Len(calls) \in 0 .. 3 /\ calls # <<>>
    <3>1. <<Connect>> \o <<Scripts(Tail(todo)), Execute(Head(todo), 0)>> = calls
      BY FlatJoins
    <3>2. Len(calls) = 3 /\ calls # <<>>
      BY Flat
    <3> HIDE DEF calls
    <3> QED
      BY <1>1, <3>1, <3>2
  <2> HIDE DEF calls
  <2>3. Got(d, calls)
    BY <2>1, <2>2, Gets
  <2>4. stack'[d] = calls /\ status'[d] = "starting"
    BY <2>2, <2>3 DEF Got
  <2>5. RunsScripts(d, todo)'
    BY <1>3, <2>4 DEF RunsScripts, calls
  <2>6. Fits(todo)'
    BY <1>1 DEF Fits, UpgradeScripts, Rest
  <2>7. GotOn(d) /\ (todo \in {<<Functions, Triggers>>, Rest(Latest)} => Finishing(d)')
    BY <1>1, <2>4, <2>5, <2>6, GoesOnWith
  <2>8. schema.version = schema.tables /\ schema.tables = Latest =>
          Complete \/ todo \in {<<Functions, Triggers>>, Rest(Latest)}
    <3>1. Latest # 0 /\ Latest \notin 1 .. Latest - 1
      BY ConnectionAssumption
    <3> QED
      BY <1>3, <3>1 DEF Fits, Complete
  <2>9. MadeWhole(d)
    BY <1>1, <2>4, <2>7, <2>8 DEF MadeWhole, Complete, Starting
  <2> QED
    BY <2>7, <2>9
<1> QED
  BY <1>2, <1>3

\* A script that fits the schema succeeds, and the next ones fit what it has made of it.
LEMMA NextFits ==
  ASSUME ConnInv, NEW todo \in Seq(Script), Fits(todo), todo # <<>>,
         CanApply(Head(todo)), schema' = Applied(Head(todo))
  PROVE  /\ Tail(todo) \in Seq(Script) /\ Fits(Tail(todo))'
         /\ schema.version = schema.tables =>
              /\ schema'.version = schema'.tables
              /\ Complete => Complete'
              /\ schema'.tables = Latest =>
                   Complete' \/ Tail(todo) \in {<<Functions, Triggers>>, Rest(Latest)}
<1>1. /\ schema \in Schema /\ schema.version \in 0 .. Latest /\ schema.tables \in 0 .. Latest
      /\ schema.version <= schema.tables /\ Latest \in Nat \ {0}
  BY ConnectionAssumption DEF ConnInv, SchemaOK, VersionPromisesTables, Schema
<1>2. Tail(todo) \in Seq(Script)
  OBVIOUS
<1>3. \A from : Rest(from)' = Rest(from)
  BY DEF Rest
<1>4. CASE todo = InstallScripts /\ schema.tables = 0
  <2>1. Head(todo) = Tables /\ Tail(todo) = <<Functions, Triggers>>
    BY <1>4 DEF InstallScripts
  <2>2. schema' = [schema EXCEPT !.version = Latest, !.tables = Latest, !.hstore = TRUE]
    BY <2>1 DEF Applied, Tables
  <2>3. schema'.version = Latest /\ schema'.tables = Latest
    BY <1>1, <2>2 DEF Schema
  <2>4. Fits(Tail(todo))'
    BY <2>1, <2>3 DEF Fits
  <2>5. ~ Complete
    BY <1>1, <1>4 DEF Complete
  <2> QED
    BY <1>2, <2>1, <2>3, <2>4, <2>5
<1>5. CASE todo = <<Functions, Triggers>> /\ schema.version = Latest
  <2>1. Head(todo) = Functions /\ Tail(todo) = <<Triggers>> /\ Rest(Latest) = <<Triggers>>
    BY <1>5, RestIs
  <2>2. schema' = [schema EXCEPT !.functions = "new"]
    BY <2>1 DEF Applied, Functions
  <2>3. /\ schema'.version = Latest /\ schema'.tables = schema.tables
        /\ schema'.functions = "new" /\ schema'.triggers = schema.triggers
    BY <1>1, <1>5, <2>2 DEF Schema
  <2>4. Fits(Tail(todo))'
    <3>1. Tail(todo) = Rest(Latest)
      BY <2>1
    <3>2. schema'.version \in 1 .. Latest
      BY <1>1, <2>3
    <3>3. Tail(todo) = Rest(schema'.version)
      BY <2>3, <3>1
    <3> QED
      BY <2>3, <3>2, <3>3 DEF Fits, Rest
  <2>5. Tail(todo) = Rest(Latest)
    BY <2>1
  <2> QED
    BY <1>2, <1>5, <2>3, <2>4, <2>5 DEF Complete
<1>6. CASE todo = UpgradeScripts(schema.version) /\ schema.version \in 1 .. Latest - 1
  <2>1. Head(todo) = Functions /\ Tail(todo) = Rest(schema.version)
    BY <1>6, RestIs
  <2>2. schema' = [schema EXCEPT !.functions = "new"]
    BY <2>1 DEF Applied, Functions
  <2>3. /\ schema'.version = schema.version /\ schema'.tables = schema.tables
        /\ schema'.functions = "new"
    BY <1>1, <2>2 DEF Schema
  <2>4. Fits(Tail(todo))'
    <3>1. Tail(todo) = Rest(schema'.version) /\ schema'.version \in 1 .. Latest
      BY <1>1, <1>6, <2>1, <2>3
    <3> QED
      BY <2>3, <3>1 DEF Fits, Rest
  <2>5. schema.version = schema.tables => schema.tables # Latest
    BY <1>1, <1>6
  <2> QED
    BY <1>2, <2>3, <2>4, <2>5 DEF Complete
<1>7. CASE /\ todo = Rest(schema.version) /\ schema.version \in 1 .. Latest - 1
           /\ schema.functions = "new"
  <2> DEFINE v == schema.version
             t == IF schema.tables < v + 1 THEN v + 1 ELSE schema.tables
             h == schema.hstore \/ v + 1 >= FirstHstore
  <2>1. Head(todo) = Migration(v) /\ Tail(todo) = Rest(v + 1)
    BY <1>7, RestIs
  <2>2. schema' = [schema EXCEPT !.version = v + 1, !.tables = t, !.hstore = h, !.triggers = "old"]
    <3>1. Migration(v).do = "upgrade" /\ Migration(v).from = v
      BY DEF Migration
    <3> QED
      BY <2>1, <3>1 DEF Applied
  <2> HIDE DEF t, h
  <2>3. schema'.version = v + 1 /\ schema'.tables = t /\ schema'.functions = "new"
    BY <1>1, <1>7, <2>2 DEF Schema
  <2>4. v + 1 \in 1 .. Latest
    BY <1>1, <1>7
  <2>5. Fits(Tail(todo))'
    <3>1. Tail(todo) = Rest(schema'.version) /\ schema'.version \in 1 .. Latest
      BY <2>1, <2>3, <2>4
    <3> QED
      BY <2>3, <3>1 DEF Fits, Rest
  <2>6. v = schema.tables => t = v + 1 /\ schema.tables # Latest
    BY <1>1, <1>7 DEF t
  <2>7. v = schema.tables => ~ Complete
    BY <2>6 DEF Complete
  <2>8. v = schema.tables /\ schema'.tables = Latest => Tail(todo) = Rest(Latest)
    BY <2>1, <2>3, <2>6
  <2> QED
    BY <1>2, <2>3, <2>5, <2>6, <2>7, <2>8
<1>8. CASE todo = Rest(schema.version) /\ schema.version = Latest /\ schema.functions = "new"
  <2>1. Head(todo) = Triggers /\ Tail(todo) = <<>>
    BY <1>8, RestIs
  <2>2. schema' = [schema EXCEPT !.triggers = "new"]
    BY <2>1 DEF Applied, Triggers
  <2>3. /\ schema'.version = Latest /\ schema'.tables = schema.tables
        /\ schema'.functions = "new" /\ schema'.triggers = "new"
    BY <1>1, <1>8, <2>2 DEF Schema
  <2>4. Fits(Tail(todo))'
    BY <2>1, <2>3 DEF Fits
  <2> QED
    BY <1>2, <1>8, <2>3, <2>4 DEF Complete
<1>9. schema.version \in 1 .. Latest => schema.version \in 1 .. Latest - 1 \/ schema.version = Latest
  BY <1>1
<1> QED
  BY <1>4, <1>5, <1>6, <1>7, <1>8, <1>9 DEF Fits

\* It cannot be repeated when its answer was lost.
LEMMA NoFit ==
  ASSUME ConnInv, NEW todo \in Seq(Script), Fits(todo), todo # <<>>, ~ CanApply(Head(todo))
  PROVE  FallenBehind
<1>1. /\ schema \in Schema /\ schema.version \in 0 .. Latest /\ schema.tables \in 0 .. Latest
      /\ schema.version <= schema.tables /\ Latest \in Nat \ {0}
  BY ConnectionAssumption DEF ConnInv, SchemaOK, VersionPromisesTables, Schema
<1>2. CASE todo = InstallScripts /\ schema.tables = 0
  <2>1. Head(todo) = Tables
    BY <1>2 DEF InstallScripts
  <2> QED
    BY <1>2, <2>1 DEF CanApply, Tables
<1>3. CASE Head(todo) \in {Functions, Triggers} /\ schema.version > 0
  <2>1. schema.tables > 0
    BY <1>1, <1>3
  <2> QED
    BY <1>3, <2>1 DEF CanApply, Functions, Triggers
<1>4. CASE todo = Rest(schema.version) /\ schema.version \in 1 .. Latest - 1
  <2>1. Head(todo) = Migration(schema.version)
    BY <1>4, RestIs
  <2>2. /\ schema.tables # schema.version
        /\ ~ (schema.tables > schema.version /\ schema.version \in Repeatable)
    BY <2>1 DEF CanApply, Migration
  <2> QED
    BY <1>1, <2>2 DEF FallenBehind
<1>5. CASE todo = <<Functions, Triggers>> /\ schema.version = Latest
  <2>1. Head(todo) = Functions /\ schema.version > 0
    BY <1>1, <1>5
  <2> QED
    BY <1>3, <2>1
<1>6. CASE todo = UpgradeScripts(schema.version) /\ schema.version \in 1 .. Latest - 1
  <2>1. Head(todo) = Functions
    BY <1>6, RestIs
  <2>2. schema.version > 0
    BY <1>1, <1>6
  <2> QED
    BY <1>3, <2>1, <2>2
<1>7. CASE todo = Rest(schema.version) /\ schema.version = Latest
  <2>1. Head(todo) = Triggers /\ schema.version > 0
    BY <1>1, <1>7, RestIs
  <2> QED
    BY <1>3, <2>1
<1>8. schema.version \in 1 .. Latest => schema.version \in 1 .. Latest - 1 \/ schema.version = Latest
  BY <1>1
<1> QED
  BY <1>2, <1>4, <1>5, <1>6, <1>7, <1>8 DEF Fits

LEMMA RunsOnItsWay ==
  ASSUME ConnInv, NEW d \in Daemon, Starting(d), Proceed(d), alive[d],
         NEW todo \in Seq(Script), Fits(todo), todo # <<>>,
         stack[d] = <<Connect, Scripts(Tail(todo)), Execute(Head(todo), 0)>>
  PROVE  GotOn(d) /\ MadeWhole(d)
<1>1. /\ Under(d) = <<Connect, Scripts(Tail(todo))>> /\ stack[d] # <<>>
      /\ Top(d) = Execute(Head(todo), 0) /\ Head(todo) \in Script
  BY Flat DEF Top, Under
<1>2. RunScript(d)
  BY <1>1, ByTop
<1>3. /\ seen' = seen /\ alive' = alive
      /\ IF CanApply(Head(todo))
         THEN schema' = Applied(Head(todo)) /\ Starting(d)' /\ stack'[d] = Under(d)
         ELSE schema' = schema /\ Retry(d)
  BY <1>1, <1>2, RunsScript
<1>4. CASE CanApply(Head(todo))
  <2>1. /\ Tail(todo) \in Seq(Script) /\ Fits(Tail(todo))'
        /\ schema.version = schema.tables =>
             /\ schema'.version = schema'.tables
             /\ Complete => Complete'
             /\ schema'.tables = Latest =>
                  Complete' \/ Tail(todo) \in {<<Functions, Triggers>>, Rest(Latest)}
    BY <1>3, <1>4, NextFits
  <2>2. RunsScripts(d, Tail(todo))'
    BY <1>1, <1>3, <1>4 DEF RunsScripts
  <2>3. status'[d] = "starting" /\ alive'[d]
    BY <1>3, <1>4 DEF Starting
  <2>4. GotOn(d) /\ (Tail(todo) \in {<<Functions, Triggers>>, Rest(Latest)} => Finishing(d)')
    BY <2>1, <2>2, <2>3, GoesOnWith
  <2>5. MadeWhole(d)
    BY <2>1, <2>3, <2>4 DEF MadeWhole, Starting
  <2> QED
    BY <2>4, <2>5
<1>5. CASE ~ CanApply(Head(todo))
  <2>1. FallenBehind /\ schema.version # schema.tables
    <3>1. FallenBehind
      BY <1>5, NoFit
    <3>2. schema.version \in 0 .. Latest /\ schema.tables \in 0 .. Latest
      BY DEF ConnInv, SchemaOK, Schema
    <3> QED
      BY <3>1, <3>2 DEF FallenBehind
  <2>2. Stuck'
    BY <1>3, <1>5, <2>1, Keeps DEF Stuck
  <2>3. Fell(d) \/ (Starting(d)' /\ stack'[d] # <<>> /\ Top(d)' = Connect)
    BY <1>1, <1>3, <1>5, RetryAgain
  <2>4. stack'[d] # <<>> /\ Top(d)' = Connect => Hopeless(d)'
    BY DEF Hopeless
  <2> QED
    BY <2>1, <2>2, <2>3, <2>4 DEF GotOn, MadeWhole, Fell, Starting
<1> QED
  BY <1>4, <1>5

LEMMA WayStep ==
  ASSUME ConnInv, NEW d \in Daemon, Starting(d), Proceed(d), OnItsWay(d)
  PROVE  GotOn(d) /\ MadeWhole(d)
<1>1. CASE stack[d] = <<Connect>>
  BY <1>1, OpensOnItsWay
<1>2. CASE /\ alive[d]
           /\ \/ stack[d] = <<Checking, Execute(Version, 0)>>
              \/ /\ schema.version \in 1 .. Latest - 1
                 /\ stack[d] = <<Connect, Upgrade, Execute(Version, 0)>>
  BY <1>2, ReadsOnItsWay
<1>3. CASE alive[d] /\ stack[d] = <<Checking>> /\ seen[d] = schema.version
  BY <1>3, ChecksOnItsWay
<1>4. CASE /\ alive[d] /\ schema.version \in 1 .. Latest - 1
           /\ stack[d] = <<Connect, Upgrade>> /\ seen[d] = schema.version
  BY <1>4, PlansOnItsWay
<1>5. ASSUME alive[d], NEW todo \in Seq(Script), Fits(todo), RunsScripts(d, todo)
      PROVE  GotOn(d) /\ MadeWhole(d)
  BY <1>5, ScriptOnItsWay, RunsOnItsWay DEF RunsScripts
<1> QED
  BY <1>1, <1>2, <1>3, <1>4, <1>5 DEF OnItsWay

-----------------------------------------------------------------------------
(* The others.                                                             *)

Acts(p) == Proceed(p) \/ OpenFails(p) \/ LoseScript(p)

\* Whatever one process does, the starts of the others stay where they are.
LEMMA OthersStill ==
  ASSUME ConnInv, NEW p \in Process, Steps(p), NEW d \in Process, d # p
  PROVE  /\ stack'[d] = stack[d] /\ status'[d] = status[d] /\ alive'[d] = alive[d] /\ seen'[d] = seen[d]
         /\ shaken[d] => shaken'[d]
         /\ ~ Start(p) => shaken'[d] = shaken[d]
<1>1. /\ stack = [q \in Process |-> stack[q]]
      /\ status \in [Process -> {"down", "starting", "up", "failed"}]
      /\ seen \in [Process -> 0 .. Latest]
      /\ alive \in [Process -> BOOLEAN] /\ shaken \in [Process -> BOOLEAN]
  BY DEF ConnInv, StacksOK, StatusOK, SeenOK, FlagsOK
<1>2. /\ \A calls : Goes(p, calls) => stack'[d] = stack[d] /\ status'[d] = status[d]
      /\ Raises(p) => stack'[d] = stack[d] /\ status'[d] = status[d]
  BY <1>1 DEF Goes, Raises
<1>3. \A calls : Calls(p, calls) => stack'[d] = stack[d] /\ status'[d] = status[d]
  BY <1>2 DEF Calls
<1>4. Retry(p) => stack'[d] = stack[d] /\ status'[d] = status[d]
  BY <1>2, <1>3 DEF Retry
<1>5. CASE Proceed(p)
  <2>1. stack'[d] = stack[d] /\ status'[d] = status[d]
    BY <1>2, <1>3, <1>4, <1>5
       DEF Proceed, Open, Check, PlanUpgrade, NextScript, ReadVersion, RunScript, FindDead
  <2>2. alive'[d] = alive[d] /\ seen'[d] = seen[d] /\ shaken' = shaken
    BY <1>1, <1>5
       DEF Proceed, Open, Check, PlanUpgrade, NextScript, ReadVersion, RunScript, FindDead
  <2> QED
    BY <2>1, <2>2
<1>6. CASE OpenFails(p) \/ LoseScript(p)
  BY <1>1, <1>2, <1>4, <1>6 DEF OpenFails, LoseScript, Loses
<1>7. CASE Start(p)
  <2>1. stack'[d] = stack[d] /\ status'[d] = status[d] /\ alive'[d] = alive[d] /\ seen'[d] = seen[d]
    BY <1>1, <1>7 DEF Start
  <2>2. shaken[d] => shaken'[d]
    BY <1>7 DEF Start
  <2> QED
    BY <1>7, <2>1, <2>2
<1>8. CASE Crash(p)
  BY <1>1, <1>8 DEF Crash
<1>9. CASE Serves(p)
  <2>1. CASE Receive(p)
    BY <1>1, <2>1 DEF Receive
  <2>2. CASE Continue(p)
    <3>1. stack'[d] = stack[d] /\ status'[d] = status[d]
      <4>1. \E calls : Goes(p, calls)
        BY <2>2 DEF Continue
      <4> QED
        BY <1>2, <4>1
    <3> QED
      BY <2>2, <3>1 DEF Continue
  <2>3. CASE RunStatement(p) \/ RefuseStatement(p) \/ LoseStatement(p)
    <3>1. stack'[d] = stack[d] /\ status'[d] = status[d]
      BY <1>2, <1>4, <2>3 DEF RunStatement, Returns, RefuseStatement, LoseStatement, Loses
    <3>2. alive'[d] = alive[d] /\ seen'[d] = seen[d] /\ shaken'[d] = shaken[d]
      BY <1>1, <2>3 DEF RunStatement, RefuseStatement, LoseStatement, Loses
    <3> QED
      BY <3>1, <3>2
  <2> QED
    BY <1>9, <2>1, <2>2, <2>3 DEF Serves
<1> QED
  BY <1>5, <1>6, <1>7, <1>8, <1>9 DEF Steps

\* Nobody but a daemon that starts changes the schema.
LEMMA SchemaStill ==
  ASSUME ConnInv, NEW p \in Process, Steps(p), ~ (p \in Daemon /\ Starting(p) /\ Acts(p))
  PROVE  schema' = schema
<1>1. CASE Acts(p)
  <2>1. p \notin Daemon
    <3>1. stack[p] # <<>>
      BY <1>1 DEF Acts, Proceed, Open, OpenFails, Check, PlanUpgrade, NextScript, ReadVersion,
                  RunScript, FindDead, LoseScript, Loses, IsAt, IsCall
    <3> QED
      BY <1>1, <3>1 DEF ConnInv, StacksOK, Starting
  <2>2. RunScript(p) => schema' = schema
    BY <2>1, RunScriptOK
  <2>3. LoseScript(p) => schema' = schema
    BY <2>1, DeadOK
  <2> QED
    BY <1>1, <2>2, <2>3
       DEF Acts, Proceed, Open, OpenFails, Check, PlanUpgrade, NextScript, ReadVersion, FindDead
<1>2. CASE Serves(p)
  BY <1>2, Serving
<1>3. CASE Start(p) \/ Crash(p)
  BY <1>3 DEF Start, Crash
<1> QED
  BY <1>1, <1>2, <1>3 DEF Steps, Acts

\* How a daemon comes to start, and what is noted of it.
LEMMA WhoStarts ==
  ASSUME ConnInv, NEW p \in Daemon, Steps(p)
  PROVE  /\ Acts(p) => Starting(p)
         /\ Acts(p) \/ Start(p) \/ Crash(p)
         /\ Proceed(p) => shaken' = shaken
         /\ OpenFails(p) \/ LoseScript(p) => shaken'[p]
         /\ Start(p) => /\ stack'[p] = <<Connect>> /\ status'[p] = "starting"
                        /\ \A d \in Daemon : d # p /\ Starting(d) => shaken'[d] /\ shaken'[p]
         /\ Crash(p) => status'[p] = "down"
<1>1. /\ stack = [q \in Process |-> stack[q]] /\ p \in Process
      /\ status \in [Process -> {"down", "starting", "up", "failed"}]
      /\ shaken \in [Process -> BOOLEAN]
  BY DEF ConnInv, StacksOK, StatusOK, FlagsOK, Process
<1>2. Acts(p) => Starting(p)
  <2>1. Acts(p) => stack[p] # <<>>
    BY DEF Acts, Proceed, Open, OpenFails, Check, PlanUpgrade, NextScript, ReadVersion,
           RunScript, FindDead, LoseScript, Loses, IsAt, IsCall
  <2> QED
    BY <2>1 DEF ConnInv, StacksOK, Starting
<1>3. Acts(p) \/ Start(p) \/ Crash(p)
  BY <1>1, Serving DEF Steps, Acts
<1>4. Proceed(p) => shaken' = shaken
  BY DEF Proceed, Open, Check, PlanUpgrade, NextScript, ReadVersion, RunScript, FindDead
<1>5. OpenFails(p) \/ LoseScript(p) => shaken'[p]
  BY <1>1 DEF OpenFails, LoseScript, Loses
<1>6. Start(p) => /\ stack'[p] = <<Connect>> /\ status'[p] = "starting"
                  /\ \A d \in Daemon : d # p /\ Starting(d) => shaken'[d] /\ shaken'[p]
  <2> SUFFICES ASSUME Start(p)
               PROVE  /\ stack'[p] = <<Connect>> /\ status'[p] = "starting"
                      /\ \A d \in Daemon : d # p /\ Starting(d) => shaken'[d] /\ shaken'[p]
    OBVIOUS
  <2>1. stack'[p] = <<Connect>> /\ status'[p] = "starting"
    BY <1>1 DEF Start
  <2> DEFINE busy == {d \in Daemon : status[d] = "starting"}
  <2>2. shaken' = [q \in Process |-> IF q = p THEN p \in Daemon /\ busy # {}
                                     ELSE shaken[q] \/ (p \in Daemon /\ q \in busy)]
    BY DEF Start
  <2>3. \A d \in Daemon : Starting(d) => d \in busy /\ d \in Process
    BY DEF Starting, Process
  <2> HIDE DEF busy
  <2>4. \A d \in Daemon : d # p /\ Starting(d) => shaken'[d] /\ shaken'[p]
    <3> SUFFICES ASSUME NEW d \in Daemon, d # p, Starting(d) PROVE shaken'[d] /\ shaken'[p]
      OBVIOUS
    <3>1. d \in busy /\ d \in Process /\ busy # {}
      BY <2>3
    <3>2. shaken'[p] = (p \in Daemon /\ busy # {})
      BY <1>1, <2>2
    <3>3. shaken'[d] = (shaken[d] \/ (p \in Daemon /\ d \in busy))
      BY <2>2, <3>1
    <3> QED
      BY <3>1, <3>2, <3>3
  <2> QED
    BY <2>1, <2>4
<1>7. Crash(p) => status'[p] = "down"
  BY <1>1 DEF Crash
<1> QED
  BY <1>2, <1>3, <1>4, <1>5, <1>6, <1>7

\* Who does nothing stays where it is, if the schema does.
LEMMA StaysThere ==
  ASSUME NEW d \in Daemon, stack'[d] = stack[d], seen'[d] = seen[d], Hopeless(d), Kept
  PROVE  Hopeless(d)'
<1>1. (FallenBehind' <=> FallenBehind) /\ schema'.version = schema.version
  BY KeptStuck DEF Kept
<1>2. Top(d)' = Top(d) /\ Under(d)' = Under(d)
  BY DEF Top, Under
<1> QED
  BY <1>1, <1>2 DEF Hopeless, UpgradeScripts, Rest

LEMMA StaysOnItsWay ==
  ASSUME NEW d \in Daemon, stack'[d] = stack[d], seen'[d] = seen[d], alive'[d] = alive[d],
         schema' = schema
  PROVE  (OnItsWay(d) => OnItsWay(d)') /\ (Finishing(d) => Finishing(d)')
<1>1. \A todo : /\ Fits(todo) => Fits(todo)'
                /\ RunsScripts(d, todo) => RunsScripts(d, todo)'
  BY DEF Fits, RunsScripts, UpgradeScripts, Rest
<1>2. Rest(Latest)' = Rest(Latest)
  BY DEF Rest
<1> QED
  BY <1>1, <1>2 DEF OnItsWay, Finishing

LEMMA AloneOK ==
  ASSUME StartInv, NEW p \in Process, Steps(p)
  PROVE  Alone'
<1> SUFFICES ASSUME NEW d \in Daemon, NEW e \in Daemon, Starting(d)', ~ shaken'[d], Starting(e)', d # e
             PROVE  FALSE
  BY DEF Alone
<1>1. ConnInv /\ Alone /\ d \in Process /\ e \in Process
  BY DEF StartInv, Process
<1>2. \A q \in Daemon : q # p => Starting(q)' = Starting(q) /\ (shaken[q] => shaken'[q])
  BY <1>1, OthersStill DEF Starting, Process
<1>3. CASE d # p /\ e # p
  BY <1>1, <1>2, <1>3 DEF Alone
<1>4. CASE Start(p) /\ (d = p \/ e = p)
  BY <1>1, <1>2, <1>4, WhoStarts
<1>5. CASE ~ Start(p) /\ d = p
  <2>1. Starting(d) /\ ~ shaken[d]
    BY <1>1, <1>5, WhoStarts DEF Starting, Acts
  <2> QED
    BY <1>1, <1>2, <1>5, <2>1 DEF Alone
<1>6. CASE ~ Start(p) /\ e = p
  <2>1. Starting(e)
    BY <1>1, <1>6, WhoStarts DEF Starting
  <2> QED
    BY <1>1, <1>2, <1>6, <2>1 DEF Alone
<1> QED
  BY <1>3, <1>4, <1>5, <1>6

LEMMA UnshakenStep ==
  ASSUME StartInv, NEW p \in Process, Steps(p)
  PROVE  UnshakenOK'
<1> SUFFICES ASSUME NEW d \in Daemon, Starting(d)', ~ shaken'[d]
             PROVE  OnItsWay(d)' \/ (Stuck' /\ Hopeless(d)')
  BY DEF UnshakenOK
<1>1. ConnInv /\ Alone /\ UnshakenOK /\ d \in Process
  BY DEF StartInv, Process
<1>2. CASE d = p
  <2>1. CASE Start(p)
    <3>1. stack'[d] = <<Connect>>
      BY <1>1, <1>2, <2>1, WhoStarts
    <3> QED
      BY <3>1 DEF OnItsWay
  <2>2. CASE ~ Start(p)
    <3>1. Proceed(d) /\ Starting(d) /\ ~ shaken[d]
      BY <1>1, <1>2, <2>2, WhoStarts DEF Acts, Starting
    <3>2. CASE OnItsWay(d)
      BY <1>1, <3>1, <3>2, WayStep DEF GotOn
    <3>3. CASE Stuck /\ Hopeless(d)
      <4>1. Sinks(d)
        BY <1>1, <3>1, <3>3, HopelessStep
      <4> QED
        BY <3>3, <4>1, KeptStuck DEF Sinks, Fell, Starting
    <3> QED
      BY <1>1, <3>1, <3>2, <3>3 DEF UnshakenOK
  <2> QED
    BY <2>1, <2>2
<1>3. CASE d # p
  <2>1. /\ stack'[d] = stack[d] /\ status'[d] = status[d] /\ alive'[d] = alive[d] /\ seen'[d] = seen[d]
        /\ shaken[d] => shaken'[d]
    BY <1>1, <1>3, OthersStill
  <2>2. Starting(d) /\ ~ shaken[d]
    BY <2>1 DEF Starting
  <2>3. ~ (p \in Daemon /\ Starting(p) /\ Acts(p))
    BY <1>1, <1>3, <2>2 DEF Alone
  <2>4. schema' = schema
    BY <1>1, <2>3, SchemaStill
  <2> QED
    BY <1>1, <2>1, <2>2, <2>4, StaysThere, StaysOnItsWay, Keeps DEF UnshakenOK
<1> QED
  BY <1>2, <1>3

LEMMA FailedStep ==
  ASSUME StartInv, NEW p \in Process, Steps(p)
  PROVE  FailedOK'
<1> SUFFICES ASSUME AutoInstall, AutoUpgrade, NEW d \in Daemon, status'[d] = "failed", ~ shaken'[d]
             PROVE  Stuck' /\ \A e \in Daemon : Starting(e)' => Hopeless(e)'
  BY DEF FailedOK
<1>1. ConnInv /\ Alone /\ UnshakenOK /\ FailedOK /\ d \in Process
  BY DEF StartInv, Process
<1>2. \A e \in Daemon : e # p =>
        /\ stack'[e] = stack[e] /\ status'[e] = status[e] /\ alive'[e] = alive[e] /\ seen'[e] = seen[e]
        /\ shaken[e] => shaken'[e]
  BY <1>1, OthersStill DEF Process
<1>3. CASE d = p
  <2>1. Proceed(d) /\ Starting(d) /\ ~ shaken[d]
    BY <1>1, <1>3, WhoStarts DEF Acts
  <2>2. Stuck'
    <3>1. CASE OnItsWay(d)
      BY <1>1, <2>1, <3>1, WayStep DEF GotOn
    <3>2. CASE Stuck /\ Hopeless(d)
      <4>1. Sinks(d)
        BY <1>1, <2>1, <3>2, HopelessStep
      <4> QED
        BY <3>2, <4>1, KeptStuck DEF Sinks
    <3> QED
      BY <1>1, <2>1, <3>1, <3>2 DEF UnshakenOK
  <2>3. \A e \in Daemon : ~ Starting(e)'
    BY <1>1, <1>2, <1>3, <2>1 DEF Alone, Starting
  <2> QED
    BY <2>2, <2>3
<1>4. CASE d # p
  <2>1. Stuck /\ \A e \in Daemon : Starting(e) => Hopeless(e)
    BY <1>1, <1>2, <1>4 DEF FailedOK
  <2>2. CASE p \in Daemon /\ Starting(p) /\ Acts(p)
    <3>1. Sinks(p)
      BY <1>1, <2>1, <2>2, HopelessStep DEF Acts
    <3>2. Stuck' /\ Kept
      BY <2>1, <3>1, KeptStuck DEF Sinks
    <3>3. Starting(p)' => Hopeless(p)'
      BY <3>1 DEF Sinks, Fell, Starting
    <3>4. \A e \in Daemon : e # p /\ Starting(e)' => Hopeless(e)'
      BY <1>2, <2>1, <3>2, StaysThere DEF Starting
    <3> QED
      BY <3>2, <3>3, <3>4
  <2>3. CASE ~ (p \in Daemon /\ Starting(p) /\ Acts(p))
    <3>1. schema' = schema
      BY <1>1, <2>3, SchemaStill
    <3>2. Stuck' /\ Kept
      BY <2>1, <3>1, Keeps
    <3>3. p \in Daemon /\ Starting(p)' => Hopeless(p)'
      <4>1. p \in Daemon /\ Starting(p)' => stack'[p] = <<Connect>>
        BY <1>1, <2>3, WhoStarts DEF Starting
      <4>2. stack'[p] = <<Connect>> => stack'[p] # <<>> /\ Top(p)' = Connect
        BY Flat DEF Top
      <4> QED
        BY <4>1, <4>2 DEF Hopeless
    <3>4. \A e \in Daemon : e # p /\ Starting(e)' => Hopeless(e)'
      BY <1>2, <2>1, <3>2, StaysThere DEF Starting
    <3> QED
      BY <3>2, <3>3, <3>4
  <2> QED
    BY <2>2, <2>3
<1> QED
  BY <1>3, <1>4

LEMMA StartInvInit == Init => StartInv
BY ConnInitOK DEF Init, ConnInit, StartInv, Alone, UnshakenOK, FailedOK, Starting, Process

LEMMA StartInvStep == StartInv /\ [Next]_vars => StartInv'
<1> SUFFICES ASSUME StartInv, [Next]_vars PROVE StartInv'
  OBVIOUS
<1>1. ConnInv'
  BY ConnStep DEF StartInv
<1>2. CASE UNCHANGED connVars
  <2>1. /\ schema' = schema /\ stack' = stack /\ status' = status /\ alive' = alive /\ seen' = seen
        /\ shaken' = shaken
    BY <1>2 DEF connVars
  <2>2. Kept /\ (Stuck' <=> Stuck)
    BY <2>1, Keeps
  <2>3. \A d \in Daemon : (Hopeless(d) => Hopeless(d)') /\ (OnItsWay(d) => OnItsWay(d)')
                        /\ (Starting(d)' <=> Starting(d))
    BY <2>1, <2>2, StaysThere, StaysOnItsWay DEF Starting
  <2> QED
    BY <1>1, <2>1, <2>2, <2>3 DEF StartInv, Alone, UnshakenOK, FailedOK
<1>3. ASSUME NEW p \in Process, Steps(p) PROVE StartInv'
  BY <1>1, <1>3, AloneOK, UnshakenStep, FailedStep DEF StartInv
<1> QED
  BY <1>2, <1>3, NextSteps

\* A start that may install and upgrade gets through, whatever earlier starts left
\* behind when they crashed, unless its own connection is lost, another daemon starts as
\* well, the version has fallen behind the tables, or hstore is missing from a database
\* that is not empty (_connect_db with --auto-install-db and --auto-upgrade-db).
THEOREM StartsGetThrough == Spec => []StartsSucceed
<1>1. StartInv => StartsSucceed
  BY DEF StartInv, FailedOK, StartsSucceed, Stuck, FallenBehind
<1> QED
  BY <1>1, StartInvInit, StartInvStep, PTL DEF Spec

-----------------------------------------------------------------------------
(* What is there when nothing went wrong.                                  *)

\* The schemas of the first states: the version is that of the tables, and what has the
\* latest version is complete.
FirstSchemasAreWhole ==
  \A first \in FirstSchemas :
    /\ first.version = first.tables
    /\ first.version = Latest => first.functions = "new" /\ first.triggers = "new"

\* Nothing has been lost, and no two daemons were started at the same time.
Undisturbed == trouble \cap {"loss", "overlap"} = {}

Calm == Undisturbed => schema.version = schema.tables /\ \A d \in Daemon : ~ shaken[d]

\* A worker starts when a daemon has got through.
SomebodyIsReady ==
  \/ \E p \in Process : status[p] = "up"
  \/ \E p \in Process : p \notin Daemon /\ Starting(p)

WholeOrAlmost ==
  trouble = {} =>
    /\ schema.tables = Latest => Complete \/ \E d \in Daemon : Starting(d) /\ Finishing(d)
    /\ SomebodyIsReady => Complete

WholeInv == StartInv /\ Calm /\ WholeOrAlmost

\* Trouble is never forgotten, and what disturbs is.
LEMMA Troubles ==
  ASSUME ConnInv, NEW p \in Process, Steps(p)
  PROVE  /\ Undisturbed' => /\ Undisturbed
                            /\ ~ (OpenFails(p) \/ LoseScript(p))
                            /\ p \in Daemon /\ Start(p) => \A d \in Daemon : ~ Starting(d)
                            /\ \A d \in Daemon : ~ shaken[d] => ~ shaken'[d]
         /\ trouble' = {} => trouble = {} /\ Undisturbed' /\ ~ Crash(p)
<1>1. shaken \in [Process -> BOOLEAN] /\ Daemon \subseteq Process
  BY DEF ConnInv, FlagsOK, Process
<1>2. CASE OpenFails(p) \/ LoseScript(p) \/ LoseStatement(p)
  <2>1. "loss" \in trouble'
    BY <1>2 DEF OpenFails, LoseScript, LoseStatement, Loses
  <2> QED
    BY <2>1 DEF Undisturbed
<1>3. CASE Start(p)
  <2> DEFINE busy == {d \in Daemon : status[d] = "starting"}
  <2>1. /\ trouble' = IF p \in Daemon /\ busy # {} THEN trouble \cup {"overlap"} ELSE trouble
        /\ shaken' = [q \in Process |-> IF q = p THEN p \in Daemon /\ busy # {}
                                        ELSE shaken[q] \/ (p \in Daemon /\ q \in busy)]
        /\ status[p] \in {"down", "failed"}
    BY <1>3 DEF Start
  <2>2. (\A d \in Daemon : ~ Starting(d)) <=> busy = {}
    BY DEF Starting
  <2> HIDE DEF busy
  <2>3. CASE p \in Daemon /\ busy # {}
    BY <2>1, <2>3 DEF Undisturbed
  <2>4. CASE ~ (p \in Daemon /\ busy # {})
    <3>1. trouble' = trouble
      BY <2>1, <2>4
    <3>2. \A d \in Daemon : ~ shaken[d] => ~ shaken'[d]
      BY <1>1, <2>1, <2>4
    <3>3. ~ (OpenFails(p) \/ LoseScript(p)) \/ "loss" \in trouble'
      BY DEF OpenFails, LoseScript, Loses
    <3>4. ~ Crash(p)
      BY <2>1 DEF Crash
    <3> QED
      BY <2>2, <2>4, <3>1, <3>2, <3>3, <3>4 DEF Undisturbed
  <2> QED
    BY <2>3, <2>4
<1>4. CASE Crash(p)
  <2>1. trouble' = trouble \cup {"crash"} /\ shaken' = shaken /\ status[p] \notin {"down", "failed"}
    BY <1>4 DEF Crash
  <2>2. ~ Start(p)
    BY <2>1 DEF Start
  <2>3. ~ (OpenFails(p) \/ LoseScript(p)) \/ "loss" \in trouble'
    BY DEF OpenFails, LoseScript, Loses
  <2> QED
    BY <2>1, <2>2, <2>3 DEF Undisturbed
<1>5. CASE /\ Proceed(p) \/ (Serves(p) /\ ~ LoseStatement(p))
           /\ ~ Start(p) /\ ~ Crash(p) /\ ~ OpenFails(p) /\ ~ LoseScript(p)
  <2>1. trouble' = trouble /\ shaken' = shaken
    BY <1>5
       DEF Proceed, Open, Check, PlanUpgrade, NextScript, ReadVersion, RunScript, FindDead,
           Serves, Continue, RunStatement, RefuseStatement, Receive
  <2> QED
    BY <1>5, <2>1 DEF Undisturbed
<1> QED
  BY <1>2, <1>3, <1>4, <1>5 DEF Steps

LEMMA FinishingIsOnItsWay ==
  ASSUME NEW d \in Daemon, Finishing(d)
  PROVE  OnItsWay(d)
<1>1. PICK todo \in {<<Functions, Triggers>>, Rest(Latest)} : alive[d] /\ Fits(todo) /\ RunsScripts(d, todo)
  BY DEF Finishing
<1>2. <<Functions, Triggers>> \in Seq(Script) /\ <<Triggers>> \in Seq(Script)
  BY DEF Script
<1>3. todo \in Seq(Script)
  BY <1>1, <1>2, RestIs
<1> QED
  BY <1>1, <1>3 DEF OnItsWay

\* Only a start makes somebody start.
LEMMA StatusFrom ==
  ASSUME ConnInv, NEW p \in Process, Steps(p), ~ Start(p)
  PROVE  status'[p] \in {"starting", "up"} => status[p] \in {"starting", "up"}
<1>1. status \in [Process -> {"down", "starting", "up", "failed"}]
  BY DEF ConnInv, StatusOK
<1>2. \A calls : Goes(p, calls) \/ Raises(p) =>
        (status'[p] \in {"starting", "up"} => status[p] \in {"starting", "up"})
  BY <1>1 DEF Goes, Raises
<1>3. CASE Crash(p) \/ Receive(p)
  BY <1>1, <1>3 DEF Crash, Receive
<1>4. \A calls : Calls(p, calls) => Goes(p, calls) \/ Raises(p)
  BY DEF Calls
<1>5. Retry(p) => Raises(p) \/ \E calls : Goes(p, calls)
  BY <1>4 DEF Retry
<1>6. CASE ~ Crash(p) /\ ~ Receive(p)
  <2>1. Raises(p) \/ \E calls : Goes(p, calls)
    <3>1. CASE Proceed(p)
      BY <1>4, <1>5, <3>1
         DEF Proceed, Open, Check, PlanUpgrade, NextScript, ReadVersion, RunScript, FindDead
    <3>2. CASE OpenFails(p) \/ LoseScript(p) \/ LoseStatement(p) \/ RefuseStatement(p)
      BY <1>5, <3>2 DEF OpenFails, LoseScript, LoseStatement, Loses, RefuseStatement
    <3>3. CASE Continue(p)
      BY <3>3 DEF Continue
    <3>4. CASE RunStatement(p)
      BY <3>4 DEF RunStatement, Returns
    <3> QED
      BY <1>6, <3>1, <3>2, <3>3, <3>4 DEF Steps, Serves
  <2> QED
    BY <1>2, <2>1
<1> QED
  BY <1>3, <1>6

\* What the step of a daemon makes of the schema.
LEMMA DaemonMakes ==
  ASSUME StartInv, Calm, Undisturbed, NEW p \in Daemon, Proceed(p)
  PROVE  /\ schema.version = schema.tables /\ Starting(p)
         /\ MadeWhole(p)
<1>1. /\ ConnInv /\ Alone /\ UnshakenOK /\ p \in Process
      /\ Starting(p) /\ ~ shaken[p] /\ schema.version = schema.tables
  <2>1. Steps(p) /\ Acts(p)
    BY DEF Steps, Acts
  <2> QED
    BY <2>1, WhoStarts DEF StartInv, Calm, Process
<1>2. CASE OnItsWay(p)
  BY <1>1, <1>2, WayStep
<1>3. CASE ~ OnItsWay(p) /\ Stuck /\ Hopeless(p)
  <2>1. Sinks(p)
    BY <1>1, <1>3, HopelessStep
  <2>2. ~ Finishing(p)
    BY <1>3, FinishingIsOnItsWay
  <2>3. status'[p] # "up"
    BY <2>1 DEF Sinks, Fell, Starting
  <2>4. schema'.version = schema'.tables /\ schema'.tables = schema.tables /\ (Complete => Complete')
    BY <1>1, <2>1 DEF Sinks, Kept, Complete
  <2> QED
    BY <1>1, <2>2, <2>3, <2>4 DEF MadeWhole
<1> QED
  BY <1>1, <1>2, <1>3 DEF UnshakenOK

LEMMA CalmStep ==
  ASSUME StartInv, Calm, NEW p \in Process, Steps(p)
  PROVE  Calm'
<1> SUFFICES ASSUME Undisturbed'
             PROVE  schema'.version = schema'.tables /\ \A d \in Daemon : ~ shaken'[d]
  BY DEF Calm
<1>1. /\ ConnInv /\ Undisturbed /\ ~ (OpenFails(p) \/ LoseScript(p))
      /\ \A d \in Daemon : ~ shaken'[d]
  BY Troubles DEF StartInv, Calm
<1>2. CASE p \in Daemon /\ Proceed(p)
  BY <1>1, <1>2, DaemonMakes DEF MadeWhole
<1>3. CASE ~ (p \in Daemon /\ Proceed(p))
  <2>1. schema' = schema
    BY <1>1, <1>3, SchemaStill DEF Acts
  <2> QED
    BY <1>1, <2>1 DEF Calm
<1> QED
  BY <1>1, <1>2, <1>3

LEMMA WholeStep ==
  ASSUME WholeInv, NEW p \in Process, Steps(p)
  PROVE  WholeOrAlmost'
<1> SUFFICES ASSUME trouble' = {}
             PROVE  /\ schema'.tables = Latest =>
                         Complete' \/ \E d \in Daemon : Starting(d)' /\ Finishing(d)'
                    /\ SomebodyIsReady' => Complete'
  BY DEF WholeOrAlmost
<1>1. /\ ConnInv /\ StartInv /\ Calm /\ Alone /\ trouble = {} /\ Undisturbed
      /\ ~ OpenFails(p) /\ ~ LoseScript(p) /\ ~ Crash(p)
      /\ \A d \in Daemon : ~ shaken[d]
      /\ schema.tables = Latest => Complete \/ \E d \in Daemon : Starting(d) /\ Finishing(d)
      /\ SomebodyIsReady => Complete
  BY Troubles DEF WholeInv, StartInv, Calm, WholeOrAlmost
<1>2. \A d \in Process : d # p =>
        /\ stack'[d] = stack[d] /\ status'[d] = status[d] /\ alive'[d] = alive[d] /\ seen'[d] = seen[d]
  BY <1>1, OthersStill
<1>3. CASE p \in Daemon /\ Proceed(p)
  <2>1. schema.version = schema.tables /\ Starting(p) /\ MadeWhole(p)
    BY <1>1, <1>3, DaemonMakes
  <2>2. Complete => Complete'
    BY <2>1 DEF MadeWhole
  <2>3. schema.tables = Latest => Complete \/ Finishing(p)
    BY <1>1, <1>3, <2>1 DEF Alone
  <2>4. schema'.tables = Latest => Complete' \/ (Starting(p)' /\ Finishing(p)')
    BY <2>1, <2>3 DEF MadeWhole
  <2>5. CASE status'[p] = "up"
    <3>1. schema' = schema /\ Complete
      BY <2>1, <2>3, <2>5 DEF MadeWhole
    <3> QED
      BY <2>2, <3>1
  <2>6. CASE status'[p] # "up"
    <3>1. SomebodyIsReady' => SomebodyIsReady
      BY <1>2, <1>3, <2>6 DEF SomebodyIsReady, Starting
    <3> QED
      BY <1>1, <1>3, <2>2, <2>4, <3>1
  <2> QED
    BY <1>3, <2>4, <2>5, <2>6
<1>4. CASE ~ (p \in Daemon /\ Proceed(p))
  <2>1. schema' = schema
    BY <1>1, <1>4, SchemaStill DEF Acts
  <2>2. Complete' <=> Complete
    BY <2>1 DEF Complete
  <2>3. \A d \in Daemon : Starting(d) => d # p
    <3>1. p \in Daemon => Start(p)
      BY <1>1, <1>4, WhoStarts DEF Acts
    <3> QED
      BY <3>1 DEF Start, Starting
  <2>4. \A d \in Daemon : Starting(d) /\ Finishing(d) => Starting(d)' /\ Finishing(d)'
    BY <1>2, <2>1, <2>3, StaysOnItsWay DEF Starting, Process
  <2>5. SomebodyIsReady' => SomebodyIsReady
    <3>1. CASE Start(p)
      <4>1. status'[p] = "starting" /\ (p \in Worker => \E d \in Daemon : status[d] = "up")
        BY <1>1, <3>1 DEF Start, ConnInv, StatusOK
      <4> QED
        BY <1>2, <4>1 DEF SomebodyIsReady, Starting, Process
    <3>2. CASE ~ Start(p)
      <4>1. p \notin Daemon
        BY <1>1, <1>4, <3>2, WhoStarts DEF Acts
      <4>2. status'[p] \in {"starting", "up"} => status[p] \in {"starting", "up"}
        BY <1>1, <3>2, StatusFrom DEF Acts
      <4> QED
        BY <1>2, <4>1, <4>2 DEF SomebodyIsReady, Starting
    <3> QED
      BY <3>1, <3>2
  <2> QED
    BY <1>1, <2>1, <2>2, <2>4, <2>5
<1> QED
  BY <1>3, <1>4

LEMMA WholeInvStep == WholeInv /\ [Next]_vars => WholeInv'
<1> SUFFICES ASSUME WholeInv, [Next]_vars PROVE WholeInv'
  OBVIOUS
<1>1. StartInv'
  BY StartInvStep DEF WholeInv
<1>2. CASE UNCHANGED connVars
  <2>1. /\ schema' = schema /\ stack' = stack /\ status' = status /\ alive' = alive /\ seen' = seen
        /\ shaken' = shaken /\ trouble' = trouble
    BY <1>2 DEF connVars
  <2>2. \A d \in Daemon : Finishing(d) => Finishing(d)'
    BY <2>1, StaysOnItsWay
  <2> QED
    BY <1>1, <2>1, <2>2 DEF WholeInv, Calm, Undisturbed, WholeOrAlmost, SomebodyIsReady, Starting, Complete
<1>3. ASSUME NEW p \in Process, Steps(p) PROVE WholeInv'
  BY <1>1, <1>3, CalmStep, WholeStep DEF WholeInv
<1> QED
  BY <1>2, <1>3, NextSteps

LEMMA WholeInvInit ==
  ASSUME FirstSchemasAreWhole, Init
  PROVE  WholeInv
<1>1. /\ StartInv /\ schema \in FirstSchemas
      /\ \A p \in Process : status[p] = "down" /\ shaken[p] = FALSE
  BY StartInvInit DEF Init, ConnInit
<1>2. Calm
  BY <1>1 DEF Calm, FirstSchemasAreWhole, Process
<1>3. WholeOrAlmost
  BY <1>1 DEF WholeOrAlmost, SomebodyIsReady, Starting, FirstSchemasAreWhole, Complete
<1> QED
  BY <1>1, <1>2, <1>3 DEF WholeInv

\* The version in the comment of the database is that of the tables, unless a script was
\* repeated after its answer was lost or by a second daemon, if it was to begin with
\* (_db_install, _db_upgrade and the version each script sets).
THEOREM VersionFallsBehindOnlyWhenDisturbed ==
  ASSUME FirstSchemasAreWhole
  PROVE  Spec => []VersionIsHonest
<1>1. WholeInv => VersionIsHonest
  <2> SUFFICES ASSUME WholeInv PROVE VersionIsHonest
    OBVIOUS
  <2>1. VersionPromisesTables
    BY DEF WholeInv, StartInv, ConnInv, SchemaOK
  <2>2. schema.version < schema.tables => schema.version # schema.tables
    BY DEF WholeInv, StartInv, ConnInv, SchemaOK, Schema
  <2> QED
    BY <2>1, <2>2 DEF WholeInv, Calm, Undisturbed, VersionIsHonest
<1> QED
  BY <1>1, WholeInvInit, WholeInvStep, PTL DEF Spec

\* Whoever is connected finds the tables of the version it was written for, and the
\* functions and triggers of that version too as long as nothing has crashed or been lost
\* and no two daemons were started at the same time.
THEOREM ConnectedFindsAll ==
  ASSUME FirstSchemasAreWhole
  PROVE  Spec => []ConnectedFindsSchema
<1>1. WholeInv => ConnectedFindsSchema
  BY DEF WholeInv, StartInv, ConnInv, WholeOrAlmost, SomebodyIsReady, ConnectedFindsSchema
<1> QED
  BY <1>1, WholeInvInit, WholeInvStep, PTL DEF Spec

-----------------------------------------------------------------------------
(* The audit log: what is in the database.                                 *)

\* Pools and VRFs that are referred to are there.
DataOK ==
  /\ rows \subseteq Row
  /\ poolOf \in [Prefix -> Pool \cup {NoPool}]
  /\ \A x \in Prefix : poolOf[x] \in rows \cup {NoPool} /\ (x \notin rows => poolOf[x] = NoPool)
  /\ \A x \in rows \cap Prefix : VrfOf(x) \in rows

Adds == {"add_vrf", "add_pool", "add_asn", "add_prefix"}
Edits == {"edit_vrf", "edit_pool", "edit_asn", "edit_prefix"}
Removes == {"remove_vrf", "remove_pool", "remove_asn", "remove_prefix"}

LEMMA EntriesAre ==
  \A x, o : /\ Touched(x).row = x /\ Touched(x).what = "changed"
            /\ Joined(x, o).row = x /\ Joined(x, o).what = "joined" /\ Joined(x, o).pool = o
            /\ Left(x, o).row = x /\ Left(x, o).what = "left" /\ Left(x, o).pool = o
BY DEF Touched, Joined, Left

LEMMA Kinds ==
  ASSUME NEW q, RequestOK(q)
  PROVE  /\ q.spec \subseteq Row
         /\ q.op \in {"add_prefix", "edit_prefix", "remove_prefix"} => q.spec \subseteq Prefix
         /\ q.op \in {"add_vrf", "edit_vrf", "remove_vrf"} => q.spec \subseteq Vrf
         /\ q.op \in {"add_pool", "edit_pool", "remove_pool"} => q.spec \subseteq Pool
         /\ q.op \in {"add_asn", "edit_asn", "remove_asn"} => q.spec \subseteq Asn
         /\ q.op \notin {"add_prefix", "edit_prefix", "remove_prefix"} => q.spec \cap Prefix = {}
BY RowsAssumption DEF RequestOK, Kind, Row, Operations

\* What a statement changes, one entry at a time.
LEMMA Changed ==
  ASSUME NEW stmt, NEW c
  PROVE  c \in Changes(stmt) <=>
           \/ \E x \in (IF stmt.do = "delete" THEN Gone(stmt.rows) ELSE stmt.rows \cap RowsAfter(stmt)) :
                c = Touched(x)
           \/ \E x \in Prefix : /\ PoolsAfter(stmt)[x] # poolOf[x]
                                /\ \/ PoolsAfter(stmt)[x] # NoPool /\ c = Joined(x, PoolsAfter(stmt)[x])
                                   \/ poolOf[x] # NoPool /\ c = Left(x, poolOf[x])
<1> DEFINE hit == IF stmt.do = "delete" THEN Gone(stmt.rows) ELSE stmt.rows \cap RowsAfter(stmt)
           moved == {x \in Prefix : PoolsAfter(stmt)[x] # poolOf[x]}
<1>1. Changes(stmt) =
        {Touched(x) : x \in hit}
        \cup {Joined(x, PoolsAfter(stmt)[x]) : x \in {y \in moved : PoolsAfter(stmt)[y] # NoPool}}
        \cup {Left(x, poolOf[x]) : x \in {y \in moved : poolOf[y] # NoPool}}
  BY DEF Changes
<1>2. moved \subseteq Prefix /\ \A x \in Prefix : x \in moved <=> PoolsAfter(stmt)[x] # poolOf[x]
  OBVIOUS
<1> HIDE DEF hit, moved
<1>3. c \in Changes(stmt) <=>
        \/ \E x \in hit : c = Touched(x)
        \/ \E x \in moved : PoolsAfter(stmt)[x] # NoPool /\ c = Joined(x, PoolsAfter(stmt)[x])
        \/ \E x \in moved : poolOf[x] # NoPool /\ c = Left(x, poolOf[x])
  BY <1>1
<1> QED
  BY <1>2, <1>3 DEF hit

\* A statement that reads, or writes the log, leaves the rows alone.
LEMMA ReadsOnly ==
  ASSUME DataOK, NEW stmt, ~ IsChange(stmt)
  PROVE  RowsAfter(stmt) = rows /\ PoolsAfter(stmt) = poolOf
<1>1. stmt.do # "insert" /\ stmt.do # "update" /\ stmt.do # "delete"
  BY DEF IsChange
<1>2. PoolsAfter(stmt) = [x \in Prefix |-> poolOf[x]]
  BY <1>1 DEF PoolsAfter
<1> QED
  BY <1>1, <1>2 DEF RowsAfter, DataOK

\* Whatever changes nothing that could be logged changes nothing at all.
LEMMA NothingChanges ==
  ASSUME DataOK, NEW stmt, IsChange(stmt), Changes(stmt) = {}
  PROVE  RowsAfter(stmt) = rows /\ PoolsAfter(stmt) = poolOf
<1>1. \A x : ~ (x \in (IF stmt.do = "delete" THEN Gone(stmt.rows) ELSE stmt.rows \cap RowsAfter(stmt)))
  BY Changed
<1>2. RowsAfter(stmt) = rows
  <2>1. CASE stmt.do = "insert"
    BY <1>1, <2>1 DEF RowsAfter
  <2>2. CASE stmt.do = "delete"
    BY <1>1, <2>2 DEF RowsAfter
  <2>3. CASE stmt.do = "update"
    BY <2>3 DEF RowsAfter
  <2> QED
    BY <2>1, <2>2, <2>3 DEF IsChange
<1>3. ASSUME NEW x \in Prefix, PoolsAfter(stmt)[x] # poolOf[x]
      PROVE  FALSE
  <2>1. PoolsAfter(stmt)[x] # NoPool \/ poolOf[x] # NoPool
    BY <1>3
  <2>2. Joined(x, PoolsAfter(stmt)[x]) \in Changes(stmt) \/ Left(x, poolOf[x]) \in Changes(stmt)
    BY <1>3, <2>1, Changed
  <2> QED
    BY <2>2
<1>4. PoolsAfter(stmt) = [x \in Prefix |-> PoolsAfter(stmt)[x]] /\ poolOf = [x \in Prefix |-> poolOf[x]]
  BY DEF PoolsAfter, DataOK
<1> QED
  BY <1>2, <1>3, <1>4

-----------------------------------------------------------------------------
(* What the log says.                                                      *)

\* The pool an edit asks for, and an edit that names none.
Asked(q) == IF q.pool = Same THEN NoPool ELSE q.pool

\* What is logged for a row that was listed with this pool.
Says(q, row, pool) ==
  {Touched(row)}
  \cup {c \in {Joined(row, Asked(q))} :
          \/ q.op = "add_prefix" /\ NamesPool(q)
          \/ q.op = "edit_prefix" /\ pool # Asked(q) /\ Asked(q) # NoPool}
  \cup {c \in {Left(row, pool)} :
          pool # NoPool /\ (q.op = "remove_prefix" \/ (q.op = "edit_prefix" /\ pool # Asked(q)))}

AllSays(q, listed) == UNION {Says(q, y.row, y.pool) : y \in listed}
AddSays(q) == UNION {Says(q, x, NoPool) : x \in q.spec}

LEMMA InsertChanges ==
  ASSUME DataOK, NEW q, RequestOK(q), q.op \in Adds, ~ MustRefuse(Insert(q))
  PROVE  /\ RowsAfter(Insert(q)) = rows \cup q.spec
         /\ \A x \in Prefix : PoolsAfter(Insert(q))[x] = IF x \in q.spec THEN Asked(q) ELSE poolOf[x]
         /\ Asked(q) \in rows \cup {NoPool} /\ Asked(q) \in Pool \cup {NoPool}
         /\ \A x \in q.spec : x \notin rows
         /\ \A x \in q.spec \cap Prefix : VrfOf(x) \in rows
         /\ Changes(Insert(q)) = AddSays(q)
<1> DEFINE stmt == Insert(q)
<1>1. stmt.do = "insert" /\ stmt.rows = q.spec /\ stmt.pool = q.pool
  BY DEF Insert
<1> HIDE DEF stmt
<1>2. RowsAfter(stmt) = rows \cup q.spec
  BY <1>1 DEF RowsAfter
<1>3. /\ q.spec \cap rows = {}
      /\ \A x \in q.spec \cap Prefix : VrfOf(x) \in rows
      /\ q.pool \in {NoPool, Same} \cup rows
  BY <1>1 DEF MustRefuse, stmt
<1>4. \A x \in Prefix : PoolsAfter(stmt)[x] = IF x \in q.spec THEN Asked(q) ELSE poolOf[x]
  BY <1>1, <1>2 DEF PoolsAfter, Asked
<1>5. Asked(q) \in rows \cup {NoPool} /\ Asked(q) \in Pool \cup {NoPool}
  BY <1>3 DEF Asked, RequestOK
<1>6. \A x \in q.spec \cap Prefix : poolOf[x] = NoPool
  BY <1>3 DEF DataOK
<1>7. ASSUME NEW c
      PROVE  c \in Changes(stmt) <=>
               \/ \E x \in q.spec : c = Touched(x)
               \/ \E x \in q.spec \cap Prefix : Asked(q) # NoPool /\ c = Joined(x, Asked(q))
  BY <1>1, <1>2, <1>4, <1>6, Changed
<1>8. ASSUME NEW c
      PROVE  c \in AddSays(q) <=>
               \/ \E x \in q.spec : c = Touched(x)
               \/ \E x \in q.spec \cap Prefix : Asked(q) # NoPool /\ c = Joined(x, Asked(q))
  <2>1. ASSUME NEW x
        PROVE  c \in Says(q, x, NoPool) <=>
                 c = Touched(x) \/ (q.op = "add_prefix" /\ NamesPool(q) /\ c = Joined(x, Asked(q)))
    BY DEF Says, Adds
  <2>2. c \in AddSays(q) <=> \E x \in q.spec : c \in Says(q, x, NoPool)
    BY DEF AddSays
  <2>3. NamesPool(q) <=> Asked(q) # NoPool
    BY DEF NamesPool, Asked
  <2>4. q.op = "add_prefix" => q.spec \cap Prefix = q.spec
    BY Kinds
  <2>5. q.op # "add_prefix" => q.spec \cap Prefix = {}
    BY Kinds DEF Adds
  <2>6. CASE q.op = "add_prefix"
    BY <2>1, <2>2, <2>3, <2>4, <2>6
  <2>7. CASE q.op # "add_prefix"
    BY <2>1, <2>2, <2>5, <2>7
  <2> QED
    BY <2>6, <2>7
<1>9. Changes(stmt) = AddSays(q)
  BY <1>7, <1>8
<1> QED
  BY <1>2, <1>3, <1>4, <1>5, <1>9 DEF stmt

LEMMA UpdateChanges ==
  ASSUME DataOK, NEW q, RequestOK(q), ~ MustRefuse(Update(q))
  PROVE  /\ RowsAfter(Update(q)) = rows
         /\ \A x \in Prefix : PoolsAfter(Update(q))[x] =
              IF x \in q.spec \cap rows /\ q.pool # Same THEN q.pool ELSE poolOf[x]
         /\ q.spec \cap rows # {} /\ q.pool # Same =>
              q.pool \in rows \cup {NoPool} /\ q.pool \in Pool \cup {NoPool}
         /\ \A c : c \in Changes(Update(q)) <=>
              \/ \E x \in q.spec \cap rows : c = Touched(x)
              \/ \E x \in q.spec \cap rows \cap Prefix :
                   /\ q.pool # Same /\ q.pool # poolOf[x]
                   /\ \/ q.pool # NoPool /\ c = Joined(x, q.pool)
                      \/ poolOf[x] # NoPool /\ c = Left(x, poolOf[x])
<1> DEFINE stmt == Update(q)
<1>1. stmt.do = "update" /\ stmt.rows = q.spec /\ stmt.pool = q.pool
  BY DEF Update
<1> HIDE DEF stmt
<1>2. RowsAfter(stmt) = rows
  BY <1>1 DEF RowsAfter
<1>3. q.spec \cap rows # {} => q.pool \in {NoPool, Same} \cup rows
  BY <1>1 DEF MustRefuse, stmt
<1>4. \A x \in Prefix : PoolsAfter(stmt)[x] =
        IF x \in q.spec \cap rows /\ q.pool # Same THEN q.pool ELSE poolOf[x]
  BY <1>1, <1>2 DEF PoolsAfter
<1>5. ASSUME NEW c
      PROVE  c \in Changes(stmt) <=>
               \/ \E x \in q.spec \cap rows : c = Touched(x)
               \/ \E x \in q.spec \cap rows \cap Prefix :
                    /\ q.pool # Same /\ q.pool # poolOf[x]
                    /\ \/ q.pool # NoPool /\ c = Joined(x, q.pool)
                       \/ poolOf[x] # NoPool /\ c = Left(x, poolOf[x])
  BY <1>1, <1>2, <1>4, Changed
<1> QED
  BY <1>2, <1>3, <1>4, <1>5 DEF stmt, RequestOK

LEMMA DeleteChanges ==
  ASSUME DataOK, NEW D
  PROVE  /\ RowsAfter(Delete(D)) = rows \ Gone(D)
         /\ \A x \in Prefix : PoolsAfter(Delete(D))[x] =
              IF x \in Gone(D) \/ poolOf[x] \in D THEN NoPool ELSE poolOf[x]
         /\ \A c : c \in Changes(Delete(D)) <=>
              \/ \E x \in Gone(D) : c = Touched(x)
              \/ \E x \in Prefix : /\ x \in Gone(D) \/ poolOf[x] \in D
                                   /\ poolOf[x] # NoPool /\ c = Left(x, poolOf[x])
<1> DEFINE stmt == Delete(D)
<1>1. stmt.do = "delete" /\ stmt.rows = D
  BY DEF Delete
<1> HIDE DEF stmt
<1>2. RowsAfter(stmt) = rows \ Gone(D)
  BY <1>1 DEF RowsAfter
<1>3. \A x \in Prefix : PoolsAfter(stmt)[x] =
        IF x \in Gone(D) \/ poolOf[x] \in D THEN NoPool ELSE poolOf[x]
  BY <1>1 DEF PoolsAfter
<1>4. ASSUME NEW c
      PROVE  c \in Changes(stmt) <=>
               \/ \E x \in Gone(D) : c = Touched(x)
               \/ \E x \in Prefix : /\ x \in Gone(D) \/ poolOf[x] \in D
                                    /\ poolOf[x] # NoPool /\ c = Left(x, poolOf[x])
  BY <1>1, <1>3, Changed
<1> QED
  BY <1>2, <1>3, <1>4 DEF stmt

\* What goes when rows of one kind go.
LEMMA GoneOf ==
  ASSUME DataOK, NEW D
  PROVE  /\ D \subseteq Prefix \cup Pool \cup Asn => Gone(D) = rows \cap D
         /\ D \subseteq Vrf => Gone(D) = rows \cap (D \cup {x \in Prefix : VrfOf(x) \in D})
<1>1. D \subseteq Prefix \cup Pool \cup Asn => {x \in Prefix : VrfOf(x) \in D} = {}
  BY BackendAssumption, RowsAssumption
<1> QED
  BY <1>1 DEF Gone

\* References stay good.
LEMMA InsertData ==
  ASSUME DataOK, NEW q, RequestOK(q), q.op \in Adds, ~ MustRefuse(Insert(q)),
         rows' = RowsAfter(Insert(q)), poolOf' = PoolsAfter(Insert(q))
  PROVE  DataOK'
<1>1. /\ rows' = rows \cup q.spec
      /\ \A x \in Prefix : poolOf'[x] = IF x \in q.spec THEN Asked(q) ELSE poolOf[x]
      /\ Asked(q) \in rows \cup {NoPool} /\ Asked(q) \in Pool \cup {NoPool}
      /\ \A x \in q.spec \cap Prefix : VrfOf(x) \in rows
  BY InsertChanges
<1>2. poolOf' = [x \in Prefix |-> poolOf'[x]]
  BY DEF PoolsAfter
<1>3. q.spec \subseteq Row
  BY Kinds
<1> QED
  BY <1>1, <1>2, <1>3 DEF DataOK

LEMMA UpdateData ==
  ASSUME DataOK, NEW q, RequestOK(q), ~ MustRefuse(Update(q)),
         rows' = RowsAfter(Update(q)), poolOf' = PoolsAfter(Update(q))
  PROVE  DataOK'
<1>1. /\ rows' = rows
      /\ \A x \in Prefix : poolOf'[x] =
              IF x \in q.spec \cap rows /\ q.pool # Same THEN q.pool ELSE poolOf[x]
      /\ q.spec \cap rows # {} /\ q.pool # Same =>
              q.pool \in rows \cup {NoPool} /\ q.pool \in Pool \cup {NoPool}
  BY UpdateChanges
<1>2. poolOf' = [x \in Prefix |-> poolOf'[x]]
  BY DEF PoolsAfter
<1> QED
  BY <1>1, <1>2 DEF DataOK

LEMMA DeleteData ==
  ASSUME DataOK, NEW D, D \subseteq Prefix \/ D \subseteq Vrf \/ D \subseteq Pool \/ D \subseteq Asn,
         rows' = RowsAfter(Delete(D)), poolOf' = PoolsAfter(Delete(D))
  PROVE  DataOK'
<1>1. /\ rows' = rows \ Gone(D)
      /\ \A x \in Prefix : poolOf'[x] =
              IF x \in Gone(D) \/ poolOf[x] \in D THEN NoPool ELSE poolOf[x]
  BY DeleteChanges
<1>2. poolOf' = [x \in Prefix |-> poolOf'[x]]
  BY DEF PoolsAfter
<1>3. \A o \in Pool : o \in Gone(D) => o \in D
  BY RowsAssumption DEF Gone
<1>4. \A x \in rows \cap Prefix : VrfOf(x) \in Gone(D) => x \in Gone(D)
  <2>1. \A x \in Prefix : VrfOf(x) \in Vrf /\ VrfOf(x) \notin Prefix
    BY BackendAssumption, RowsAssumption
  <2> QED
    BY <2>1 DEF Gone
<1> QED
  BY <1>1, <1>2, <1>3, <1>4 DEF DataOK

\* The statements E log the entries S, and ask for this pool at most.
Tells(E, S, pool) ==
  /\ IsSequence(E)
  /\ \A i \in 1 .. Len(E) : \/ \E c \in S : E[i] = Log(c)
                            \/ pool # NoPool /\ E[i] = GetPool(pool)
  /\ \A c \in S : \E i \in 1 .. Len(E) : E[i] = Log(c)

LEMMA TellsJoins ==
  ASSUME NEW E, NEW F, NEW S, NEW T, NEW pool, Tells(E, S, pool), Tells(F, T, pool)
  PROVE  Tells(E \o F, S \cup T, pool)
<1>1. /\ IsSequence(E \o F) /\ Len(E) \in Nat /\ Len(F) \in Nat /\ Len(E \o F) = Len(E) + Len(F)
      /\ \A i \in 1 .. Len(E) : (E \o F)[i] = E[i]
      /\ \A i \in 1 .. Len(F) : (E \o F)[Len(E) + i] = F[i]
  BY Joins DEF Tells
<1>2. ASSUME NEW i \in 1 .. Len(E \o F)
      PROVE  \/ \E c \in S \cup T : (E \o F)[i] = Log(c)
             \/ pool # NoPool /\ (E \o F)[i] = GetPool(pool)
  <2>1. CASE i \in 1 .. Len(E)
    BY <1>1, <2>1 DEF Tells
  <2>2. CASE i \notin 1 .. Len(E)
    <3>1. i - Len(E) \in 1 .. Len(F) /\ (E \o F)[i] = F[i - Len(E)]
      <4>1. i - Len(E) \in 1 .. Len(F) /\ Len(E) + (i - Len(E)) = i
        BY <1>1, <2>2
      <4> QED
        BY <1>1, <4>1
    <3> QED
      BY <3>1 DEF Tells
  <2> QED
    BY <2>1, <2>2
<1>3. ASSUME NEW c \in S \cup T
      PROVE  \E i \in 1 .. Len(E \o F) : (E \o F)[i] = Log(c)
  <2>1. CASE c \in S
    <3>1. PICK i \in 1 .. Len(E) : E[i] = Log(c)
      BY <2>1 DEF Tells
    <3>2. i \in 1 .. Len(E \o F)
      BY <1>1
    <3> QED
      BY <1>1, <3>1, <3>2
  <2>2. CASE c \in T
    <3>1. PICK i \in 1 .. Len(F) : F[i] = Log(c)
      BY <2>2 DEF Tells
    <3>2. Len(E) + i \in 1 .. Len(E \o F)
      BY <1>1
    <3> QED
      BY <1>1, <3>1, <3>2
  <2> QED
    BY <2>1, <2>2
<1> QED
  BY <1>1, <1>2, <1>3 DEF Tells

LEMMA TellsOfOne ==
  /\ \A pool : Tells(<<>>, {}, pool)
  /\ \A c, pool : Tells(<<Log(c)>>, {c}, pool)
  /\ \A c, pool : pool # NoPool => Tells(<<GetPool(pool), Log(c)>>, {c}, pool)
<1>1. ASSUME NEW pool PROVE Tells(<<>>, {}, pool)
  <2>1. \A i \in 1 .. Len(<<>>) : FALSE
    BY Lists
  <2> QED
    BY <2>1, Lists DEF Tells
<1>2. ASSUME NEW c, NEW pool PROVE Tells(<<Log(c)>>, {c}, pool)
  <2> DEFINE s == Log(c)
  <2>1. IsSequence(<<s>>) /\ Len(<<s>>) = 1 /\ <<s>>[1] = s
    BY Lists
  <2> HIDE DEF s
  <2>2. \A i \in 1 .. Len(<<s>>) : <<s>>[i] = s
    BY <2>1
  <2>3. 1 \in 1 .. Len(<<s>>)
    BY <2>1
  <2> QED
    BY <2>1, <2>2, <2>3 DEF Tells, s
<1>3. ASSUME NEW c, NEW pool, pool # NoPool PROVE Tells(<<GetPool(pool), Log(c)>>, {c}, pool)
  <2> DEFINE s == GetPool(pool)
             t == Log(c)
  <2>1. IsSequence(<<s, t>>) /\ Len(<<s, t>>) = 2 /\ <<s, t>>[1] = s /\ <<s, t>>[2] = t
    BY Lists
  <2> HIDE DEF s, t
  <2>2. \A i \in 1 .. Len(<<s, t>>) : <<s, t>>[i] = s \/ <<s, t>>[i] = t
    BY <2>1
  <2>3. 2 \in 1 .. Len(<<s, t>>)
    BY <2>1
  <2> QED
    BY <1>3, <2>1, <2>2, <2>3 DEF Tells, s, t
<1> QED
  BY <1>1, <1>2, <1>3

LEMMA TellsIf ==
  ASSUME NEW condition \in BOOLEAN, NEW E, NEW S, NEW pool, condition => Tells(E, S, pool)
  PROVE  Tells(If(condition, E), {c \in S : condition}, pool)
<1>1. CASE condition
  <2>1. If(condition, E) = E /\ {c \in S : condition} = S
    BY <1>1 DEF If
  <2> QED
    BY <1>1, <2>1
<1>2. CASE ~ condition
  <2>1. If(condition, E) = <<>> /\ {c \in S : condition} = {}
    BY <1>2 DEF If
  <2> QED
    BY <2>1, TellsOfOne
<1> QED
  BY <1>1, <1>2

\* The loop over the rows writes what is to be said of each.
LEMMA EntriesTell ==
  ASSUME NEW q, NEW row, NEW pool
  PROVE  Tells(Entries(q, row, pool), Says(q, row, pool), pool)
<1> DEFINE asked == Asked(q)
           left == <<GetPool(pool), Log(Left(row, pool))>>
           joined(o) == <<Log(Joined(row, o))>>
           both == If(asked # NoPool, joined(asked)) \o If(pool # NoPool, left)
           more == CASE q.op = "add_prefix" -> If(NamesPool(q), joined(q.pool))
                     [] q.op = "edit_prefix" -> If(pool # asked, both)
                     [] q.op = "remove_prefix" -> If(pool # NoPool, left)
                     [] OTHER -> <<>>
           L == {c \in {Left(row, pool)} : pool # NoPool}
           J == {c \in {Joined(row, asked)} : asked # NoPool}
<1>1. Entries(q, row, pool) = <<Log(Touched(row))>> \o more
  BY DEF Entries, Asked
<1>2. Tells(If(pool # NoPool, left), L, pool)
  <2>1. pool # NoPool => Tells(left, {Left(row, pool)}, pool)
    BY TellsOfOne
  <2> HIDE DEF left
  <2> QED
    BY <2>1, TellsIf
<1>3. Tells(If(asked # NoPool, joined(asked)), J, pool)
  <2>1. Tells(joined(asked), {Joined(row, asked)}, pool)
    BY TellsOfOne
  <2> HIDE DEF joined, asked
  <2> QED
    BY <2>1, TellsIf
<1>4. Tells(both, J \cup L, pool)
  <2> HIDE DEF left, joined, asked, J, L
  <2> QED
    BY <1>2, <1>3, TellsJoins
<1>5. \E M : Tells(more, M, pool) /\ Says(q, row, pool) = {Touched(row)} \cup M
  <2>1. CASE q.op = "add_prefix"
    <3>1. Tells(If(NamesPool(q), joined(q.pool)), {c \in {Joined(row, q.pool)} : NamesPool(q)}, pool)
      <4>1. Tells(joined(q.pool), {Joined(row, q.pool)}, pool)
        BY TellsOfOne
      <4>2. NamesPool(q) \in BOOLEAN
        BY DEF NamesPool
      <4> HIDE DEF joined
      <4> QED
        BY <4>1, <4>2, TellsIf
    <3>2. Says(q, row, pool) = {Touched(row)} \cup {c \in {Joined(row, q.pool)} : NamesPool(q)}
      BY <2>1 DEF Says, NamesPool, Asked
    <3>3. more = If(NamesPool(q), joined(q.pool))
      BY <2>1
    <3> HIDE DEF more, joined
    <3> QED
      BY <3>1, <3>2, <3>3
  <2>2. CASE q.op = "edit_prefix"
    <3>1. Tells(If(pool # asked, both), {c \in J \cup L : pool # asked}, pool)
      <4> HIDE DEF both, asked, J, L
      <4> QED
        BY <1>4, TellsIf
    <3>2. Says(q, row, pool) = {Touched(row)} \cup {c \in J \cup L : pool # asked}
      BY <2>2 DEF Says
    <3>3. more = If(pool # asked, both)
      BY <2>2
    <3> HIDE DEF more, both, asked, J, L
    <3> QED
      BY <3>1, <3>2, <3>3
  <2>3. CASE q.op = "remove_prefix"
    <3>1. Says(q, row, pool) = {Touched(row)} \cup L
      BY <2>3 DEF Says
    <3>2. more = If(pool # NoPool, left)
      BY <2>3
    <3> HIDE DEF more, left, L
    <3> QED
      BY <1>2, <3>1, <3>2
  <2>4. CASE q.op \notin {"add_prefix", "edit_prefix", "remove_prefix"}
    <3>1. Says(q, row, pool) = {Touched(row)} \cup {}
      BY <2>4 DEF Says
    <3>2. more = <<>>
      BY <2>4
    <3> HIDE DEF more
    <3> QED
      BY <3>1, <3>2, TellsOfOne
  <2> QED
    BY <2>1, <2>2, <2>3, <2>4
<1> HIDE DEF more
<1>6. PICK M : Tells(more, M, pool) /\ Says(q, row, pool) = {Touched(row)} \cup M
  BY <1>5
<1>7. Tells(<<Log(Touched(row))>>, {Touched(row)}, pool)
  BY TellsOfOne
<1>8. Tells(<<Log(Touched(row))>> \o more, {Touched(row)} \cup M, pool)
  BY <1>6, <1>7, TellsJoins
<1> QED
  BY <1>1, <1>6, <1>8

-----------------------------------------------------------------------------
(* How far a request is.  Its agenda is what it still has to do, with the  *)
(* statement or the call that lies on it in front.                         *)

LogsAt(done) == [do |-> "logs", done |-> done]
RemovalsAt(done) == [do |-> "removals", done |-> done]
Calling(q) == [do |-> "call", q |-> q]

\* The changes of the rows the request named, and the entries that need no change.
NamedOf(e) == {c \in e.changes : c.row \in e.q.spec}
Excused(q, c) == c.what = "left" /\ q.op = "edit_prefix" /\ q.pool = Same

ListedOK(q, listed) ==
  \A y \in listed : /\ y.row \in q.spec /\ y.pool \in Pool \cup {NoPool}
                    /\ y.row \notin Prefix => y.pool = NoPool

PoolsThere(listed, e) == ~ e.crossed => \A y \in listed : y.pool \in rows \cup {NoPool}
AllListed(q, listed, e) == ~ e.crossed => \A x \in q.spec \cap rows : \E y \in listed : y.row = x

\* An operation that adds something, before it does so and before it reads it back.
BeforeInsert(q, listed, a, e) ==
  /\ q.op \in Adds
  /\ \/ a = <<GetPool(q.pool), Insert(q), Fetch(q), Logs>>
     \/ a = <<Insert(q), Fetch(q), Logs>>
  /\ ~ e.lost => e.changes = {}
  /\ NamedOf(e) \subseteq AddSays(q)

BeforeFetch(q, listed, a, e) ==
  /\ q.op \in Adds
  /\ a = <<Fetch(q), Logs>>
  /\ NamedOf(e) \subseteq AddSays(q)
  /\ AddSays(q) \subseteq e.changes
  /\ ~ e.crossed => q.spec \subseteq rows

\* An operation that edits something, before it lists the rows and before it edits them.
\* An update whose answer was lost may have been there already.
BeforeEditList(q, listed, a, e) ==
  /\ q.op \in Edits
  /\ \/ a = <<GetPool(q.pool), List(q), Update(q), Logs>>
     \/ a = <<List(q), Update(q), Logs>>
  /\ e.changes = {}

BeforeUpdate(q, listed, a, e) ==
  /\ q.op \in Edits
  /\ a = <<Update(q), Logs>>
  /\ ~ e.lost => e.changes = {}
  /\ AllListed(q, listed, e) /\ PoolsThere(listed, e)
  /\ ~ e.crossed =>
       /\ NamedOf(e) \subseteq AllSays(q, listed)
       /\ \A y \in listed :
            /\ y.row \in rows
            /\ y.row \in Prefix => \/ poolOf[y.row] = y.pool
                                   \/ e.lost /\ q.pool # Same /\ poolOf[y.row] = q.pool

\* An operation that removes something: one statement, or the hosts before the rest.
OneDelete(q) == q.op \in Removes /\ ~ Sweeps(q)
Unchanged(q, e) == ~ Sweeps(q) /\ q.op # "remove_vrf" /\ ~ e.lost => e.changes = {}

BeforeList(q, listed, a, e) ==
  /\ q.op \in Removes \ {"remove_vrf"}
  /\ \/ OneDelete(q) /\ a = <<Resolve(q), List(q), Delete(q.spec), Logs>>
     \/ OneDelete(q) /\ a = <<List(q), Delete(q.spec), Logs>>
     \/ Sweeps(q) /\ a = <<Resolve(q), List(q), Delete(q.within \cap Host), Delete(q.within), Logs>>
     \/ Sweeps(q) /\ a = <<List(q), Delete(q.within \cap Host), Delete(q.within), Logs>>
  /\ NamedOf(e) = {}
  /\ Unchanged(q, e)

\* Every row listed is still there, or has been deleted.
GoneOrThere(q, listed, e) ==
  ~ e.crossed =>
    /\ NamedOf(e) \subseteq AllSays(q, listed)
    /\ \A y \in listed : \/ y.row \in rows /\ (y.row \in Prefix => poolOf[y.row] = y.pool)
                         \/ y.row \notin rows /\ Says(q, y.row, y.pool) \subseteq e.changes

BeforeHosts(q, listed, a, e) ==
  /\ Sweeps(q)
  /\ a = <<Delete(q.within \cap Host), Delete(q.within), Logs>>
  /\ AllListed(q, listed, e) /\ PoolsThere(listed, e) /\ GoneOrThere(q, listed, e)

BeforeDelete(q, listed, a, e) ==
  /\ q.op \in Removes
  /\ \/ OneDelete(q) /\ a = <<Delete(q.spec), Logs>>
     \/ Sweeps(q) /\ a = <<Delete(q.within), Logs>>
  /\ Unchanged(q, e)
  /\ AllListed(q, listed, e) /\ PoolsThere(listed, e) /\ GoneOrThere(q, listed, e)
  /\ ~ e.crossed =>
       /\ Sweeps(q) => q.within \cap Host \cap rows = {}
       /\ q.op = "remove_vrf" => \A x \in rows \cap Prefix : VrfOf(x) \notin q.spec

\* An operation that removes a VRF, before it lists it and while it empties it: what is
\* left in the VRFs it has gone through lies within the removals it still has to call.
BeforeVrfList(q, listed, a, e) ==
  /\ q.op = "remove_vrf"
  /\ a = <<List(q), Removals, Delete(q.spec), Logs>>
  /\ \A c \in e.changes : c.row \in Prefix

IsCallFor(item) == \E v \in Vrf : item = Calling(EmptyVrf(v)[1]) \/ item = Calling(EmptyVrf(v)[2])

EmptyingTo(q, listed, a, e, n, done) ==
  /\ IsSequence(a) /\ Len(a) = n + 3
  /\ a[n + 1] = RemovalsAt(done) /\ a[n + 2] = Delete(q.spec) /\ a[n + 3] = Logs
  /\ \A i \in 1 .. n : IsCallFor(a[i])
  /\ done \subseteq listed
  /\ ~ e.crossed => \A x \in rows \cap Prefix : \A y \in done :
                      y.row = VrfOf(x) => \E i \in 1 .. n : x \in a[i].q.within

Emptying(q, listed, a, e) ==
  /\ q.op = "remove_vrf"
  /\ \E n \in Nat : \E done : EmptyingTo(q, listed, a, e, n, done)
  /\ \A c \in e.changes : c.row \in Prefix
  /\ AllListed(q, listed, e) /\ (~ e.crossed => \A y \in listed : y.row \in rows)

\* What is to be logged is what was done.
Stands(q, listed, e) ==
  /\ ~ e.lost /\ ~ e.crossed => \A c \in AllSays(q, listed) : c \in e.changes \/ Excused(q, c)
  /\ ~ e.crossed => NamedOf(e) \subseteq AllSays(q, listed)
  /\ ~ e.crossed /\ Sweeps(q) => q.within \cap rows = {}

\* The entries of the rows that are done have been written, or are next on the agenda.
LoggingTo(q, listed, a, e, n, done) ==
  /\ IsSequence(a) /\ Len(a) = n + 1 /\ a[n + 1] = LogsAt(done)
  /\ done \subseteq listed
  /\ \A i \in 1 .. n : \E y \in listed :
       \/ \E c \in Says(q, y.row, y.pool) : a[i] = Log(c)
       \/ y.pool # NoPool /\ a[i] = GetPool(y.pool)
  /\ \A y \in done : \A c \in Says(q, y.row, y.pool) :
       c \in e.entries \/ \E i \in 1 .. n : a[i] = Log(c)

Logging(q, listed, a, e) ==
  /\ \E n \in Nat : \E done : LoggingTo(q, listed, a, e, n, done)
  /\ Stands(q, listed, e) /\ PoolsThere(listed, e)

Logged(q, listed, a, e) ==
  /\ a = <<>>
  /\ AllSays(q, listed) \subseteq e.entries
  /\ Stands(q, listed, e)

Stage(q, listed, a, e) ==
  \/ BeforeInsert(q, listed, a, e) \/ BeforeFetch(q, listed, a, e)
  \/ BeforeEditList(q, listed, a, e) \/ BeforeUpdate(q, listed, a, e)
  \/ BeforeList(q, listed, a, e) \/ BeforeHosts(q, listed, a, e) \/ BeforeDelete(q, listed, a, e)
  \/ BeforeVrfList(q, listed, a, e) \/ Emptying(q, listed, a, e)
  \/ Logging(q, listed, a, e) \/ Logged(q, listed, a, e)

\* The request itself, or a call of remove_prefix that remove_vrf makes.
OnBehalf(q, e) ==
  /\ RequestOK(q) /\ RequestOK(e.q)
  /\ e.q = q \/ (e.q.op = "remove_vrf" /\ Sweeps(q))

\* What becomes of the record of a request while its statement is run.
Noted(e, stmt, f) ==
  /\ f.q = e.q /\ f.answer = e.answer
  /\ f.changes = e.changes \cup (IF IsChange(stmt) THEN Changes(stmt) ELSE {})
  /\ f.entries = e.entries \cup (IF stmt.do = "log" THEN {stmt.entry} ELSE {})
  /\ f.crossed = e.crossed

LEMMA Agendas ==
  /\ \A a : <<a>> # <<>> /\ Head(<<a>>) = a /\ Tail(<<a>>) = <<>>
  /\ \A a, b : <<a, b>> # <<>> /\ Head(<<a, b>>) = a /\ Tail(<<a, b>>) = <<b>>
  /\ \A a, b, c : <<a, b, c>> # <<>> /\ Head(<<a, b, c>>) = a /\ Tail(<<a, b, c>>) = <<b, c>>
  /\ \A a, b, c, d :
       <<a, b, c, d>> # <<>> /\ Head(<<a, b, c, d>>) = a /\ Tail(<<a, b, c, d>>) = <<b, c, d>>
  /\ \A a, b, c, d, x :
       /\ <<a, b, c, d, x>> # <<>> /\ Head(<<a, b, c, d, x>>) = a
       /\ Tail(<<a, b, c, d, x>>) = <<b, c, d, x>>
OBVIOUS

\* A few statements in a row.
LEMMA JoinIs ==
  ASSUME NEW s, NEW t, NEW u, IsSequence(s), IsSequence(t), IsSequence(u),
         Len(u) = Len(s) + Len(t),
         \A i \in 1 .. Len(s) : u[i] = s[i],
         \A i \in 1 .. Len(t) : u[Len(s) + i] = t[i]
  PROVE  s \o t = u
<1>1. /\ IsSequence(s \o t) /\ Len(s) \in Nat /\ Len(t) \in Nat /\ Len(s \o t) = Len(s) + Len(t)
      /\ \A i \in 1 .. Len(s) : (s \o t)[i] = s[i]
      /\ \A i \in 1 .. Len(t) : (s \o t)[Len(s) + i] = t[i]
  BY Joins
<1> DEFINE v == s \o t
<1>2. PICK U : u \in Seq(U)
  BY DEF IsSequence
<1>3. PICK V : v \in Seq(V)
  BY <1>1 DEF IsSequence
<1> HIDE DEF v
<1>4. ASSUME NEW i \in 1 .. Len(u)
      PROVE  u[i] = v[i]
  <2>1. CASE i \in 1 .. Len(s)
    BY <1>1, <2>1 DEF v
  <2>2. CASE i \notin 1 .. Len(s)
    <3>1. i - Len(s) \in 1 .. Len(t) /\ Len(s) + (i - Len(s)) = i
      BY <1>1, <2>2
    <3> QED
      BY <1>1, <3>1 DEF v
  <2> QED
    BY <2>1, <2>2
<1>5. u \in Seq(U \cup V) /\ v \in Seq(U \cup V)
  BY <1>2, <1>3
<1>6. u = v
  BY <1>1, <1>4, <1>5, SeqEqual DEF v
<1> QED
  BY <1>6 DEF v

LEMMA ListsOfMore ==
  /\ \A a, b, c : /\ IsSequence(<<a, b, c>>) /\ Len(<<a, b, c>>) = 3
                  /\ <<a, b, c>>[1] = a /\ <<a, b, c>>[2] = b /\ <<a, b, c>>[3] = c
  /\ \A a, b, c, d : /\ IsSequence(<<a, b, c, d>>) /\ Len(<<a, b, c, d>>) = 4
                     /\ <<a, b, c, d>>[1] = a /\ <<a, b, c, d>>[2] = b
                     /\ <<a, b, c, d>>[3] = c /\ <<a, b, c, d>>[4] = d
  /\ \A a, b, c, d, x : /\ IsSequence(<<a, b, c, d, x>>) /\ Len(<<a, b, c, d, x>>) = 5
                        /\ <<a, b, c, d, x>>[1] = a /\ <<a, b, c, d, x>>[2] = b
                        /\ <<a, b, c, d, x>>[3] = c /\ <<a, b, c, d, x>>[4] = d
                        /\ <<a, b, c, d, x>>[5] = x
<1>1. \A a, b, c : <<a, b, c>> \in Seq({a, b, c})
  OBVIOUS
<1>2. \A a, b, c, d : <<a, b, c, d>> \in Seq({a, b, c, d})
  OBVIOUS
<1>3. \A a, b, c, d, x : <<a, b, c, d, x>> \in Seq({a, b, c, d, x})
  OBVIOUS
<1>4. ASSUME NEW a, NEW b, NEW c
      PROVE  /\ IsSequence(<<a, b, c>>) /\ Len(<<a, b, c>>) = 3
             /\ <<a, b, c>>[1] = a /\ <<a, b, c>>[2] = b /\ <<a, b, c>>[3] = c
  BY <1>1 DEF IsSequence
<1>5. ASSUME NEW a, NEW b, NEW c, NEW d
      PROVE  /\ IsSequence(<<a, b, c, d>>) /\ Len(<<a, b, c, d>>) = 4
             /\ <<a, b, c, d>>[1] = a /\ <<a, b, c, d>>[2] = b
             /\ <<a, b, c, d>>[3] = c /\ <<a, b, c, d>>[4] = d
  BY <1>2 DEF IsSequence
<1>6. ASSUME NEW a, NEW b, NEW c, NEW d, NEW x
      PROVE  /\ IsSequence(<<a, b, c, d, x>>) /\ Len(<<a, b, c, d, x>>) = 5
             /\ <<a, b, c, d, x>>[1] = a /\ <<a, b, c, d, x>>[2] = b
             /\ <<a, b, c, d, x>>[3] = c /\ <<a, b, c, d, x>>[4] = d
             /\ <<a, b, c, d, x>>[5] = x
  BY <1>3 DEF IsSequence
<1> QED
  BY <1>4, <1>5, <1>6

LEMMA FlatFour ==
  /\ \A a, b, c, d : /\ <<a>> \o <<b, c, d>> = <<a, b, c, d>>
                     /\ <<a, b>> \o <<c, d>> = <<a, b, c, d>>
                     /\ <<a, b, c>> \o <<d>> = <<a, b, c, d>>
  /\ \A a, b, c, d, x : <<a, b, c, d>> \o <<x>> = <<a, b, c, d, x>>
<1>1. ASSUME NEW a, NEW b, NEW c, NEW d
      PROVE  /\ <<a>> \o <<b, c, d>> = <<a, b, c, d>>
             /\ <<a, b>> \o <<c, d>> = <<a, b, c, d>>
             /\ <<a, b, c>> \o <<d>> = <<a, b, c, d>>
  <2> DEFINE s1 == <<a>>
             t1 == <<d>>
             s2 == <<a, b>>
             t2 == <<c, d>>
             s3 == <<a, b, c>>
             t3 == <<b, c, d>>
             u == <<a, b, c, d>>
  <2>1. /\ IsSequence(s1) /\ IsSequence(t1)
        /\ Len(s1) = 1 /\ Len(t1) = 1 /\ s1[1] = a /\ t1[1] = d
    BY Lists
  <2>2. /\ IsSequence(s2) /\ IsSequence(t2) /\ Len(s2) = 2 /\ Len(t2) = 2
        /\ s2[1] = a /\ s2[2] = b /\ t2[1] = c /\ t2[2] = d
    BY Lists
  <2>3. /\ IsSequence(s3) /\ IsSequence(t3) /\ Len(s3) = 3 /\ Len(t3) = 3
        /\ s3[1] = a /\ s3[2] = b /\ s3[3] = c /\ t3[1] = b /\ t3[2] = c /\ t3[3] = d
    BY ListsOfMore
  <2>4. IsSequence(u) /\ Len(u) = 4 /\ u[1] = a /\ u[2] = b /\ u[3] = c /\ u[4] = d
    BY ListsOfMore
  <2> HIDE DEF s1, t1, s2, t2, s3, t3, u
  <2>5. s1 \o t3 = u
    <3>1. /\ Len(u) = Len(s1) + Len(t3)
          /\ \A i \in 1 .. Len(s1) : u[i] = s1[i]
          /\ \A i \in 1 .. Len(t3) : u[Len(s1) + i] = t3[i]
      BY <2>1, <2>3, <2>4
    <3> QED
      BY <2>1, <2>3, <2>4, <3>1, JoinIs
  <2>6. s2 \o t2 = u
    <3>1. /\ Len(u) = Len(s2) + Len(t2)
          /\ \A i \in 1 .. Len(s2) : u[i] = s2[i]
          /\ \A i \in 1 .. Len(t2) : u[Len(s2) + i] = t2[i]
      BY <2>2, <2>4
    <3> QED
      BY <2>2, <2>4, <3>1, JoinIs
  <2>7. s3 \o t1 = u
    <3>1. /\ Len(u) = Len(s3) + Len(t1)
          /\ \A i \in 1 .. Len(s3) : u[i] = s3[i]
          /\ \A i \in 1 .. Len(t1) : u[Len(s3) + i] = t1[i]
      BY <2>1, <2>3, <2>4
    <3> QED
      BY <2>1, <2>3, <2>4, <3>1, JoinIs
  <2> QED
    BY <2>5, <2>6, <2>7 DEF s1, t1, s2, t2, s3, t3, u
<1>2. ASSUME NEW a, NEW b, NEW c, NEW d, NEW x
      PROVE  <<a, b, c, d>> \o <<x>> = <<a, b, c, d, x>>
  <2> DEFINE s == <<x>>
             u == <<a, b, c, d>>
             v == <<a, b, c, d, x>>
  <2>1. IsSequence(s) /\ Len(s) = 1 /\ s[1] = x
    BY Lists
  <2>2. IsSequence(u) /\ Len(u) = 4 /\ u[1] = a /\ u[2] = b /\ u[3] = c /\ u[4] = d
    BY ListsOfMore
  <2>3. IsSequence(v) /\ Len(v) = 5 /\ v[1] = a /\ v[2] = b /\ v[3] = c /\ v[4] = d /\ v[5] = x
    BY ListsOfMore
  <2> HIDE DEF s, u, v
  <2>4. /\ Len(v) = Len(u) + Len(s)
        /\ \A i \in 1 .. Len(u) : v[i] = u[i]
        /\ \A i \in 1 .. Len(s) : v[Len(u) + i] = s[i]
    BY <2>1, <2>2, <2>3
  <2>5. u \o s = v
    BY <2>1, <2>2, <2>3, <2>4, JoinIs
  <2> QED
    BY <2>5 DEF s, u, v
<1> QED
  BY <1>1, <1>2

LEMMA ListingIs ==
  ASSUME NEW D
  PROVE  /\ \A y \in Listing(D) : /\ y.row \in D /\ y.row \in rows
                                  /\ y.row \in Prefix => y.pool = poolOf[y.row]
                                  /\ y.row \notin Prefix => y.pool = NoPool
         /\ \A x \in D \cap rows : \E y \in Listing(D) : y.row = x
<1> DEFINE listing(x) == [row |-> x, pool |-> IF x \in Prefix THEN poolOf[x] ELSE NoPool]
<1>1. Listing(D) = {listing(x) : x \in D \cap rows}
  BY DEF Listing
<1>2. \A x : /\ listing(x).row = x
             /\ x \in Prefix => listing(x).pool = poolOf[x]
             /\ x \notin Prefix => listing(x).pool = NoPool
  OBVIOUS
<1> HIDE DEF listing
<1> QED
  BY <1>1, <1>2

\* A statement of the request at the head of the agenda is committed.
Ran(q, listed, a, e, f) ==
  /\ DataOK /\ OnBehalf(q, e) /\ ListedOK(q, listed)
  /\ a # <<>> /\ IsData(Head(a)) /\ ~ MustRefuse(Head(a))
  /\ rows' = RowsAfter(Head(a)) /\ poolOf' = PoolsAfter(Head(a))
  /\ Noted(e, Head(a), f)

Listed(listed, stmt) == IF stmt.do \in {"list", "fetch"} THEN Listing(stmt.rows) ELSE listed

\* It reads something, or logs something.
LEMMA RanRead ==
  ASSUME NEW q, NEW listed, NEW a, NEW e, NEW f, Ran(q, listed, a, e, f), ~ IsChange(Head(a))
  PROVE  /\ rows' = rows /\ poolOf' = poolOf /\ f.changes = e.changes
         /\ f.crossed = e.crossed /\ f.q = e.q /\ NamedOf(f) = NamedOf(e) /\ e.entries \subseteq f.entries
<1>1. rows' = rows /\ poolOf' = poolOf
  BY ReadsOnly DEF Ran
<1>2. f.changes = e.changes /\ f.crossed = e.crossed /\ f.q = e.q /\ e.entries \subseteq f.entries
  BY DEF Ran, Noted
<1> QED
  BY <1>1, <1>2 DEF NamedOf

LEMMA RanChange ==
  ASSUME NEW q, NEW listed, NEW a, NEW e, NEW f, Ran(q, listed, a, e, f), IsChange(Head(a))
  PROVE  /\ rows' = RowsAfter(Head(a)) /\ poolOf' = PoolsAfter(Head(a))
         /\ f.changes = e.changes \cup Changes(Head(a))
         /\ f.crossed = e.crossed /\ f.q = e.q /\ e.entries \subseteq f.entries
BY DEF Ran, Noted

LEMMA DoesChange ==
  /\ \A q : IsChange(Insert(q)) /\ IsChange(Update(q))
  /\ \A D : IsChange(Delete(D))
  /\ \A q : ~ IsChange(Resolve(q)) /\ ~ IsChange(List(q)) /\ ~ IsChange(Fetch(q))
  /\ \A o : ~ IsChange(GetPool(o))
  /\ \A c : ~ IsChange(Log(c))
BY DEF IsChange, GetPool, Resolve, List, Insert, Fetch, Update, Delete, Log

\* An entry on behalf of an operation that is not a removal is its own.
LEMMA OwnRequest ==
  ASSUME NEW q, NEW e, OnBehalf(q, e)
  PROVE  /\ ~ Sweeps(q) => e.q = q
         /\ e.q # q => \A x \in e.q.spec : x \in Vrf /\ x \notin Prefix
         /\ RequestOK(q) /\ RequestOK(e.q)
BY Kinds, RowsAssumption DEF OnBehalf

LEMMA OneOp ==
  ASSUME NEW q
  PROVE  /\ q.op \in Adds => ~ Sweeps(q) /\ q.op \notin Edits /\ q.op \notin Removes
         /\ q.op \in Edits => ~ Sweeps(q) /\ q.op \notin Adds /\ q.op \notin Removes
         /\ Sweeps(q) => q.op = "remove_prefix" /\ q.op \in Removes
BY DEF Adds, Edits, Removes, Sweeps

\* With nothing on the agenda but the log.
LEMMA StartsLogging ==
  ASSUME NEW q, NEW listed, NEW e, Stands(q, listed, e), PoolsThere(listed, e)
  PROVE  Logging(q, listed, <<Logs>>, e)
<1>1. IsSequence(<<Logs>>) /\ Len(<<Logs>>) = 0 + 1 /\ <<Logs>>[0 + 1] = Logs
  BY Lists
<1>2. Logs = LogsAt({})
  BY DEF Logs, LogsAt
<1>3. LoggingTo(q, listed, <<Logs>>, e, 0, {})
  BY <1>1, <1>2 DEF LoggingTo
<1> QED
  BY <1>3 DEF Logging

-----------------------------------------------------------------------------
(* A statement is run, stage by stage.                                     *)

LEMMA RunInsert ==
  ASSUME NEW q, NEW listed, NEW a, NEW e, NEW f, Ran(q, listed, a, e, f), f.lost = e.lost,
         BeforeInsert(q, listed, a, e), NEW got, got = Listed(listed, Head(a))
  PROVE  Stage(q, got, Tail(a), f)' /\ ListedOK(q, got)
<1>1. CASE a = <<GetPool(q.pool), Insert(q), Fetch(q), Logs>>
  <2>1. Head(a) = GetPool(q.pool) /\ Tail(a) = <<Insert(q), Fetch(q), Logs>>
    BY <1>1, Agendas
  <2>2. got = listed /\ ListedOK(q, got)
    BY <2>1 DEF Listed, Ran, GetPool
  <2>3. f.changes = e.changes /\ NamedOf(f) = NamedOf(e)
    BY <2>1, DoesChange, RanRead
  <2>4. BeforeInsert(q, listed, Tail(a), f)
    BY <2>1, <2>3 DEF BeforeInsert
  <2>5. BeforeInsert(q, listed, Tail(a), f)'
    BY <2>4 DEF BeforeInsert, NamedOf
  <2> QED
    BY <2>2, <2>5 DEF Stage
<1>2. CASE a = <<Insert(q), Fetch(q), Logs>>
  <2>1. Head(a) = Insert(q) /\ Tail(a) = <<Fetch(q), Logs>>
    BY <1>2, Agendas
  <2>2. got = listed /\ ListedOK(q, got)
    BY <2>1 DEF Listed, Ran, Insert
  <2>3. /\ rows' = RowsAfter(Insert(q)) /\ poolOf' = PoolsAfter(Insert(q)) /\ f.q = e.q
        /\ f.changes = e.changes \cup Changes(Insert(q)) /\ f.crossed = e.crossed
    BY <2>1, DoesChange, RanChange
  <2>4. RowsAfter(Insert(q)) = rows \cup q.spec /\ Changes(Insert(q)) = AddSays(q)
    BY <2>1, InsertChanges, OwnRequest DEF Ran, BeforeInsert
  <2>5. NamedOf(f) \subseteq AddSays(q)
    BY <2>3, <2>4 DEF NamedOf, BeforeInsert
  <2>6. BeforeFetch(q, listed, Tail(a), f)'
    BY <2>1, <2>3, <2>4, <2>5 DEF BeforeInsert, BeforeFetch, NamedOf
  <2> QED
    BY <2>2, <2>6 DEF Stage
<1> QED
  BY <1>1, <1>2 DEF BeforeInsert

LEMMA RunFetch ==
  ASSUME NEW q, NEW listed, NEW a, NEW e, NEW f, Ran(q, listed, a, e, f), f.lost = e.lost,
         BeforeFetch(q, listed, a, e), NEW got, got = Listed(listed, Head(a))
  PROVE  Stage(q, got, Tail(a), f)' /\ ListedOK(q, got)
<1>1. Head(a) = Fetch(q) /\ Tail(a) = <<Logs>>
  BY Agendas DEF BeforeFetch
<1>2. got = Listing(q.spec)
  <2>1. Head(a).do = "fetch" /\ Head(a).rows = q.spec
    BY <1>1 DEF Fetch
  <2> QED
    BY <2>1 DEF Listed
<1>3. rows' = rows /\ f.changes = e.changes /\ NamedOf(f) = NamedOf(e) /\ f.crossed = e.crossed
  BY <1>1, DoesChange, RanRead
<1>4. /\ \A y \in got : y.row \in q.spec /\ y.row \in rows /\ y.pool \in rows \cup {NoPool}
      /\ ListedOK(q, got)
  BY <1>2, ListingIs DEF Ran, DataOK, ListedOK
<1>5. \A x \in q.spec \cap rows : \E y \in got : y.row = x
  BY <1>2, ListingIs
<1>6. \A x, o : Says(q, x, o) = Says(q, x, NoPool)
  BY DEF Says, BeforeFetch, Adds
<1>7. AllSays(q, got) \subseteq AddSays(q)
  BY <1>4, <1>6 DEF AllSays, AddSays
<1>8. ~ e.crossed => AddSays(q) \subseteq AllSays(q, got)
  BY <1>5, <1>6 DEF AllSays, AddSays, BeforeFetch
<1>9. Stands(q, got, f)
  BY <1>3, <1>7, <1>8, OneOp DEF Stands, BeforeFetch
<1>10. PoolsThere(got, f)
  BY <1>4 DEF PoolsThere
<1>11. Logging(q, got, Tail(a), f)
  BY <1>1, <1>9, <1>10, StartsLogging
<1>12. Logging(q, got, Tail(a), f)'
  BY <1>3, <1>11 DEF Logging, LoggingTo, Stands, PoolsThere, NamedOf
<1> QED
  BY <1>4, <1>12 DEF Stage

LEMMA ListsWell ==
  ASSUME DataOK, NEW q
  PROVE  /\ ListedOK(q, Listing(q.spec))
         /\ \A e : PoolsThere(Listing(q.spec), e) /\ AllListed(q, Listing(q.spec), e)
<1>1. \A y \in Listing(q.spec) : y.pool \in Pool \cup {NoPool} /\ y.pool \in rows \cup {NoPool}
  BY ListingIs DEF DataOK
<1> QED
  BY <1>1, ListingIs DEF ListedOK, PoolsThere, AllListed

LEMMA RunEditList ==
  ASSUME NEW q, NEW listed, NEW a, NEW e, NEW f, Ran(q, listed, a, e, f), f.lost = e.lost,
         BeforeEditList(q, listed, a, e), NEW got, got = Listed(listed, Head(a))
  PROVE  Stage(q, got, Tail(a), f)' /\ ListedOK(q, got)
<1>1. CASE a = <<GetPool(q.pool), List(q), Update(q), Logs>>
  <2>1. Head(a) = GetPool(q.pool) /\ Tail(a) = <<List(q), Update(q), Logs>>
    BY <1>1, Agendas
  <2>2. got = listed /\ ListedOK(q, got)
    BY <2>1 DEF Listed, Ran, GetPool
  <2>3. f.changes = e.changes
    BY <2>1, DoesChange, RanRead
  <2>4. BeforeEditList(q, listed, Tail(a), f)
    BY <2>1, <2>3 DEF BeforeEditList
  <2>5. BeforeEditList(q, listed, Tail(a), f)'
    BY <2>4 DEF BeforeEditList
  <2> QED
    BY <2>2, <2>5 DEF Stage
<1>2. CASE a = <<List(q), Update(q), Logs>>
  <2>1. Head(a) = List(q) /\ Tail(a) = <<Update(q), Logs>>
    BY <1>2, Agendas
  <2>2. got = Listing(q.spec)
    <3>1. Head(a).do = "list" /\ Head(a).rows = q.spec
      BY <2>1 DEF List
    <3> QED
      BY <3>1 DEF Listed
  <2>3. /\ rows' = rows /\ poolOf' = poolOf
        /\ f.changes = e.changes /\ f.crossed = e.crossed /\ NamedOf(f) = NamedOf(e)
    BY <2>1, DoesChange, RanRead
  <2>4. ListedOK(q, got) /\ PoolsThere(got, f) /\ AllListed(q, got, f)
    BY <2>2, ListsWell DEF Ran
  <2>5. \A y \in got : y.row \in rows /\ (y.row \in Prefix => poolOf[y.row] = y.pool)
    BY <2>2, ListingIs
  <2>6. BeforeUpdate(q, got, Tail(a), f)
    BY <2>1, <2>3, <2>4, <2>5 DEF BeforeEditList, BeforeUpdate, NamedOf
  <2>7. BeforeUpdate(q, got, Tail(a), f)'
    BY <2>3, <2>6 DEF BeforeUpdate, PoolsThere, AllListed, NamedOf, AllSays
  <2> QED
    BY <2>4, <2>7 DEF Stage
<1> QED
  BY <1>1, <1>2 DEF BeforeEditList

\* An update writes what was asked for to the rows that were listed.
LEMMA UpdateStep ==
  ASSUME NEW q, NEW listed, NEW a, NEW e, NEW f, Ran(q, listed, a, e, f),
         BeforeUpdate(q, listed, a, e)
  PROVE  /\ Head(a) = Update(q) /\ Tail(a) = <<Logs>>
         /\ rows' = rows /\ f.crossed = e.crossed
         /\ ~ e.crossed =>
              /\ NamedOf(f) \subseteq AllSays(q, listed)
              /\ \A y \in listed : y.row \in Prefix =>
                   \/ q.pool = Same /\ poolOf'[y.row] = y.pool
                   \/ q.pool # Same /\ poolOf'[y.row] = q.pool
         /\ ~ e.lost /\ ~ e.crossed =>
              \A c \in AllSays(q, listed) : c \in f.changes \/ Excused(q, c)
<1>1. Head(a) = Update(q) /\ Tail(a) = <<Logs>>
  BY Agendas DEF BeforeUpdate
<1>2. q.op \in Edits /\ e.q = q /\ RequestOK(q) /\ DataOK /\ ~ MustRefuse(Update(q)) /\ ListedOK(q, listed)
  BY <1>1, OneOp, OwnRequest DEF BeforeUpdate, Ran
<1>3. /\ rows' = RowsAfter(Update(q)) /\ poolOf' = PoolsAfter(Update(q))
      /\ f.changes = e.changes \cup Changes(Update(q)) /\ f.crossed = e.crossed /\ f.q = e.q
  BY <1>1, DoesChange, RanChange
<1>4. /\ rows' = rows
      /\ \A x \in Prefix : poolOf'[x] =
           IF x \in q.spec \cap rows /\ q.pool # Same THEN q.pool ELSE poolOf[x]
  BY <1>2, <1>3, UpdateChanges
<1>5. \A c : c \in Changes(Update(q)) <=>
        \/ \E x \in q.spec \cap rows : c = Touched(x)
        \/ \E x \in q.spec \cap rows \cap Prefix :
             /\ q.pool # Same /\ q.pool # poolOf[x]
             /\ \/ q.pool # NoPool /\ c = Joined(x, q.pool)
                \/ poolOf[x] # NoPool /\ c = Left(x, poolOf[x])
  BY <1>2, UpdateChanges
<1>6. q.spec \cap Prefix # {} => q.op = "edit_prefix"
  BY <1>2, Kinds DEF Edits
<1>7. ASSUME ~ e.crossed
      PROVE  /\ NamedOf(f) \subseteq AllSays(q, listed)
             /\ \A y \in listed : y.row \in Prefix =>
                  \/ q.pool = Same /\ poolOf'[y.row] = y.pool
                  \/ q.pool # Same /\ poolOf'[y.row] = q.pool
  <2>1. /\ NamedOf(e) \subseteq AllSays(q, listed)
        /\ \A y \in listed :
             /\ y.row \in rows /\ y.row \in q.spec
             /\ y.row \in Prefix => \/ poolOf[y.row] = y.pool
                                    \/ q.pool # Same /\ poolOf[y.row] = q.pool
        /\ \A x \in q.spec \cap rows : \E y \in listed : y.row = x
    BY <1>2, <1>7 DEF BeforeUpdate, AllListed, ListedOK
  <2>2. ASSUME NEW c \in Changes(Update(q))
        PROVE  c \in AllSays(q, listed)
    <3>1. CASE \E x \in q.spec \cap rows : c = Touched(x)
      <4>1. PICK y \in listed : c = Touched(y.row)
        BY <2>1, <3>1
      <4>2. c \in Says(q, y.row, y.pool)
        BY <4>1 DEF Says
      <4> QED
        BY <4>2 DEF AllSays
    <3>2. ASSUME NEW x \in q.spec \cap rows \cap Prefix,
                 q.pool # Same /\ q.pool # poolOf[x],
                 \/ q.pool # NoPool /\ c = Joined(x, q.pool)
                 \/ poolOf[x] # NoPool /\ c = Left(x, poolOf[x])
          PROVE  c \in AllSays(q, listed)
      <4>1. PICK y \in listed : y.row = x
        BY <2>1
      <4>2. y.pool = poolOf[x] /\ Asked(q) = q.pool /\ q.op = "edit_prefix"
        BY <1>6, <2>1, <3>2, <4>1 DEF Asked
      <4>3. c \in Says(q, y.row, y.pool)
        BY <3>2, <4>1, <4>2 DEF Says
      <4> QED
        BY <4>3 DEF AllSays
    <3> QED
      BY <1>5, <3>1, <3>2
  <2>3. NamedOf(f) \subseteq AllSays(q, listed)
    BY <1>3, <2>1, <2>2 DEF NamedOf
  <2> QED
    BY <1>4, <2>1, <2>3
<1>8. ASSUME ~ e.lost, ~ e.crossed, NEW c \in AllSays(q, listed)
      PROVE  c \in f.changes \/ Excused(q, c)
  <2>1. PICK y \in listed : c \in Says(q, y.row, y.pool)
    BY DEF AllSays
  <2>2. /\ y.row \in q.spec \cap rows
        /\ y.row \in Prefix => poolOf[y.row] = y.pool
        /\ y.row \notin Prefix => y.pool = NoPool
    BY <1>2, <1>8 DEF BeforeUpdate, ListedOK
  <2>3. CASE c = Touched(y.row)
    BY <1>3, <1>5, <2>2, <2>3
  <2>4. CASE c # Touched(y.row)
    <3>1. \/ c = Joined(y.row, Asked(q)) /\ q.op = "edit_prefix" /\ y.pool # Asked(q) /\ Asked(q) # NoPool
          \/ c = Left(y.row, y.pool) /\ q.op = "edit_prefix" /\ y.pool # Asked(q) /\ y.pool # NoPool
      BY <1>2, <2>1, <2>4 DEF Says, Edits
    <3>2. y.row \in Prefix
      BY <1>2, <2>2, <3>1, Kinds
    <3>3. CASE q.pool # Same
      <4>1. q.pool # poolOf[y.row] /\ Asked(q) = q.pool
        BY <2>2, <3>1, <3>2, <3>3 DEF Asked
      <4>2. y.row \in q.spec \cap rows \cap Prefix
        BY <2>2, <3>2
      <4>3. c \in Changes(Update(q))
        BY <1>5, <2>2, <3>1, <3>2, <3>3, <4>1, <4>2
      <4> QED
        BY <1>3, <4>3
    <3>4. CASE q.pool = Same
      <4>1. c = Left(y.row, y.pool)
        BY <3>1, <3>4 DEF Asked
      <4> QED
        BY <3>1, <3>4, <4>1, EntriesAre DEF Excused
    <3> QED
      BY <3>3, <3>4
  <2> QED
    BY <2>3, <2>4
<1> QED
  BY <1>1, <1>3, <1>4, <1>7, <1>8

LEMMA RunUpdate ==
  ASSUME NEW q, NEW listed, NEW a, NEW e, NEW f, Ran(q, listed, a, e, f), f.lost = e.lost,
         BeforeUpdate(q, listed, a, e), NEW got, got = Listed(listed, Head(a))
  PROVE  Stage(q, got, Tail(a), f)' /\ ListedOK(q, got)
<1>1. /\ Head(a) = Update(q) /\ Tail(a) = <<Logs>>
      /\ rows' = rows /\ f.crossed = e.crossed
      /\ ~ e.crossed => NamedOf(f) \subseteq AllSays(q, listed)
      /\ ~ e.lost /\ ~ e.crossed =>
           \A c \in AllSays(q, listed) : c \in f.changes \/ Excused(q, c)
  BY UpdateStep
<1>2. got = listed /\ ListedOK(q, got)
  BY <1>1 DEF Listed, Ran, Update
<1>3. Stands(q, listed, f) /\ PoolsThere(listed, f)
  BY <1>1, OneOp DEF Stands, PoolsThere, BeforeUpdate
<1>4. Logging(q, listed, Tail(a), f)
  BY <1>1, <1>3, StartsLogging
<1>5. Logging(q, listed, Tail(a), f)'
  BY <1>1, <1>4 DEF Logging, LoggingTo, Stands, PoolsThere, NamedOf
<1> QED
  BY <1>2, <1>5 DEF Stage

\* What is deleted for a request on prefixes, and for another.
DeletesFor(q, D) == (Sweeps(q) /\ D \subseteq q.within) \/ (OneDelete(q) /\ D = q.spec)

LEMMA DeletesKinds ==
  ASSUME NEW q, NEW D, RequestOK(q), DeletesFor(q, D)
  PROVE  /\ q.op \in Removes
         /\ D \subseteq Prefix \/ D \subseteq Vrf \/ D \subseteq Pool \/ D \subseteq Asn
         /\ q.op = "remove_prefix" => D \subseteq Prefix
         /\ q.op # "remove_prefix" => q.spec \cap Prefix = {} /\ D = q.spec
         /\ q.op # "remove_vrf" => D \subseteq Prefix \cup Pool \cup Asn
<1>1. CASE Sweeps(q)
  BY <1>1, OneOp DEF DeletesFor, RequestOK, OneDelete
<1>2. CASE ~ Sweeps(q)
  <2>1. OneDelete(q) /\ D = q.spec
    BY <1>2 DEF DeletesFor
  <2>2. q.op \in Removes
    BY <2>1 DEF OneDelete
  <2>3. q.op # "remove_prefix" => q.spec \cap Prefix = {}
    BY <2>2, Kinds DEF Removes
  <2> QED
    BY <2>1, <2>2, <2>3, Kinds DEF Removes
<1> QED
  BY <1>1, <1>2

\* A deletion takes rows that were listed, with what is to be said of them.
LEMMA DeleteStep ==
  ASSUME NEW q, NEW listed, NEW a, NEW e, NEW f, Ran(q, listed, a, e, f),
         NEW D, Head(a) = Delete(D), DeletesFor(q, D),
         AllListed(q, listed, e), PoolsThere(listed, e), GoneOrThere(q, listed, e)
  PROVE  /\ f.crossed = e.crossed
         /\ rows' = rows \ Gone(D) /\ rows' \subseteq rows
         /\ AllListed(q, listed, f)' /\ PoolsThere(listed, f)' /\ GoneOrThere(q, listed, f)'
<1>1. /\ rows' = RowsAfter(Delete(D)) /\ poolOf' = PoolsAfter(Delete(D))
      /\ f.changes = e.changes \cup Changes(Delete(D)) /\ f.crossed = e.crossed /\ f.q = e.q
  BY DoesChange, RanChange
<1>2. DataOK /\ OnBehalf(q, e) /\ RequestOK(q) /\ RequestOK(e.q) /\ ListedOK(q, listed)
  BY OwnRequest DEF Ran
<1>3. /\ rows' = rows \ Gone(D)
      /\ \A x \in Prefix : poolOf'[x] =
           IF x \in Gone(D) \/ poolOf[x] \in D THEN NoPool ELSE poolOf[x]
  BY <1>1, <1>2, DeleteChanges
<1>4. \A c : c \in Changes(Delete(D)) <=>
        \/ \E x \in Gone(D) : c = Touched(x)
        \/ \E x \in Prefix : /\ x \in Gone(D) \/ poolOf[x] \in D
                             /\ poolOf[x] # NoPool /\ c = Left(x, poolOf[x])
  BY <1>2, DeleteChanges
<1>5. /\ q.op \in Removes
      /\ q.op = "remove_prefix" => D \subseteq Prefix
      /\ q.op # "remove_prefix" => q.spec \cap Prefix = {} /\ D = q.spec
      /\ q.op # "remove_vrf" => D \subseteq Prefix \cup Pool \cup Asn
      /\ D \subseteq Prefix \/ D \subseteq Vrf \/ D \subseteq Pool \/ D \subseteq Asn
  BY <1>2, DeletesKinds
<1>6. /\ D \subseteq Prefix => Gone(D) = rows \cap D
      /\ \A x \in Prefix : D \subseteq Prefix => poolOf[x] = NoPool \/ poolOf[x] \notin D
  <2>1. \A x \in Prefix : poolOf[x] \in Pool \cup {NoPool}
    BY <1>2 DEF DataOK
  <2>2. D \subseteq Prefix => \A o \in Pool : o \notin D
    BY RowsAssumption
  <2> QED
    BY <1>2, <2>1, <2>2, GoneOf
<1>7. Gone(D) \subseteq rows
  BY DEF Gone
<1>8. AllListed(q, listed, f)'
  BY <1>1, <1>3 DEF AllListed
<1>9. PoolsThere(listed, f)'
  <2>1. ASSUME ~ e.crossed, NEW y \in listed
        PROVE  y.pool \in rows' \cup {NoPool}
    <3>1. y.pool \in rows \cup {NoPool} /\ y.pool \in Pool \cup {NoPool} /\ y.row \in q.spec
      BY <1>2, <2>1 DEF PoolsThere, ListedOK
    <3>2. CASE y.row \notin Prefix
      BY <1>2, <3>2 DEF ListedOK
    <3>3. CASE y.row \in Prefix
      <4>1. D \subseteq Prefix
        BY <1>5, <3>1, <3>3
      <4>2. \A o \in Pool : o \notin D
        BY <4>1, RowsAssumption
      <4> QED
        BY <1>3, <1>6, <3>1, <4>1, <4>2
    <3> QED
      BY <3>2, <3>3
  <2> QED
    BY <1>1, <2>1 DEF PoolsThere
<1>10. ASSUME ~ e.crossed
       PROVE  /\ NamedOf(f) \subseteq AllSays(q, listed)
              /\ \A y \in listed :
                   \/ y.row \in rows' /\ (y.row \in Prefix => poolOf'[y.row] = y.pool)
                   \/ y.row \notin rows' /\ Says(q, y.row, y.pool) \subseteq f.changes
  <2>1. /\ NamedOf(e) \subseteq AllSays(q, listed)
        /\ \A y \in listed :
             \/ y.row \in rows /\ (y.row \in Prefix => poolOf[y.row] = y.pool)
             \/ y.row \notin rows /\ Says(q, y.row, y.pool) \subseteq e.changes
        /\ \A x \in q.spec \cap rows : \E y \in listed : y.row = x
    BY <1>10 DEF GoneOrThere, AllListed
  <2>2. ASSUME NEW c \in Changes(Delete(D)), c.row \in e.q.spec
        PROVE  c \in AllSays(q, listed)
    <3>1. CASE e.q # q
      <4>1. Sweeps(q) /\ c.row \in Vrf /\ c.row \notin Prefix
        BY <1>2, <2>2, <3>1, OwnRequest
      <4>2. D \subseteq Prefix
        BY <1>5, <4>1, OneOp
      <4>3. \A x \in Gone(D) : x \in Prefix
        BY <1>6, <4>2
      <4>4. c.row \in Prefix
        BY <1>4, <4>3, EntriesAre
      <4> QED
        BY <4>1, <4>4
    <3>2. CASE e.q = q
      <4>1. PICK x : /\ c.row = x /\ x \in q.spec
                     /\ \/ x \in Gone(D) /\ c = Touched(x)
                        \/ x \in Prefix /\ (x \in Gone(D) \/ poolOf[x] \in D)
                           /\ poolOf[x] # NoPool /\ c = Left(x, poolOf[x])
        BY <1>4, <2>2, <3>2, EntriesAre
      <4>2. x \in Prefix => q.op = "remove_prefix" /\ D \subseteq Prefix
        BY <1>5, <4>1
      <4>3. x \in Gone(D)
        BY <1>6, <4>1, <4>2
      <4>4. PICK y \in listed : y.row = x
        BY <1>7, <2>1, <4>1, <4>3
      <4>5. x \in Prefix => poolOf[x] = y.pool
        BY <1>7, <2>1, <4>3, <4>4
      <4>6. c = Touched(x) \/ (q.op = "remove_prefix" /\ y.pool # NoPool /\ c = Left(x, y.pool))
        BY <4>1, <4>2, <4>5
      <4>7. c \in Says(q, y.row, y.pool)
        BY <4>4, <4>6 DEF Says
      <4> QED
        BY <4>7 DEF AllSays
    <3> QED
      BY <3>1, <3>2
  <2>3. NamedOf(f) \subseteq AllSays(q, listed)
    BY <1>1, <2>1, <2>2 DEF NamedOf
  <2>4. ASSUME NEW y \in listed
        PROVE  \/ y.row \in rows' /\ (y.row \in Prefix => poolOf'[y.row] = y.pool)
               \/ y.row \notin rows' /\ Says(q, y.row, y.pool) \subseteq f.changes
    <3>1. CASE y.row \notin rows
      BY <1>1, <1>3, <2>1, <3>1
    <3>2. CASE y.row \in Gone(D)
      <4>1. y.row \in rows /\ (y.row \in Prefix => poolOf[y.row] = y.pool) /\ y.row \in q.spec
        BY <1>2, <1>7, <2>1, <3>2 DEF ListedOK
      <4>2. Touched(y.row) \in Changes(Delete(D))
        BY <1>4, <3>2
      <4>3. ASSUME q.op = "remove_prefix", y.pool # NoPool
            PROVE  Left(y.row, y.pool) \in Changes(Delete(D))
        <5>1. y.row \in Prefix
          BY <1>2, <4>3 DEF ListedOK
        <5> QED
          BY <1>4, <3>2, <4>1, <4>3, <5>1
      <4>4. Says(q, y.row, y.pool) \subseteq Changes(Delete(D))
        BY <1>5, <4>2, <4>3 DEF Says, Removes
      <4> QED
        BY <1>1, <1>3, <3>2, <4>4
    <3>3. CASE y.row \in rows /\ y.row \notin Gone(D)
      <4>1. y.row \in rows'
        BY <1>3, <3>3
      <4>2. ASSUME y.row \in Prefix
            PROVE  poolOf'[y.row] = y.pool
        <5>1. y.row \in q.spec
          BY <1>2 DEF ListedOK
        <5>2. D \subseteq Prefix
          BY <1>5, <4>2, <5>1
        <5> QED
          BY <1>3, <1>6, <2>1, <3>3, <4>2, <5>2
      <4> QED
        BY <4>1, <4>2
    <3> QED
      BY <3>1, <3>2, <3>3
  <2> QED
    BY <2>3, <2>4
<1>11. GoneOrThere(q, listed, f)'
  BY <1>1, <1>10 DEF GoneOrThere, NamedOf, AllSays
<1> QED
  BY <1>1, <1>3, <1>8, <1>9, <1>11

LEMMA RunHosts ==
  ASSUME NEW q, NEW listed, NEW a, NEW e, NEW f, Ran(q, listed, a, e, f), f.lost = e.lost,
         BeforeHosts(q, listed, a, e), NEW got, got = Listed(listed, Head(a))
  PROVE  Stage(q, got, Tail(a), f)' /\ ListedOK(q, got)
<1> DEFINE D == q.within \cap Host
<1>1. Head(a) = Delete(D) /\ Tail(a) = <<Delete(q.within), Logs>>
  BY Agendas DEF BeforeHosts
<1>2. got = listed /\ ListedOK(q, got)
  BY <1>1 DEF Listed, Ran, Delete
<1>3. DeletesFor(q, D)
  BY DEF DeletesFor, BeforeHosts
<1>4. D \subseteq Prefix
  BY BackendAssumption
<1>5. Gone(D) = rows \cap D
  BY <1>4, GoneOf DEF Ran
<1> HIDE DEF D
<1>6. /\ f.crossed = e.crossed /\ rows' = rows \ Gone(D)
      /\ AllListed(q, listed, f)' /\ PoolsThere(listed, f)' /\ GoneOrThere(q, listed, f)'
  BY <1>1, <1>3, DeleteStep DEF BeforeHosts
<1>7. q.within \cap Host \cap rows' = {}
  BY <1>5, <1>6 DEF D
<1>8. q.op = "remove_prefix" /\ q.op \in Removes /\ Sweeps(q)
  BY OneOp DEF BeforeHosts
<1>9. BeforeDelete(q, listed, Tail(a), f)'
  BY <1>1, <1>6, <1>7, <1>8 DEF BeforeDelete, Unchanged
<1> QED
  BY <1>2, <1>9 DEF Stage

LEMMA RunDelete ==
  ASSUME NEW q, NEW listed, NEW a, NEW e, NEW f, Ran(q, listed, a, e, f), f.lost = e.lost,
         BeforeDelete(q, listed, a, e), NEW got, got = Listed(listed, Head(a))
  PROVE  Stage(q, got, Tail(a), f)' /\ ListedOK(q, got)
<1>1. PICK D : /\ Head(a) = Delete(D) /\ Tail(a) = <<Logs>>
               /\ DeletesFor(q, D) /\ q.spec \subseteq D /\ (Sweeps(q) => D = q.within)
  <2>1. CASE Sweeps(q)
    <3>1. a = <<Delete(q.within), Logs>> /\ q.spec \subseteq q.within
      BY <2>1, OwnRequest DEF BeforeDelete, OneDelete, Ran, RequestOK
    <3> QED
      BY <2>1, <3>1, Agendas DEF DeletesFor
  <2>2. CASE ~ Sweeps(q)
    <3>1. a = <<Delete(q.spec), Logs>> /\ OneDelete(q)
      BY <2>2 DEF BeforeDelete
    <3> QED
      BY <2>2, <3>1, Agendas DEF DeletesFor
  <2> QED
    BY <2>1, <2>2
<1>2. got = listed /\ ListedOK(q, got) /\ DataOK /\ RequestOK(q)
  BY <1>1, OwnRequest DEF Listed, Ran, Delete
<1>3. /\ f.crossed = e.crossed /\ rows' = rows \ Gone(D)
      /\ AllListed(q, listed, f)' /\ PoolsThere(listed, f)' /\ GoneOrThere(q, listed, f)'
  BY <1>1, DeleteStep DEF BeforeDelete
<1>4. \A x \in D \cap rows : x \in Gone(D)
  BY DEF Gone
<1>5. Stands(q, listed, f)'
  <2>1. ASSUME ~ f.crossed, NEW c \in AllSays(q, listed)
        PROVE  c \in f.changes
    <3>1. PICK y \in listed : c \in Says(q, y.row, y.pool)
      BY DEF AllSays
    <3>2. y.row \in q.spec
      BY <1>2 DEF ListedOK
    <3>3. y.row \notin rows'
      BY <1>1, <1>3, <1>4, <3>2
    <3>4. Says(q, y.row, y.pool) \subseteq f.changes
      BY <1>3, <2>1, <3>3 DEF GoneOrThere
    <3> QED
      BY <3>1, <3>4
  <2>2. ~ f.crossed => NamedOf(f) \subseteq AllSays(q, listed)
    BY <1>3 DEF GoneOrThere, NamedOf, AllSays
  <2>3. Sweeps(q) => q.within \cap rows' = {}
    BY <1>1, <1>3, <1>4
  <2>4. Stands(q, listed, f)' <=>
          /\ ~ f.lost /\ ~ f.crossed => \A c \in AllSays(q, listed) : c \in f.changes \/ Excused(q, c)
          /\ ~ f.crossed => NamedOf(f) \subseteq AllSays(q, listed)
          /\ ~ f.crossed /\ Sweeps(q) => q.within \cap rows' = {}
    BY DEF Stands, NamedOf, AllSays
  <2> QED
    BY <2>1, <2>2, <2>3, <2>4
<1>6. Logging(q, listed, Tail(a), f)'
  <2>1. IsSequence(<<Logs>>) /\ Len(<<Logs>>) = 0 + 1 /\ <<Logs>>[0 + 1] = Logs
    BY Lists
  <2>2. Logs = LogsAt({})
    BY DEF Logs, LogsAt
  <2>3. LoggingTo(q, listed, <<Logs>>, f, 0, {})
    BY <2>1, <2>2 DEF LoggingTo
  <2>4. LoggingTo(q, listed, <<Logs>>, f, 0, {})'
    BY <2>3 DEF LoggingTo
  <2> QED
    BY <1>1, <1>3, <1>5, <2>4 DEF Logging
<1> QED
  BY <1>2, <1>6 DEF Stage

LEMMA RunList ==
  ASSUME NEW q, NEW listed, NEW a, NEW e, NEW f, Ran(q, listed, a, e, f), f.lost = e.lost,
         BeforeList(q, listed, a, e), NEW got, got = Listed(listed, Head(a))
  PROVE  Stage(q, got, Tail(a), f)' /\ ListedOK(q, got)
<1>1. q.op \in Removes /\ q.op # "remove_vrf"
  BY DEF BeforeList
<1>2. CASE \/ OneDelete(q) /\ a = <<Resolve(q), List(q), Delete(q.spec), Logs>>
           \/ Sweeps(q) /\ a = <<Resolve(q), List(q), Delete(q.within \cap Host), Delete(q.within), Logs>>
  <2>1. /\ Head(a) = Resolve(q)
        /\ \/ OneDelete(q) /\ Tail(a) = <<List(q), Delete(q.spec), Logs>>
           \/ Sweeps(q) /\ Tail(a) = <<List(q), Delete(q.within \cap Host), Delete(q.within), Logs>>
    <3>1. CASE OneDelete(q) /\ a = <<Resolve(q), List(q), Delete(q.spec), Logs>>
      BY <3>1, Agendas
    <3>2. CASE Sweeps(q) /\ a = <<Resolve(q), List(q), Delete(q.within \cap Host), Delete(q.within), Logs>>
      BY <3>2, Agendas
    <3> QED
      BY <1>2, <3>1, <3>2
  <2>2. got = listed /\ ListedOK(q, got)
    BY <2>1 DEF Listed, Ran, Resolve
  <2>3. f.changes = e.changes /\ NamedOf(f) = NamedOf(e)
    BY <2>1, DoesChange, RanRead
  <2>4. BeforeList(q, listed, Tail(a), f)
    BY <2>1, <2>3 DEF BeforeList, Unchanged
  <2>5. BeforeList(q, listed, Tail(a), f)'
    BY <2>4 DEF BeforeList, NamedOf, Unchanged, OneDelete
  <2> QED
    BY <2>2, <2>5 DEF Stage
<1>3. CASE \/ OneDelete(q) /\ a = <<List(q), Delete(q.spec), Logs>>
           \/ Sweeps(q) /\ a = <<List(q), Delete(q.within \cap Host), Delete(q.within), Logs>>
  <2>1. /\ Head(a) = List(q)
        /\ \/ OneDelete(q) /\ ~ Sweeps(q) /\ Tail(a) = <<Delete(q.spec), Logs>>
           \/ Sweeps(q) /\ Tail(a) = <<Delete(q.within \cap Host), Delete(q.within), Logs>>
    <3>1. CASE OneDelete(q) /\ a = <<List(q), Delete(q.spec), Logs>>
      BY <3>1, Agendas DEF OneDelete
    <3>2. CASE Sweeps(q) /\ a = <<List(q), Delete(q.within \cap Host), Delete(q.within), Logs>>
      BY <3>2, Agendas
    <3> QED
      BY <1>3, <3>1, <3>2
  <2>2. got = Listing(q.spec)
    <3>1. Head(a).do = "list" /\ Head(a).rows = q.spec
      BY <2>1 DEF List
    <3> QED
      BY <3>1 DEF Listed
  <2>3. /\ rows' = rows /\ poolOf' = poolOf
        /\ f.changes = e.changes /\ f.crossed = e.crossed /\ NamedOf(f) = NamedOf(e)
    BY <2>1, DoesChange, RanRead
  <2>4. ListedOK(q, got) /\ PoolsThere(got, f) /\ AllListed(q, got, f)
    BY <2>2, ListsWell DEF Ran
  <2>5. GoneOrThere(q, got, f)
    <3>1. \A y \in got : y.row \in rows /\ (y.row \in Prefix => poolOf[y.row] = y.pool)
      BY <2>2, ListingIs
    <3>2. NamedOf(f) = {}
      BY <2>3 DEF BeforeList
    <3> QED
      BY <3>1, <3>2 DEF GoneOrThere
  <2>6. PoolsThere(got, f)' /\ AllListed(q, got, f)' /\ GoneOrThere(q, got, f)'
    BY <2>3, <2>4, <2>5 DEF PoolsThere, AllListed, GoneOrThere, NamedOf, AllSays
  <2>7. CASE Sweeps(q) /\ Tail(a) = <<Delete(q.within \cap Host), Delete(q.within), Logs>>
    <3>1. BeforeHosts(q, got, Tail(a), f)'
      BY <2>6, <2>7 DEF BeforeHosts
    <3> QED
      BY <2>4, <3>1 DEF Stage
  <2>8. CASE OneDelete(q) /\ ~ Sweeps(q) /\ Tail(a) = <<Delete(q.spec), Logs>>
    <3>1. Unchanged(q, f)
      BY <2>3 DEF BeforeList, Unchanged
    <3>2. BeforeDelete(q, got, Tail(a), f)'
      BY <1>1, <2>6, <2>8, <3>1 DEF BeforeDelete, Unchanged
    <3> QED
      BY <2>4, <3>2 DEF Stage
  <2> QED
    BY <2>1, <2>7, <2>8
<1> QED
  BY <1>2, <1>3 DEF BeforeList

LEMMA RunVrfList ==
  ASSUME NEW q, NEW listed, NEW a, NEW e, NEW f, Ran(q, listed, a, e, f), f.lost = e.lost,
         BeforeVrfList(q, listed, a, e), NEW got, got = Listed(listed, Head(a))
  PROVE  Stage(q, got, Tail(a), f)' /\ ListedOK(q, got)
<1>1. Head(a) = List(q) /\ Tail(a) = <<Removals, Delete(q.spec), Logs>>
  BY Agendas DEF BeforeVrfList
<1>2. got = Listing(q.spec)
  <2>1. Head(a).do = "list" /\ Head(a).rows = q.spec
    BY <1>1 DEF List
  <2> QED
    BY <2>1 DEF Listed
<1>3. rows' = rows /\ f.changes = e.changes /\ f.crossed = e.crossed
  BY <1>1, DoesChange, RanRead
<1>4. ListedOK(q, got) /\ AllListed(q, got, f)
  BY <1>2, ListsWell DEF Ran
<1>5. \A y \in got : y.row \in rows
  BY <1>2, ListingIs
<1>6. EmptyingTo(q, got, Tail(a), f, 0, {})
  <2> DEFINE s == Removals
             t == Delete(q.spec)
             u == Logs
  <2>1. IsSequence(<<s, t, u>>) /\ Len(<<s, t, u>>) = 3
        /\ <<s, t, u>>[1] = s /\ <<s, t, u>>[2] = t /\ <<s, t, u>>[3] = u
    <3> HIDE DEF s, t, u
    <3> QED
      BY ListsOfMore
  <2>2. s = RemovalsAt({})
    BY DEF Removals, RemovalsAt
  <2>3. Tail(a) = <<s, t, u>>
    BY <1>1
  <2>4. \A i \in 1 .. 0 : FALSE
    OBVIOUS
  <2>5. 0 + 1 = 1 /\ 0 + 2 = 2 /\ 0 + 3 = 3
    OBVIOUS
  <2> HIDE DEF s
  <2>6. /\ IsSequence(Tail(a)) /\ Len(Tail(a)) = 0 + 3
        /\ Tail(a)[0 + 1] = RemovalsAt({}) /\ Tail(a)[0 + 2] = Delete(q.spec) /\ Tail(a)[0 + 3] = Logs
    BY <2>1, <2>2, <2>3, <2>5
  <2> QED
    BY <2>4, <2>6 DEF EmptyingTo
<1>7. Emptying(q, got, Tail(a), f)
  BY <1>3, <1>4, <1>5, <1>6 DEF Emptying, BeforeVrfList
<1>8. EmptyingTo(q, got, Tail(a), f, 0, {})'
  BY <1>3, <1>6 DEF EmptyingTo, IsCallFor
<1>9. Emptying(q, got, Tail(a), f)'
  BY <1>3, <1>7, <1>8 DEF Emptying, AllListed
<1> QED
  BY <1>4, <1>9 DEF Stage

\* What follows the first of n + 1 statements.
LEMMA TailIs ==
  ASSUME NEW a, IsSequence(a), a # <<>>
  PROVE  /\ IsSequence(Tail(a)) /\ Len(a) \in Nat \ {0} /\ Len(Tail(a)) = Len(a) - 1
         /\ Head(a) = a[1] /\ \A i \in 1 .. Len(a) - 1 : Tail(a)[i] = a[i + 1]
<1>1. PICK S : a \in Seq(S)
  BY DEF IsSequence
<1>2. Tail(a) \in Seq(S)
  BY <1>1
<1> QED
  BY <1>1, <1>2 DEF IsSequence

\* What is at the head of the agenda in a loop.
LEMMA EmptyingHead ==
  ASSUME NEW q, NEW listed, NEW a, NEW e, Emptying(q, listed, a, e)
  PROVE  a # <<>> /\ (Head(a).do = "removals" \/ (Head(a).do = "call" /\ IsCallFor(Head(a))))
<1>0. PICK n \in Nat : \E done : EmptyingTo(q, listed, a, e, n, done)
  BY DEF Emptying
<1>1. PICK done : EmptyingTo(q, listed, a, e, n, done)
  BY <1>0
<1>2. a # <<>>
  BY <1>1, Lists DEF EmptyingTo
<1>3. Head(a) = a[1]
  BY <1>1, <1>2, TailIs DEF EmptyingTo
<1>4. n = 0 => a[1] = RemovalsAt(done)
  BY <1>1 DEF EmptyingTo
<1>5. n # 0 => IsCallFor(a[1])
  <2>1. n # 0 => 1 \in 1 .. n
    OBVIOUS
  <2> QED
    BY <1>1, <2>1 DEF EmptyingTo
<1>6. RemovalsAt(done).do = "removals" /\ \A r : Calling(r).do = "call"
  BY DEF RemovalsAt, Calling
<1>7. IsCallFor(a[1]) => a[1].do = "call"
  BY <1>6 DEF IsCallFor
<1> QED
  BY <1>2, <1>3, <1>4, <1>5, <1>6, <1>7

LEMMA LoggingHead ==
  ASSUME NEW q, NEW listed, NEW a, NEW e, Logging(q, listed, a, e), a # <<>>, IsData(Head(a))
  PROVE  \E c, o : Head(a) = Log(c) \/ (Head(a) = GetPool(o) /\ \E y \in listed : o = y.pool /\ o # NoPool)
<1>0. PICK n \in Nat : \E done : LoggingTo(q, listed, a, e, n, done)
  BY DEF Logging
<1>1. PICK done : LoggingTo(q, listed, a, e, n, done)
  BY <1>0
<1>2. Len(a) = n + 1 /\ Head(a) = a[1]
  BY <1>1, TailIs DEF LoggingTo
<1>3. n # 0
  <2>1. LogsAt(done).do = "logs"
    BY DEF LogsAt
  <2>2. n = 0 => Head(a) = LogsAt(done)
    BY <1>1, <1>2 DEF LoggingTo
  <2>3. ~ IsData(LogsAt(done))
    BY <2>1 DEF IsData
  <2> QED
    BY <2>2, <2>3
<1>4. 1 \in 1 .. n
  BY <1>3
<1>5. PICK y \in listed : \/ \E c \in Says(q, y.row, y.pool) : a[1] = Log(c)
                          \/ y.pool # NoPool /\ a[1] = GetPool(y.pool)
  BY <1>1, <1>4 DEF LoggingTo
<1> QED
  BY <1>2, <1>5

\* The loop over the rows goes on: one entry is written, or the pool is asked for.
LEMMA RunLog ==
  ASSUME NEW q, NEW listed, NEW a, NEW e, NEW f, Ran(q, listed, a, e, f), f.lost = e.lost,
         Logging(q, listed, a, e), NEW got, got = Listed(listed, Head(a))
  PROVE  Stage(q, got, Tail(a), f)' /\ ListedOK(q, got)
<1>0. PICK n \in Nat : \E done : LoggingTo(q, listed, a, e, n, done)
  BY DEF Logging
<1>1. PICK done : LoggingTo(q, listed, a, e, n, done)
  BY <1>0
<1>2. /\ IsSequence(Tail(a)) /\ Len(a) = n + 1 /\ Len(Tail(a)) = n
      /\ Head(a) = a[1] /\ \A i \in 1 .. n : Tail(a)[i] = a[i + 1]
  BY <1>1, TailIs DEF LoggingTo, Ran
<1>3. n # 0
  <2>1. LogsAt(done).do = "logs"
    BY DEF LogsAt
  <2>2. n = 0 => Head(a) = LogsAt(done)
    BY <1>1, <1>2 DEF LoggingTo
  <2>3. ~ IsData(LogsAt(done))
    BY <2>1 DEF IsData
  <2> QED
    BY <2>2, <2>3 DEF Ran
<1>4. 1 \in 1 .. n
  BY <1>3
<1>5. PICK y \in listed : \/ \E c \in Says(q, y.row, y.pool) : a[1] = Log(c)
                          \/ y.pool # NoPool /\ a[1] = GetPool(y.pool)
  BY <1>1, <1>4 DEF LoggingTo
<1>6. \E c, o : Head(a) = Log(c) \/ Head(a) = GetPool(o)
  BY <1>2, <1>5
<1>7. got = listed /\ ListedOK(q, got) /\ ~ IsChange(Head(a))
  <2>1. PICK c, o : Head(a) = Log(c) \/ Head(a) = GetPool(o)
    BY <1>6
  <2>2. Head(a).do \in {"log", "get_pool"}
    BY <2>1 DEF Log, GetPool
  <2>3. got = listed /\ ListedOK(q, got)
    BY <2>2 DEF Listed, Ran
  <2> QED
    BY <2>1, <2>3, DoesChange
<1>8. /\ rows' = rows /\ f.changes = e.changes /\ f.crossed = e.crossed
      /\ NamedOf(f) = NamedOf(e) /\ e.entries \subseteq f.entries
  BY <1>7, RanRead
<1>9. ASSUME NEW c, Head(a) = Log(c)
      PROVE  c \in f.entries
  <2>1. Head(a).do = "log" /\ Head(a).entry = c
    <3>1. Log(c).do = "log" /\ Log(c).entry = c
      BY DEF Log
    <3> QED
      BY <1>9, <3>1
  <2> QED
    BY <2>1 DEF Ran, Noted
<1>10. LoggingTo(q, listed, Tail(a), f, n - 1, done)
  <2>1. n - 1 \in Nat /\ (n - 1) + 1 = n /\ Tail(a)[n] = a[n + 1]
    BY <1>2, <1>3
  <2>2. \A i \in 1 .. n - 1 : i + 1 \in 1 .. n /\ Tail(a)[i] = a[i + 1]
    BY <1>2, <1>3
  <2>3. ASSUME NEW y1 \in done, NEW c \in Says(q, y1.row, y1.pool)
        PROVE  c \in f.entries \/ \E i \in 1 .. n - 1 : Tail(a)[i] = Log(c)
    <3>1. CASE c \in e.entries
      BY <1>8, <3>1
    <3>2. ASSUME NEW i \in 1 .. n, a[i] = Log(c)
          PROVE  c \in f.entries \/ \E j \in 1 .. n - 1 : Tail(a)[j] = Log(c)
      <4>1. CASE i = 1
        BY <1>2, <1>9, <3>2, <4>1
      <4>2. CASE i # 1
        <5>1. i - 1 \in 1 .. n - 1 /\ (i - 1) + 1 = i
          BY <4>2
        <5> QED
          BY <2>2, <3>2, <5>1
      <4> QED
        BY <4>1, <4>2
    <3> QED
      BY <1>1, <3>1, <3>2 DEF LoggingTo
  <2> QED
    BY <1>1, <1>2, <2>1, <2>2, <2>3 DEF LoggingTo
<1>11. LoggingTo(q, listed, Tail(a), f, n - 1, done)'
  BY <1>10 DEF LoggingTo
<1>12. Stands(q, listed, f)' /\ PoolsThere(listed, f)'
  <2>1. Stands(q, listed, f) /\ PoolsThere(listed, f)
    BY <1>8 DEF Logging, Stands, PoolsThere
  <2> QED
    BY <1>8, <2>1 DEF Stands, PoolsThere, NamedOf, AllSays
<1>13. n - 1 \in Nat
  BY <1>3
<1>14. Logging(q, listed, Tail(a), f)'
  BY <1>11, <1>12, <1>13 DEF Logging
<1> QED
  BY <1>7, <1>14 DEF Stage

LEMMA RunStage ==
  ASSUME NEW q, NEW listed, NEW a, NEW e, NEW f, Ran(q, listed, a, e, f), f.lost = e.lost,
         Stage(q, listed, a, e), NEW got, got = Listed(listed, Head(a))
  PROVE  Stage(q, got, Tail(a), f)' /\ ListedOK(q, got)
<1>1. ~ Logged(q, listed, a, e)
  BY DEF Ran, Logged
<1>2. ~ Emptying(q, listed, a, e)
  BY EmptyingHead, ScriptsAre DEF Ran, Data
<1> QED
  BY <1>1, <1>2, RunInsert, RunFetch, RunEditList, RunUpdate, RunList, RunHosts, RunDelete,
     RunVrfList, RunLog DEF Stage

-----------------------------------------------------------------------------
(* The others go on meanwhile, or an answer is lost.                       *)

\* The record of a request while it is not the one that commits something: the rows
\* are as they were, or the request was crossed.
Stayed(e, f) ==
  /\ f.q = e.q /\ f.answer = e.answer /\ f.changes = e.changes /\ e.entries \subseteq f.entries
  /\ (e.crossed => f.crossed) /\ (e.lost => f.lost)
  /\ f.crossed \/ (rows' = rows /\ poolOf' = poolOf)

LEMMA StayedStage ==
  ASSUME NEW q, NEW listed, NEW a, NEW e, NEW f, Stayed(e, f), Stage(q, listed, a, e)
  PROVE  Stage(q, listed, a, f)'
<1>1. NamedOf(f) = NamedOf(e)
  BY DEF NamedOf, Stayed
<1>2. /\ PoolsThere(listed, e) => PoolsThere(listed, f)'
      /\ AllListed(q, listed, e) => AllListed(q, listed, f)'
  BY DEF PoolsThere, AllListed, Stayed
<1>3. GoneOrThere(q, listed, e) => GoneOrThere(q, listed, f)'
  BY <1>1 DEF GoneOrThere, Stayed, NamedOf, AllSays
<1>4. Stands(q, listed, e) => Stands(q, listed, f)'
  BY <1>1 DEF Stands, Stayed, NamedOf, AllSays
<1>5. Unchanged(q, e) => Unchanged(q, f)'
  BY DEF Unchanged, Stayed
<1>6. CASE BeforeInsert(q, listed, a, e)
  <2>1. BeforeInsert(q, listed, a, f)'
    BY <1>1, <1>6 DEF BeforeInsert, Stayed, NamedOf
  <2> QED
    BY <2>1 DEF Stage
<1>7. CASE BeforeFetch(q, listed, a, e)
  <2>1. BeforeFetch(q, listed, a, f)'
    BY <1>1, <1>7 DEF BeforeFetch, Stayed, NamedOf
  <2> QED
    BY <2>1 DEF Stage
<1>8. CASE BeforeEditList(q, listed, a, e)
  <2>1. BeforeEditList(q, listed, a, f)'
    BY <1>8 DEF BeforeEditList, Stayed
  <2> QED
    BY <2>1 DEF Stage
<1>9. CASE BeforeUpdate(q, listed, a, e)
  <2>1. BeforeUpdate(q, listed, a, f)'
    BY <1>1, <1>2, <1>9 DEF BeforeUpdate, Stayed, NamedOf, AllSays
  <2> QED
    BY <2>1 DEF Stage
<1>10. CASE BeforeList(q, listed, a, e)
  <2>1. BeforeList(q, listed, a, f)'
    BY <1>1, <1>5, <1>10 DEF BeforeList, NamedOf, OneDelete
  <2> QED
    BY <2>1 DEF Stage
<1>11. CASE BeforeHosts(q, listed, a, e)
  <2>1. BeforeHosts(q, listed, a, f)'
    BY <1>2, <1>3, <1>11 DEF BeforeHosts
  <2> QED
    BY <2>1 DEF Stage
<1>12. CASE BeforeDelete(q, listed, a, e)
  <2>1. BeforeDelete(q, listed, a, f)'
    BY <1>2, <1>3, <1>5, <1>12 DEF BeforeDelete, Stayed, OneDelete
  <2> QED
    BY <2>1 DEF Stage
<1>13. CASE BeforeVrfList(q, listed, a, e)
  <2>1. BeforeVrfList(q, listed, a, f)'
    BY <1>13 DEF BeforeVrfList, Stayed
  <2> QED
    BY <2>1 DEF Stage
<1>14. CASE Emptying(q, listed, a, e)
  <2>1. ASSUME NEW n \in Nat, NEW done, EmptyingTo(q, listed, a, e, n, done)
        PROVE  EmptyingTo(q, listed, a, f, n, done)'
    BY <2>1 DEF EmptyingTo, Stayed, IsCallFor
  <2>2. Emptying(q, listed, a, f)'
    BY <1>2, <1>14, <2>1 DEF Emptying, Stayed
  <2> QED
    BY <2>2 DEF Stage
<1>15. CASE Logging(q, listed, a, e)
  <2>1. ASSUME NEW n \in Nat, NEW done, LoggingTo(q, listed, a, e, n, done)
        PROVE  LoggingTo(q, listed, a, f, n, done)'
    BY <2>1 DEF LoggingTo, Stayed
  <2>2. Logging(q, listed, a, f)'
    BY <1>2, <1>4, <1>15, <2>1 DEF Logging
  <2> QED
    BY <2>2 DEF Stage
<1>16. CASE Logged(q, listed, a, e)
  <2>1. Logged(q, listed, a, f)'
    BY <1>4, <1>16 DEF Logged, Stayed, AllSays
  <2> QED
    BY <2>1 DEF Stage
<1> QED
  BY <1>6, <1>7, <1>8, <1>9, <1>10, <1>11, <1>12, <1>13, <1>14, <1>15, <1>16 DEF Stage

\* The statement was committed, and its answer is lost: it will be repeated.
LEMMA LostStage ==
  ASSUME NEW q, NEW listed, NEW a, NEW e, NEW f, Ran(q, listed, a, e, f), f.lost,
         Stage(q, listed, a, e)
  PROVE  Stage(q, listed, a, f)'
<1>1. CASE ~ IsChange(Head(a))
  <2>1. /\ rows' = rows /\ poolOf' = poolOf /\ f.changes = e.changes
        /\ f.crossed = e.crossed /\ f.q = e.q /\ e.entries \subseteq f.entries
    BY <1>1, RanRead
  <2>2. Stayed(e, f)
    BY <2>1 DEF Stayed, Ran, Noted
  <2> QED
    BY <2>2, StayedStage
<1>2. CASE IsChange(Head(a)) /\ BeforeInsert(q, listed, a, e)
  <2>1. Head(a) = Insert(q)
    <3>1. Head(a) # GetPool(q.pool)
      BY <1>2, DoesChange
    <3>2. CASE a = <<GetPool(q.pool), Insert(q), Fetch(q), Logs>>
      BY <3>1, <3>2, Agendas
    <3>3. CASE a = <<Insert(q), Fetch(q), Logs>>
      BY <3>3, Agendas
    <3> QED
      BY <1>2, <3>2, <3>3 DEF BeforeInsert
  <2>2. f.changes = e.changes \cup Changes(Insert(q)) /\ f.q = e.q
    BY <1>2, <2>1, RanChange
  <2>3. Changes(Insert(q)) = AddSays(q)
    BY <1>2, <2>1, InsertChanges, OwnRequest DEF Ran, BeforeInsert
  <2>4. NamedOf(f) \subseteq AddSays(q)
    BY <1>2, <2>2, <2>3 DEF NamedOf, BeforeInsert
  <2>5. BeforeInsert(q, listed, a, f)'
    BY <1>2, <2>4 DEF BeforeInsert, NamedOf
  <2> QED
    BY <2>5 DEF Stage
<1>3. CASE BeforeUpdate(q, listed, a, e)
  <2>1. /\ rows' = rows /\ f.crossed = e.crossed
        /\ ~ e.crossed =>
             /\ NamedOf(f) \subseteq AllSays(q, listed)
             /\ \A y \in listed : y.row \in Prefix =>
                  \/ q.pool = Same /\ poolOf'[y.row] = y.pool
                  \/ q.pool # Same /\ poolOf'[y.row] = q.pool
    BY <1>3, UpdateStep
  <2>2. AllListed(q, listed, f)' /\ PoolsThere(listed, f)'
    BY <1>3, <2>1 DEF BeforeUpdate, AllListed, PoolsThere
  <2>3. BeforeUpdate(q, listed, a, f)'
    BY <1>3, <2>1, <2>2 DEF BeforeUpdate, NamedOf, AllSays
  <2> QED
    BY <2>3 DEF Stage
<1>4. CASE BeforeHosts(q, listed, a, e)
  <2>1. Head(a) = Delete(q.within \cap Host) /\ DeletesFor(q, q.within \cap Host)
    BY <1>4, Agendas DEF BeforeHosts, DeletesFor
  <2>2. AllListed(q, listed, f)' /\ PoolsThere(listed, f)' /\ GoneOrThere(q, listed, f)'
    BY <1>4, <2>1, DeleteStep DEF BeforeHosts
  <2>3. BeforeHosts(q, listed, a, f)'
    BY <1>4, <2>2 DEF BeforeHosts
  <2> QED
    BY <2>3 DEF Stage
<1>5. CASE BeforeDelete(q, listed, a, e)
  <2>1. PICK D : Head(a) = Delete(D) /\ DeletesFor(q, D)
    <3>1. CASE Sweeps(q) /\ a = <<Delete(q.within), Logs>>
      BY <3>1, Agendas DEF DeletesFor
    <3>2. CASE OneDelete(q) /\ a = <<Delete(q.spec), Logs>>
      BY <3>2, Agendas DEF DeletesFor
    <3> QED
      BY <1>5, <3>1, <3>2 DEF BeforeDelete
  <2>2. /\ rows' \subseteq rows /\ f.crossed = e.crossed
        /\ AllListed(q, listed, f)' /\ PoolsThere(listed, f)' /\ GoneOrThere(q, listed, f)'
    BY <1>5, <2>1, DeleteStep DEF BeforeDelete
  <2>3. BeforeDelete(q, listed, a, f)'
    BY <1>5, <2>2 DEF BeforeDelete, Unchanged, OneDelete
  <2> QED
    BY <2>3 DEF Stage
<1>6. CASE \/ BeforeFetch(q, listed, a, e) \/ BeforeEditList(q, listed, a, e)
           \/ BeforeList(q, listed, a, e) \/ BeforeVrfList(q, listed, a, e)
           \/ Logging(q, listed, a, e)
  <2>1. CASE BeforeFetch(q, listed, a, e)
    <3>1. Head(a) = Fetch(q)
      BY <2>1, Agendas DEF BeforeFetch
    <3> QED
      BY <1>1, <3>1, DoesChange
  <2>2. CASE BeforeEditList(q, listed, a, e)
    <3>1. CASE a = <<GetPool(q.pool), List(q), Update(q), Logs>>
      <4>1. Head(a) = GetPool(q.pool)
        BY <3>1, Agendas
      <4> QED
        BY <1>1, <4>1, DoesChange
    <3>2. CASE a = <<List(q), Update(q), Logs>>
      <4>1. Head(a) = List(q)
        BY <3>2, Agendas
      <4> QED
        BY <1>1, <4>1, DoesChange
    <3> QED
      BY <2>2, <3>1, <3>2 DEF BeforeEditList
  <2>3. CASE BeforeList(q, listed, a, e)
    <3>1. Head(a) = Resolve(q) \/ Head(a) = List(q)
      <4>1. CASE OneDelete(q) /\ a = <<Resolve(q), List(q), Delete(q.spec), Logs>>
        BY <4>1, Agendas
      <4>2. CASE OneDelete(q) /\ a = <<List(q), Delete(q.spec), Logs>>
        BY <4>2, Agendas
      <4>3. CASE Sweeps(q) /\ a = <<Resolve(q), List(q), Delete(q.within \cap Host), Delete(q.within), Logs>>
        BY <4>3, Agendas
      <4>4. CASE Sweeps(q) /\ a = <<List(q), Delete(q.within \cap Host), Delete(q.within), Logs>>
        BY <4>4, Agendas
      <4> QED
        BY <2>3, <4>1, <4>2, <4>3, <4>4 DEF BeforeList
    <3> QED
      BY <1>1, <3>1, DoesChange
  <2>4. CASE BeforeVrfList(q, listed, a, e)
    <3>1. Head(a) = List(q)
      BY <2>4, Agendas DEF BeforeVrfList
    <3> QED
      BY <1>1, <3>1, DoesChange
  <2>5. CASE Logging(q, listed, a, e)
    <3>1. \E c, o : Head(a) = Log(c) \/ Head(a) = GetPool(o)
      BY <2>5, LoggingHead DEF Ran
    <3> QED
      BY <1>1, <3>1, DoesChange
  <2> QED
    BY <1>6, <2>1, <2>2, <2>3, <2>4, <2>5
<1>7. ~ Emptying(q, listed, a, e) /\ ~ Logged(q, listed, a, e)
  BY EmptyingHead, ScriptsAre DEF Ran, Logged, Data
<1> QED
  BY <1>1, <1>2, <1>3, <1>4, <1>5, <1>6, <1>7 DEF Stage

-----------------------------------------------------------------------------
(* remove_vrf calls remove_prefix.                                         *)

\* The call removes prefixes, and nothing else.
LEMMA SweepStep ==
  ASSUME NEW q, NEW listed, NEW a, NEW e, NEW f, Ran(q, listed, a, e, f),
         Sweeps(q), Stage(q, listed, a, e)
  PROVE  /\ rows' \subseteq rows /\ \A x \in rows : x \notin Prefix => x \in rows'
         /\ \A c \in f.changes : c \in e.changes \/ c.row \in Prefix
         /\ f.crossed = e.crossed
<1>1. CASE ~ IsChange(Head(a))
  BY <1>1, RanRead
<1>2. CASE IsChange(Head(a))
  <2>1. q.op = "remove_prefix" /\ q.op \notin Adds /\ q.op \notin Edits /\ q.op # "remove_vrf"
    BY OneOp DEF Removes, Adds, Edits
  <2>2. ~ Logging(q, listed, a, e) /\ ~ Logged(q, listed, a, e)
    <3>1. Logging(q, listed, a, e) => \E c, o : Head(a) = Log(c) \/ Head(a) = GetPool(o)
      BY LoggingHead DEF Ran
    <3> QED
      BY <1>2, <3>1, DoesChange DEF Ran, Logged
  <2>3. BeforeHosts(q, listed, a, e) \/ BeforeDelete(q, listed, a, e) \/ BeforeList(q, listed, a, e)
    BY <2>1, <2>2 DEF Stage, BeforeInsert, BeforeFetch, BeforeEditList, BeforeUpdate,
                      BeforeVrfList, Emptying
  <2>4. ~ BeforeList(q, listed, a, e)
    <3>1. ASSUME BeforeList(q, listed, a, e)
          PROVE  FALSE
      <4>1. CASE a = <<Resolve(q), List(q), Delete(q.within \cap Host), Delete(q.within), Logs>>
        <5>1. Head(a) = Resolve(q)
          BY <4>1, Agendas
        <5> QED
          BY <1>2, <5>1, DoesChange
      <4>2. CASE a = <<List(q), Delete(q.within \cap Host), Delete(q.within), Logs>>
        <5>1. Head(a) = List(q)
          BY <4>2, Agendas
        <5> QED
          BY <1>2, <5>1, DoesChange
      <4> QED
        BY <3>1, <4>1, <4>2 DEF BeforeList, OneDelete
    <3> QED
      BY <3>1
  <2>5. PICK D : Head(a) = Delete(D) /\ D \subseteq q.within
    <3>1. CASE a = <<Delete(q.within \cap Host), Delete(q.within), Logs>>
      BY <3>1, Agendas
    <3>2. CASE a = <<Delete(q.within), Logs>>
      BY <3>2, Agendas
    <3> QED
      BY <2>3, <2>4, <3>1, <3>2 DEF BeforeHosts, BeforeDelete, OneDelete
  <2>6. D \subseteq Prefix /\ DataOK
    BY <2>5, OwnRequest DEF RequestOK, Ran
  <2>7. Gone(D) = rows \cap D
    BY <2>6, GoneOf
  <2>8. /\ rows' = RowsAfter(Delete(D)) /\ f.crossed = e.crossed
        /\ f.changes = e.changes \cup Changes(Delete(D))
    BY <1>2, <2>5, RanChange
  <2>9. /\ RowsAfter(Delete(D)) = rows \ Gone(D)
        /\ \A c \in Changes(Delete(D)) : \/ \E x \in Gone(D) : c = Touched(x)
                                         \/ \E x \in Prefix : c = Left(x, poolOf[x])
    BY <2>6, DeleteChanges
  <2>10. \A c \in Changes(Delete(D)) : c.row \in Prefix
    BY <2>6, <2>7, <2>9, EntriesAre
  <2> QED
    BY <2>6, <2>7, <2>8, <2>9, <2>10
<1> QED
  BY <1>1, <1>2

\* Underneath, the removal of the VRF is where it was.
LEMMA OuterStage ==
  ASSUME NEW q, NEW listed, NEW a, NEW e, NEW f, Emptying(q, listed, a, e),
         RequestOK(q), ListedOK(q, listed),
         rows' \subseteq rows, \A x \in rows : x \notin Prefix => x \in rows',
         \A c \in f.changes : c \in e.changes \/ c.row \in Prefix,
         f.crossed = e.crossed
  PROVE  Emptying(q, listed, a, f)'
<1>1. \A y \in listed : y.row \in Vrf /\ y.row \notin Prefix
  BY Kinds, RowsAssumption DEF Emptying, ListedOK
<1>2. ASSUME NEW n \in Nat, NEW done, EmptyingTo(q, listed, a, e, n, done)
      PROVE  EmptyingTo(q, listed, a, f, n, done)'
  BY <1>2 DEF EmptyingTo, IsCallFor
<1>3. AllListed(q, listed, f)' /\ (~ f.crossed => \A y \in listed : y.row \in rows')
  BY <1>1 DEF AllListed, Emptying
<1> QED
  BY <1>2, <1>3 DEF Emptying

\* The calls are requests that may be made on behalf of the removal of a VRF.
LEMMA CallsAreRequests ==
  ASSUME NEW v \in Vrf, NEW i \in {1, 2}
  PROVE  /\ RequestOK(EmptyVrf(v)[i]) /\ Sweeps(EmptyVrf(v)[i]) /\ ~ EmptyVrf(v)[i].byId
         /\ \A x \in Prefix : VrfOf(x) = v => x \in EmptyVrf(v)[1].within \/ x \in EmptyVrf(v)[2].within
<1> DEFINE mine == {x \in Prefix : VrfOf(x) = v}
           call(within) == [op |-> "remove_prefix", spec |-> within \cap Everything, within |-> within,
                            pool |-> Same, recursive |-> TRUE, byId |-> FALSE]
           within == IF i = 1 THEN mine \cap IPv4 ELSE mine \ IPv4
<1>1. EmptyVrf(v)[1] = call(mine \cap IPv4) /\ EmptyVrf(v)[2] = call(mine \ IPv4)
  BY DEF EmptyVrf
<1>2. \A x \in within : Below(x) \subseteq within
  BY BackendAssumption
<1>3. within \subseteq Prefix
  OBVIOUS
<1>4. \A w : /\ call(w).op = "remove_prefix" /\ call(w).spec = w \cap Everything /\ call(w).within = w
             /\ call(w).pool = Same /\ call(w).recursive = TRUE /\ call(w).byId = FALSE
  OBVIOUS
<1>5. EmptyVrf(v)[i] = call(within)
  BY <1>1
<1> HIDE DEF call, within
<1>6. RequestOK(call(within)) /\ Sweeps(call(within))
  BY <1>2, <1>3, <1>4 DEF RequestOK, Sweeps, Operations, Kind
<1>7. mine \cap IPv4 = EmptyVrf(v)[1].within /\ mine \ IPv4 = EmptyVrf(v)[2].within
  BY <1>1, <1>4
<1> QED
  BY <1>4, <1>5, <1>6, <1>7

\* It starts at the beginning of its program.
LEMMA CallStarts ==
  ASSUME NEW q, NEW listed, NEW a, NEW e, Emptying(q, listed, a, e), OnBehalf(q, e),
         NEW v \in Vrf, NEW i \in {1, 2}, NEW q2, q2 = EmptyVrf(v)[i]
  PROVE  /\ Stage(q2, {}, Program(q2), e) /\ ListedOK(q2, {}) /\ OnBehalf(q2, e)
         /\ e.q.op = "remove_vrf" /\ Sweeps(q2)
<1>1. RequestOK(q2) /\ Sweeps(q2) /\ ~ q2.byId
  BY CallsAreRequests
<1>2. q2.op = "remove_prefix" /\ q2.recursive
  BY <1>1 DEF Sweeps
<1>3. Program(q2) = RemovePrefix(q2)
  BY <1>2 DEF Program
<1>4. RemovePrefix(q2) = <<List(q2), Delete(q2.within \cap Host), Delete(q2.within), Logs>>
  <2> DEFINE l == List(q2)
             h == Delete(q2.within \cap Host)
             d == Delete(q2.within)
  <2>1. RemovePrefix(q2) = <<>> \o <<l>> \o <<h, d>> \o <<Logs>>
    BY <1>1, <1>2 DEF RemovePrefix, If
  <2> HIDE DEF l, h, d
  <2>2. <<>> \o <<l>> \o <<h, d>> \o <<Logs>> = <<l, h, d, Logs>>
    <3>1. <<>> \o <<l>> = <<l>> /\ <<l>> \o <<h, d>> = <<l, h, d>>
      BY FlatJoins
    <3>2. <<l, h, d>> \o <<Logs>> = <<l, h, d, Logs>>
      BY FlatFour
    <3> QED
      BY <3>1, <3>2
  <2> QED
    BY <2>1, <2>2 DEF l, h, d
<1>5. e.q = q /\ e.q.op = "remove_vrf"
  BY OneOp DEF OnBehalf, Emptying
<1>6. NamedOf(e) = {}
  <2>1. q.spec \cap Prefix = {}
    BY Kinds DEF OnBehalf, Emptying
  <2> QED
    BY <1>5, <2>1 DEF NamedOf, Emptying
<1>7. BeforeList(q2, {}, Program(q2), e)
  BY <1>1, <1>2, <1>3, <1>4, <1>6, OneOp DEF BeforeList, Unchanged
<1> QED
  BY <1>1, <1>5, <1>7 DEF Stage, ListedOK, OnBehalf

\* With nothing left on the agenda, everything has been logged.
LEMMA EmptyAgenda ==
  ASSUME NEW q, NEW listed, NEW a, NEW e, Stage(q, listed, a, e), a = <<>>
  PROVE  Logged(q, listed, a, e)
<1>1. ~ Emptying(q, listed, a, e)
  BY EmptyingHead
<1>2. ~ Logging(q, listed, a, e)
  BY Lists DEF Logging, LoggingTo
<1> QED
  BY <1>1, <1>2, Agendas DEF Stage, BeforeInsert, BeforeFetch, BeforeEditList, BeforeUpdate,
       BeforeList, BeforeHosts, BeforeDelete, BeforeVrfList

\* The call returns, and the removal of the VRF goes on behind it.
LEMMA CallReturns ==
  ASSUME NEW q, NEW listed, NEW a, NEW e, Emptying(q, listed, a, e),
         NEW q2, NEW listed2, Logged(q2, listed2, <<>>, e), Sweeps(q2), Head(a) = Calling(q2)
  PROVE  Stage(q, listed, Tail(a), e)
<1>0. PICK n \in Nat : \E done : EmptyingTo(q, listed, a, e, n, done)
  BY DEF Emptying
<1>1. PICK done : EmptyingTo(q, listed, a, e, n, done)
  BY <1>0
<1>2. a # <<>>
  BY EmptyingHead
<1>3. /\ IsSequence(Tail(a)) /\ Len(a) = n + 3 /\ Len(Tail(a)) = n + 2
      /\ Head(a) = a[1] /\ \A i \in 1 .. n + 2 : Tail(a)[i] = a[i + 1]
  BY <1>1, <1>2, TailIs DEF EmptyingTo
<1>4. n # 0
  <2>1. RemovalsAt(done).do = "removals" /\ Calling(q2).do = "call"
    BY DEF RemovalsAt, Calling
  <2> QED
    BY <1>1, <1>3, <2>1 DEF EmptyingTo
<1>5. a[1].q = q2
  BY <1>3 DEF Calling
<1>6. ~ e.crossed => q2.within \cap rows = {}
  BY DEF Logged, Stands
<1>7. EmptyingTo(q, listed, Tail(a), e, n - 1, done)
  <2>1. /\ n - 1 \in Nat /\ (n - 1) + 3 = n + 2
        /\ (n - 1) + 1 \in 1 .. n + 2 /\ (n - 1) + 2 \in 1 .. n + 2 /\ (n - 1) + 3 \in 1 .. n + 2
        /\ (n - 1) + 1 + 1 = n + 1 /\ (n - 1) + 2 + 1 = n + 2 /\ (n - 1) + 3 + 1 = n + 3
    BY <1>4
  <2>2. \A i \in 1 .. n - 1 : i \in 1 .. n + 2 /\ i + 1 \in 1 .. n /\ Tail(a)[i] = a[i + 1]
    BY <1>3
  <2>3. /\ Tail(a)[(n - 1) + 1] = a[n + 1] /\ Tail(a)[(n - 1) + 2] = a[n + 2]
        /\ Tail(a)[(n - 1) + 3] = a[n + 3]
    BY <1>3, <2>1
  <2>4. \A i \in 1 .. n - 1 : IsCallFor(Tail(a)[i])
    BY <1>1, <2>2 DEF EmptyingTo
  <2>5. ASSUME ~ e.crossed, NEW x \in rows \cap Prefix, NEW y \in done, y.row = VrfOf(x)
        PROVE  \E i \in 1 .. n - 1 : x \in Tail(a)[i].q.within
    <3>1. PICK i \in 1 .. n : x \in a[i].q.within
      BY <1>1, <2>5 DEF EmptyingTo
    <3>2. i # 1
      BY <1>5, <1>6, <2>5, <3>1
    <3>3. i - 1 \in 1 .. n - 1 /\ (i - 1) + 1 = i
      BY <3>2
    <3>4. Tail(a)[i - 1] = a[i]
      BY <2>2, <3>3
    <3> QED
      BY <3>1, <3>3, <3>4
  <2> QED
    BY <1>1, <1>3, <2>1, <2>3, <2>4, <2>5 DEF EmptyingTo
<1>8. n - 1 \in Nat
  BY <1>4
<1>9. Emptying(q, listed, Tail(a), e)
  BY <1>7, <1>8 DEF Emptying
<1> QED
  BY <1>9 DEF Stage

-----------------------------------------------------------------------------
(* Loops.                                                                  *)

LEMMA OneMore ==
  ASSUME NEW s, NEW z, IsSequence(s)
  PROVE  /\ IsSequence(Append(s, z)) /\ Len(s) \in Nat /\ Len(Append(s, z)) = Len(s) + 1
         /\ \A i \in 1 .. Len(s) : Append(s, z)[i] = s[i]
         /\ Append(s, z)[Len(s) + 1] = z
<1>1. PICK S : s \in Seq(S)
  BY DEF IsSequence
<1>2. s \in Seq(S \cup {z}) /\ z \in S \cup {z}
  BY <1>1
<1>3. Append(s, z) \in Seq(S \cup {z})
  BY <1>2
<1> QED
  BY <1>2, <1>3 DEF IsSequence

LEMMA Around ==
  ASSUME NEW s, NEW z, NEW t, IsSequence(s), IsSequence(t)
  PROVE  /\ IsSequence(Append(s, z) \o t) /\ Len(s) \in Nat /\ Len(t) \in Nat
         /\ Len(Append(s, z) \o t) = Len(s) + 1 + Len(t)
         /\ \A i \in 1 .. Len(s) : (Append(s, z) \o t)[i] = s[i]
         /\ (Append(s, z) \o t)[Len(s) + 1] = z
         /\ \A i \in 1 .. Len(t) : (Append(s, z) \o t)[Len(s) + 1 + i] = t[i]
<1> DEFINE u == Append(s, z)
<1>1. /\ IsSequence(u) /\ Len(s) \in Nat /\ Len(u) = Len(s) + 1
      /\ \A i \in 1 .. Len(s) : u[i] = s[i]
      /\ u[Len(s) + 1] = z
  BY OneMore
<1> HIDE DEF u
<1>2. /\ IsSequence(u \o t) /\ Len(t) \in Nat /\ Len(u \o t) = Len(u) + Len(t)
      /\ \A i \in 1 .. Len(u) : (u \o t)[i] = u[i]
      /\ \A i \in 1 .. Len(t) : (u \o t)[Len(u) + i] = t[i]
  BY <1>1, Joins
<1> DEFINE b == u \o t
<1> HIDE DEF b
<1>3. /\ Len(s) + 1 \in 1 .. Len(u)
      /\ \A i \in 1 .. Len(s) : i \in 1 .. Len(u)
  BY <1>1
<1>4. /\ IsSequence(b) /\ Len(s) \in Nat /\ Len(t) \in Nat /\ Len(b) = Len(s) + 1 + Len(t)
      /\ \A i \in 1 .. Len(s) : b[i] = s[i]
      /\ b[Len(s) + 1] = z
      /\ \A i \in 1 .. Len(t) : b[Len(s) + 1 + i] = t[i]
  BY <1>1, <1>2, <1>3 DEF b
<1> QED
  BY <1>4 DEF b, u

\* What is left of the agenda when the loop over the rows comes round.
LEMMA LogsHead ==
  ASSUME NEW q, NEW listed, NEW a, NEW e, Logging(q, listed, a, e), a # <<>>, ~ IsData(Head(a))
  PROVE  \E done : /\ Head(a) = LogsAt(done) /\ LoggingTo(q, listed, a, e, 0, done)
                   /\ Tail(a) = <<>>
<1>0. PICK n \in Nat : \E done : LoggingTo(q, listed, a, e, n, done)
  BY DEF Logging
<1>1. PICK done : LoggingTo(q, listed, a, e, n, done)
  BY <1>0
<1>2. IsSequence(Tail(a)) /\ Len(Tail(a)) = n /\ Head(a) = a[1]
  BY <1>1, TailIs DEF LoggingTo
<1>3. n = 0
  <2>1. n # 0 => 1 \in 1 .. n
    OBVIOUS
  <2>2. n # 0 => \E c, o : a[1] = Log(c) \/ a[1] = GetPool(o)
    BY <1>1, <2>1 DEF LoggingTo
  <2>3. \A c, o : IsData(Log(c)) /\ IsData(GetPool(o))
    BY DEF IsData, Log, GetPool
  <2> QED
    BY <1>2, <2>2, <2>3
<1>4. Head(a) = LogsAt(done)
  BY <1>1, <1>2, <1>3 DEF LoggingTo
<1>5. Tail(a) = <<>>
  BY <1>2, <1>3, LastAndFront
<1> QED
  BY <1>1, <1>3, <1>4, <1>5

\* The entries of one more row.
LEMMA LogsUnrolled ==
  ASSUME NEW q, NEW listed, NEW a, NEW e, Logging(q, listed, a, e), ListedOK(q, listed),
         a # <<>>, ~ IsData(Head(a)), NEW x \in listed,
         NEW b, b = Append(Entries(q, x.row, x.pool), LogsAt(Head(a).done \cup {x})) \o Tail(a)
  PROVE  Logging(q, listed, b, e)
<1>1. PICK done : /\ Head(a) = LogsAt(done) /\ LoggingTo(q, listed, a, e, 0, done) /\ Tail(a) = <<>>
  BY LogsHead
<1>4. Head(a).done = done
  BY <1>1 DEF LogsAt
<1> DEFINE E == Entries(q, x.row, x.pool)
<1>5. Tells(E, Says(q, x.row, x.pool), x.pool)
  BY EntriesTell
<1>6. IsSequence(E)
  BY <1>5 DEF Tells
<1> HIDE DEF E
<1>7. /\ IsSequence(b) /\ Len(E) \in Nat /\ Len(b) = Len(E) + 1
      /\ \A i \in 1 .. Len(E) : b[i] = E[i]
      /\ b[Len(E) + 1] = LogsAt(done \cup {x})
  <2>1. b = Append(E, LogsAt(done \cup {x})) \o Tail(a)
    BY <1>4 DEF E
  <2>2. IsSequence(Tail(a)) /\ Len(Tail(a)) = 0
    BY <1>1, Lists
  <2>3. /\ IsSequence(b) /\ Len(E) \in Nat /\ Len(b) = Len(E) + 1 + Len(Tail(a))
        /\ \A i \in 1 .. Len(E) : b[i] = E[i]
        /\ b[Len(E) + 1] = LogsAt(done \cup {x})
    <3> DEFINE z == LogsAt(done \cup {x})
               t == Tail(a)
    <3> HIDE DEF z, t
    <3>1. IsSequence(t) /\ b = Append(E, z) \o t
      BY <2>1, <2>2 DEF z, t
    <3>2. /\ IsSequence(b) /\ Len(E) \in Nat /\ Len(b) = Len(E) + 1 + Len(t)
          /\ \A i \in 1 .. Len(E) : b[i] = E[i]
          /\ b[Len(E) + 1] = z
      <4>1. /\ IsSequence(Append(E, z) \o t) /\ Len(E) \in Nat
            /\ Len(Append(E, z) \o t) = Len(E) + 1 + Len(t)
            /\ \A i \in 1 .. Len(E) : (Append(E, z) \o t)[i] = E[i]
            /\ (Append(E, z) \o t)[Len(E) + 1] = z
        BY <1>6, <3>1, Around
      <4> QED
        BY <3>1, <4>1
    <3> QED
      BY <3>2 DEF z, t
  <2>4. Len(E) + 1 + 0 = Len(E) + 1
    BY <2>3
  <2> QED
    BY <2>2, <2>3, <2>4
<1>8. ASSUME NEW i \in 1 .. Len(E)
      PROVE  \/ \E c \in Says(q, x.row, x.pool) : b[i] = Log(c)
             \/ x.pool # NoPool /\ b[i] = GetPool(x.pool)
  BY <1>5, <1>7 DEF Tells
<1>9. ASSUME NEW y \in done, NEW c \in Says(q, y.row, y.pool)
      PROVE  c \in e.entries
  <2>1. \A i \in 1 .. 0 : FALSE
    OBVIOUS
  <2> QED
    BY <1>1, <2>1 DEF LoggingTo
<1>10. ASSUME NEW c \in Says(q, x.row, x.pool)
       PROVE  \E i \in 1 .. Len(E) : b[i] = Log(c)
  BY <1>5, <1>7 DEF Tells
<1>11. done \cup {x} \subseteq listed
  BY <1>1 DEF LoggingTo
<1>12. LoggingTo(q, listed, b, e, Len(E), done \cup {x})
  BY <1>7, <1>8, <1>9, <1>10, <1>11 DEF LoggingTo
<1> QED
  BY <1>7, <1>12 DEF Logging

\* There are no more rows.
LEMMA LogsEnd ==
  ASSUME NEW q, NEW listed, NEW a, NEW e, Logging(q, listed, a, e),
         a # <<>>, ~ IsData(Head(a)), listed \ Head(a).done = {}
  PROVE  Tail(a) = <<>> /\ Logged(q, listed, Tail(a), e)
<1>1. PICK done : /\ Head(a) = LogsAt(done) /\ LoggingTo(q, listed, a, e, 0, done) /\ Tail(a) = <<>>
  BY LogsHead
<1>4. Head(a).done = done
  BY <1>1 DEF LogsAt
<1>6. ASSUME NEW y \in listed, NEW c \in Says(q, y.row, y.pool)
      PROVE  c \in e.entries
  <2>1. \A i \in 1 .. 0 : FALSE
    OBVIOUS
  <2>2. y \in done
    BY <1>4
  <2> QED
    BY <1>1, <2>1, <2>2 DEF LoggingTo
<1>7. AllSays(q, listed) \subseteq e.entries
  BY <1>6 DEF AllSays
<1> QED
  BY <1>1, <1>7 DEF Logged, Logging

\* What is left of the agenda when the loop over the VRFs comes round.
LEMMA AtRemovals ==
  ASSUME NEW q, NEW listed, NEW a, NEW e, Emptying(q, listed, a, e), Head(a).do # "call"
  PROVE  \E done : /\ Head(a) = RemovalsAt(done) /\ EmptyingTo(q, listed, a, e, 0, done)
                   /\ Tail(a) = <<Delete(q.spec), Logs>>
<1>0. PICK n \in Nat : \E done : EmptyingTo(q, listed, a, e, n, done)
  BY DEF Emptying
<1>1. PICK done : EmptyingTo(q, listed, a, e, n, done)
  BY <1>0
<1>2. a # <<>>
  BY EmptyingHead
<1>3. /\ IsSequence(Tail(a)) /\ Len(a) = n + 3 /\ Len(Tail(a)) = n + 2
      /\ Head(a) = a[1] /\ \A i \in 1 .. n + 2 : Tail(a)[i] = a[i + 1]
  BY <1>1, <1>2, TailIs DEF EmptyingTo
<1>4. n = 0
  <2>1. n # 0 => 1 \in 1 .. n
    OBVIOUS
  <2>2. n # 0 => IsCallFor(a[1])
    BY <1>1, <2>1 DEF EmptyingTo
  <2>3. \A r : Calling(r).do = "call"
    BY DEF Calling
  <2> QED
    BY <1>3, <2>2, <2>3 DEF IsCallFor
<1> DEFINE d == Delete(q.spec)
           l == Logs
           u == <<d, l>>
<1>5. IsSequence(u) /\ Len(u) = 2 /\ u[1] = d /\ u[2] = l
  BY Lists
<1>6. Head(a) = RemovalsAt(done) /\ a[2] = d /\ a[3] = l
  BY <1>1, <1>3, <1>4 DEF EmptyingTo
<1> HIDE DEF d, l, u
<1>7. Tail(a)[1] = d /\ Tail(a)[2] = l
  <2>1. Tail(a)[1] = a[1 + 1] /\ Tail(a)[2] = a[2 + 1]
    BY <1>3, <1>4
  <2>2. 1 + 1 = 2 /\ 2 + 1 = 3
    OBVIOUS
  <2> QED
    BY <1>6, <2>1, <2>2
<1>8. Tail(a) = u
  <2>1. PICK S : Tail(a) \in Seq(S)
    BY <1>3 DEF IsSequence
  <2>2. PICK T : u \in Seq(T)
    BY <1>5 DEF IsSequence
  <2>3. Tail(a) \in Seq(S \cup T) /\ u \in Seq(S \cup T)
    BY <2>1, <2>2
  <2>4. \A i \in 1 .. Len(u) : Tail(a)[i] = u[i]
    <3>1. \A i \in 1 .. Len(u) : i = 1 \/ i = 2
      BY <1>5
    <3> QED
      BY <1>5, <1>7, <3>1
  <2>5. Len(Tail(a)) = Len(u)
    BY <1>3, <1>4, <1>5
  <2> QED
    BY <2>3, <2>4, <2>5, SeqEqual
<1>9. EmptyingTo(q, listed, a, e, 0, done)
  BY <1>1, <1>4
<1> QED
  BY <1>6, <1>8, <1>9 DEF u, d, l

LEMMA TwoAround ==
  ASSUME NEW body, IsSequence(body), Len(body) = 2, NEW z, NEW d, NEW l
  PROVE  /\ IsSequence(Append(body, z) \o <<d, l>>) /\ Len(Append(body, z) \o <<d, l>>) = 5
         /\ \A i \in 1 .. 2 : (Append(body, z) \o <<d, l>>)[i] = body[i]
         /\ (Append(body, z) \o <<d, l>>)[3] = z
         /\ (Append(body, z) \o <<d, l>>)[4] = d /\ (Append(body, z) \o <<d, l>>)[5] = l
<1> DEFINE t == <<d, l>>
           u == Append(body, z)
<1>1. IsSequence(t) /\ Len(t) = 2 /\ t[1] = d /\ t[2] = l
  BY Lists
<1>2. IsSequence(u) /\ Len(u) = 3 /\ u[3] = z /\ \A i \in 1 .. 2 : u[i] = body[i]
  <2>1. /\ IsSequence(u) /\ Len(u) = Len(body) + 1 /\ u[Len(body) + 1] = z
        /\ \A i \in 1 .. Len(body) : u[i] = body[i]
    BY OneMore, SMTT(30)
  <2> HIDE DEF u
  <2> QED
    BY <2>1
<1> HIDE DEF t, u
<1>3. /\ IsSequence(u \o t) /\ Len(u \o t) = Len(u) + Len(t)
      /\ \A i \in 1 .. Len(u) : (u \o t)[i] = u[i]
      /\ \A i \in 1 .. Len(t) : (u \o t)[Len(u) + i] = t[i]
  <2>1. IsSequence(u) /\ IsSequence(t)
    BY <1>1, <1>2
  <2> QED
    BY <2>1, Joins
<1> DEFINE b == u \o t
<1> HIDE DEF b
<1>4. /\ IsSequence(b) /\ Len(b) = 5
      /\ \A i \in 1 .. 3 : b[i] = u[i]
      /\ \A i \in 1 .. 2 : b[3 + i] = t[i]
  BY <1>1, <1>2, <1>3 DEF b
<1>5. 3 + 1 = 4 /\ 3 + 2 = 5 /\ 1 \in 1 .. 2 /\ 2 \in 1 .. 2
  OBVIOUS
<1>6. b[4] = d /\ b[5] = l
  BY <1>1, <1>4, <1>5
<1>7. b[3] = z /\ \A i \in 1 .. 2 : b[i] = body[i]
  BY <1>2, <1>4
<1> QED
  BY <1>4, <1>6, <1>7 DEF b, t, u

\* One more VRF is to be emptied.
LEMMA RemovalsUnrolled ==
  ASSUME DataOK, NEW q, NEW listed, NEW a, NEW e, Emptying(q, listed, a, e), ListedOK(q, listed),
         RequestOK(q), Head(a).do # "call", NEW x \in listed,
         NEW b, b = Append([i \in 1 .. 2 |-> [do |-> "call", q |-> EmptyVrf(x.row)[i]]],
                           RemovalsAt(Head(a).done \cup {x})) \o Tail(a)
  PROVE  Emptying(q, listed, b, e)
<1>1. PICK done : /\ Head(a) = RemovalsAt(done) /\ EmptyingTo(q, listed, a, e, 0, done)
                  /\ Tail(a) = <<Delete(q.spec), Logs>>
  BY AtRemovals
<1>2. Head(a).done = done
  BY <1>1 DEF RemovalsAt
<1> DEFINE body == [i \in 1 .. 2 |-> [do |-> "call", q |-> EmptyVrf(x.row)[i]]]
           d == Delete(q.spec)
           l == Logs
           t == <<d, l>>
<1>3. IsSequence(body) /\ Len(body) = 2 /\ \A i \in 1 .. 2 : body[i] = Calling(EmptyVrf(x.row)[i])
  <2> DEFINE call(i) == [do |-> "call", q |-> EmptyVrf(x.row)[i]]
  <2>1. body = [i \in 1 .. 2 |-> call(i)]
    OBVIOUS
  <2>2. \A i : call(i) = Calling(EmptyVrf(x.row)[i])
    BY DEF Calling
  <2> HIDE DEF body, call
  <2>3. body = <<call(1), call(2)>>
    BY <2>1
  <2>4. IsSequence(body) /\ Len(body) = 2
    BY <2>3, Lists
  <2>5. \A i \in 1 .. 2 : body[i] = call(i)
    BY <2>1
  <2> QED
    BY <2>2, <2>4, <2>5
<1>4. IsSequence(t) /\ Len(t) = 2 /\ t[1] = d /\ t[2] = l
  BY Lists
<1>5. b = Append(body, RemovalsAt(done \cup {x})) \o t
  BY <1>1, <1>2
<1> HIDE DEF body, d, l, t
<1>6. /\ IsSequence(b) /\ Len(b) = 5 /\ (\A i \in 1 .. 2 : b[i] = body[i])
      /\ b[3] = RemovalsAt(done \cup {x}) /\ b[4] = d /\ b[5] = l
  <2> DEFINE z == RemovalsAt(done \cup {x})
  <2> HIDE DEF z
  <2>1. /\ IsSequence(Append(body, z) \o <<d, l>>) /\ Len(Append(body, z) \o <<d, l>>) = 5
        /\ \A i \in 1 .. 2 : (Append(body, z) \o <<d, l>>)[i] = body[i]
        /\ (Append(body, z) \o <<d, l>>)[3] = z
        /\ (Append(body, z) \o <<d, l>>)[4] = d /\ (Append(body, z) \o <<d, l>>)[5] = l
    BY <1>3, TwoAround
  <2>2. b = Append(body, z) \o <<d, l>>
    BY <1>5 DEF z, t
  <2> QED
    BY <2>1, <2>2 DEF z
<1>7. x.row \in Vrf
  BY Kinds DEF ListedOK, Emptying
<1>8. \A i \in 1 .. 2 : IsCallFor(b[i])
  BY <1>3, <1>6, <1>7 DEF IsCallFor
<1>9. ASSUME ~ e.crossed, NEW x1 \in rows \cap Prefix, NEW y \in done \cup {x}, y.row = VrfOf(x1)
      PROVE  \E i \in 1 .. 2 : x1 \in b[i].q.within
  <2>1. y \notin done
    <3>1. \A i \in 1 .. 0 : FALSE
      OBVIOUS
    <3> QED
      BY <1>1, <1>9, <3>1 DEF EmptyingTo
  <2>2. VrfOf(x1) = x.row
    BY <1>9, <2>1
  <2>3. x1 \in EmptyVrf(x.row)[1].within \/ x1 \in EmptyVrf(x.row)[2].within
    BY <1>7, <2>2, CallsAreRequests
  <2>4. \A i \in 1 .. 2 : b[i].q = EmptyVrf(x.row)[i]
    BY <1>3, <1>6 DEF Calling
  <2>5. 1 \in 1 .. 2 /\ 2 \in 1 .. 2
    OBVIOUS
  <2> QED
    BY <2>3, <2>4, <2>5
<1>10. done \cup {x} \subseteq listed
  BY <1>1 DEF EmptyingTo
<1>11. EmptyingTo(q, listed, b, e, 2, done \cup {x})
  <2>1. 2 + 1 = 3 /\ 2 + 2 = 4 /\ 2 + 3 = 5
    OBVIOUS
  <2>2. /\ IsSequence(b) /\ Len(b) = 2 + 3 /\ b[2 + 1] = RemovalsAt(done \cup {x})
        /\ b[2 + 2] = Delete(q.spec) /\ b[2 + 3] = Logs
    BY <1>6, <2>1 DEF d, l
  <2> QED
    BY <1>8, <1>9, <1>10, <2>2 DEF EmptyingTo
<1> QED
  BY <1>11 DEF Emptying

\* All the VRFs are empty.
LEMMA RemovalsEnd ==
  ASSUME DataOK, NEW q, NEW listed, NEW a, NEW e, Emptying(q, listed, a, e), ListedOK(q, listed),
         OnBehalf(q, e), Head(a).do # "call", listed \ Head(a).done = {}
  PROVE  Stage(q, listed, Tail(a), e)
<1>1. PICK done : /\ Head(a) = RemovalsAt(done) /\ EmptyingTo(q, listed, a, e, 0, done)
                  /\ Tail(a) = <<Delete(q.spec), Logs>>
  BY AtRemovals
<1>2. Head(a).done = done
  BY <1>1 DEF RemovalsAt
<1>3. q.op = "remove_vrf" /\ RequestOK(q) /\ e.q = q /\ OneDelete(q) /\ ~ Sweeps(q) /\ q.op \in Removes
  BY DEF Emptying, OnBehalf, OneDelete, Removes, Sweeps
<1>4. /\ \A y \in listed : y.row \in q.spec /\ y.row \notin Prefix /\ y.pool = NoPool
      /\ \A x \in q.spec : x \notin Prefix
  BY <1>3, Kinds DEF ListedOK
<1>5. NamedOf(e) = {}
  BY <1>3, <1>4 DEF NamedOf, Emptying
<1>6. PoolsThere(listed, e) /\ AllListed(q, listed, e) /\ GoneOrThere(q, listed, e)
  BY <1>4, <1>5 DEF PoolsThere, GoneOrThere, Emptying
<1>7. ASSUME ~ e.crossed, NEW x \in rows \cap Prefix, VrfOf(x) \in q.spec
      PROVE  FALSE
  <2>1. VrfOf(x) \in rows
    BY DEF DataOK
  <2>2. PICK y \in listed : y.row = VrfOf(x)
    BY <1>6, <1>7, <2>1 DEF AllListed
  <2>3. y \in done
    BY <1>2, <2>2
  <2>4. \A i \in 1 .. 0 : FALSE
    OBVIOUS
  <2> QED
    BY <1>1, <1>7, <2>2, <2>3, <2>4 DEF EmptyingTo
<1>8. BeforeDelete(q, listed, Tail(a), e)
  BY <1>1, <1>3, <1>6, <1>7 DEF BeforeDelete, Unchanged
<1> QED
  BY <1>8 DEF Stage

\* Anywhere else, a statement is next.
LEMMA DataFirst ==
  ASSUME NEW q, NEW listed, NEW a, NEW e,
         \/ BeforeInsert(q, listed, a, e) \/ BeforeFetch(q, listed, a, e)
         \/ BeforeEditList(q, listed, a, e) \/ BeforeUpdate(q, listed, a, e)
         \/ BeforeList(q, listed, a, e) \/ BeforeHosts(q, listed, a, e)
         \/ BeforeDelete(q, listed, a, e) \/ BeforeVrfList(q, listed, a, e)
  PROVE  a # <<>> /\ IsData(Head(a))
<1>1. /\ \A q1 : /\ IsData(Insert(q1)) /\ IsData(Fetch(q1)) /\ IsData(List(q1))
                /\ IsData(Update(q1)) /\ IsData(Resolve(q1))
      /\ \A D : IsData(Delete(D)) /\ IsData(GetPool(D))
  BY DEF IsData, Insert, Fetch, List, Update, Resolve, Delete, GetPool
<1>2. CASE BeforeInsert(q, listed, a, e)
  <2>1. CASE a = <<GetPool(q.pool), Insert(q), Fetch(q), Logs>>
    BY <1>1, <2>1, Agendas
  <2>2. CASE a = <<Insert(q), Fetch(q), Logs>>
    BY <1>1, <2>2, Agendas
  <2> QED
    BY <1>2, <2>1, <2>2 DEF BeforeInsert
<1>3. CASE BeforeFetch(q, listed, a, e)
  BY <1>1, <1>3, Agendas DEF BeforeFetch
<1>4. CASE BeforeEditList(q, listed, a, e)
  <2>1. CASE a = <<GetPool(q.pool), List(q), Update(q), Logs>>
    BY <1>1, <2>1, Agendas
  <2>2. CASE a = <<List(q), Update(q), Logs>>
    BY <1>1, <2>2, Agendas
  <2> QED
    BY <1>4, <2>1, <2>2 DEF BeforeEditList
<1>5. CASE BeforeUpdate(q, listed, a, e)
  BY <1>1, <1>5, Agendas DEF BeforeUpdate
<1>6. CASE BeforeList(q, listed, a, e)
  <2>1. CASE a = <<Resolve(q), List(q), Delete(q.spec), Logs>>
    BY <1>1, <2>1, Agendas
  <2>2. CASE a = <<List(q), Delete(q.spec), Logs>>
    BY <1>1, <2>2, Agendas
  <2>3. CASE a = <<Resolve(q), List(q), Delete(q.within \cap Host), Delete(q.within), Logs>>
    BY <1>1, <2>3, Agendas
  <2>4. CASE a = <<List(q), Delete(q.within \cap Host), Delete(q.within), Logs>>
    BY <1>1, <2>4, Agendas
  <2> QED
    BY <1>6, <2>1, <2>2, <2>3, <2>4 DEF BeforeList
<1>7. CASE BeforeHosts(q, listed, a, e)
  BY <1>1, <1>7, Agendas DEF BeforeHosts
<1>8. CASE BeforeDelete(q, listed, a, e)
  <2>1. CASE a = <<Delete(q.spec), Logs>>
    BY <1>1, <2>1, Agendas
  <2>2. CASE a = <<Delete(q.within), Logs>>
    BY <1>1, <2>2, Agendas
  <2> QED
    BY <1>8, <2>1, <2>2 DEF BeforeDelete
<1>9. CASE BeforeVrfList(q, listed, a, e)
  BY <1>1, <1>9, Agendas DEF BeforeVrfList
<1> QED
  BY <1>2, <1>3, <1>4, <1>5, <1>6, <1>7, <1>8, <1>9

LEMMA Advances ==
  \A D, x : /\ [LogsAt(D) EXCEPT !.done = @ \cup {x}] = LogsAt(LogsAt(D).done \cup {x})
            /\ [RemovalsAt(D) EXCEPT !.done = @ \cup {x}] = RemovalsAt(RemovalsAt(D).done \cup {x})
BY DEF LogsAt, RemovalsAt

\* A loop comes round.
LEMMA LoopStage ==
  ASSUME DataOK, NEW q, NEW listed, NEW a, NEW e, OnBehalf(q, e), ListedOK(q, listed),
         Stage(q, listed, a, e), a # <<>>, Head(a).do \in {"logs", "removals"},
         NEW left, left = listed \ Head(a).done, NEW x, left # {} => x \in left,
         NEW b, b = (IF left = {} THEN <<>>
                     ELSE Append(Body(Head(a), q, x), [Head(a) EXCEPT !.done = @ \cup {x}])) \o Tail(a)
  PROVE  Stage(q, listed, b, e)
<1>1. Logging(q, listed, a, e) \/ Emptying(q, listed, a, e)
  <2>1. ~ IsData(Head(a))
    BY DEF IsData
  <2> QED
    BY <2>1, DataFirst DEF Stage, Logged
<1>2. ~ IsData(Head(a)) /\ Head(a).do # "call"
  BY DEF IsData
<1>3. IsSequence(Tail(a)) /\ <<>> \o Tail(a) = Tail(a)
  <2>1. IsSequence(a)
    BY <1>1 DEF Logging, LoggingTo, Emptying, EmptyingTo
  <2>2. IsSequence(Tail(a))
    BY <2>1, TailIs
  <2>3. PICK S : Tail(a) \in Seq(S)
    BY <2>2 DEF IsSequence
  <2> QED
    BY <2>2, <2>3, ConcatEmptySeq
<1>4. CASE Logging(q, listed, a, e)
  <2>1. PICK done : Head(a) = LogsAt(done)
    BY <1>2, <1>4, LogsHead
  <2>2. Body(Head(a), q, x) = Entries(q, x.row, x.pool)
        /\ [Head(a) EXCEPT !.done = @ \cup {x}] = LogsAt(Head(a).done \cup {x})
    <3>1. Head(a) = [do |-> "logs", done |-> done]
      BY <2>1 DEF LogsAt
    <3>2. Head(a).do = "logs" /\ Head(a).done = done
      BY <3>1
    <3>3. [Head(a) EXCEPT !.done = @ \cup {x}] = LogsAt(Head(a).done \cup {x})
      BY <2>1, Advances
    <3> QED
      BY <3>2, <3>3 DEF Body
  <2>3. CASE left = {}
    <3>1. b = Tail(a)
      BY <1>3, <2>3
    <3> QED
      BY <1>2, <1>4, <2>3, <3>1, LogsEnd DEF Stage
  <2>4. CASE left # {}
    <3>1. b = Append(Entries(q, x.row, x.pool), LogsAt(Head(a).done \cup {x})) \o Tail(a) /\ x \in listed
      BY <2>2, <2>4
    <3> QED
      BY <1>2, <1>4, <3>1, LogsUnrolled DEF Stage
  <2> QED
    BY <2>3, <2>4
<1>5. CASE Emptying(q, listed, a, e)
  <2>1. PICK done : Head(a) = RemovalsAt(done)
    BY <1>2, <1>5, AtRemovals
  <2>2. Body(Head(a), q, x) = [i \in 1 .. 2 |-> [do |-> "call", q |-> EmptyVrf(x.row)[i]]]
        /\ [Head(a) EXCEPT !.done = @ \cup {x}] = RemovalsAt(Head(a).done \cup {x})
    <3>1. Head(a) = [do |-> "removals", done |-> done]
      BY <2>1 DEF RemovalsAt
    <3>2. Head(a).do = "removals" /\ Head(a).done = done
      BY <3>1
    <3>3. [Head(a) EXCEPT !.done = @ \cup {x}] = RemovalsAt(Head(a).done \cup {x})
      BY <2>1, Advances
    <3>4. Body(Head(a), q, x) = [i \in 1 .. 2 |-> [do |-> "call", q |-> EmptyVrf(x.row)[i]]]
      BY <3>2 DEF Body
    <3> QED
      BY <3>3, <3>4
  <2>3. CASE left = {}
    <3>1. b = Tail(a)
      BY <1>3, <2>3
    <3> QED
      BY <1>2, <1>5, <2>3, <3>1, RemovalsEnd
  <2>4. CASE left # {}
    <3>1. b = Append([i \in 1 .. 2 |-> [do |-> "call", q |-> EmptyVrf(x.row)[i]]],
                     RemovalsAt(Head(a).done \cup {x})) \o Tail(a) /\ x \in listed
      BY <2>2, <2>4
    <3>2. Emptying(q, listed, b, e)
      BY <1>2, <1>5, <3>1, RemovalsUnrolled DEF OnBehalf
    <3> QED
      BY <3>2 DEF Stage
  <2> QED
    BY <2>3, <2>4
<1> QED
  BY <1>1, <1>4, <1>5

-----------------------------------------------------------------------------
(* Requests start, are refused and come to an end.                         *)

LEMMA NothingFirst ==
  \A a, b, c : <<>> \o <<a, b, c>> = <<a, b, c>>
<1> SUFFICES ASSUME NEW a, NEW b, NEW c PROVE <<>> \o <<a, b, c>> = <<a, b, c>>
  OBVIOUS
<1>1. <<a, b, c>> \in Seq({a, b, c})
  OBVIOUS
<1> HIDE DEF Seq
<1> QED
  BY <1>1, ConcatEmptySeq

\* A request starts at the beginning of its program.
LEMMA ProgramStage ==
  ASSUME NEW q, RequestOK(q), NEW e, e.q = q, e.changes = {}
  PROVE  Stage(q, {}, Program(q), e) /\ ListedOK(q, {}) /\ OnBehalf(q, e)
<1>1. ListedOK(q, {}) /\ OnBehalf(q, e) /\ NamedOf(e) = {}
  BY DEF ListedOK, OnBehalf, NamedOf
<1>2. CASE q.op \in Adds
  <2> DEFINE i == Insert(q)
             f == Fetch(q)
             g == GetPool(q.pool)
             l == Logs
  <2>1. Program(q) = <<i, f, l>> \/ Program(q) = AddPrefix(q)
    BY <1>2 DEF Adds, Program, AddVrf, AddPool, AddAsn
  <2>2. AddPrefix(q) = <<g>> \o <<i, f, l>> \/ AddPrefix(q) = <<>> \o <<i, f, l>>
    BY DEF AddPrefix, If
  <2> HIDE DEF i, f, g, l
  <2>3. Program(q) = <<i, f, l>> \/ Program(q) = <<g, i, f, l>>
    BY <2>1, <2>2, NothingFirst, FlatFour
  <2>4. BeforeInsert(q, {}, Program(q), e)
    BY <1>1, <1>2, <2>3 DEF BeforeInsert, i, f, g, l
  <2> QED
    BY <1>1, <2>4 DEF Stage
<1>3. CASE q.op \in Edits
  <2> DEFINE i == List(q)
             f == Update(q)
             g == GetPool(q.pool)
             l == Logs
  <2>1. Program(q) = <<i, f, l>> \/ Program(q) = EditPrefix(q)
    BY <1>3 DEF Edits, Program, EditVrf, EditPool, EditAsn
  <2>2. EditPrefix(q) = <<g>> \o <<i, f, l>> \/ EditPrefix(q) = <<>> \o <<i, f, l>>
    BY DEF EditPrefix, If
  <2> HIDE DEF i, f, g, l
  <2>3. Program(q) = <<i, f, l>> \/ Program(q) = <<g, i, f, l>>
    BY <2>1, <2>2, NothingFirst, FlatFour
  <2>4. BeforeEditList(q, {}, Program(q), e)
    BY <1>3, <2>3 DEF BeforeEditList, i, f, g, l
  <2> QED
    BY <1>1, <2>4 DEF Stage
<1>4. CASE q.op = "remove_vrf"
  <2>1. Program(q) = <<List(q), Removals, Delete(q.spec), Logs>>
    BY <1>4 DEF Program, RemoveVrf
  <2>2. BeforeVrfList(q, {}, Program(q), e)
    BY <1>4, <2>1 DEF BeforeVrfList
  <2> QED
    BY <1>1, <2>2 DEF Stage
<1>5. CASE q.op \in {"remove_pool", "remove_asn"}
  <2>1. Program(q) = <<List(q), Delete(q.spec), Logs>>
    BY <1>5 DEF Program, RemovePool, RemoveAsn
  <2>2. OneDelete(q)
    BY <1>5 DEF OneDelete, Removes, Sweeps
  <2>3. BeforeList(q, {}, Program(q), e)
    BY <1>1, <1>5, <2>1, <2>2 DEF BeforeList, Removes, Unchanged
  <2> QED
    BY <1>1, <2>3 DEF Stage
<1>6. CASE q.op = "remove_prefix"
  <2> DEFINE r == Resolve(q)
             l == List(q)
             h == Delete(q.within \cap Host)
             d == Delete(q.within)
             s == Delete(q.spec)
             g == Logs
             first == If(q.byId, <<r>>)
             deletes == IF q.recursive THEN <<h, d>> ELSE <<s>>
  <2>1. Program(q) = first \o <<l>> \o deletes \o <<g>>
    BY <1>6 DEF Program, RemovePrefix
  <2>2. first = <<r>> \/ first = <<>>
    BY DEF If
  <2>3. q.recursive \in BOOLEAN /\ (Sweeps(q) <=> q.recursive) /\ (OneDelete(q) <=> ~ q.recursive)
    BY <1>6 DEF RequestOK, Sweeps, OneDelete, Removes
  <2>4. deletes = IF q.recursive THEN <<h, d>> ELSE <<s>>
    OBVIOUS
  <2> HIDE DEF r, l, h, d, s, g, first, deletes
  <2>5. first \o <<l>> = <<r, l>> \/ first \o <<l>> = <<l>>
    BY <2>2, FlatJoins
  <2>6. CASE q.recursive
    <3>1. Program(q) = <<r, l>> \o <<h, d>> \o <<g>> \/ Program(q) = <<l>> \o <<h, d>> \o <<g>>
      BY <2>1, <2>4, <2>5, <2>6
    <3>2. Program(q) = <<r, l, h, d, g>> \/ Program(q) = <<l, h, d, g>>
      BY <3>1, FlatFour, FlatJoins
    <3>3. BeforeList(q, {}, Program(q), e)
      BY <1>1, <1>6, <2>3, <2>6, <3>2 DEF BeforeList, Removes, Unchanged, r, l, h, d, g
    <3> QED
      BY <1>1, <3>3 DEF Stage
  <2>7. CASE ~ q.recursive
    <3>1. Program(q) = <<r, l>> \o <<s>> \o <<g>> \/ Program(q) = <<l>> \o <<s>> \o <<g>>
      BY <2>1, <2>4, <2>5, <2>7
    <3>2. Program(q) = <<r, l, s, g>> \/ Program(q) = <<l, s, g>>
      <4>1. <<r, l>> \o <<s>> = <<r, l, s>> /\ <<l>> \o <<s>> = <<l, s>> /\ <<l, s>> \o <<g>> = <<l, s, g>>
        BY FlatJoins
      <4>2. <<r, l, s>> \o <<g>> = <<r, l, s, g>>
        BY FlatFour
      <4> QED
        BY <3>1, <4>1, <4>2
    <3>3. BeforeList(q, {}, Program(q), e)
      BY <1>1, <1>6, <2>3, <2>7, <3>2 DEF BeforeList, Removes, Unchanged, r, l, s, g
    <3> QED
      BY <1>1, <3>3 DEF Stage
  <2> QED
    BY <2>3, <2>6, <2>7
<1> QED
  BY <1>2, <1>3, <1>4, <1>5, <1>6 DEF RequestOK, Operations, Adds, Edits

LEMMA NeverRefused ==
  /\ \A q : ~ MayRefuse(Resolve(q)) /\ ~ MayRefuse(List(q)) /\ ~ MayRefuse(Fetch(q))
  /\ \A c : ~ MayRefuse(Log(c))
  /\ \A o : o \in rows => ~ MayRefuse(GetPool(o))
BY DEF MayRefuse, MustRefuse, Resolve, List, Fetch, Log, GetPool

\* A deletion that takes no assignment without its hosts.
LEMMA MayDelete ==
  ASSUME NEW D, DefaultVrf \notin D \cap rows, \A x \in Gone(D) \cap Assignment : HostsIn(x) = {}
  PROVE  ~ MayRefuse(Delete(D))
<1>1. Delete(D).do = "delete" /\ Delete(D).rows = D
  BY DEF Delete
<1> QED
  BY <1>1 DEF MayRefuse, MustRefuse

\* Only what has changed nothing may be refused, but for the removal of VRF 0.
LEMMA RefusedStage ==
  ASSUME DataOK, NEW q, NEW listed, NEW a, NEW e, OnBehalf(q, e), ListedOK(q, listed),
         Stage(q, listed, a, e), a # <<>>, IsData(Head(a)), MayRefuse(Head(a)), ~ e.lost, ~ e.crossed
  PROVE  e.changes = {} \/ DefaultVrf \in e.q.spec
<1>1. RequestOK(q)
  BY DEF OnBehalf
<1>2. ~ Logged(q, listed, a, e) /\ ~ Emptying(q, listed, a, e)
  BY EmptyingHead DEF Logged, IsData
<1>3. ~ BeforeFetch(q, listed, a, e)
  <2>1. BeforeFetch(q, listed, a, e) => Head(a) = Fetch(q)
    BY Agendas DEF BeforeFetch
  <2> QED
    BY <2>1, NeverRefused
<1>4. ~ BeforeVrfList(q, listed, a, e)
  <2>1. BeforeVrfList(q, listed, a, e) => Head(a) = List(q)
    BY Agendas DEF BeforeVrfList
  <2> QED
    BY <2>1, NeverRefused
<1>5. ~ Logging(q, listed, a, e)
  <2> SUFFICES ASSUME Logging(q, listed, a, e) PROVE FALSE
    OBVIOUS
  <2>1. \A y \in listed : y.pool # NoPool => y.pool \in rows
    BY DEF Logging, PoolsThere
  <2>2. \E c, o : Head(a) = Log(c) \/ (Head(a) = GetPool(o) /\ \E y \in listed : o = y.pool /\ o # NoPool)
    BY LoggingHead
  <2> QED
    BY <2>1, <2>2, NeverRefused
<1>6. CASE BeforeInsert(q, listed, a, e) \/ BeforeEditList(q, listed, a, e) \/ BeforeUpdate(q, listed, a, e)
  BY <1>6 DEF BeforeInsert, BeforeEditList, BeforeUpdate
<1>7. CASE BeforeList(q, listed, a, e)
  <2>1. CASE Sweeps(q)
    <3>1. \/ a = <<Resolve(q), List(q), Delete(q.within \cap Host), Delete(q.within), Logs>>
          \/ a = <<List(q), Delete(q.within \cap Host), Delete(q.within), Logs>>
      BY <1>7, <2>1 DEF BeforeList, OneDelete
    <3>2. Head(a) = Resolve(q) \/ Head(a) = List(q)
      <4>1. CASE a = <<Resolve(q), List(q), Delete(q.within \cap Host), Delete(q.within), Logs>>
        BY <4>1, Agendas
      <4>2. CASE a = <<List(q), Delete(q.within \cap Host), Delete(q.within), Logs>>
        BY <4>2, Agendas
      <4> QED
        BY <3>1, <4>1, <4>2
    <3> QED
      BY <3>2, NeverRefused
  <2>2. CASE ~ Sweeps(q)
    BY <1>7, <2>2 DEF BeforeList, Unchanged
  <2> QED
    BY <2>1, <2>2
<1>8. CASE BeforeHosts(q, listed, a, e)
  <2> DEFINE D == q.within \cap Host
  <2>1. Head(a) = Delete(D)
    BY <1>8, Agendas DEF BeforeHosts
  <2>2. D \subseteq Prefix /\ D \cap Assignment = {} /\ DefaultVrf \notin D
    BY BackendAssumption, RowsAssumption
  <2> HIDE DEF D
  <2>3. Gone(D) = rows \cap D
    BY <2>2, GoneOf
  <2>4. \A x \in Gone(D) \cap Assignment : HostsIn(x) = {}
    BY <2>2, <2>3
  <2> QED
    BY <2>1, <2>2, <2>4, MayDelete
<1>9. CASE BeforeDelete(q, listed, a, e)
  <2>1. CASE Sweeps(q)
    <3>1. a = <<Delete(q.within), Logs>>
      BY <1>9, <2>1 DEF BeforeDelete, OneDelete
    <3>2. Head(a) = Delete(q.within)
      BY <3>1, Agendas
    <3>3. q.within \subseteq Prefix /\ \A x \in q.within : Below(x) \subseteq q.within
      BY <1>1, <2>1 DEF RequestOK
    <3>4. DefaultVrf \notin q.within
      BY <3>3, BackendAssumption, RowsAssumption
    <3>5. Gone(q.within) = rows \cap q.within
      BY <3>3, GoneOf
    <3>6. q.within \cap Host \cap rows = {}
      BY <1>9, <2>1 DEF BeforeDelete
    <3>7. \A x \in Gone(q.within) \cap Assignment : HostsIn(x) = {}
      BY <3>3, <3>5, <3>6 DEF HostsIn
    <3> QED
      BY <3>2, <3>4, <3>7, MayDelete
  <2>2. CASE ~ Sweeps(q) /\ q.op # "remove_vrf"
    BY <1>9, <2>2 DEF BeforeDelete, Unchanged
  <2>3. CASE ~ Sweeps(q) /\ q.op = "remove_vrf"
    <3>1. a = <<Delete(q.spec), Logs>> /\ e.q = q /\ q.spec \subseteq Vrf
      BY <1>1, <1>9, <2>3, Kinds DEF BeforeDelete, OnBehalf
    <3>2. Head(a) = Delete(q.spec)
      BY <3>1, Agendas
    <3>3. \A x \in rows \cap Prefix : VrfOf(x) \notin q.spec
      BY <1>9, <2>3 DEF BeforeDelete
    <3>4. \A x \in Gone(q.spec) \cap Assignment : HostsIn(x) = {}
      BY <3>1, <3>3, BackendAssumption, RowsAssumption DEF Gone
    <3> QED
      BY <3>1, <3>2, <3>4, MayDelete
  <2> QED
    BY <2>1, <2>2, <2>3
<1> QED
  BY <1>2, <1>3, <1>4, <1>5, <1>6, <1>7, <1>8, <1>9 DEF Stage

\* What is logged has happened.
LEMMA LogTrue ==
  ASSUME NEW q, NEW listed, NEW a, NEW e, OnBehalf(q, e), Stage(q, listed, a, e),
         a # <<>>, Head(a).do = "log", NEW c, c = Head(a).entry, ~ e.lost, ~ e.crossed
  PROVE  c \in e.changes \/ Excused(e.q, c)
<1>1. Head(a).do = "log"
  OBVIOUS
<1>2. \A q1, D, o : /\ Head(a) # Insert(q1) /\ Head(a) # Fetch(q1) /\ Head(a) # List(q1)
                    /\ Head(a) # Update(q1) /\ Head(a) # Resolve(q1)
                    /\ Head(a) # Delete(D) /\ Head(a) # GetPool(o)
  <2> SUFFICES ASSUME NEW q1, NEW D, NEW o
               PROVE  /\ Head(a) # Insert(q1) /\ Head(a) # Fetch(q1) /\ Head(a) # List(q1)
                      /\ Head(a) # Update(q1) /\ Head(a) # Resolve(q1)
                      /\ Head(a) # Delete(D) /\ Head(a) # GetPool(o)
    OBVIOUS
  <2>1. /\ Insert(q1).do = "insert" /\ Fetch(q1).do = "fetch" /\ List(q1).do = "list"
        /\ Update(q1).do = "update" /\ Resolve(q1).do = "resolve"
    BY DEF Insert, Fetch, List, Update, Resolve
  <2>2. Delete(D).do = "delete" /\ GetPool(o).do = "get_pool"
    BY DEF Delete, GetPool
  <2> QED
    BY <1>1, <2>1, <2>2
<1>3. Logging(q, listed, a, e)
  <2>1. ~ BeforeInsert(q, listed, a, e)
    <3>1. CASE a = <<GetPool(q.pool), Insert(q), Fetch(q), Logs>>
      BY <1>2, <3>1, Agendas
    <3>2. CASE a = <<Insert(q), Fetch(q), Logs>>
      BY <1>2, <3>2, Agendas
    <3> QED
      BY <3>1, <3>2 DEF BeforeInsert
  <2>2. ~ BeforeFetch(q, listed, a, e) /\ ~ BeforeUpdate(q, listed, a, e) /\ ~ BeforeVrfList(q, listed, a, e)
        /\ ~ BeforeHosts(q, listed, a, e)
    BY <1>2, Agendas DEF BeforeFetch, BeforeUpdate, BeforeVrfList, BeforeHosts
  <2>3. ~ BeforeEditList(q, listed, a, e)
    <3>1. CASE a = <<GetPool(q.pool), List(q), Update(q), Logs>>
      BY <1>2, <3>1, Agendas
    <3>2. CASE a = <<List(q), Update(q), Logs>>
      BY <1>2, <3>2, Agendas
    <3> QED
      BY <3>1, <3>2 DEF BeforeEditList
  <2>4. ~ BeforeList(q, listed, a, e)
    <3>1. CASE a = <<Resolve(q), List(q), Delete(q.spec), Logs>>
      BY <1>2, <3>1, Agendas
    <3>2. CASE a = <<List(q), Delete(q.spec), Logs>>
      BY <1>2, <3>2, Agendas
    <3>3. CASE a = <<Resolve(q), List(q), Delete(q.within \cap Host), Delete(q.within), Logs>>
      BY <1>2, <3>3, Agendas
    <3>4. CASE a = <<List(q), Delete(q.within \cap Host), Delete(q.within), Logs>>
      BY <1>2, <3>4, Agendas
    <3> QED
      BY <3>1, <3>2, <3>3, <3>4 DEF BeforeList
  <2>5. ~ BeforeDelete(q, listed, a, e)
    <3>1. CASE a = <<Delete(q.spec), Logs>>
      BY <1>2, <3>1, Agendas
    <3>2. CASE a = <<Delete(q.within), Logs>>
      BY <1>2, <3>2, Agendas
    <3> QED
      BY <3>1, <3>2 DEF BeforeDelete
  <2>6. ~ Emptying(q, listed, a, e) /\ ~ Logged(q, listed, a, e)
    BY <1>1, EmptyingHead DEF Logged
  <2> QED
    BY <2>1, <2>2, <2>3, <2>4, <2>5, <2>6 DEF Stage
<1>4. c \in AllSays(q, listed)
  <2>0. PICK n \in Nat : \E done : LoggingTo(q, listed, a, e, n, done)
    BY <1>3 DEF Logging
  <2>1. PICK done : LoggingTo(q, listed, a, e, n, done)
    BY <2>0
  <2>2. Len(a) = n + 1 /\ Head(a) = a[1]
    BY <2>1, TailIs DEF LoggingTo
  <2>3. n # 0
    <3>1. LogsAt(done).do = "logs"
      BY DEF LogsAt
    <3>2. n = 0 => Head(a) = LogsAt(done)
      BY <2>1, <2>2 DEF LoggingTo
    <3> QED
      BY <1>1, <3>1, <3>2
  <2>4. 1 \in 1 .. n
    BY <2>3
  <2>5. PICK y \in listed : \/ \E d \in Says(q, y.row, y.pool) : a[1] = Log(d)
                            \/ y.pool # NoPool /\ a[1] = GetPool(y.pool)
    BY <2>1, <2>4 DEF LoggingTo
  <2>6. ASSUME NEW d, Head(a) = Log(d)
        PROVE  d = c
    <3>1. Log(d).entry = d
      BY DEF Log
    <3> QED
      BY <2>6, <3>1
  <2>7. c \in Says(q, y.row, y.pool)
    BY <1>2, <2>2, <2>5, <2>6
  <2> QED
    BY <2>7 DEF AllSays
<1>5. c \in e.changes \/ Excused(q, c)
  BY <1>3, <1>4 DEF Logging, Stands
<1>6. Excused(q, c) => e.q = q
  BY OwnRequest DEF Excused, Sweeps
<1> QED
  BY <1>5, <1>6

\* With nothing left to do, every change of a row that was named is in the log.
LEMMA AllLogged ==
  ASSUME NEW q, NEW listed, NEW e, Stage(q, listed, <<>>, e), ~ e.crossed
  PROVE  NamedOf(e) \subseteq e.entries
<1>1. Logged(q, listed, <<>>, e)
  BY EmptyAgenda
<1> QED
  BY <1>1 DEF Logged, Stands

-----------------------------------------------------------------------------
(* The stack of a worker that serves a request.                            *)

\* The call that lies on a frame is the head of what the frame has to do.
Item(f) == IF f.call = "request" THEN Calling(f.q) ELSE f.stmt
Agenda(s, i) == IF Len(s) = i THEN s[i].todo ELSE <<Item(s[i + 1])>> \o s[i].todo

\* A request, or two when remove_vrf has called remove_prefix, then a statement and
\* whatever it takes to connect again.
Frames(s, n) ==
  /\ IsSequence(s) /\ Len(s) >= n
  /\ \A i \in 1 .. Len(s) : s[i].call = "request" <=> i <= n
  /\ Len(s) > n => IsStatement(s[n + 1])
  /\ \A i \in 1 .. n : s[i].r = s[1].r /\ IsSequence(s[i].todo)
  /\ n = 2 => Sweeps(s[2].q)

AtWork(s, n, e) ==
  /\ Frames(s, n)
  /\ e.answer = "none" /\ e.q = s[1].q
  /\ \A i \in 1 .. n : /\ OnBehalf(s[i].q, e) /\ ListedOK(s[i].q, s[i].listed)
                       /\ Stage(s[i].q, s[i].listed, Agenda(s, i), e)

WorkOK ==
  \A p \in Process : InRequest(p) =>
    /\ RequestOf(p) \in DOMAIN ledger
    /\ \E n \in {1, 2} : AtWork(stack[p], n, ledger[RequestOf(p)])

\* Who is not starting and serves no request does nothing.
Idle == \A p \in Process : status[p] = "starting" \/ stack[p] = <<>> \/ InRequest(p)

\* No two workers serve the same request.
Apart ==
  \A p1, p2 \in Process :
    InRequest(p1) /\ InRequest(p2) /\ RequestOf(p1) = RequestOf(p2) => p1 = p2

\* The properties, one request at a time.
RecordOK(e) ==
  /\ e.answer = "ok" /\ ~ e.crossed => NamedOf(e) \subseteq e.entries
  /\ ~ e.lost /\ ~ e.crossed => \A c \in e.entries : c \in e.changes \/ Excused(e.q, c)
  /\ e.answer = "refused" /\ ~ e.lost /\ ~ e.crossed => e.changes = {} \/ DefaultVrf \in e.q.spec

BookOK == IsSequence(ledger) /\ \A r \in DOMAIN ledger : RecordOK(ledger[r])

LogInv == DataOK /\ BookOK /\ WorkOK /\ Idle /\ Apart

LEMMA RecordsSay ==
  ASSUME BookOK
  PROVE  AnsweredIsLogged /\ LogIsTrue /\ RefusedChangesNothing
<1>1. \A r \in DOMAIN ledger : RecordOK(ledger[r])
  BY DEF BookOK
<1>2. \A r \in DOMAIN ledger : Named(r) = NamedOf(ledger[r])
  BY DEF Named, NamedOf
<1>3. AnsweredIsLogged
  BY <1>1, <1>2 DEF AnsweredIsLogged, RecordOK
<1>4. LogIsTrue
  BY <1>1 DEF LogIsTrue, RecordOK, Excused
<1>5. RefusedChangesNothing
  BY <1>1 DEF RefusedChangesNothing, RecordOK
<1> QED
  BY <1>3, <1>4, <1>5

-----------------------------------------------------------------------------
(* One request's record while another one does something.                  *)

Beside(e, f) ==
  /\ f.q = e.q /\ f.answer = e.answer /\ f.changes = e.changes /\ f.entries = e.entries
  /\ f.lost = e.lost /\ (e.crossed => f.crossed)
  /\ f.crossed \/ e.answer # "none" \/ (rows' = rows /\ poolOf' = poolOf)

LEMMA BesideOK ==
  ASSUME NEW e, NEW f, Beside(e, f), RecordOK(e)
  PROVE  RecordOK(f)
BY DEF Beside, RecordOK, NamedOf

LEMMA StayedWork ==
  ASSUME NEW e, NEW f, Stayed(e, f), NEW s, NEW n \in {1, 2}, AtWork(s, n, e)
  PROVE  AtWork(s, n, f)'
<1>2. \A q, listed, a : Stage(q, listed, a, e) => Stage(q, listed, a, f)'
  BY StayedStage
<1>3. \A q : OnBehalf(q, e) => OnBehalf(q, f)
  BY DEF OnBehalf, Stayed
<1>4. \A i \in 1 .. n : Stage(s[i].q, s[i].listed, Agenda(s, i), e)
  BY DEF AtWork
<1>5. \A i \in 1 .. n : Stage(s[i].q, s[i].listed, Agenda(s, i), f)'
  BY <1>2, <1>4
<1>6. \A i \in 1 .. n : OnBehalf(s[i].q, f)
  BY <1>3 DEF AtWork
<1>7. f.answer = "none" /\ f.q = s[1].q
  BY DEF Stayed, AtWork
<1> QED
  BY <1>5, <1>6, <1>7 DEF AtWork

LEMMA BesideWork ==
  ASSUME NEW e, NEW f, Beside(e, f), NEW s, NEW n \in {1, 2}, AtWork(s, n, e)
  PROVE  AtWork(s, n, f)'
<1>1. Stayed(e, f)
  BY DEF Beside, Stayed, AtWork
<1> QED
  BY <1>1, StayedWork

\* What the others see of the step of one process, and what it must see to for itself.
Mine(p, r) == InRequest(p) /\ RequestOf(p) = r

OthersBeside(p) ==
  /\ IsSequence(ledger') /\ DOMAIN ledger \subseteq DOMAIN ledger'
  /\ \A r \in DOMAIN ledger : ~ Mine(p, r) => Beside(ledger[r], ledger'[r])

OwnWork(p, s) ==
  s # <<>> /\ Head(s).call = "request" =>
    /\ Mine(p, Head(s).r) \/ Head(s).r \notin DOMAIN ledger
    /\ Head(s).r \in DOMAIN ledger'
    /\ \E f : f = ledger'[Head(s).r] /\ \E n \in {1, 2} : AtWork(s, n, f)'

LEMMA WorkStep ==
  ASSUME LogInv, NEW p \in Process,
         \A p1 \in Process : p1 # p => stack'[p1] = stack[p1] /\ status'[p1] = status[p1],
         DataOK', OthersBeside(p),
         \A r \in DOMAIN ledger' : r \notin DOMAIN ledger \/ Mine(p, r) => RecordOK(ledger'[r]),
         NEW s, s = stack'[p], OwnWork(p, s),
         status'[p] = "starting" \/ s = <<>> \/ Head(s).call = "request"
  PROVE  LogInv'
<1>1. BookOK'
  <2>1. ASSUME NEW r \in DOMAIN ledger'
        PROVE  RecordOK(ledger'[r])
    <3>1. CASE r \notin DOMAIN ledger \/ Mine(p, r)
      BY <3>1
    <3>2. CASE r \in DOMAIN ledger /\ ~ Mine(p, r)
      BY <3>2, BesideOK DEF OthersBeside, LogInv, BookOK
    <3> QED
      BY <3>1, <3>2
  <2>2. \A r \in DOMAIN ledger' : RecordOK(ledger[r])'
    BY <2>1 DEF RecordOK, NamedOf
  <2> QED
    BY <2>1, <2>2 DEF BookOK, OthersBeside
<1>2. ASSUME NEW p1 \in Process, p1 # p, InRequest(p1)'
      PROVE  /\ InRequest(p1) /\ RequestOf(p1)' = RequestOf(p1)
             /\ RequestOf(p1) \in DOMAIN ledger /\ RequestOf(p1)' \in DOMAIN ledger'
             /\ ~ Mine(p, RequestOf(p1))
             /\ (\E n \in {1, 2} : AtWork(stack[p1], n, ledger[RequestOf(p1)]))'
  <2>1. stack'[p1] = stack[p1]
    BY <1>2
  <2>2. InRequest(p1) /\ RequestOf(p1)' = RequestOf(p1)
    BY <1>2, <2>1 DEF InRequest, RequestOf
  <2>3. RequestOf(p1) \in DOMAIN ledger /\ \E n \in {1, 2} : AtWork(stack[p1], n, ledger[RequestOf(p1)])
    BY <2>2 DEF LogInv, WorkOK
  <2>4. ~ Mine(p, RequestOf(p1))
    BY <1>2, <2>2 DEF LogInv, Apart, Mine
  <2>5. PICK r, t, e, f : r = RequestOf(p1) /\ t = stack[p1] /\ e = ledger[r] /\ f = ledger'[r]
    OBVIOUS
  <2>6. Beside(e, f)
    BY <2>3, <2>4, <2>5 DEF OthersBeside
  <2>7. PICK n \in {1, 2} : AtWork(t, n, e)
    BY <2>3, <2>5
  <2>8. AtWork(t, n, f)'
    BY <2>6, <2>7, BesideWork
  <2>9. AtWork(stack[p1], n, ledger[RequestOf(p1)])'
    BY <2>1, <2>2, <2>5, <2>8
  <2> QED
    BY <2>2, <2>3, <2>4, <2>9 DEF OthersBeside
<1>3. ASSUME InRequest(p)'
      PROVE  /\ Mine(p, RequestOf(p)') \/ RequestOf(p)' \notin DOMAIN ledger
             /\ RequestOf(p)' \in DOMAIN ledger'
             /\ (\E n \in {1, 2} : AtWork(stack[p], n, ledger[RequestOf(p)]))'
  <2>1. s # <<>> /\ Head(s).call = "request" /\ RequestOf(p)' = Head(s).r
    BY <1>3 DEF InRequest, RequestOf
  <2>2. PICK f : f = ledger'[Head(s).r] /\ \E n \in {1, 2} : AtWork(s, n, f)'
    BY <2>1 DEF OwnWork
  <2>3. PICK n \in {1, 2} : AtWork(s, n, f)'
    BY <2>2
  <2>4. AtWork(stack[p], n, ledger[RequestOf(p)])'
    BY <2>1, <2>2, <2>3
  <2> QED
    BY <2>1, <2>4 DEF OwnWork
<1>4. WorkOK'
  BY <1>2, <1>3 DEF WorkOK
<1>5. Apart'
  <2>1. ASSUME NEW p1 \in Process, NEW p2 \in Process, InRequest(p1)', InRequest(p2)',
               RequestOf(p1)' = RequestOf(p2)', p1 # p2
        PROVE  FALSE
    <3>1. CASE p1 # p /\ p2 # p
      BY <1>2, <2>1, <3>1 DEF LogInv, Apart
    <3>2. CASE p1 = p
      BY <1>2, <1>3, <2>1, <3>2
    <3>3. CASE p2 = p
      BY <1>2, <1>3, <2>1, <3>3
    <3> QED
      BY <3>1, <3>2, <3>3
  <2> QED
    BY <2>1 DEF Apart
<1>6. Idle'
  BY DEF Idle, LogInv, InRequest
<1> QED
  BY <1>1, <1>4, <1>5, <1>6 DEF LogInv

-----------------------------------------------------------------------------
(* The records.                                                            *)

\* The same requests are recorded, and of all but one of them the same things.
SameBut(book, r, b) ==
  /\ IsSequence(b) /\ DOMAIN b = DOMAIN book
  /\ \A i \in DOMAIN book : i # r => b[i] = book[i]

LEMMA SequenceOf ==
  ASSUME NEW n \in Nat, NEW b, b = [i \in 1 .. n |-> b[i]]
  PROVE  IsSequence(b)
<1> DEFINE S == {b[i] : i \in 1 .. n}
<1>1. b \in [1 .. n -> S]
  OBVIOUS
<1> HIDE DEF S
<1>2. b \in Seq(S)
  BY <1>1
<1> QED
  BY <1>2 DEF IsSequence

LEMMA DomainIs ==
  ASSUME NEW book, IsSequence(book)
  PROVE  Len(book) \in Nat /\ DOMAIN book = 1 .. Len(book) /\ book = [i \in 1 .. Len(book) |-> book[i]]
<1>1. PICK S : book \in Seq(S)
  BY DEF IsSequence
<1> QED
  BY <1>1

\* One record is replaced.
LEMMA Replaced ==
  ASSUME NEW book, IsSequence(book), NEW r \in DOMAIN book, NEW v, NEW b, b = [book EXCEPT ![r] = v]
  PROVE  SameBut(book, r, b) /\ b[r] = v
<1>1. Len(book) \in Nat /\ DOMAIN book = 1 .. Len(book) /\ book = [i \in 1 .. Len(book) |-> book[i]]
  BY DomainIs
<1>2. /\ DOMAIN b = DOMAIN book /\ b[r] = v /\ \A i \in DOMAIN book : i # r => b[i] = book[i]
      /\ b = [i \in 1 .. Len(book) |-> IF i = r THEN v ELSE book[i]]
  BY <1>1
<1>3. b = [i \in 1 .. Len(book) |-> b[i]]
  BY <1>2
<1>4. IsSequence(b)
  BY <1>1, <1>3, SequenceOf
<1> QED
  BY <1>2, <1>4 DEF SameBut

\* A request is answered, or its connection is lost: all else stays on record.
SameWork(e, f) ==
  /\ f.q = e.q /\ f.changes = e.changes /\ f.entries = e.entries /\ f.crossed = e.crossed

LEMMA AnsweredIs ==
  ASSUME NEW p, InRequest(p), NEW book, IsSequence(book), NEW r \in DOMAIN book, r = RequestOf(p),
         NEW answer, NEW b, b = Answered(book, p, answer)
  PROVE  /\ SameBut(book, r, b) /\ SameWork(book[r], b[r])
         /\ b[r].lost = book[r].lost /\ b[r].answer = answer
<1> DEFINE v == [book[r] EXCEPT !.answer = answer]
<1>1. b = [book EXCEPT ![r] = v]
  BY DEF Answered
<1>2. /\ v.q = book[r].q /\ v.changes = book[r].changes /\ v.entries = book[r].entries
      /\ v.crossed = book[r].crossed /\ v.lost = book[r].lost /\ v.answer = answer
  OBVIOUS
<1> HIDE DEF v
<1>3. SameBut(book, r, b) /\ b[r] = v
  BY <1>1, Replaced
<1> QED
  BY <1>2, <1>3 DEF SameWork

LEMMA LostIs ==
  ASSUME NEW p, InRequest(p), NEW book, IsSequence(book), NEW r \in DOMAIN book, r = RequestOf(p),
         NEW b, b = MarkLost(book, p)
  PROVE  /\ SameBut(book, r, b) /\ SameWork(book[r], b[r])
         /\ b[r].lost /\ b[r].answer = book[r].answer
<1> DEFINE v == [book[r] EXCEPT !.lost = TRUE]
<1>1. b = [book EXCEPT ![r] = v]
  BY DEF MarkLost
<1>2. /\ v.q = book[r].q /\ v.changes = book[r].changes /\ v.entries = book[r].entries
      /\ v.crossed = book[r].crossed /\ v.lost = TRUE /\ v.answer = book[r].answer
  OBVIOUS
<1> HIDE DEF v
<1>3. SameBut(book, r, b) /\ b[r] = v
  BY <1>1, Replaced
<1> QED
  BY <1>2, <1>3 DEF SameWork

LEMMA SameButTwice ==
  ASSUME NEW book, NEW r, NEW b, NEW c, SameBut(book, r, b), SameBut(b, r, c)
  PROVE  SameBut(book, r, c)
BY DEF SameBut

\* The statement of a request is committed.
LEMMA CommittedIs ==
  ASSUME DataOK, IsSequence(ledger), NEW r \in DOMAIN ledger, NEW stmt,
         rows' = RowsAfter(stmt), poolOf' = PoolsAfter(stmt),
         NEW b, b = Committed(r, stmt)
  PROVE  /\ IsSequence(b) /\ DOMAIN b = DOMAIN ledger
         /\ \A i \in DOMAIN ledger : i # r => Beside(ledger[i], b[i])
         /\ Noted(ledger[r], stmt, b[r]) /\ b[r].lost = ledger[r].lost
<1>1. CASE ~ IsChange(stmt)
  <2> DEFINE v == [ledger[r] EXCEPT !.entries = ledger[r].entries \cup Entered(r, stmt)]
  <2>1. b = [ledger EXCEPT ![r] = v]
    BY <1>1 DEF Committed
  <2>2. /\ v.q = ledger[r].q /\ v.changes = ledger[r].changes
        /\ v.entries = ledger[r].entries \cup Entered(r, stmt)
        /\ v.crossed = ledger[r].crossed /\ v.lost = ledger[r].lost /\ v.answer = ledger[r].answer
    OBVIOUS
  <2> HIDE DEF v
  <2>3. SameBut(ledger, r, b) /\ b[r] = v
    BY <2>1, Replaced
  <2>4. rows' = rows /\ poolOf' = poolOf
    BY <1>1, ReadsOnly
  <2>5. \A i \in DOMAIN ledger : i # r => Beside(ledger[i], b[i])
    BY <2>3, <2>4 DEF Beside, SameBut
  <2>6. Noted(ledger[r], stmt, b[r])
    BY <1>1, <2>2, <2>3 DEF Noted, Entered
  <2> QED
    BY <2>2, <2>3, <2>5, <2>6 DEF SameBut
<1>2. CASE IsChange(stmt)
  <2> DEFINE v(i) == IF i = r THEN [ledger[r] EXCEPT !.changes = ledger[r].changes \cup Changes(stmt)]
                     ELSE [ledger[i] EXCEPT !.crossed = ledger[i].crossed \/ (Running(i) /\ Changes(stmt) # {})]
  <2>1. b = [i \in DOMAIN ledger |-> v(i)]
    BY <1>2 DEF Committed
  <2>2. /\ v(r).q = ledger[r].q /\ v(r).changes = ledger[r].changes \cup Changes(stmt)
        /\ v(r).entries = ledger[r].entries
        /\ v(r).crossed = ledger[r].crossed /\ v(r).lost = ledger[r].lost
        /\ v(r).answer = ledger[r].answer
    OBVIOUS
  <2>3. ASSUME NEW i \in DOMAIN ledger, i # r
        PROVE  /\ v(i).q = ledger[i].q /\ v(i).changes = ledger[i].changes
               /\ v(i).entries = ledger[i].entries
               /\ v(i).crossed = (ledger[i].crossed \/ (Running(i) /\ Changes(stmt) # {}))
               /\ v(i).lost = ledger[i].lost /\ v(i).answer = ledger[i].answer
    BY <2>3
  <2> HIDE DEF v
  <2>4. DOMAIN b = DOMAIN ledger /\ \A i \in DOMAIN ledger : b[i] = v(i)
    BY <2>1
  <2>5. IsSequence(b)
    <3>1. Len(ledger) \in Nat /\ DOMAIN ledger = 1 .. Len(ledger)
      BY DomainIs
    <3>2. b = [i \in 1 .. Len(ledger) |-> b[i]]
      BY <2>1, <2>4, <3>1
    <3> QED
      BY <3>1, <3>2, SequenceOf
  <2>6. ASSUME NEW i \in DOMAIN ledger, i # r
        PROVE  Beside(ledger[i], b[i])
    <3>1. Changes(stmt) = {} => rows' = rows /\ poolOf' = poolOf
      BY <1>2, NothingChanges
    <3>2. /\ b[i].q = ledger[i].q /\ b[i].changes = ledger[i].changes
          /\ b[i].entries = ledger[i].entries
          /\ b[i].crossed = (ledger[i].crossed \/ (Running(i) /\ Changes(stmt) # {}))
          /\ b[i].lost = ledger[i].lost /\ b[i].answer = ledger[i].answer
      BY <2>3, <2>4, <2>6
    <3> QED
      BY <3>1, <3>2 DEF Beside, Running
  <2>7. stmt.do # "log"
    BY <1>2 DEF IsChange
  <2>8. Noted(ledger[r], stmt, b[r])
    BY <1>2, <2>2, <2>4, <2>7 DEF Noted
  <2> QED
    BY <2>2, <2>4, <2>5, <2>6, <2>8
<1> QED
  BY <1>1, <1>2

-----------------------------------------------------------------------------
(* A statement of a request is run.                                        *)

LEMMA OnTopOf ==
  ASSUME NEW x, NEW t, IsSequence(t)
  PROVE  /\ <<x>> \o t # <<>> /\ Head(<<x>> \o t) = x /\ Tail(<<x>> \o t) = t /\ IsSequence(<<x>> \o t)
<1>1. PICK S : t \in Seq(S)
  BY DEF IsSequence
<1>2. t \in Seq(S \cup {x}) /\ <<x>> \in Seq(S \cup {x})
  BY <1>1
<1>3. <<x>> \o t \in Seq(S \cup {x})
  BY <1>2
<1>4. IsSequence(<<x>> \o t)
  BY <1>3 DEF IsSequence
<1>5. Len(<<x>>) = 1 /\ <<x>>[1] = x /\ IsSequence(<<x>>)
  BY Lists
<1>6. /\ Len(t) \in Nat /\ Len(<<x>> \o t) = Len(<<x>>) + Len(t)
      /\ \A i \in 1 .. Len(<<x>>) : (<<x>> \o t)[i] = <<x>>[i]
      /\ \A i \in 1 .. Len(t) : (<<x>> \o t)[Len(<<x>>) + i] = t[i]
  BY <1>5, Joins
<1> DEFINE u == <<x>> \o t
<1> HIDE DEF u
<1>7. /\ Len(u) = 1 + Len(t) /\ u[1] = x /\ \A i \in 1 .. Len(t) : u[1 + i] = t[i]
  BY <1>5, <1>6 DEF u
<1>8. u # <<>> /\ IsSequence(u)
  BY <1>4, <1>6, <1>7, Lists DEF u
<1>9. /\ IsSequence(Tail(u)) /\ Len(Tail(u)) = Len(u) - 1
      /\ Head(u) = u[1] /\ \A i \in 1 .. Len(u) - 1 : Tail(u)[i] = u[i + 1]
  BY <1>8, TailIs
<1>10. Tail(u) = t
  <2>1. PICK T : Tail(u) \in Seq(T)
    BY <1>9 DEF IsSequence
  <2>2. Tail(u) \in Seq(S \cup T) /\ t \in Seq(S \cup T)
    BY <1>1, <2>1
  <2>3. Len(Tail(u)) = Len(t)
    BY <1>6, <1>7, <1>9
  <2>4. \A i \in 1 .. Len(t) : Tail(u)[i] = t[i]
    <3>1. \A i \in 1 .. Len(t) : i \in 1 .. Len(u) - 1 /\ i + 1 = 1 + i
      BY <1>6, <1>7
    <3> QED
      BY <1>7, <1>9, <3>1
  <2> QED
    BY <2>2, <2>3, <2>4, SeqEqual
<1> QED
  BY <1>7, <1>8, <1>9, <1>10 DEF u

\* What a request may change.
LEMMA ChangesAre ==
  ASSUME NEW q, NEW listed, NEW a, NEW e, OnBehalf(q, e), Stage(q, listed, a, e),
         a # <<>>, IsData(Head(a)), IsChange(Head(a))
  PROVE  \/ q.op \in Adds /\ Head(a) = Insert(q)
         \/ Head(a) = Update(q)
         \/ \E D : /\ Head(a) = Delete(D)
                   /\ D \subseteq Prefix \/ D \subseteq Vrf \/ D \subseteq Pool \/ D \subseteq Asn
<1>1. RequestOK(q)
  BY DEF OnBehalf
<1>2. \A q1, o : /\ Head(a) # GetPool(o) /\ Head(a) # Resolve(q1) /\ Head(a) # List(q1)
                 /\ Head(a) # Fetch(q1) /\ Head(a) # Log(o)
  BY DoesChange
<1>3. q.spec \subseteq Prefix \/ q.spec \subseteq Vrf \/ q.spec \subseteq Pool \/ q.spec \subseteq Asn
  BY <1>1, Kinds DEF RequestOK, Operations
<1>4. Sweeps(q) => q.within \subseteq Prefix
  BY <1>1 DEF RequestOK
<1>5. CASE BeforeInsert(q, listed, a, e)
  <2>1. CASE a = <<GetPool(q.pool), Insert(q), Fetch(q), Logs>>
    BY <1>2, <2>1, Agendas
  <2>2. CASE a = <<Insert(q), Fetch(q), Logs>>
    BY <1>5, <2>2, Agendas DEF BeforeInsert
  <2> QED
    BY <1>5, <2>1, <2>2 DEF BeforeInsert
<1>6. CASE BeforeFetch(q, listed, a, e) \/ BeforeVrfList(q, listed, a, e)
  <2>1. ~ BeforeFetch(q, listed, a, e)
    BY <1>2, Agendas DEF BeforeFetch
  <2>2. ~ BeforeVrfList(q, listed, a, e)
    BY <1>2, Agendas DEF BeforeVrfList
  <2> QED
    BY <1>6, <2>1, <2>2
<1>7. CASE BeforeEditList(q, listed, a, e)
  <2>1. CASE a = <<GetPool(q.pool), List(q), Update(q), Logs>>
    BY <1>2, <2>1, Agendas
  <2>2. CASE a = <<List(q), Update(q), Logs>>
    BY <1>2, <2>2, Agendas
  <2> QED
    BY <1>7, <2>1, <2>2 DEF BeforeEditList
<1>8. CASE BeforeUpdate(q, listed, a, e)
  BY <1>8, Agendas DEF BeforeUpdate
<1>9. CASE BeforeList(q, listed, a, e)
  <2>1. CASE a = <<Resolve(q), List(q), Delete(q.spec), Logs>>
    BY <1>2, <2>1, Agendas
  <2>2. CASE a = <<List(q), Delete(q.spec), Logs>>
    BY <1>2, <2>2, Agendas
  <2>3. CASE a = <<Resolve(q), List(q), Delete(q.within \cap Host), Delete(q.within), Logs>>
    BY <1>2, <2>3, Agendas
  <2>4. CASE a = <<List(q), Delete(q.within \cap Host), Delete(q.within), Logs>>
    BY <1>2, <2>4, Agendas
  <2> QED
    BY <1>9, <2>1, <2>2, <2>3, <2>4 DEF BeforeList
<1>10. CASE BeforeHosts(q, listed, a, e)
  <2>1. Head(a) = Delete(q.within \cap Host)
    BY <1>10, Agendas DEF BeforeHosts
  <2>2. q.within \cap Host \subseteq Prefix
    BY <1>4, <1>10 DEF BeforeHosts
  <2> QED
    BY <2>1, <2>2
<1>11. CASE BeforeDelete(q, listed, a, e)
  <2>1. CASE a = <<Delete(q.spec), Logs>>
    <3>1. Head(a) = Delete(q.spec)
      BY <2>1, Agendas
    <3> QED
      BY <1>3, <3>1
  <2>2. CASE Sweeps(q) /\ a = <<Delete(q.within), Logs>>
    <3>1. Head(a) = Delete(q.within)
      BY <2>2, Agendas
    <3> QED
      BY <1>4, <2>2, <3>1
  <2> QED
    BY <1>11, <2>1, <2>2 DEF BeforeDelete
<1>12. ~ Logging(q, listed, a, e)
  <2>1. Logging(q, listed, a, e) => \E c, o : Head(a) = Log(c) \/ Head(a) = GetPool(o)
    BY LoggingHead
  <2> QED
    BY <1>2, <2>1
<1>13. ~ Emptying(q, listed, a, e) /\ ~ Logged(q, listed, a, e)
  BY EmptyingHead DEF Logged, IsData
<1> QED
  BY <1>5, <1>6, <1>7, <1>8, <1>9, <1>10, <1>11, <1>12, <1>13 DEF Stage

LEMMA RunData ==
  ASSUME NEW q, NEW listed, NEW a, NEW e, NEW f, Ran(q, listed, a, e, f), Stage(q, listed, a, e)
  PROVE  DataOK'
<1>1. CASE ~ IsChange(Head(a))
  <2>1. rows' = rows /\ poolOf' = poolOf
    BY <1>1, RanRead
  <2> QED
    BY <2>1 DEF Ran, DataOK
<1>2. CASE IsChange(Head(a))
  <2>1. /\ DataOK /\ RequestOK(q) /\ OnBehalf(q, e) /\ a # <<>> /\ IsData(Head(a)) /\ ~ MustRefuse(Head(a))
        /\ rows' = RowsAfter(Head(a)) /\ poolOf' = PoolsAfter(Head(a))
    BY DEF Ran, OnBehalf
  <2>2. CASE q.op \in Adds /\ Head(a) = Insert(q)
    BY <2>1, <2>2, InsertData
  <2>3. CASE Head(a) = Update(q)
    BY <2>1, <2>3, UpdateData
  <2>4. ASSUME NEW D, Head(a) = Delete(D),
               D \subseteq Prefix \/ D \subseteq Vrf \/ D \subseteq Pool \/ D \subseteq Asn
        PROVE  DataOK'
    BY <2>1, <2>4, DeleteData
  <2> QED
    BY <1>2, <2>1, <2>2, <2>3, <2>4, ChangesAre
<1> QED
  BY <1>1, <1>2

\* A step for a request: it is as far as its stack says, or has been answered.
LEMMA OwnStep ==
  ASSUME LogInv, NEW p \in Process,
         \A p1 \in Process : p1 # p => stack'[p1] = stack[p1] /\ status'[p1] = status[p1],
         DataOK', InRequest(p), NEW r, r = RequestOf(p),
         IsSequence(ledger'), DOMAIN ledger' = DOMAIN ledger,
         \A i \in DOMAIN ledger : i # r => Beside(ledger[i], ledger'[i]),
         NEW f, f = ledger'[r], RecordOK(f), NEW s, s = stack'[p],
         s # <<>> => Head(s).call = "request" /\ Head(s).r = r /\ \E n \in {1, 2} : AtWork(s, n, f)'
  PROVE  LogInv'
<1>1. r \in DOMAIN ledger
  BY DEF LogInv, WorkOK
<1>2. OthersBeside(p)
  BY DEF OthersBeside, Mine
<1>3. \A i \in DOMAIN ledger' : i \notin DOMAIN ledger \/ Mine(p, i) => RecordOK(ledger'[i])
  BY DEF Mine
<1>4. OwnWork(p, s)
  BY <1>1 DEF OwnWork, Mine
<1> QED
  BY <1>2, <1>3, <1>4, WorkStep

\* A step that leaves the rows alone, and no more than answers its own request.
LEMMA QuietStep ==
  ASSUME LogInv, NEW p \in Process,
         \A p1 \in Process : p1 # p => stack'[p1] = stack[p1] /\ status'[p1] = status[p1],
         UNCHANGED <<rows, poolOf>>, InRequest(p), NEW r, r = RequestOf(p),
         SameBut(ledger, r, ledger'), NEW e, e = ledger[r],
         NEW f, f = ledger'[r], SameWork(e, f), e.lost => f.lost, RecordOK(f),
         NEW s, s = stack'[p],
         s # <<>> => /\ Head(s).call = "request" /\ Head(s).r = r /\ f.answer = e.answer
                     /\ \E n \in {1, 2} : AtWork(s, n, e)
  PROVE  LogInv'
<1>1. DataOK'
  BY DEF LogInv, DataOK
<1>2. \A i \in DOMAIN ledger : i # r => Beside(ledger[i], ledger'[i])
  BY DEF SameBut, Beside
<1>3. IsSequence(ledger') /\ DOMAIN ledger' = DOMAIN ledger
  BY DEF SameBut
<1>4. ASSUME s # <<>>
      PROVE  \E n \in {1, 2} : AtWork(s, n, f)'
  <2>1. PICK n \in {1, 2} : AtWork(s, n, e)
    BY <1>4
  <2>2. Stayed(e, f)
    BY <1>4 DEF Stayed, SameWork
  <2>3. AtWork(s, n, f)'
    BY <2>1, <2>2, StayedWork
  <2> QED
    BY <2>3
<1> QED
  BY <1>1, <1>2, <1>3, <1>4, OwnStep

\* What happens to a record that may no longer be answered but as it is.
LEMMA StaysTrue ==
  ASSUME NEW e, NEW f, RecordOK(e), SameWork(e, f), e.lost => f.lost,
         f.answer \in {e.answer, "error", "none"}
  PROVE  RecordOK(f)
BY DEF RecordOK, SameWork, NamedOf

-----------------------------------------------------------------------------
(* The stack of a worker that serves a request goes on.                    *)

\* What lies on top of it.
LEMMA OnTopOfWork ==
  ASSUME NEW s, NEW n \in {1, 2}, Frames(s, n), Rests(s)
  PROVE  /\ Len(s) \in Nat \ {0} /\ s # <<>> /\ Last(s) = s[Len(s)] /\ Len(s) >= n
         /\ Last(s).call = "request" <=> Len(s) = n
         /\ IsStatement(Last(s)) => Len(s) = n + 1
         /\ ~ IsStatement(Last(s)) /\ Last(s).call # "request" => Len(s) > n + 1
         /\ Head(s) = s[1] /\ Head(s).call = "request" /\ Head(s).r = s[n].r
<1>1. Len(s) \in Nat /\ Len(s) >= n /\ s # <<>>
  BY Lists, DomainIs DEF Frames
<1>2. Len(s) \in Nat \ {0} /\ Last(s) = s[Len(s)] /\ Head(s) = s[1]
  BY <1>1, LastAndFront, TailIs DEF Frames
<1>3. Len(s) \in 1 .. Len(s) /\ 1 \in 1 .. Len(s) /\ n \in 1 .. n /\ 1 <= n
  BY <1>1, <1>2
<1>4. Last(s).call = "request" <=> Len(s) <= n
  BY <1>2, <1>3 DEF Frames
<1>5. Head(s).call = "request" /\ Head(s).r = s[n].r
  BY <1>2, <1>3 DEF Frames
<1>6. ASSUME IsStatement(Last(s)) PROVE Len(s) = n + 1
  <2>1. Len(s) > 1 /\ s[Len(s) - 1].call = "request"
    BY <1>2, <1>3, <1>6 DEF Rests
  <2>2. Len(s) - 1 \in 1 .. Len(s)
    BY <1>2, <2>1
  <2>3. Len(s) - 1 <= n
    BY <2>1, <2>2 DEF Frames
  <2>4. ~ (Len(s) <= n)
    BY <1>4, <1>6 DEF IsStatement
  <2> QED
    BY <1>2, <2>3, <2>4
<1>7. Len(s) = n + 1 => IsStatement(Last(s))
  BY <1>1, <1>2 DEF Frames
<1> QED
  BY <1>1, <1>2, <1>4, <1>5, <1>6, <1>7

LEMMA WaitsOn ==
  ASSUME NEW s, NEW n \in {1, 2}, NEW e, AtWork(s, n, e), Len(s) > n,
         NEW t, IsSequence(t), Len(t) \in Nat, Len(t) > n, \A i \in 1 .. n : t[i] = s[i],
         IsStatement(t[n + 1]), t[n + 1].stmt = s[n + 1].stmt,
         \A i \in 1 .. Len(t) : i > n => t[i].call # "request"
  PROVE  AtWork(t, n, e)
<1>1. Frames(s, n) /\ Len(s) \in Nat
  BY DomainIs DEF AtWork, Frames
<1>2. Frames(t, n)
  <2>1. \A i \in 1 .. n : i \in 1 .. Len(s) /\ i <= n /\ s[i].call = "request"
    BY <1>1 DEF Frames
  <2>2. \A i \in 1 .. Len(t) : t[i].call = "request" <=> i <= n
    <3> TAKE i \in 1 .. Len(t)
    <3>1. i <= n => i \in 1 .. n
      OBVIOUS
    <3>2. i <= n \/ i > n
      OBVIOUS
    <3> QED
      BY <2>1, <3>1, <3>2
  <2>3. 1 \in 1 .. n
    OBVIOUS
  <2>4. \A i \in 1 .. n : t[i].r = t[1].r /\ IsSequence(t[i].todo)
    BY <1>1, <2>3 DEF Frames
  <2>5. n = 2 => Sweeps(t[2].q)
    BY <1>1 DEF Frames
  <2> QED
    BY <2>2, <2>4, <2>5, SMTT(30) DEF Frames
<1>3. ASSUME NEW i \in 1 .. n
      PROVE  Agenda(t, i) = Agenda(s, i)
  <2>1. Len(s) # i /\ Len(t) # i /\ t[i] = s[i]
    BY <1>1
  <2>2. Item(t[i + 1]) = Item(s[i + 1])
    <3>1. CASE i = n
      <4>1. n + 1 \in 1 .. Len(s) /\ ~ (n + 1 <= n)
        BY <1>1
      <4>2. s[n + 1].call # "request" /\ t[n + 1].call # "request"
        BY <1>1, <4>1 DEF Frames, IsStatement
      <4> QED
        BY <3>1, <4>2 DEF Item
    <3>2. CASE i # n
      <4>1. i + 1 \in 1 .. n
        BY <3>2
      <4> QED
        BY <4>1
    <3> QED
      BY <3>1, <3>2
  <2> QED
    BY <2>1, <2>2 DEF Agenda
<1>4. t[1] = s[1]
  OBVIOUS
<1> QED
  BY <1>2, <1>3, <1>4 DEF AtWork

\* The connection is opened again, and what has been sent before is sent once more.
Again(top, under, t) ==
  \/ t = under /\ ~ IsStatement(top)
  \/ \E f, g : /\ t = under \o <<f, g>> /\ f.call # "request" /\ g.call # "request"
               /\ IsStatement(top) => IsStatement(f) /\ f.stmt = top.stmt

LEMMA KeepsWork ==
  ASSUME NEW s, NEW n \in {1, 2}, NEW e, AtWork(s, n, e), Rests(s),
         NEW top, top = Last(s), top.call # "request", NEW under, under = Front(s),
         NEW t, Again(top, under, t)
  PROVE  /\ AtWork(t, n, e) /\ t[1] = s[1]
         /\ Len(s) > n /\ Len(t) > n /\ t[n + 1].stmt = s[n + 1].stmt
<1>1. Frames(s, n) /\ IsSequence(s)
  BY DEF AtWork, Frames
<1>2. /\ Len(s) \in Nat \ {0} /\ s # <<>> /\ Last(s) = s[Len(s)] /\ Len(s) > n
      /\ IsStatement(top) => Len(s) = n + 1
      /\ ~ IsStatement(top) => Len(s) > n + 1
  <2>1. /\ Len(s) \in Nat \ {0} /\ s # <<>> /\ Last(s) = s[Len(s)] /\ Len(s) >= n
        /\ Last(s).call = "request" <=> Len(s) = n
        /\ IsStatement(Last(s)) => Len(s) = n + 1
        /\ ~ IsStatement(Last(s)) /\ Last(s).call # "request" => Len(s) > n + 1
    BY <1>1, OnTopOfWork
  <2>2. Len(s) > n
    BY <2>1
  <2> QED
    BY <2>1, <2>2
<1>3. IsSequence(under) /\ Len(under) = Len(s) - 1 /\ \A i \in 1 .. Len(s) - 1 : under[i] = s[i]
  BY <1>1, <1>2, LastAndFront
<1>4. \A i \in 1 .. Len(s) : i > n => s[i].call # "request"
  BY <1>1, <1>2 DEF Frames
<1>5. /\ \A i \in 1 .. n : i \in 1 .. Len(s) - 1
      /\ IsStatement(s[n + 1])
  BY <1>1, <1>2 DEF Frames
<1>6. CASE t = under /\ ~ IsStatement(top)
  <2>1. n + 1 \in 1 .. Len(s) - 1 /\ \A i \in 1 .. Len(t) : i \in 1 .. Len(s) - 1 /\ i \in 1 .. Len(s)
    BY <1>2, <1>3, <1>6
  <2>2. IsSequence(t) /\ Len(t) \in Nat /\ Len(t) > n
    BY <1>2, <1>3, <1>6
  <2>3. \A i \in 1 .. Len(t) : t[i] = s[i]
    BY <1>3, <1>6, <2>1
  <2>4. IsStatement(t[n + 1]) /\ t[n + 1].stmt = s[n + 1].stmt /\ \A i \in 1 .. n : t[i] = s[i]
    BY <1>3, <1>5, <1>6, <2>1
  <2>5. \A i \in 1 .. Len(t) : i > n => t[i].call # "request"
    BY <1>4, <2>1, <2>3
  <2>6. AtWork(t, n, e)
    BY <1>2, <2>2, <2>4, <2>5, WaitsOn
  <2>7. 1 \in 1 .. n
    OBVIOUS
  <2> QED
    BY <1>2, <2>2, <2>4, <2>6, <2>7
<1>7. ASSUME NEW f, NEW g, t = under \o <<f, g>>, f.call # "request", g.call # "request",
             IsStatement(top) => IsStatement(f) /\ f.stmt = top.stmt
      PROVE  /\ AtWork(t, n, e) /\ t[1] = s[1]
             /\ Len(s) > n /\ Len(t) > n /\ t[n + 1].stmt = s[n + 1].stmt
  <2> DEFINE two == <<f, g>>
  <2>1. IsSequence(two) /\ Len(two) = 2 /\ two[1] = f /\ two[2] = g
    BY Lists
  <2>2. t = under \o two
    BY <1>7
  <2> HIDE DEF two
  <2>0. IsSequence(under) /\ IsSequence(two)
    BY <1>3, <2>1
  <2>3. /\ IsSequence(t) /\ Len(t) = Len(under) + Len(two)
        /\ \A i \in 1 .. Len(under) : t[i] = under[i]
        /\ \A i \in 1 .. Len(two) : t[Len(under) + i] = two[i]
    BY ONLY <2>0, <2>2, Joins
  <2>4. /\ Len(t) = Len(s) + 1 /\ Len(t) \in Nat /\ Len(t) > n
        /\ \A i \in 1 .. Len(s) - 1 : t[i] = s[i]
    BY <1>2, <1>3, <2>1, <2>3
  <2>5. t[Len(s)] = f /\ t[Len(s) + 1] = g
    <3>1. Len(under) + 1 = Len(s) /\ Len(under) + 2 = Len(s) + 1 /\ 1 \in 1 .. Len(two) /\ 2 \in 1 .. Len(two)
      BY <1>2, <1>3, <2>1
    <3> QED
      BY <2>1, <2>3, <3>1
  <2>6. \A i \in 1 .. Len(t) : i > n => t[i].call # "request"
    <3> SUFFICES ASSUME NEW i \in 1 .. Len(t), i > n PROVE t[i].call # "request"
      OBVIOUS
    <3>1. CASE i \in 1 .. Len(s) - 1
      <4>1. i \in 1 .. Len(s)
        BY <1>2, <3>1
      <4> QED
        BY <1>4, <2>4, <3>1, <4>1
    <3>2. CASE i \notin 1 .. Len(s) - 1
      <4>1. i = Len(s) \/ i = Len(s) + 1
        BY <1>2, <2>4, <3>2
      <4> QED
        BY <1>7, <2>5, <4>1
    <3> QED
      BY <3>1, <3>2
  <2>7. IsStatement(t[n + 1]) /\ t[n + 1].stmt = s[n + 1].stmt
    <3>1. CASE IsStatement(top)
      <4>1. Len(s) = n + 1
        BY <1>2, <3>1
      <4> QED
        BY <1>2, <1>7, <2>5, <3>1, <4>1
    <3>2. CASE ~ IsStatement(top)
      <4>1. n + 1 \in 1 .. Len(s) - 1
        BY <1>2, <3>2
      <4> QED
        BY <1>5, <2>4, <4>1
    <3> QED
      BY <3>1, <3>2
  <2>8. \A i \in 1 .. n : t[i] = s[i]
    BY <1>5, <2>4
  <2>9. IsSequence(t) /\ Len(t) \in Nat /\ Len(t) > n /\ Len(s) > n
    BY <1>2, <2>3, <2>4
  <2>10. AtWork(t, n, e)
    BY <2>6, <2>7, <2>8, <2>9, WaitsOn
  <2>11. 1 \in 1 .. n
    OBVIOUS
  <2> QED
    BY <2>7, <2>8, <2>9, <2>10, <2>11
<1> QED
  BY <1>6, <1>7 DEF Again

\* Where the calls and the state of a process go.
LEMMA Moves ==
  ASSUME ConnInv, NEW p \in Process
  PROVE  /\ \A calls : Goes(p, calls) =>
              /\ stack'[p] = calls
              /\ status'[p] = IF calls = <<>> /\ status[p] = "starting" THEN "up" ELSE status[p]
         /\ Raises(p) => stack'[p] = <<>>
         /\ \A calls : Calls(p, calls) =>
              \/ stack'[p] = <<>>
              \/ stack'[p] = calls
                 /\ status'[p] = IF calls = <<>> /\ status[p] = "starting" THEN "up" ELSE status[p]
<1>1. /\ stack = [q \in Process |-> stack[q]]
      /\ status \in [Process -> {"down", "starting", "up", "failed"}]
  BY DEF ConnInv, StacksOK, StatusOK
<1>2. ASSUME NEW calls, Goes(p, calls)
      PROVE  /\ stack'[p] = calls
             /\ status'[p] = IF calls = <<>> /\ status[p] = "starting" THEN "up" ELSE status[p]
  <2>1. stack'[p] = calls
    BY <1>1, <1>2 DEF Goes
  <2>2. status'[p] = IF calls = <<>> /\ status[p] = "starting" THEN "up" ELSE status[p]
    BY <1>1, <1>2 DEF Goes
  <2> QED
    BY <2>1, <2>2
<1>3. Raises(p) => stack'[p] = <<>>
  BY <1>1 DEF Raises
<1> QED
  BY <1>2, <1>3 DEF Calls

\* A start stays one until it is over.
LEMMA StartsOn ==
  ASSUME ConnInv, NEW p \in Process, Proceed(p) \/ OpenFails(p) \/ LoseScript(p), status[p] = "starting"
  PROVE  status'[p] = "starting" \/ stack'[p] = <<>>
<1>1. \A calls : Goes(p, calls) \/ Calls(p, calls) \/ Raises(p) => status'[p] = "starting" \/ stack'[p] = <<>>
  BY Moves
<1>2. Retry(p) => status'[p] = "starting" \/ stack'[p] = <<>>
  BY <1>1 DEF Retry
<1> QED
  BY <1>1, <1>2 DEF Proceed, Open, Check, PlanUpgrade, NextScript, ReadVersion, RunScript, FindDead,
                    OpenFails, LoseScript, Loses

\* Meanwhile a worker does nothing but connect.
LEMMA ConnectsAgain ==
  ASSUME ConnInv, NEW p \in Process, InRequest(p),
         Proceed(p) \/ OpenFails(p) \/ Loses(p),
         NEW top, top = Top(p), NEW under, under = Under(p), NEW t, t = stack'[p]
  PROVE  top.call # "request" /\ (t = <<>> \/ Again(top, under, t))
<1>1. /\ stack[p] # <<>> /\ Sounds(p, status[p], stack[p]) /\ IsSequence(stack[p])
      /\ Head(stack[p]).call = "request" /\ StacksOK
  BY DEF InRequest, ConnInv, StacksOK, Sounds
<1>2. p \notin Daemon /\ status[p] # "starting"
  <2>1. 1 \in 1 .. Len(stack[p]) /\ Head(stack[p]) = stack[p][1]
    BY <1>1, LastAndFront, TailIs
  <2> QED
    BY <1>1, <2>1 DEF Sounds, Sound
<1>3. Sound(p, status[p], top)
  BY <1>1, TopIs
<1>4. \/ top.call = "connect"
      \/ top.call = "execute" /\ (top.stmt = Version \/ top.stmt.do \in Data)
      \/ top.call = "request"
  BY <1>2, <1>3 DEF Sound
<1>5. /\ \A calls : Goes(p, calls) => t = calls
      /\ Raises(p) => t = <<>>
      /\ \A calls : Calls(p, calls) => t = <<>> \/ t = calls
  BY Moves
<1>6. /\ Checking.call # "request" /\ Connect.call # "request"
      /\ \A stmt, callno : Execute(stmt, callno).call # "request"
  BY CallsAre
<1>7. CASE Open(p)
  <2>1. top.call = "connect"
    BY <1>7 DEF Open, IsAt, IsCall, Top
  <2>2. t = <<>> \/ t = under \o <<Checking, Execute(Version, 0)>>
    BY <1>2, <1>5, <1>7 DEF Open
  <2> QED
    BY <1>6, <2>1, <2>2 DEF IsStatement, Again
<1>8. CASE Check(p)
  <2>1. top.call = "connect"
    BY <1>8 DEF Check, IsAt, IsCall, Top
  <2>2. t = <<>> \/ t = under
    BY <1>2, <1>5, <1>8 DEF Check
  <2> QED
    BY <2>1, <2>2 DEF IsStatement, Again
<1>9. CASE PlanUpgrade(p) \/ NextScript(p)
  BY <1>4, <1>9 DEF PlanUpgrade, NextScript, IsCall, Top
<1>10. CASE ReadVersion(p)
  <2>1. top.call = "execute" /\ top.stmt.do = "version"
    BY <1>10 DEF ReadVersion, IsCall, Top
  <2>2. t = under
    BY <1>5, <1>10 DEF ReadVersion
  <2> QED
    BY <2>1, <2>2 DEF IsStatement, Data, Again
<1>11. CASE RunScript(p)
  BY <1>4, <1>11, ScriptsAre DEF RunScript, IsCall, Top
<1>12. CASE FindDead(p) \/ Loses(p)
  <2>1. top.call = "execute" /\ Retry(p)
    BY <1>12 DEF FindDead, Loses, IsCall, Top
  <2>2. t = <<>> \/ t = under \o <<Execute(top.stmt, 1), Connect>>
    BY <1>5, <2>1 DEF Retry
  <2>3. Execute(top.stmt, 1).stmt = top.stmt /\ Execute(top.stmt, 1).call = "execute"
    BY CallsAre
  <2> QED
    BY <1>6, <2>1, <2>2, <2>3 DEF IsStatement, Again
<1>13. CASE OpenFails(p)
  <2>1. top.call = "connect" /\ t = <<>>
    BY <1>5, <1>13 DEF OpenFails, IsAt, IsCall, Top
  <2> QED
    BY <2>1
<1> QED
  BY <1>7, <1>8, <1>9, <1>10, <1>11, <1>12, <1>13 DEF Proceed

LEMMA ClosedIs ==
  ASSUME NEW p, InRequest(p), NEW book, IsSequence(book), NEW r \in DOMAIN book, r = RequestOf(p),
         NEW b, b = Closed(book, p)
  PROVE  /\ SameBut(book, r, b) /\ SameWork(book[r], b[r]) /\ b[r].lost = book[r].lost
         /\ b[r].answer = IF stack'[p] = <<>> THEN "error" ELSE book[r].answer
<1>1. CASE stack'[p] = <<>>
  <2>1. b = Answered(book, p, "error")
    BY <1>1 DEF Closed
  <2> QED
    BY <1>1, <2>1, AnsweredIs
<1>2. CASE stack'[p] # <<>>
  <2>1. b = book
    BY <1>2 DEF Closed
  <2> QED
    BY <1>2, <2>1 DEF SameBut, SameWork
<1> QED
  BY <1>1, <1>2

LEMMA HeadOfWork ==
  ASSUME NEW s, NEW n \in {1, 2}, Frames(s, n)
  PROVE  s # <<>> /\ Head(s) = s[1] /\ s[1].call = "request" /\ s[1].r = s[n].r
<1>1. Len(s) \in Nat /\ Len(s) >= n /\ s # <<>>
  BY Lists, DomainIs DEF Frames
<1>2. Head(s) = s[1]
  BY <1>1, TailIs DEF Frames
<1>3. 1 \in 1 .. Len(s) /\ 1 \in 1 .. n /\ n \in 1 .. n /\ 1 <= n
  BY <1>1
<1> QED
  BY <1>1, <1>2, <1>3 DEF Frames

\* The request of a worker, and how far it is.
LEMMA WorkIs ==
  ASSUME LogInv, ConnInv, NEW p \in Process, InRequest(p),
         NEW r, r = RequestOf(p), NEW e, e = ledger[r], NEW s, s = stack[p]
  PROVE  /\ r \in DOMAIN ledger /\ IsSequence(ledger) /\ RecordOK(e) /\ DataOK
         /\ IsSequence(s) /\ Rests(s) /\ Sounds(p, status[p], s) /\ s # <<>> /\ s[1].r = r
         /\ \E n \in {1, 2} : AtWork(s, n, e)
<1>1. r \in DOMAIN ledger /\ \E n \in {1, 2} : AtWork(s, n, e)
  BY DEF LogInv, WorkOK
<1>2. IsSequence(ledger) /\ RecordOK(e) /\ DataOK
  BY <1>1 DEF LogInv, BookOK
<1>3. IsSequence(s) /\ Rests(s) /\ Sounds(p, status[p], s)
  BY DEF ConnInv, StacksOK, Sounds
<1>4. s # <<>> /\ s[1].r = r
  <2>1. PICK n \in {1, 2} : AtWork(s, n, e)
    BY <1>1
  <2>2. s # <<>> /\ Head(s) = s[1]
    BY <2>1, HeadOfWork DEF AtWork
  <2> QED
    BY <2>2 DEF RequestOf
<1> QED
  BY <1>1, <1>2, <1>3, <1>4

\* The worker connects again, or gives its request up.
LEMMA ReconnectStep ==
  ASSUME LogInv, ConnInv, NEW p \in Process, InRequest(p),
         \A p1 \in Process : p1 # p => stack'[p1] = stack[p1] /\ status'[p1] = status[p1],
         Proceed(p) \/ OpenFails(p) \/ Loses(p), UNCHANGED <<rows, poolOf>>,
         ledger' = Closed(ledger, p) \/ ledger' = Closed(MarkLost(ledger, p), p)
  PROVE  LogInv'
<1>0. PICK r, e, f, s, t, top, under :
         /\ r = RequestOf(p) /\ e = ledger[r] /\ f = ledger'[r] /\ s = stack[p] /\ t = stack'[p]
         /\ top = Top(p) /\ under = Under(p)
  OBVIOUS
<1>1. /\ r \in DOMAIN ledger /\ IsSequence(ledger) /\ RecordOK(e) /\ Rests(s) /\ s[1].r = r
      /\ \E n \in {1, 2} : AtWork(s, n, e)
  BY <1>0, WorkIs
<1>2. PICK n \in {1, 2} : AtWork(s, n, e)
  BY <1>1
<1>3. top.call # "request" /\ (t = <<>> \/ Again(top, under, t))
  BY <1>0, ConnectsAgain
<1>4. top = Last(s) /\ under = Front(s)
  BY <1>0 DEF Top, Under
<1>5. t # <<>> => AtWork(t, n, e) /\ t[1] = s[1]
  BY <1>1, <1>2, <1>3, <1>4, KeepsWork
<1>6. t # <<>> => Head(t).call = "request" /\ Head(t).r = r
  BY <1>1, <1>5, HeadOfWork DEF AtWork
<1>7. /\ SameBut(ledger, r, ledger') /\ SameWork(e, f) /\ (e.lost => f.lost)
      /\ f.answer = IF t = <<>> THEN "error" ELSE e.answer
  <2>1. CASE ledger' = Closed(ledger, p)
    BY <1>0, <1>1, <2>1, ClosedIs
  <2>2. CASE ledger' = Closed(MarkLost(ledger, p), p)
    <3> DEFINE b == MarkLost(ledger, p)
    <3>1. /\ SameBut(ledger, r, b) /\ SameWork(ledger[r], b[r])
          /\ b[r].lost /\ b[r].answer = ledger[r].answer
      BY <1>0, <1>1, LostIs
    <3>2. ledger' = Closed(b, p)
      BY <2>2
    <3> HIDE DEF b
    <3>3. IsSequence(b) /\ r \in DOMAIN b
      BY <1>1, <3>1 DEF SameBut
    <3>4. /\ SameBut(b, r, ledger') /\ SameWork(b[r], f) /\ f.lost = b[r].lost
          /\ f.answer = IF stack'[p] = <<>> THEN "error" ELSE b[r].answer
      BY <1>0, <3>2, <3>3, ClosedIs
    <3>5. SameBut(ledger, r, ledger')
      BY <3>1, <3>4, SameButTwice
    <3> QED
      BY <1>0, <3>1, <3>4, <3>5 DEF SameWork
  <2> QED
    BY <2>1, <2>2
<1>8. RecordOK(f)
  BY <1>1, <1>7, StaysTrue
<1> QED
  BY <1>0, <1>5, <1>6, <1>7, <1>8, QuietStep

-----------------------------------------------------------------------------
(* The statement of a request is committed.                                *)

\* Only the removal of a VRF calls.
LEMMA CallBelow ==
  ASSUME NEW q, NEW listed, NEW a, NEW e, Stage(q, listed, a, e), a # <<>>, Head(a).do = "call"
  PROVE  Emptying(q, listed, a, e)
<1>1. ~ IsData(Head(a))
  BY DEF IsData
<1>2. ~ Logging(q, listed, a, e)
  <2>1. \A done : LogsAt(done).do # "call"
    BY DEF LogsAt
  <2> QED
    BY <1>1, <2>1, LogsHead
<1> QED
  BY <1>1, <1>2, DataFirst DEF Stage, Logged

\* What is on the agenda of a request with a statement or a call on top of it.
LEMMA AgendaIs ==
  ASSUME NEW s, NEW n \in {1, 2}, Frames(s, n)
  PROVE  /\ Len(s) = n => Agenda(s, n) = s[n].todo
         /\ Len(s) > n => /\ Agenda(s, n) = <<s[n + 1].stmt>> \o s[n].todo /\ Agenda(s, n) # <<>>
                          /\ Head(Agenda(s, n)) = s[n + 1].stmt /\ Tail(Agenda(s, n)) = s[n].todo
                          /\ IsData(s[n + 1].stmt)
         /\ n = 2 => /\ Agenda(s, 1) = <<Calling(s[2].q)>> \o s[1].todo /\ Agenda(s, 1) # <<>>
                     /\ Head(Agenda(s, 1)) = Calling(s[2].q) /\ Tail(Agenda(s, 1)) = s[1].todo
<1>1. Len(s) \in Nat /\ Len(s) >= n
  BY DomainIs DEF Frames
<1>2. ASSUME Len(s) > n
      PROVE  /\ Agenda(s, n) = <<s[n + 1].stmt>> \o s[n].todo /\ Agenda(s, n) # <<>>
             /\ Head(Agenda(s, n)) = s[n + 1].stmt /\ Tail(Agenda(s, n)) = s[n].todo
             /\ IsData(s[n + 1].stmt)
  <2>1. IsStatement(s[n + 1]) /\ IsSequence(s[n].todo)
    BY <1>2 DEF Frames
  <2>2. Item(s[n + 1]) = s[n + 1].stmt /\ IsData(s[n + 1].stmt)
    BY <2>1, ScriptsAre DEF IsStatement, Item
  <2>3. Agenda(s, n) = <<s[n + 1].stmt>> \o s[n].todo
    BY <1>1, <1>2, <2>2 DEF Agenda
  <2> QED
    BY <2>1, <2>2, <2>3, OnTopOf
<1>3. ASSUME n = 2
      PROVE  /\ Agenda(s, 1) = <<Calling(s[2].q)>> \o s[1].todo /\ Agenda(s, 1) # <<>>
             /\ Head(Agenda(s, 1)) = Calling(s[2].q) /\ Tail(Agenda(s, 1)) = s[1].todo
  <2>0. n = 2
    BY <1>3
  <2>1. 2 \in 1 .. Len(s) /\ 2 <= n /\ 1 \in 1 .. n /\ Len(s) # 1
    BY ONLY <1>1, <2>0
  <2>2. s[2].call = "request" /\ IsSequence(s[1].todo)
    BY <2>1 DEF Frames
  <2>3. Item(s[1 + 1]) = Calling(s[2].q)
    BY <2>2 DEF Item
  <2>4. Agenda(s, 1) = <<Calling(s[2].q)>> \o s[1].todo
    BY <2>1, <2>3 DEF Agenda
  <2> QED
    BY <2>2, <2>4, OnTopOf
<1>4. Len(s) = n => Agenda(s, n) = s[n].todo
  BY DEF Agenda
<1> QED
  BY <1>2, <1>3, <1>4

LEMMA WorkRan ==
  ASSUME NEW s, NEW n \in {1, 2}, NEW e, AtWork(s, n, e), Len(s) > n, NEW stmt, stmt = s[n + 1].stmt,
         DataOK, ~ MustRefuse(stmt), rows' = RowsAfter(stmt), poolOf' = PoolsAfter(stmt),
         NEW f, Noted(e, stmt, f)
  PROVE  /\ Ran(s[n].q, s[n].listed, Agenda(s, n), e, f) /\ DataOK'
         /\ \A i \in 1 .. n : OnBehalf(s[i].q, f) /\ ListedOK(s[i].q, s[i].listed)
         /\ n = 2 => Stage(s[1].q, s[1].listed, Agenda(s, 1), f)'
         /\ f.answer = "none" /\ f.q = s[1].q
<1> DEFINE a == Agenda(s, n)
<1>1. a # <<>> /\ Head(a) = stmt /\ IsData(stmt)
  BY AgendaIs DEF AtWork
<1>2. n \in 1 .. n /\ 1 \in 1 .. n
  OBVIOUS
<1>3. OnBehalf(s[n].q, e) /\ ListedOK(s[n].q, s[n].listed) /\ Stage(s[n].q, s[n].listed, a, e)
  BY <1>2 DEF AtWork
<1> HIDE DEF a
<1>4. Ran(s[n].q, s[n].listed, a, e, f)
  BY <1>1, <1>3 DEF Ran
<1>5. DataOK'
  BY <1>3, <1>4, RunData
<1>6. f.q = e.q /\ f.answer = e.answer
  BY DEF Noted
<1>7. \A i \in 1 .. n : OnBehalf(s[i].q, f) /\ ListedOK(s[i].q, s[i].listed)
  BY <1>6 DEF AtWork, OnBehalf
<1>8. f.answer = "none" /\ f.q = s[1].q
  BY <1>6 DEF AtWork
<1>9. ASSUME n = 2
      PROVE  Stage(s[1].q, s[1].listed, Agenda(s, 1), f)'
  <2> DEFINE b == Agenda(s, 1)
  <2>1. b # <<>> /\ Head(b) = Calling(s[2].q) /\ Sweeps(s[2].q)
    BY <1>9, AgendaIs DEF AtWork, Frames
  <2>2. OnBehalf(s[1].q, e) /\ ListedOK(s[1].q, s[1].listed) /\ Stage(s[1].q, s[1].listed, b, e)
    BY <1>2 DEF AtWork
  <2> HIDE DEF b
  <2>3. Emptying(s[1].q, s[1].listed, b, e)
    <3>1. Head(b).do = "call"
      BY <2>1 DEF Calling
    <3> QED
      BY <2>1, <2>2, <3>1, CallBelow
  <2>4. /\ rows' \subseteq rows /\ \A x \in rows : x \notin Prefix => x \in rows'
        /\ \A c \in f.changes : c \in e.changes \/ c.row \in Prefix
        /\ f.crossed = e.crossed
    BY <1>3, <1>4, <1>9, <2>1, SweepStep
  <2>5. RequestOK(s[1].q)
    BY <2>2 DEF OnBehalf
  <2>6. Emptying(s[1].q, s[1].listed, b, f)'
    BY <2>2, <2>3, <2>4, <2>5, OuterStage
  <2>7. Stage(s[1].q, s[1].listed, b, f)'
    BY <2>6 DEF Stage
  <2> QED
    BY <2>7 DEF b
<1> QED
  BY <1>4, <1>5, <1>7, <1>8, <1>9 DEF a

Commits(s, n, e, stmt, f) ==
  /\ n \in {1, 2} /\ AtWork(s, n, e) /\ Len(s) > n /\ stmt = s[n + 1].stmt
  /\ DataOK /\ ~ MustRefuse(stmt) /\ rows' = RowsAfter(stmt) /\ poolOf' = PoolsAfter(stmt)
  /\ Noted(e, stmt, f)

\* The answer is lost: the statement is still to be sent.
LEMMA WorkLost ==
  ASSUME NEW s, NEW n, NEW e, NEW stmt, NEW f, Commits(s, n, e, stmt, f), f.lost
  PROVE  AtWork(s, n, f)'
<1>0. /\ n \in {1, 2} /\ AtWork(s, n, e) /\ Len(s) > n /\ stmt = s[n + 1].stmt
      /\ DataOK /\ ~ MustRefuse(stmt) /\ rows' = RowsAfter(stmt) /\ poolOf' = PoolsAfter(stmt)
      /\ Noted(e, stmt, f)
  BY DEF Commits
<1> USE <1>0
<1>1. /\ Ran(s[n].q, s[n].listed, Agenda(s, n), e, f)
      /\ \A i \in 1 .. n : OnBehalf(s[i].q, f) /\ ListedOK(s[i].q, s[i].listed)
      /\ n = 2 => Stage(s[1].q, s[1].listed, Agenda(s, 1), f)'
      /\ f.answer = "none" /\ f.q = s[1].q
  BY WorkRan
<1>2. Stage(s[n].q, s[n].listed, Agenda(s, n), e)
  <2>1. n \in 1 .. n
    OBVIOUS
  <2> QED
    BY <2>1 DEF AtWork
<1>3. Stage(s[n].q, s[n].listed, Agenda(s, n), f)'
  BY <1>1, <1>2, LostStage
<1>4. \A i \in 1 .. n : Stage(s[i].q, s[i].listed, Agenda(s, i), f)'
  <2>1. \A i \in 1 .. n : i = n \/ (n = 2 /\ i = 1)
    OBVIOUS
  <2> QED
    BY <1>1, <1>3, <2>1
<1>5. Frames(s, n)
  BY DEF AtWork
<1> QED
  BY <1>1, <1>4, <1>5 DEF AtWork

\* The frame of the request itself is on top, and has been changed.
NewTop(s, n, t) ==
  /\ IsSequence(t) /\ Len(t) = n /\ \A i \in 1 .. n - 1 : t[i] = s[i]
  /\ t[n].call = "request" /\ t[n].q = s[n].q /\ t[n].r = s[n].r /\ IsSequence(t[n].todo)

LEMMA NewFrame ==
  ASSUME NEW s, NEW n \in {1, 2}, Frames(s, n), NEW t, NewTop(s, n, t)
  PROVE  /\ Frames(t, n) /\ Agenda(t, n) = t[n].todo /\ t[1].q = s[1].q /\ t[1].r = s[1].r
         /\ n = 2 => Agenda(t, 1) = Agenda(s, 1) /\ t[1] = s[1]
<1>1. Len(s) \in Nat /\ Len(s) >= n
  BY DomainIs DEF Frames
<1>2. \A i \in 1 .. n : i \in 1 .. Len(s) /\ i <= n
  BY <1>1
<1>3. \A i \in 1 .. n : s[i].call = "request" /\ s[i].r = s[1].r /\ IsSequence(s[i].todo)
  BY <1>2 DEF Frames
<1>4. \A i \in 1 .. n : /\ t[i].call = "request" /\ t[i].r = s[i].r /\ t[i].q = s[i].q
                        /\ IsSequence(t[i].todo)
  <2> TAKE i \in 1 .. n
  <2>1. i = n \/ i \in 1 .. n - 1
    OBVIOUS
  <2> QED
    BY <1>3, <2>1 DEF NewTop
<1>5. 1 \in 1 .. n
  OBVIOUS
<1>6. Frames(t, n)
  <2>1. \A i \in 1 .. Len(t) : t[i].call = "request" <=> i <= n
    BY <1>4 DEF NewTop
  <2>2. \A i \in 1 .. n : t[i].r = t[1].r /\ IsSequence(t[i].todo)
    BY <1>3, <1>4, <1>5
  <2>3. n = 2 => Sweeps(t[2].q)
    BY DEF Frames, NewTop
  <2>4. ~ (Len(t) > n) /\ Len(t) >= n /\ IsSequence(t)
    BY DEF NewTop
  <2> QED
    BY <2>1, <2>2, <2>3, <2>4 DEF Frames
<1>7. n = 2 => Agenda(t, 1) = Agenda(s, 1) /\ t[1] = s[1]
  <2> SUFFICES ASSUME n = 2 PROVE Agenda(t, 1) = Agenda(s, 1) /\ t[1] = s[1]
    OBVIOUS
  <2>1. Agenda(t, 1) = <<Calling(t[2].q)>> \o t[1].todo /\ Agenda(s, 1) = <<Calling(s[2].q)>> \o s[1].todo
    BY <1>6, AgendaIs
  <2>2. t[1] = s[1] /\ t[2].q = s[2].q
    <3>1. 1 \in 1 .. n - 1
      OBVIOUS
    <3> QED
      BY <3>1 DEF NewTop
  <2> QED
    BY <2>1, <2>2
<1>8. Agenda(t, n) = t[n].todo
  BY DEF Agenda, NewTop
<1> QED
  BY <1>4, <1>5, <1>6, <1>7, <1>8

\* The answer comes: the request goes on behind the statement.
Resumed(s, n, stmt, t) ==
  NewTop(s, n, t) /\ t[n].todo = s[n].todo /\ t[n].listed = Listed(s[n].listed, stmt)

LEMMA WorkRuns ==
  ASSUME NEW s, NEW n, NEW e, NEW stmt, NEW f, Commits(s, n, e, stmt, f), f.lost = e.lost,
         NEW t, Resumed(s, n, stmt, t)
  PROVE  AtWork(t, n, f)' /\ t[1].r = s[1].r
<1>0. /\ n \in {1, 2} /\ AtWork(s, n, e) /\ Len(s) > n /\ stmt = s[n + 1].stmt
      /\ DataOK /\ ~ MustRefuse(stmt) /\ rows' = RowsAfter(stmt) /\ poolOf' = PoolsAfter(stmt)
      /\ Noted(e, stmt, f) /\ f.lost = e.lost
      /\ NewTop(s, n, t) /\ t[n].todo = s[n].todo /\ t[n].listed = Listed(s[n].listed, stmt)
  BY DEF Commits, Resumed
<1> USE <1>0
<1>1. /\ Ran(s[n].q, s[n].listed, Agenda(s, n), e, f)
      /\ \A i \in 1 .. n : OnBehalf(s[i].q, f) /\ ListedOK(s[i].q, s[i].listed)
      /\ n = 2 => Stage(s[1].q, s[1].listed, Agenda(s, 1), f)'
      /\ f.answer = "none" /\ f.q = s[1].q
  BY WorkRan
<1>2. Stage(s[n].q, s[n].listed, Agenda(s, n), e) /\ IsSequence(s[n].todo) /\ Frames(s, n)
  <2>1. n \in 1 .. n
    OBVIOUS
  <2> QED
    BY <2>1 DEF AtWork, Frames
<1>3. Head(Agenda(s, n)) = stmt /\ Tail(Agenda(s, n)) = s[n].todo
  BY <1>2, AgendaIs
<1>4. Stage(s[n].q, t[n].listed, s[n].todo, f)' /\ ListedOK(s[n].q, t[n].listed)
  <2> DEFINE a == Agenda(s, n)
  <2>1. Ran(s[n].q, s[n].listed, a, e, f) /\ Stage(s[n].q, s[n].listed, a, e)
    BY <1>1, <1>2
  <2>2. Head(a) = stmt /\ Tail(a) = s[n].todo
    BY <1>3
  <2> HIDE DEF a
  <2>3. t[n].listed = Listed(s[n].listed, Head(a))
    BY <2>2
  <2>4. Stage(s[n].q, t[n].listed, Tail(a), f)' /\ ListedOK(s[n].q, t[n].listed)
    BY <2>1, <2>3, RunStage
  <2> QED
    BY <2>2, <2>4
<1>5. /\ Frames(t, n) /\ Agenda(t, n) = t[n].todo /\ t[1].q = s[1].q /\ t[1].r = s[1].r
      /\ n = 2 => Agenda(t, 1) = Agenda(s, 1) /\ t[1] = s[1]
  BY <1>2, NewFrame
<1>6. ASSUME NEW i \in 1 .. n
      PROVE  OnBehalf(t[i].q, f) /\ ListedOK(t[i].q, t[i].listed) /\ Stage(t[i].q, t[i].listed, Agenda(t, i), f)'
  <2>1. CASE i = n
    <3>1. n \in 1 .. n /\ t[n].q = s[n].q
      BY DEF NewTop
    <3> QED
      BY <1>1, <1>4, <1>5, <2>1, <3>1
  <2>2. CASE i # n
    <3>1. i = 1 /\ n = 2
      BY <2>2
    <3> QED
      BY <1>1, <1>5, <3>1
  <2> QED
    BY <2>1, <2>2
<1> QED
  BY <1>1, <1>5, <1>6 DEF AtWork

-----------------------------------------------------------------------------
(* A request goes on to its next statement or call.                        *)

LEMMA HeadAndTail ==
  ASSUME NEW a, IsSequence(a), a # <<>>
  PROVE  <<Head(a)>> \o Tail(a) = a
<1> DEFINE h == Head(a)
           t == Tail(a)
           u == <<h>> \o t
<1>1. IsSequence(t) /\ Len(a) \in Nat \ {0} /\ Len(t) = Len(a) - 1 /\ h = a[1]
      /\ \A i \in 1 .. Len(a) - 1 : t[i] = a[i + 1]
  BY TailIs
<1>2. Len(<<h>>) = 1 /\ <<h>>[1] = h /\ IsSequence(<<h>>)
  BY Lists
<1> HIDE DEF h, t
<1>3. /\ IsSequence(u) /\ Len(u) = Len(<<h>>) + Len(t)
      /\ \A i \in 1 .. Len(<<h>>) : u[i] = <<h>>[i]
      /\ \A i \in 1 .. Len(t) : u[Len(<<h>>) + i] = t[i]
  BY <1>1, <1>2, Joins
<1> HIDE DEF u
<1>4. Len(u) = Len(a) /\ u[1] = a[1] /\ \A i \in 1 .. Len(a) - 1 : u[1 + i] = a[i + 1]
  BY <1>1, <1>2, <1>3
<1>5. \A i \in 1 .. Len(a) : u[i] = a[i]
  <2> SUFFICES ASSUME NEW i \in 1 .. Len(a) PROVE u[i] = a[i]
    OBVIOUS
  <2>1. CASE i = 1
    BY <1>4, <2>1
  <2>2. CASE i # 1
    <3>1. i - 1 \in 1 .. Len(a) - 1 /\ 1 + (i - 1) = i /\ (i - 1) + 1 = i
      BY <1>1, <2>2
    <3> QED
      BY <1>4, <3>1
  <2> QED
    BY <2>1, <2>2
<1>6. PICK S : a \in Seq(S)
  BY DEF IsSequence
<1>7. PICK T : u \in Seq(T)
  BY <1>3 DEF IsSequence
<1>8. a \in Seq(S \cup T) /\ u \in Seq(S \cup T)
  BY <1>6, <1>7
<1>9. u = a
  BY <1>4, <1>5, <1>8, SeqEqual
<1> QED
  BY <1>9 DEF u, h, t

\* Its frame, the last one of b, is replaced by g.
InPlace(s, n, b, g, t) ==
  /\ n \in {1, 2}
  /\ IsSequence(b) /\ Len(b) = n /\ \A i \in 1 .. n : b[i] = s[i]
  /\ g.call = "request" /\ g.q = s[n].q /\ g.r = s[n].r /\ IsSequence(g.todo)
  /\ t = Append(Front(b), g)

LEMMA Topped ==
  ASSUME NEW s, NEW n, NEW b, NEW g, NEW t, InPlace(s, n, b, g, t)
  PROVE  NewTop(s, n, t) /\ t[n] = g
<1> USE DEF InPlace
<1>1. b # <<>>
  BY Lists
<1>2. IsSequence(Front(b)) /\ Len(Front(b)) = n - 1 /\ \A i \in 1 .. n - 1 : Front(b)[i] = b[i]
  BY <1>1, LastAndFront
<1>3. /\ IsSequence(t) /\ Len(t) = Len(Front(b)) + 1
      /\ \A i \in 1 .. Len(Front(b)) : t[i] = Front(b)[i]
      /\ t[Len(Front(b)) + 1] = g
  BY <1>2, OneMore
<1>4. Len(Front(b)) + 1 = n /\ 1 .. Len(Front(b)) = 1 .. n - 1
  BY <1>2
<1>5. IsSequence(t) /\ Len(t) = n /\ t[n] = g
  BY <1>3, <1>4
<1>6. \A i \in 1 .. n - 1 : t[i] = s[i]
  <2>1. \A i \in 1 .. n - 1 : i \in 1 .. n
    OBVIOUS
  <2> QED
    BY <1>2, <1>3, <1>4, <2>1
<1> QED
  BY <1>5, <1>6 DEF NewTop

LEMMA WorkTurns ==
  ASSUME NEW s, NEW n \in {1, 2}, NEW e, AtWork(s, n, e), NEW t, NewTop(s, n, t),
         t[n].listed = s[n].listed, Stage(s[n].q, s[n].listed, t[n].todo, e)
  PROVE  AtWork(t, n, e) /\ t[1].r = s[1].r
<1>1. /\ Frames(t, n) /\ Agenda(t, n) = t[n].todo /\ t[1].q = s[1].q /\ t[1].r = s[1].r
      /\ n = 2 => Agenda(t, 1) = Agenda(s, 1) /\ t[1] = s[1]
  BY NewFrame DEF AtWork
<1>2. n \in 1 .. n /\ 1 \in 1 .. n /\ t[n].q = s[n].q
  BY DEF NewTop
<1>3. ASSUME NEW i \in 1 .. n
      PROVE  OnBehalf(t[i].q, e) /\ ListedOK(t[i].q, t[i].listed) /\ Stage(t[i].q, t[i].listed, Agenda(t, i), e)
  <2>1. CASE i = n
    BY <1>1, <1>2, <2>1 DEF AtWork
  <2>2. CASE i # n
    <3>1. i = 1 /\ n = 2
      BY <2>2
    <3> QED
      BY <1>1, <1>2, <3>1 DEF AtWork
  <2> QED
    BY <2>1, <2>2
<1>4. e.answer = "none" /\ e.q = t[1].q
  BY <1>1 DEF AtWork
<1> QED
  BY <1>1, <1>3, <1>4 DEF AtWork

\* The call returns to the removal of the VRF.
LEMMA WorkReturns ==
  ASSUME NEW s, NEW e, AtWork(s, 2, e), Len(s) = 2, s[2].todo = <<>>, NEW t, t = Front(s)
  PROVE  AtWork(t, 1, e) /\ t[1] = s[1]
<1>1. Frames(s, 2) /\ IsSequence(s) /\ s # <<>>
  BY HeadOfWork DEF AtWork, Frames
<1>2. IsSequence(t) /\ Len(t) = 1 /\ t[1] = s[1]
  <2>1. IsSequence(Front(s)) /\ Len(Front(s)) = Len(s) - 1 /\ \A i \in 1 .. Len(s) - 1 : Front(s)[i] = s[i]
    BY <1>1, LastAndFront
  <2>2. Len(s) - 1 = 1 /\ 1 \in 1 .. 1
    OBVIOUS
  <2> QED
    BY <2>1, <2>2
<1>3. /\ s[1].call = "request" /\ IsSequence(s[1].todo) /\ Sweeps(s[2].q)
      /\ Agenda(s, 2) = <<>>
      /\ Agenda(s, 1) # <<>> /\ Head(Agenda(s, 1)) = Calling(s[2].q) /\ Tail(Agenda(s, 1)) = s[1].todo
  <2>1. 1 \in 1 .. 2
    OBVIOUS
  <2> QED
    BY <1>1, <2>1, AgendaIs, HeadOfWork DEF Frames
<1>4. /\ OnBehalf(s[1].q, e) /\ ListedOK(s[1].q, s[1].listed) /\ Stage(s[1].q, s[1].listed, Agenda(s, 1), e)
      /\ Stage(s[2].q, s[2].listed, Agenda(s, 2), e)
      /\ e.answer = "none" /\ e.q = s[1].q
  <2>1. 1 \in 1 .. 2 /\ 2 \in 1 .. 2
    OBVIOUS
  <2> QED
    BY <2>1 DEF AtWork
<1>5. Logged(s[2].q, s[2].listed, <<>>, e)
  BY <1>3, <1>4, EmptyAgenda
<1>6. Emptying(s[1].q, s[1].listed, Agenda(s, 1), e)
  <2>1. Head(Agenda(s, 1)).do = "call"
    BY <1>3 DEF Calling
  <2> QED
    BY <1>3, <1>4, <2>1, CallBelow
<1>7. Stage(s[1].q, s[1].listed, s[1].todo, e)
  BY <1>3, <1>5, <1>6, CallReturns
<1>8. Frames(t, 1)
  <2>1. \A i \in 1 .. 1 : i = 1
    OBVIOUS
  <2>2. Len(t) >= 1 /\ ~ (Len(t) > 1) /\ 1 <= 1
    BY <1>2
  <2> QED
    BY <1>2, <1>3, <2>1, <2>2 DEF Frames
<1>9. Agenda(t, 1) = s[1].todo
  BY <1>2 DEF Agenda
<1>10. \A i \in 1 .. 1 : i = 1
  OBVIOUS
<1> QED
  BY <1>2, <1>4, <1>7, <1>8, <1>9, <1>10 DEF AtWork

\* A statement is put on top.
NextUp(s, n, e, t) ==
  /\ n \in {1, 2} /\ AtWork(s, n, e) /\ Len(s) = n /\ s[n].todo # <<>>
  /\ NewTop(s, n, t) /\ t[n].listed = s[n].listed /\ t[n].todo = Tail(s[n].todo)

Sends(s, n, t, x, u) == IsStatement(x) /\ x.stmt = Head(s[n].todo) /\ u = Append(t, x)

LEMMA WorkSends ==
  ASSUME NEW s, NEW n, NEW e, NEW t, NextUp(s, n, e, t), NEW x, NEW u, Sends(s, n, t, x, u)
  PROVE  AtWork(u, n, e) /\ u[1].r = s[1].r
<1>0. /\ n \in {1, 2} /\ AtWork(s, n, e) /\ Len(s) = n /\ s[n].todo # <<>>
      /\ NewTop(s, n, t) /\ t[n].listed = s[n].listed /\ t[n].todo = Tail(s[n].todo)
      /\ IsStatement(x) /\ x.stmt = Head(s[n].todo) /\ u = Append(t, x)
  BY DEF NextUp, Sends
<1> USE <1>0
<1>1. /\ Frames(t, n) /\ Agenda(t, n) = t[n].todo /\ t[1].q = s[1].q /\ t[1].r = s[1].r
      /\ n = 2 => Agenda(t, 1) = Agenda(s, 1) /\ t[1] = s[1]
  <2>1. Frames(s, n) /\ n \in {1, 2} /\ NewTop(s, n, t)
    BY DEF AtWork
  <2> QED
    BY ONLY <2>1, NewFrame
<1>2. n \in 1 .. n /\ 1 \in 1 .. n /\ n \in Nat /\ t[n].q = s[n].q /\ Len(t) = n /\ IsSequence(t)
  BY DEF NewTop
<1>3. /\ IsSequence(u) /\ Len(u) = n + 1 /\ u[n + 1] = x
      /\ \A i \in 1 .. n : u[i] = t[i]
  <2>1. /\ IsSequence(u) /\ Len(u) = Len(t) + 1 /\ u[Len(t) + 1] = x
        /\ \A i \in 1 .. Len(t) : u[i] = t[i]
    BY <1>2, OneMore
  <2> QED
    BY <1>2, <2>1
<1>4. Frames(u, n)
  <2>1. \A i \in 1 .. Len(u) : i = n + 1 \/ (i \in 1 .. n /\ i \in 1 .. Len(t))
    BY <1>2, <1>3
  <2>2. x.call # "request"
    BY DEF IsStatement
  <2>3. \A i \in 1 .. Len(u) : u[i].call = "request" <=> i <= n
    BY <1>1, <1>2, <1>3, <2>1, <2>2 DEF Frames
  <2>4. \A i \in 1 .. n : u[i].r = u[1].r /\ IsSequence(u[i].todo)
    BY <1>1, <1>2, <1>3 DEF Frames
  <2>5. n = 2 => Sweeps(u[2].q)
    BY <1>1, <1>2, <1>3 DEF Frames
  <2>6. Len(u) >= n
    BY <1>2, <1>3
  <2> QED
    BY <1>3, <2>3, <2>4, <2>5, <2>6 DEF Frames
<1>5. Len(u) > n
  BY <1>2, <1>3
<1>6. Agenda(u, n) = s[n].todo
  <2>1. Agenda(u, n) = <<u[n + 1].stmt>> \o u[n].todo
    BY <1>4, <1>5, AgendaIs
  <2>2. Agenda(u, n) = <<Head(s[n].todo)>> \o Tail(s[n].todo)
    BY <1>2, <1>3, <2>1
  <2>3. IsSequence(s[n].todo)
    BY <1>2 DEF AtWork, Frames
  <2> QED
    BY <2>2, <2>3, HeadAndTail
<1>7. Agenda(s, n) = s[n].todo
  BY DEF Agenda
<1>8. n = 2 => Agenda(u, 1) = Agenda(s, 1) /\ u[1] = s[1]
  <2> SUFFICES ASSUME n = 2 PROVE Agenda(u, 1) = Agenda(s, 1) /\ u[1] = s[1]
    OBVIOUS
  <2>1. Agenda(u, 1) = <<Calling(u[2].q)>> \o u[1].todo /\ Agenda(t, 1) = <<Calling(t[2].q)>> \o t[1].todo
    BY <1>1, <1>4, AgendaIs
  <2> QED
    BY <1>1, <1>2, <1>3, <2>1
<1>9. ASSUME NEW i \in 1 .. n
      PROVE  OnBehalf(u[i].q, e) /\ ListedOK(u[i].q, u[i].listed) /\ Stage(u[i].q, u[i].listed, Agenda(u, i), e)
  <2>1. CASE i = n
    <3>1. u[n].q = s[n].q /\ u[n].listed = s[n].listed
      BY <1>2, <1>3
    <3> QED
      BY <1>2, <1>6, <1>7, <2>1, <3>1 DEF AtWork
  <2>2. CASE i # n
    <3>1. i = 1 /\ n = 2
      BY <2>2
    <3> QED
      BY <1>2, <1>8, <3>1 DEF AtWork
  <2> QED
    BY <2>1, <2>2
<1>10. e.answer = "none" /\ e.q = u[1].q /\ u[1].r = s[1].r
  BY <1>1, <1>2, <1>3 DEF AtWork
<1> QED
  BY <1>4, <1>9, <1>10 DEF AtWork

\* The removal of a VRF calls a removal of prefixes.
CallsFor(s, n, t, r, x, u) ==
  /\ Head(s[n].todo).do = "call" /\ r = s[n].r
  /\ x = Serve(r, Head(s[n].todo).q) /\ IsSequence(x.todo)
  /\ u = Append(t, x)

LEMMA WorkCalls ==
  ASSUME NEW s, NEW n, NEW e, NEW t, NextUp(s, n, e, t), NEW r, NEW x, NEW u,
         CallsFor(s, n, t, r, x, u)
  PROVE  AtWork(u, 2, e) /\ u[1].r = s[1].r
<1>0. /\ n \in {1, 2} /\ AtWork(s, n, e) /\ Len(s) = n /\ s[n].todo # <<>>
      /\ NewTop(s, n, t) /\ t[n].listed = s[n].listed /\ t[n].todo = Tail(s[n].todo)
      /\ Head(s[n].todo).do = "call" /\ r = s[n].r
      /\ x = Serve(r, Head(s[n].todo).q) /\ IsSequence(x.todo) /\ u = Append(t, x)
  BY DEF NextUp, CallsFor
<1> USE <1>0
<1>1. /\ OnBehalf(s[n].q, e) /\ ListedOK(s[n].q, s[n].listed) /\ Stage(s[n].q, s[n].listed, s[n].todo, e)
      /\ Frames(s, n) /\ IsSequence(s[n].todo)
  <2>1. n \in 1 .. n /\ Agenda(s, n) = s[n].todo
    BY DEF Agenda
  <2> QED
    BY <2>1 DEF AtWork, Frames
<1>2. Emptying(s[n].q, s[n].listed, s[n].todo, e)
  BY <1>1, CallBelow
<1>3. n = 1
  <2>1. s[n].q.op = "remove_vrf"
    BY <1>2 DEF Emptying
  <2>2. n = 2 => Sweeps(s[n].q)
    BY <1>1 DEF Frames
  <2> QED
    BY <2>1, <2>2 DEF Sweeps
<1>4. IsCallFor(Head(s[n].todo))
  BY <1>2, EmptyingHead
<1>5. PICK v \in Vrf, i \in {1, 2} : Head(s[n].todo) = Calling(EmptyVrf(v)[i])
  BY <1>4 DEF IsCallFor
<1> DEFINE q2 == EmptyVrf(v)[i]
<1>6. Head(s[n].todo) = Calling(q2)
  BY <1>5
<1>7. Stage(q2, {}, Program(q2), e) /\ ListedOK(q2, {}) /\ OnBehalf(q2, e) /\ Sweeps(q2)
  BY <1>1, <1>2, CallStarts
<1> HIDE DEF q2
<1>8. x.call = "request" /\ x.r = r /\ x.q = q2 /\ x.todo = Program(q2) /\ x.listed = {}
  BY <1>6 DEF Serve, Calling
<1>9. /\ t[1].call = "request" /\ t[1].q = s[1].q /\ t[1].r = s[1].r /\ t[1].listed = s[1].listed
      /\ t[1].todo = Tail(s[1].todo) /\ IsSequence(t[1].todo) /\ IsSequence(t) /\ Len(t) = 1
  BY <1>3 DEF NewTop
<1>10. /\ IsSequence(u) /\ Len(u) = 2 /\ u[1] = t[1] /\ u[2] = x
  <2>0. IsSequence(t) /\ u = Append(t, x)
    BY <1>9
  <2>1. /\ IsSequence(u) /\ Len(u) = Len(t) + 1 /\ u[Len(t) + 1] = x
        /\ \A j \in 1 .. Len(t) : u[j] = t[j]
    BY ONLY <2>0, OneMore
  <2>2. 1 \in 1 .. Len(t) /\ Len(t) + 1 = 2
    BY <1>9
  <2> QED
    BY <2>1, <2>2
<1>11. \A j \in 1 .. 2 : j = 1 \/ j = 2
  OBVIOUS
<1>12. Frames(u, 2)
  <2>1. u[1].call = "request" /\ u[2].call = "request" /\ u[2].r = u[1].r
    BY <1>3, <1>8, <1>9, <1>10
  <2>2. \A j \in 1 .. Len(u) : u[j].call = "request" <=> j <= 2
    BY <1>10, <1>11, <2>1, SMTT(30)
  <2>3. \A j \in 1 .. 2 : u[j].r = u[1].r /\ IsSequence(u[j].todo)
    BY <1>9, <1>10, <1>11, <2>1, SMTT(30)
  <2>4. Len(u) >= 2 /\ ~ (Len(u) > 2)
    BY <1>10
  <2>5. Sweeps(u[2].q)
    BY <1>7, <1>8, <1>10
  <2> QED
    BY <1>10, <2>2, <2>3, <2>4, <2>5 DEF Frames
<1>13. Agenda(u, 1) = s[1].todo /\ Agenda(u, 2) = Program(q2)
  <2>1. Agenda(u, 1) = <<Calling(u[2].q)>> \o u[1].todo /\ Agenda(u, 2) = u[2].todo
    BY <1>10, <1>12, AgendaIs
  <2>2. Agenda(u, 1) = <<Head(s[1].todo)>> \o Tail(s[1].todo)
    BY <1>3, <1>6, <1>8, <1>9, <1>10, <2>1
  <2>3. IsSequence(s[1].todo) /\ s[1].todo # <<>>
    BY <1>1, <1>3
  <2>4. <<Head(s[1].todo)>> \o Tail(s[1].todo) = s[1].todo
    BY <2>3, HeadAndTail
  <2> QED
    BY <1>8, <1>10, <2>1, <2>2, <2>4
<1>14. \A j \in 1 .. 2 : /\ OnBehalf(u[j].q, e) /\ ListedOK(u[j].q, u[j].listed)
                         /\ Stage(u[j].q, u[j].listed, Agenda(u, j), e)
  <2>1. OnBehalf(u[1].q, e) /\ ListedOK(u[1].q, u[1].listed) /\ Stage(u[1].q, u[1].listed, Agenda(u, 1), e)
    BY <1>1, <1>3, <1>9, <1>10, <1>13
  <2>2. OnBehalf(u[2].q, e) /\ ListedOK(u[2].q, u[2].listed) /\ Stage(u[2].q, u[2].listed, Agenda(u, 2), e)
    BY <1>7, <1>8, <1>10, <1>13
  <2> QED
    BY <1>11, <2>1, <2>2
<1>15. e.answer = "none" /\ e.q = u[1].q /\ u[1].r = s[1].r
  BY <1>9, <1>10 DEF AtWork
<1> QED
  BY <1>12, <1>14, <1>15 DEF AtWork

\* It goes on with the same record, or gets its answer.
LEMMA WorksOn ==
  ASSUME LogInv, ConnInv, NEW p \in Process, InRequest(p),
         \A p1 \in Process : p1 # p => stack'[p1] = stack[p1] /\ status'[p1] = status[p1],
         UNCHANGED <<rows, poolOf, ledger>>, NEW r, r = RequestOf(p), NEW e, e = ledger[r],
         NEW t, t = stack'[p], NEW n \in {1, 2}, AtWork(t, n, e), t[1].r = r
  PROVE  LogInv'
<1>1. r \in DOMAIN ledger /\ IsSequence(ledger) /\ RecordOK(e)
  BY WorkIs
<1>2. PICK f : f = ledger'[r]
  OBVIOUS
<1>3. f = e /\ SameBut(ledger, r, ledger') /\ SameWork(e, f) /\ RecordOK(f) /\ e.lost = f.lost
  BY <1>1, <1>2 DEF SameBut, SameWork
<1>4. t # <<>> /\ Head(t) = t[1] /\ t[1].call = "request"
  BY HeadOfWork DEF AtWork
<1> QED
  BY <1>2, <1>3, <1>4, QuietStep

LEMMA GetsAnswer ==
  ASSUME LogInv, ConnInv, NEW p \in Process, InRequest(p),
         \A p1 \in Process : p1 # p => stack'[p1] = stack[p1] /\ status'[p1] = status[p1],
         UNCHANGED <<rows, poolOf>>, stack'[p] = <<>>, NEW r, r = RequestOf(p), NEW e, e = ledger[r],
         NEW answer, ledger' = Answered(ledger, p, answer),
         NEW f, f = ledger'[r],
         SameWork(e, f) /\ f.lost = e.lost /\ f.answer = answer => RecordOK(f)
  PROVE  LogInv'
<1>1. r \in DOMAIN ledger /\ IsSequence(ledger)
  BY WorkIs
<1>2. SameBut(ledger, r, ledger') /\ SameWork(e, f) /\ f.lost = e.lost /\ f.answer = answer
  BY <1>1, AnsweredIs
<1>3. PICK t : t = stack'[p] /\ t = <<>>
  OBVIOUS
<1> QED
  BY <1>2, <1>3, QuietStep

\* What is on top of a request that goes on.
LEMMA ContinuesWith ==
  ASSUME LogInv, ConnInv, NEW p \in Process, Continue(p)
  PROVE  /\ InRequest(p) /\ status[p] # "starting" /\ UNCHANGED <<rows, poolOf>>
         /\ \E n \in {1, 2} : /\ AtWork(stack[p], n, ledger[RequestOf(p)])
                              /\ Len(stack[p]) = n /\ Top(p) = stack[p][n]
<1>1. status[p] # "starting"
  BY Serving DEF Serves
<1>2. stack[p] # <<>> /\ Top(p).call = "request" /\ UNCHANGED <<rows, poolOf>>
  BY DEF Continue, IsCall, Top
<1>3. InRequest(p)
  BY <1>1, <1>2 DEF LogInv, Idle
<1>4. PICK r, e, s : r = RequestOf(p) /\ e = ledger[r] /\ s = stack[p]
  OBVIOUS
<1>5. PICK n \in {1, 2} : AtWork(s, n, e)
  BY <1>3, <1>4, WorkIs
<1>6. Rests(s) /\ Frames(s, n)
  BY <1>3, <1>4, <1>5, WorkIs DEF AtWork
<1>7. Len(s) = n /\ Last(s) = s[n]
  <2>1. Last(s).call = "request"
    BY <1>2, <1>4 DEF Top
  <2> QED
    BY <1>6, <2>1, OnTopOfWork
<1> QED
  BY <1>1, <1>2, <1>3, <1>4, <1>5, <1>7 DEF Top

\* It is at its end.
LEMMA EndsStep ==
  ASSUME LogInv, ConnInv, NEW p \in Process, Continue(p),
         \A p1 \in Process : p1 # p => stack'[p1] = stack[p1] /\ status'[p1] = status[p1],
         Top(p).todo = <<>>
  PROVE  LogInv'
<1>1. PICK r, e, s, t : r = RequestOf(p) /\ e = ledger[r] /\ s = stack[p] /\ t = stack'[p]
  OBVIOUS
<1>2. PICK n \in {1, 2} : AtWork(s, n, e) /\ Len(s) = n /\ Top(p) = s[n]
  BY <1>1, ContinuesWith
<1>3. InRequest(p) /\ UNCHANGED <<rows, poolOf>> /\ IsSequence(s) /\ s # <<>> /\ s[1].r = r
  BY <1>1, ContinuesWith, WorkIs
<1>4. s[n].todo = <<>> /\ Under(p) = Front(s)
  BY <1>1, <1>2 DEF Under
<1>5. t = Front(s)
  <2>1. Goes(p, Under(p))
    BY DEF Continue
  <2> QED
    BY <1>1, <1>4, <2>1, Moves
<1>6. IsSequence(t) /\ Len(t) = n - 1
  BY <1>2, <1>3, <1>5, LastAndFront
<1>7. CASE n = 1
  <2>1. t = <<>>
    <3>1. PICK S : t \in Seq(S)
      BY <1>6 DEF IsSequence
    <3> QED
      BY <1>6, <1>7, <3>1, EmptySeq
  <2>2. ledger' = Answered(ledger, p, "ok")
    BY <1>4, <1>5, <2>1 DEF Continue
  <2>3. Stage(s[1].q, s[1].listed, <<>>, e)
    <3>1. 1 \in 1 .. 1 /\ Agenda(s, 1) = s[1].todo
      BY <1>2, <1>7 DEF Agenda
    <3> QED
      BY <1>2, <1>4, <1>7, <3>1 DEF AtWork
  <2>4. ~ e.crossed => NamedOf(e) \subseteq e.entries
    BY <2>3, AllLogged
  <2>5. RecordOK(e)
    BY <1>1, <1>3, WorkIs
  <2>6. PICK f : f = ledger'[r]
    OBVIOUS
  <2>7. SameWork(e, f) /\ f.lost = e.lost /\ f.answer = "ok" => RecordOK(f)
    BY <2>4, <2>5 DEF RecordOK, SameWork, NamedOf
  <2>8. stack'[p] = <<>>
    BY <1>1, <2>1
  <2> QED
    BY <1>1, <1>3, <2>2, <2>6, <2>7, <2>8, GetsAnswer
<1>8. CASE n = 2
  <2>1. AtWork(t, 1, e) /\ t[1] = s[1]
    BY <1>2, <1>4, <1>5, <1>8, WorkReturns
  <2>2. t # <<>>
    BY <1>6, <1>8, Lists
  <2>3. ledger' = ledger
    BY <1>4, <1>5, <2>2 DEF Continue
  <2> QED
    BY <1>1, <1>3, <2>1, <2>3, WorksOn
<1> QED
  BY <1>7, <1>8

\* Its own frame, with something put before the rest of what it has to do.
Rewrites(s, n, e, statements, t) ==
  /\ n \in {1, 2} /\ AtWork(s, n, e) /\ Len(s) = n /\ s[n].todo # <<>>
  /\ IsSequence(statements)
  /\ t = Append(Front(s), [s[n] EXCEPT !.todo = statements \o Tail(@)])

Rewritten(s, n, statements, t) ==
  /\ NewTop(s, n, t) /\ t[n].listed = s[n].listed
  /\ t[n].todo = statements \o Tail(s[n].todo)

LEMMA WithFirst ==
  ASSUME NEW s, NEW n, NEW e, NEW statements, NEW t, Rewrites(s, n, e, statements, t)
  PROVE  Rewritten(s, n, statements, t)
<1> PICK g : g = [s[n] EXCEPT !.todo = statements \o Tail(@)]
  OBVIOUS
<1> USE DEF Rewrites
<1>1. IsSequence(s) /\ IsSequence(s[n].todo) /\ s[n].call = "request"
  <2>1. n \in 1 .. n /\ n \in 1 .. Len(s) /\ n <= n
    OBVIOUS
  <2> QED
    BY <2>1 DEF AtWork, Frames
<1> DEFINE todo == statements \o Tail(s[n].todo)
<1>2. IsSequence(todo)
  BY <1>1, TailIs, Joins
<1>3. /\ g.call = s[n].call /\ g.q = s[n].q /\ g.r = s[n].r /\ g.listed = s[n].listed
      /\ g.todo = todo
  OBVIOUS
<1> HIDE DEF todo
<1>4. PICK b : b = s /\ t = Append(Front(b), g)
  OBVIOUS
<1>5. NewTop(s, n, t) /\ t[n] = g
  <2>1. InPlace(s, n, b, g, t)
    BY <1>1, <1>2, <1>3, <1>4 DEF InPlace
  <2> QED
    BY ONLY <2>1, Topped
<1> QED
  BY <1>3, <1>5 DEF todo, Rewritten

\* A loop comes round.
LEMMA LoopsStep ==
  ASSUME LogInv, ConnInv, NEW p \in Process, Continue(p),
         \A p1 \in Process : p1 # p => stack'[p1] = stack[p1] /\ status'[p1] = status[p1],
         Top(p).todo # <<>>, Head(Top(p).todo).do \in {"logs", "removals"}
  PROVE  LogInv'
<1>1. PICK r, e, s, t : r = RequestOf(p) /\ e = ledger[r] /\ s = stack[p] /\ t = stack'[p]
  OBVIOUS
<1>2. PICK n \in {1, 2} : AtWork(s, n, e) /\ Len(s) = n /\ Top(p) = s[n]
  BY <1>1, ContinuesWith
<1>3. InRequest(p) /\ UNCHANGED <<rows, poolOf>> /\ IsSequence(s) /\ s # <<>> /\ s[1].r = r /\ DataOK
  BY <1>1, ContinuesWith, WorkIs
<1>4. Under(p) = Front(s)
  BY <1>1 DEF Under
<1> DEFINE next == Head(s[n].todo)
           left == s[n].listed \ next.done
           x == CHOOSE y \in left : TRUE
           further == [next EXCEPT !.done = @ \cup {x}]
           first == IF left = {} THEN <<>> ELSE Append(Body(next, s[n].q, x), further)
           g == [s[n] EXCEPT !.todo = first \o Tail(@)]
<1>5. Goes(p, Append(Front(s), g)) /\ ledger' = ledger
  BY <1>2, <1>4 DEF Continue
<1>6. t = Append(Front(s), g)
  BY <1>1, <1>5, Moves
<1>7. IsSequence(first)
  <2>1. IsSequence(Body(next, s[n].q, x))
    BY BodyOK DEF ProgramOK
  <2>2. IsSequence(Append(Body(next, s[n].q, x), further))
    BY <2>1, OneMore
  <2> QED
    BY <2>2, Lists
<1>8. left # {} => x \in left
  OBVIOUS
<1>9. /\ OnBehalf(s[n].q, e) /\ ListedOK(s[n].q, s[n].listed) /\ Stage(s[n].q, s[n].listed, s[n].todo, e)
  <2>1. n \in 1 .. n /\ Agenda(s, n) = s[n].todo
    BY <1>2 DEF Agenda
  <2> QED
    BY <1>2, <2>1 DEF AtWork
<1>10. s[n].todo # <<>> /\ next.do \in {"logs", "removals"}
  BY <1>2
<1>11. Stage(s[n].q, s[n].listed, first \o Tail(s[n].todo), e)
  <2> HIDE DEF x
  <2>1. PICK l, y, b :
          /\ l = left /\ y = x
          /\ b = (IF l = {} THEN <<>>
                  ELSE Append(Body(next, s[n].q, y), [next EXCEPT !.done = @ \cup {y}])) \o Tail(s[n].todo)
    OBVIOUS
  <2>2. l = s[n].listed \ next.done /\ (l # {} => y \in l)
    BY <1>8, <2>1
  <2>3. Stage(s[n].q, s[n].listed, b, e)
    BY <1>3, <1>9, <1>10, <2>1, <2>2, LoopStage
  <2> QED
    BY <2>1, <2>3
<1> HIDE DEF first, g
<1>12. NewTop(s, n, t) /\ t[n].listed = s[n].listed /\ t[n].todo = first \o Tail(s[n].todo)
  <2>1. Rewrites(s, n, e, first, t)
    BY <1>2, <1>6, <1>7, <1>10 DEF g, Rewrites
  <2> QED
    BY <2>1, WithFirst DEF Rewritten
<1>13. AtWork(t, n, e) /\ t[1].r = s[1].r
  <2>1. Stage(s[n].q, s[n].listed, t[n].todo, e)
    BY <1>11, <1>12
  <2> QED
    BY ONLY <1>2, <1>12, <2>1, WorkTurns, ZenonT(60)
<1> QED
  BY <1>1, <1>3, <1>5, <1>13, WorksOn

\* A statement is sent, or remove_prefix is called.
LEMMA SendsStep ==
  ASSUME LogInv, ConnInv, NEW p \in Process, Continue(p),
         \A p1 \in Process : p1 # p => stack'[p1] = stack[p1] /\ status'[p1] = status[p1],
         Top(p).todo # <<>>, Head(Top(p).todo).do \notin {"logs", "removals"}
  PROVE  LogInv'
<1>1. PICK r, e, s, t : r = RequestOf(p) /\ e = ledger[r] /\ s = stack[p] /\ t = stack'[p]
  OBVIOUS
<1>2. PICK n \in {1, 2} : AtWork(s, n, e) /\ Len(s) = n /\ Top(p) = s[n]
  BY <1>1, ContinuesWith
<1>3. InRequest(p) /\ UNCHANGED <<rows, poolOf>> /\ IsSequence(s) /\ s # <<>> /\ s[1].r = r /\ DataOK
      /\ status[p] # "starting" /\ Sounds(p, status[p], s)
  BY <1>1, ContinuesWith, WorkIs
<1>4. Under(p) = Front(s)
  BY <1>1 DEF Under
<1> DEFINE next == Head(s[n].todo)
<1> PICK u : u = Append(Front(s), [s[n] EXCEPT !.todo = <<>> \o Tail(@)])
  OBVIOUS
<1>5. s[n].todo # <<>> /\ IsSequence(s[n].todo) /\ s[n].r = r
  <2>1. n \in 1 .. n
    OBVIOUS
  <2> QED
    BY <1>2, <1>3, <2>1 DEF AtWork, Frames
<1>6. PICK x : /\ Goes(p, Append(u, x))
               /\ \/ next.do = "call" /\ x = Serve(s[n].r, next.q)
                  \/ next.do # "call" /\ x = Execute(next, 0)
  BY <1>2, <1>4 DEF Continue
<1>7. ledger' = ledger
  BY <1>2, <1>5 DEF Continue
<1>8. t = Append(u, x)
  BY <1>1, <1>6, Moves
<1>9. NewTop(s, n, u) /\ u[n].listed = s[n].listed /\ u[n].todo = Tail(s[n].todo)
  <2>1. IsSequence(<<>>)
    BY Lists
  <2>2. Rewrites(s, n, e, <<>>, u)
    BY <1>2, <1>5, <2>1 DEF Rewrites
  <2>3. Rewritten(s, n, <<>>, u)
    BY <2>2, WithFirst
  <2>4. IsSequence(Tail(s[n].todo))
    BY <1>5, TailIs
  <2>5. <<>> \o Tail(s[n].todo) = Tail(s[n].todo)
    BY <2>4, ConcatEmptySeq DEF IsSequence
  <2> QED
    BY <2>3, <2>5 DEF Rewritten
<1>12. NextUp(s, n, e, u)
  BY <1>2, <1>5, <1>9 DEF NextUp
<1>10. CASE next.do = "call"
  <2>1. x = Serve(r, next.q) /\ x.call = "request" /\ x.todo = Program(next.q)
    BY <1>5, <1>6, <1>10 DEF Serve
  <2>2. IsSequence(x.todo)
    <3>1. ProgramOK(s[n].todo)
      <4>1. n \in 1 .. Len(s) /\ s[n].call = "request"
        <5>1. n \in 1 .. Len(s) /\ n <= n
          BY <1>2
        <5> QED
          BY <1>2, <5>1 DEF AtWork, Frames
      <4>2. Sound(p, status[p], s[n])
        BY <1>3, <4>1 DEF Sounds
      <4> QED
        BY <4>1, <4>2 DEF Sound
    <3>2. next.q.op \in Operations
      BY <1>5, <1>10, <3>1, ProgramTail DEF StatementOK, Data
    <3> QED
      BY <2>1, <3>2, ProgramsOK DEF ProgramOK
  <2>3. AtWork(t, 2, e) /\ t[1].r = s[1].r
    <3>1. CallsFor(s, n, u, r, x, t)
      BY <1>5, <1>8, <1>10, <2>1, <2>2 DEF CallsFor
    <3> QED
      BY <1>12, <3>1, WorkCalls
  <2> QED
    BY <1>1, <1>3, <1>7, <2>3, WorksOn
<1>11. CASE next.do # "call"
  <2>1. x = Execute(next, 0)
    BY <1>6, <1>11
  <2>2. next.do \in Data
    <3>1. ProgramOK(s[n].todo)
      <4>1. n \in 1 .. Len(s) /\ s[n].call = "request"
        <5>1. n \in 1 .. Len(s) /\ n <= n
          BY <1>2
        <5> QED
          BY <1>2, <5>1 DEF AtWork, Frames
      <4>2. Sound(p, status[p], s[n])
        BY <1>3, <4>1 DEF Sounds
      <4> QED
        BY <4>1, <4>2 DEF Sound
    <3> QED
      BY <1>2, <1>5, <1>11, <3>1, ProgramTail DEF StatementOK
  <2>3. IsStatement(x) /\ x.stmt = next
    BY <2>1, <2>2, CallsAre DEF IsStatement
  <2>4. AtWork(t, n, e) /\ t[1].r = s[1].r
    <3>1. Sends(s, n, u, x, t)
      BY <1>8, <2>3 DEF Sends
    <3> QED
      BY <1>12, <3>1, WorkSends
  <2> QED
    BY <1>1, <1>3, <1>7, <2>4, WorksOn
<1> QED
  BY <1>10, <1>11

LEMMA ContinueStep ==
  ASSUME LogInv, ConnInv, NEW p \in Process, Continue(p),
         \A p1 \in Process : p1 # p => stack'[p1] = stack[p1] /\ status'[p1] = status[p1]
  PROVE  LogInv'
<1>1. CASE Top(p).todo = <<>>
  BY <1>1, EndsStep
<1>2. CASE Top(p).todo # <<>> /\ Head(Top(p).todo).do \in {"logs", "removals"}
  BY <1>2, LoopsStep
<1>3. CASE Top(p).todo # <<>> /\ Head(Top(p).todo).do \notin {"logs", "removals"}
  BY <1>3, SendsStep
<1> QED
  BY <1>1, <1>2, <1>3

-----------------------------------------------------------------------------
(* A statement of a request is on top.                                     *)

LEMMA StatementOn ==
  ASSUME LogInv, ConnInv, NEW p \in Process, IsCall(p, "execute"), IsData(Top(p).stmt)
  PROVE  /\ InRequest(p) /\ IsStatement(Top(p))
         /\ \E n \in {1, 2} : /\ AtWork(stack[p], n, ledger[RequestOf(p)])
                              /\ Len(stack[p]) = n + 1 /\ stack[p][n + 1] = Top(p)
<1>1. stack[p] # <<>> /\ StacksOK /\ Top(p).call = "execute"
  BY DEF IsCall, Top, ConnInv
<1>2. status[p] # "starting"
  BY <1>1, TopIs, ScriptsAre DEF Sound
<1>3. InRequest(p)
  BY <1>1, <1>2 DEF LogInv, Idle
<1>4. IsStatement(Top(p))
  BY <1>1, ScriptsAre DEF IsStatement
<1>5. PICK r, e, s : r = RequestOf(p) /\ e = ledger[r] /\ s = stack[p]
  OBVIOUS
<1>6. PICK n \in {1, 2} : AtWork(s, n, e)
  BY <1>3, <1>5, WorkIs
<1>7. Rests(s) /\ Frames(s, n) /\ IsStatement(Last(s))
  BY <1>3, <1>4, <1>5, <1>6, WorkIs DEF AtWork, Top
<1>8. Len(s) = n + 1 /\ Last(s) = s[Len(s)]
  BY <1>7, OnTopOfWork
<1> QED
  BY <1>3, <1>4, <1>5, <1>6, <1>8 DEF Top

\* The stage of the request that is on top, with the statement at the head of its agenda.
LEMMA StageOn ==
  ASSUME NEW s, NEW n \in {1, 2}, NEW e, AtWork(s, n, e), Len(s) = n + 1
  PROVE  \E a : /\ OnBehalf(s[n].q, e) /\ ListedOK(s[n].q, s[n].listed) /\ Stage(s[n].q, s[n].listed, a, e)
                /\ a # <<>> /\ Head(a) = s[n + 1].stmt /\ IsData(Head(a))
<1>1. n \in 1 .. n /\ Len(s) > n
  OBVIOUS
<1>2. Agenda(s, n) # <<>> /\ Head(Agenda(s, n)) = s[n + 1].stmt /\ IsData(s[n + 1].stmt)
  BY <1>1, AgendaIs DEF AtWork
<1>3. OnBehalf(s[n].q, e) /\ ListedOK(s[n].q, s[n].listed) /\ Stage(s[n].q, s[n].listed, Agenda(s, n), e)
  BY <1>1 DEF AtWork
<1> QED
  BY <1>2, <1>3

\* The database refuses it.
LEMMA RefuseStep ==
  ASSUME LogInv, ConnInv, NEW p \in Process, RefuseStatement(p),
         \A p1 \in Process : p1 # p => stack'[p1] = stack[p1] /\ status'[p1] = status[p1]
  PROVE  LogInv'
<1>1. PICK r, e, f, s : r = RequestOf(p) /\ e = ledger[r] /\ f = ledger'[r] /\ s = stack[p]
  OBVIOUS
<1>2. IsCall(p, "execute") /\ IsData(Top(p).stmt) /\ MayRefuse(Top(p).stmt) /\ Raises(p)
      /\ UNCHANGED <<rows, poolOf>> /\ ledger' = Answered(ledger, p, "refused")
  BY DEF RefuseStatement
<1>3. InRequest(p) /\ stack'[p] = <<>>
  BY <1>2, StatementOn, Moves
<1>4. PICK n \in {1, 2} : AtWork(s, n, e) /\ Len(s) = n + 1 /\ s[n + 1] = Top(p)
  BY <1>1, <1>2, StatementOn
<1>5. PICK a : /\ OnBehalf(s[n].q, e) /\ ListedOK(s[n].q, s[n].listed) /\ Stage(s[n].q, s[n].listed, a, e)
               /\ a # <<>> /\ Head(a) = s[n + 1].stmt /\ IsData(Head(a))
  BY <1>4, StageOn
<1>6. DataOK /\ RecordOK(e)
  BY <1>1, <1>3, WorkIs
<1>7. ~ e.lost /\ ~ e.crossed => e.changes = {} \/ DefaultVrf \in e.q.spec
  BY <1>2, <1>4, <1>5, <1>6, RefusedStage
<1>8. SameWork(e, f) /\ f.lost = e.lost /\ f.answer = "refused" => RecordOK(f)
  BY <1>6, <1>7 DEF RecordOK, SameWork
<1> QED
  BY <1>1, <1>2, <1>3, <1>8, GetsAnswer

\* What is noted of a statement that was committed is true.
LEMMA NotedTrue ==
  ASSUME NEW q, NEW listed, NEW a, NEW e, OnBehalf(q, e), Stage(q, listed, a, e), a # <<>>,
         NEW stmt, stmt = Head(a), RecordOK(e), e.answer = "none",
         NEW f, Noted(e, stmt, f), e.lost => f.lost
  PROVE  RecordOK(f)
<1>1. f.answer = "none" /\ f.q = e.q /\ f.crossed = e.crossed /\ e.changes \subseteq f.changes
  BY DEF Noted
<1>2. ASSUME ~ f.lost, ~ f.crossed, NEW c \in f.entries
      PROVE  c \in f.changes \/ Excused(f.q, c)
  <2>1. CASE c \in e.entries
    BY <1>1, <1>2, <2>1 DEF RecordOK
  <2>2. CASE c \notin e.entries
    <3>1. stmt.do = "log" /\ c = stmt.entry
      BY <1>2, <2>2 DEF Noted
    <3>2. c \in e.changes \/ Excused(e.q, c)
      BY <1>1, <1>2, <3>1, LogTrue
    <3> QED
      BY <1>1, <3>2
  <2> QED
    BY <2>1, <2>2
<1> QED
  BY <1>1, <1>2 DEF RecordOK

\* It finds nothing, and the operation gives up.
LEMMA FindsNothing ==
  ASSUME LogInv, ConnInv, NEW p \in Process, RunStatement(p),
         \A p1 \in Process : p1 # p => stack'[p1] = stack[p1] /\ status'[p1] = status[p1],
         Top(p).stmt.do \in {"resolve", "fetch"}, Raises(p)
  PROVE  LogInv'
<1>1. PICK r, e, f, stmt : r = RequestOf(p) /\ e = ledger[r] /\ f = ledger'[r] /\ stmt = Top(p).stmt
  OBVIOUS
<1>2. IsCall(p, "execute") /\ IsData(Top(p).stmt) /\ rows' = RowsAfter(stmt) /\ poolOf' = PoolsAfter(stmt)
  BY <1>1 DEF RunStatement
<1>3. InRequest(p) /\ stack'[p] = <<>>
  BY <1>2, StatementOn, Moves
<1>4. DataOK /\ RecordOK(e)
  BY <1>1, <1>3, WorkIs
<1>5. ~ IsChange(stmt)
  BY <1>1 DEF IsChange
<1>6. UNCHANGED <<rows, poolOf>>
  BY <1>2, <1>4, <1>5, ReadsOnly
<1>7. ledger' = Answered(ledger, p, "error")
  BY <1>3 DEF RunStatement
<1>8. SameWork(e, f) /\ f.lost = e.lost /\ f.answer = "error" => RecordOK(f)
  BY <1>4, StaysTrue
<1> QED
  BY <1>1, <1>3, <1>6, <1>7, <1>8, GetsAnswer

\* The frame the statement lies on, with what the statement returned.
Resumes(s, n, e, g, t) ==
  /\ n \in {1, 2} /\ AtWork(s, n, e) /\ Len(s) = n + 1
  /\ g.call = "request" /\ g.q = s[n].q /\ g.r = s[n].r /\ g.todo = s[n].todo
  /\ t = Append(Front(Front(s)), g)

LEMMA GetsResult ==
  ASSUME NEW s, NEW n, NEW e, NEW g, NEW t, Resumes(s, n, e, g, t)
  PROVE  NewTop(s, n, t) /\ t[n] = g
<1> USE DEF Resumes
<1>1. n \in 1 .. n /\ Frames(s, n) /\ IsSequence(s) /\ IsSequence(s[n].todo) /\ s # <<>>
  <2>1. n \in 1 .. n /\ Frames(s, n)
    BY DEF AtWork
  <2> QED
    BY <2>1, Lists DEF Frames
<1>2. PICK b : b = Front(s)
  OBVIOUS
<1>3. IsSequence(b) /\ Len(b) = n /\ \A i \in 1 .. n : b[i] = s[i]
  <2>1. IsSequence(Front(s)) /\ Len(Front(s)) = Len(s) - 1 /\ \A i \in 1 .. Len(s) - 1 : Front(s)[i] = s[i]
    BY <1>1, LastAndFront
  <2>2. Len(s) - 1 = n
    OBVIOUS
  <2> QED
    BY <1>2, <2>1, <2>2
<1>4. InPlace(s, n, b, g, t)
  BY <1>1, <1>2, <1>3 DEF InPlace
<1> QED
  BY ONLY <1>4, Topped

\* It is run.
LEMMA RunStep ==
  ASSUME LogInv, ConnInv, NEW p \in Process, RunStatement(p),
         \A p1 \in Process : p1 # p => stack'[p1] = stack[p1] /\ status'[p1] = status[p1]
  PROVE  LogInv'
<1>1. PICK r, e, f, s, t, stmt :
         /\ r = RequestOf(p) /\ e = ledger[r] /\ f = ledger'[r] /\ s = stack[p] /\ t = stack'[p]
         /\ stmt = Top(p).stmt
  OBVIOUS
<1>2. /\ IsCall(p, "execute") /\ IsData(Top(p).stmt) /\ ~ MustRefuse(stmt) /\ Returns(p, stmt)
      /\ rows' = RowsAfter(stmt) /\ poolOf' = PoolsAfter(stmt)
      /\ ledger' = IF t = <<>> THEN Answered(ledger, p, "error") ELSE Committed(r, stmt)
  BY <1>1 DEF RunStatement
<1>3. InRequest(p)
  BY <1>2, StatementOn
<1>4. PICK n \in {1, 2} : AtWork(s, n, e) /\ Len(s) = n + 1 /\ s[n + 1] = Top(p)
  BY <1>1, <1>2, StatementOn
<1>5. /\ r \in DOMAIN ledger /\ IsSequence(ledger) /\ RecordOK(e) /\ DataOK
      /\ IsSequence(s) /\ s # <<>> /\ s[1].r = r
  BY <1>1, <1>3, WorkIs
<1>6. Under(p) = Front(s) /\ Last(Front(s)) = s[n]
  <2>1. Under(p) = Front(s)
    BY <1>1 DEF Under
  <2>2. IsSequence(Front(s)) /\ Len(Front(s)) = Len(s) - 1 /\ \A i \in 1 .. Len(s) - 1 : Front(s)[i] = s[i]
    BY <1>5, LastAndFront
  <2>3. Len(Front(s)) = n /\ Front(s)[n] = s[n] /\ Front(s) # <<>>
    <3>1. Len(s) - 1 = n /\ n \in 1 .. n
      BY <1>4
    <3> QED
      BY <2>2, <3>1, Lists
  <2> QED
    BY <2>1, <2>2, <2>3, LastAndFront
<1>7. CASE stmt.do \in {"resolve", "fetch"} /\ Listing(stmt.rows) = {}
  BY <1>1, <1>2, <1>7, FindsNothing DEF Returns
<1>8. CASE ~ (stmt.do \in {"resolve", "fetch"} /\ Listing(stmt.rows) = {})
  <2>1. PICK g : /\ Goes(p, Append(Front(Front(s)), g))
                 /\ g = IF stmt.do \in {"list", "fetch"} THEN [s[n] EXCEPT !.listed = Listing(stmt.rows)]
                        ELSE s[n]
    BY <1>2, <1>6, <1>8 DEF Returns
  <2>2. s[n].call = "request"
    <3>1. n \in 1 .. Len(s) /\ n <= n
      BY <1>4
    <3> QED
      BY <1>4, <3>1 DEF AtWork, Frames
  <2>3. /\ g.call = "request" /\ g.q = s[n].q /\ g.r = s[n].r /\ g.todo = s[n].todo
        /\ g.listed = Listed(s[n].listed, stmt)
    <3>1. CASE stmt.do \in {"list", "fetch"}
      BY <2>1, <2>2, <3>1 DEF Listed
    <3>2. CASE stmt.do \notin {"list", "fetch"}
      BY <2>1, <2>2, <3>2 DEF Listed
    <3> QED
      BY <3>1, <3>2
  <2>4. Resumes(s, n, e, g, t)
    <3>1. t = Append(Front(Front(s)), g)
      BY <1>1, <2>1, Moves
    <3> QED
      BY <1>4, <2>3, <3>1 DEF Resumes
  <2>5. NewTop(s, n, t) /\ t[n] = g
    BY <2>4, GetsResult
  <2>6. t # <<>>
    BY <2>5, Lists DEF NewTop
  <2>7. ledger' = Committed(r, stmt)
    BY <1>2, <2>6
  <2>8. /\ IsSequence(ledger') /\ DOMAIN ledger' = DOMAIN ledger
        /\ \A i \in DOMAIN ledger : i # r => Beside(ledger[i], ledger'[i])
        /\ Noted(e, stmt, f) /\ f.lost = e.lost
    BY <1>1, <1>2, <1>5, <2>7, CommittedIs
  <2>9. stmt = s[n + 1].stmt /\ Len(s) > n
    BY <1>1, <1>4
  <2>10. DataOK'
    BY <1>2, <1>4, <1>5, <2>8, <2>9, WorkRan
  <2>11. AtWork(t, n, f)' /\ t[1].r = s[1].r
    <3>1. Resumed(s, n, stmt, t)
      BY <2>3, <2>5 DEF Resumed
    <3>2. Commits(s, n, e, stmt, f)
      BY <1>2, <1>4, <1>5, <2>8, <2>9 DEF Commits
    <3> QED
      BY <2>8, <3>1, <3>2, WorkRuns
  <2>12. RecordOK(f)
    <3>1. PICK a : /\ OnBehalf(s[n].q, e) /\ Stage(s[n].q, s[n].listed, a, e)
                   /\ a # <<>> /\ Head(a) = s[n + 1].stmt
      BY <1>4, StageOn, ZenonT(60)
    <3>2. e.answer = "none"
      BY <1>4 DEF AtWork
    <3> QED
      BY <1>5, <2>8, <2>9, <3>1, <3>2, NotedTrue
  <2>13. Head(t).call = "request" /\ Head(t).r = r
    <3>1. 1 \in 1 .. n
      OBVIOUS
    <3>2. Frames(t, n)
      BY <1>4, <2>5, NewFrame DEF AtWork
    <3> QED
      BY <1>5, <2>11, <3>2, HeadOfWork
  <2> QED
    BY <1>1, <1>3, <2>8, <2>10, <2>11, <2>12, <2>13, OwnStep
<1> QED
  BY <1>7, <1>8

\* Its connection is lost before it is committed, or after.
LEMMA LostBefore ==
  ASSUME LogInv, ConnInv, NEW p \in Process, Loses(p), IsData(Top(p).stmt),
         \A p1 \in Process : p1 # p => stack'[p1] = stack[p1] /\ status'[p1] = status[p1],
         ledger' = Closed(MarkLost(ledger, p), p), UNCHANGED <<rows, poolOf>>
  PROVE  LogInv'
<1>1. IsCall(p, "execute")
  BY DEF Loses
<1>2. InRequest(p)
  BY <1>1, StatementOn
<1> QED
  BY <1>2, ReconnectStep

\* What is noted of the request then.
LEMMA LostRecord ==
  ASSUME LogInv, ConnInv, NEW p \in Process, InRequest(p), NEW r, r = RequestOf(p),
         NEW e, e = ledger[r], NEW stmt, rows' = RowsAfter(stmt), poolOf' = PoolsAfter(stmt),
         ledger' = Closed(MarkLost(Committed(r, stmt), p), p), NEW f, f = ledger'[r]
  PROVE  /\ IsSequence(ledger') /\ DOMAIN ledger' = DOMAIN ledger
         /\ \A i \in DOMAIN ledger : i # r => Beside(ledger[i], ledger'[i])
         /\ f.lost
         /\ \E g : Noted(e, stmt, g)
         /\ IF stack'[p] = <<>> THEN f.answer = "error" ELSE Noted(e, stmt, f)
<1>1. r \in DOMAIN ledger /\ IsSequence(ledger) /\ DataOK
  BY WorkIs
<1>2. PICK b, c : b = Committed(r, stmt) /\ c = MarkLost(b, p)
  OBVIOUS
<1>3. /\ IsSequence(b) /\ DOMAIN b = DOMAIN ledger
      /\ \A i \in DOMAIN ledger : i # r => Beside(ledger[i], b[i])
      /\ Noted(e, stmt, b[r])
  BY <1>1, <1>2, CommittedIs
<1>4. SameBut(b, r, c) /\ SameWork(b[r], c[r]) /\ c[r].lost /\ c[r].answer = b[r].answer
  BY <1>1, <1>2, <1>3, LostIs
<1>5. IsSequence(c) /\ r \in DOMAIN c /\ ledger' = Closed(c, p)
  BY <1>1, <1>2, <1>3, <1>4 DEF SameBut
<1>6. /\ SameBut(c, r, ledger') /\ SameWork(c[r], f) /\ f.lost = c[r].lost
      /\ f.answer = IF stack'[p] = <<>> THEN "error" ELSE c[r].answer
  BY <1>5, ClosedIs
<1>7. SameBut(b, r, ledger')
  BY <1>4, <1>6, SameButTwice
<1>8. stack'[p] # <<>> => Noted(e, stmt, f)
  BY <1>3, <1>4, <1>6 DEF Noted, SameWork
<1> QED
  BY <1>3, <1>4, <1>6, <1>7, <1>8 DEF SameBut

LEMMA LostAfter ==
  ASSUME LogInv, ConnInv, NEW p \in Process, Loses(p), IsData(Top(p).stmt), ~ MustRefuse(Top(p).stmt),
         \A p1 \in Process : p1 # p => stack'[p1] = stack[p1] /\ status'[p1] = status[p1],
         rows' = RowsAfter(Top(p).stmt), poolOf' = PoolsAfter(Top(p).stmt),
         ledger' = Closed(MarkLost(Committed(RequestOf(p), Top(p).stmt), p), p)
  PROVE  LogInv'
<1>1. PICK r, e, f, s, t, stmt, top, under :
         /\ r = RequestOf(p) /\ e = ledger[r] /\ f = ledger'[r] /\ s = stack[p] /\ t = stack'[p]
         /\ stmt = Top(p).stmt /\ top = Top(p) /\ under = Under(p)
  OBVIOUS
<1>2. IsCall(p, "execute")
  BY DEF Loses
<1>3. InRequest(p)
  BY <1>2, StatementOn
<1>4. PICK n \in {1, 2} : AtWork(s, n, e) /\ Len(s) = n + 1 /\ s[n + 1] = top
  BY <1>1, <1>2, StatementOn
<1>5. RecordOK(e) /\ DataOK /\ Rests(s) /\ s[1].r = r
  BY <1>1, <1>3, WorkIs
<1>6. /\ IsSequence(ledger') /\ DOMAIN ledger' = DOMAIN ledger
      /\ \A i \in DOMAIN ledger : i # r => Beside(ledger[i], ledger'[i])
      /\ f.lost
      /\ \E g : Noted(e, stmt, g)
      /\ IF t = <<>> THEN f.answer = "error" ELSE Noted(e, stmt, f)
  BY <1>1, <1>3, LostRecord
<1>7. top.call # "request" /\ (t = <<>> \/ Again(top, under, t))
  BY <1>1, <1>3, ConnectsAgain
<1>8. top = Last(s) /\ under = Front(s)
  BY <1>1 DEF Top, Under
<1>9. t # <<>> => AtWork(t, n, e) /\ t[1] = s[1] /\ Len(t) > n /\ t[n + 1].stmt = stmt
  BY <1>1, <1>4, <1>5, <1>7, <1>8, KeepsWork
<1>10. DataOK'
  <2>1. PICK g : Noted(e, stmt, g)
    BY <1>6
  <2>2. /\ Len(s) > n /\ stmt = s[n + 1].stmt /\ ~ MustRefuse(stmt)
        /\ rows' = RowsAfter(stmt) /\ poolOf' = PoolsAfter(stmt)
    BY <1>1, <1>4
  <2> QED
    BY ONLY <1>4, <1>5, <2>1, <2>2, WorkRan
<1>11. RecordOK(f)
  <2>1. e.answer = "none"
    BY <1>4 DEF AtWork
  <2>2. f.answer \in {"none", "error"}
    BY <1>6, <2>1 DEF Noted
  <2> QED
    BY <1>6, <2>2 DEF RecordOK
<1>12. ASSUME t # <<>>
       PROVE  Head(t).call = "request" /\ Head(t).r = r /\ \E m \in {1, 2} : AtWork(t, m, f)'
  <2>1. Commits(t, n, e, stmt, f)
    BY <1>1, <1>4, <1>5, <1>6, <1>9, <1>12 DEF Commits
  <2>2. AtWork(t, n, f)'
    BY <1>6, <2>1, WorkLost
  <2>3. Frames(t, n)
    BY <1>9, <1>12 DEF AtWork
  <2>4. Head(t) = t[1] /\ t[1].call = "request" /\ t[1].r = r
    BY <1>5, <1>9, <1>12, <2>3, HeadOfWork
  <2> QED
    BY <2>2, <2>4
<1> QED
  BY <1>1, <1>3, <1>6, <1>10, <1>11, <1>12, OwnStep

LEMMA LoseStep ==
  ASSUME LogInv, ConnInv, NEW p \in Process, LoseStatement(p),
         \A p1 \in Process : p1 # p => stack'[p1] = stack[p1] /\ status'[p1] = status[p1]
  PROVE  LogInv'
  BY LostBefore, LostAfter DEF LoseStatement

-----------------------------------------------------------------------------
(* What processes do that serve no request.                                *)

\* Nothing is written, and the process serves no request then.
LEMMA PlainStep ==
  ASSUME LogInv, NEW p \in Process,
         \A p1 \in Process : p1 # p => stack'[p1] = stack[p1] /\ status'[p1] = status[p1],
         UNCHANGED <<rows, poolOf, ledger>>, NEW s, s = stack'[p],
         s = <<>> \/ (status'[p] = "starting" /\ Head(s).call # "request")
  PROVE  LogInv'
<1>1. DataOK'
  BY DEF LogInv, DataOK
<1>2. OthersBeside(p)
  <2>1. IsSequence(ledger') /\ ledger' = ledger
    BY DEF LogInv, BookOK
  <2> QED
    BY <2>1 DEF OthersBeside, Beside
<1>3. \A r \in DOMAIN ledger' : r \notin DOMAIN ledger \/ Mine(p, r) => RecordOK(ledger'[r])
  BY DEF LogInv, BookOK
<1>4. OwnWork(p, s)
  BY DEF OwnWork
<1> QED
  BY <1>1, <1>2, <1>3, <1>4, WorkStep

LEMMA ConnectIs == <<Connect>> # <<>> /\ Head(<<Connect>>).call # "request"
BY CallsAre

LEMMA StartStep ==
  ASSUME LogInv, ConnInv, NEW p \in Process, Start(p) \/ Crash(p), UNCHANGED dataVars,
         \A p1 \in Process : p1 # p => stack'[p1] = stack[p1] /\ status'[p1] = status[p1]
  PROVE  LogInv'
<1>1. /\ stack = [q \in Process |-> stack[q]]
      /\ status \in [Process -> {"down", "starting", "up", "failed"}]
  BY DEF ConnInv, StacksOK, StatusOK
<1>2. UNCHANGED <<rows, poolOf, ledger>>
  BY DEF dataVars
<1>3. CASE Start(p)
  <2>1. stack'[p] = <<Connect>> /\ status'[p] = "starting"
    BY <1>1, <1>3 DEF Start
  <2> QED
    BY <1>2, <2>1, ConnectIs, PlainStep
<1>4. CASE Crash(p)
  <2>1. stack'[p] = <<>>
    BY <1>1, <1>4 DEF Crash
  <2> QED
    BY <1>2, <2>1, PlainStep
<1> QED
  BY <1>3, <1>4

\* A process that is starting connects, or fails to.
LEMMA StartingStep ==
  ASSUME LogInv, ConnInv, StacksOK', NEW p \in Process, ~ InRequest(p),
         \A p1 \in Process : p1 # p => stack'[p1] = stack[p1] /\ status'[p1] = status[p1],
         Proceed(p) \/ OpenFails(p) \/ LoseScript(p), UNCHANGED <<rows, poolOf>>,
         ledger' = Closed(ledger, p) \/ ledger' = Closed(MarkLost(ledger, p), p)
  PROVE  LogInv'
<1>1. ledger' = ledger
  BY DEF Closed, MarkLost, Answered
<1>2. stack[p] # <<>>
  BY DEF Proceed, Open, OpenFails, Check, PlanUpgrade, NextScript, ReadVersion,
         RunScript, FindDead, LoseScript, Loses, IsAt, IsCall
<1>3. status[p] = "starting"
  BY <1>2 DEF LogInv, Idle
<1>4. status'[p] = "starting" \/ stack'[p] = <<>>
  BY <1>3, StartsOn
<1>5. PICK s : s = stack'[p]
  OBVIOUS
<1>6. ASSUME status'[p] = "starting"
      PROVE  Head(s).call # "request"
  <2>1. s # <<>> /\ s[1].call = "connect" /\ IsSequence(s)
    BY <1>5, <1>6 DEF StacksOK, Sounds
  <2>2. Head(s) = s[1]
    BY <2>1, TailIs
  <2> QED
    BY <2>1, <2>2
<1> QED
  BY <1>1, <1>4, <1>5, <1>6, PlainStep

LEMMA ActsStep ==
  ASSUME LogInv, ConnInv, StacksOK', NEW p \in Process, Reconnects(p) \/ Disconnects(p),
         \A p1 \in Process : p1 # p => stack'[p1] = stack[p1] /\ status'[p1] = status[p1]
  PROVE  LogInv'
<1>1. /\ Proceed(p) \/ OpenFails(p) \/ LoseScript(p)
      /\ UNCHANGED <<rows, poolOf>>
      /\ ledger' = Closed(ledger, p) \/ ledger' = Closed(MarkLost(ledger, p), p)
  BY DEF Reconnects, Disconnects
<1>2. LoseScript(p) => Loses(p)
  BY DEF LoseScript
<1> QED
  BY <1>1, <1>2, StartingStep, ReconnectStep

-----------------------------------------------------------------------------
(* A worker receives a request.                                            *)

\* What is known of a request that has just come in.
Fresh(q) ==
  [q |-> q, answer |-> "none", changes |-> {}, entries |-> {}, lost |-> FALSE, crossed |-> FALSE]

LEMMA FreshIs ==
  ASSUME NEW q, NEW f, f = Fresh(q)
  PROVE  /\ f.q = q /\ f.answer = "none" /\ f.changes = {} /\ f.entries = {} /\ ~ f.lost /\ ~ f.crossed
         /\ RecordOK(f)
<1>1. f.q = q /\ f.answer = "none" /\ f.changes = {} /\ f.entries = {} /\ ~ f.lost /\ ~ f.crossed
  BY DEF Fresh
<1> QED
  BY <1>1 DEF RecordOK

LEMMA FreshWork ==
  ASSUME NEW q, RequestOK(q), NEW r, NEW f, f = Fresh(q), NEW s, s = <<Serve(r, q)>>
  PROVE  AtWork(s, 1, f) /\ s # <<>> /\ Head(s).call = "request" /\ Head(s).r = r
<1>1. /\ Serve(r, q).call = "request" /\ Serve(r, q).r = r /\ Serve(r, q).q = q
      /\ Serve(r, q).todo = Program(q) /\ Serve(r, q).listed = {}
  BY DEF Serve
<1>2. IsSequence(s) /\ Len(s) = 1 /\ s[1] = Serve(r, q) /\ s # <<>> /\ Head(s) = s[1]
  <2>1. IsSequence(s) /\ Len(s) = 1 /\ s[1] = Serve(r, q)
    BY Lists
  <2> QED
    BY <2>1
<1>3. IsSequence(Program(q))
  BY ProgramsOK DEF ProgramOK, RequestOK
<1>4. \A i \in 1 .. 1 : i = 1
  OBVIOUS
<1>5. Frames(s, 1)
  BY <1>1, <1>2, <1>3, <1>4 DEF Frames
<1>6. Agenda(s, 1) = Program(q)
  BY <1>1, <1>2 DEF Agenda
<1>7. f.q = q /\ f.answer = "none" /\ f.changes = {}
  BY FreshIs
<1>8. Stage(q, {}, Program(q), f) /\ ListedOK(q, {}) /\ OnBehalf(q, f)
  BY <1>7, ProgramStage
<1> QED
  BY <1>1, <1>2, <1>4, <1>5, <1>6, <1>7, <1>8 DEF AtWork

LEMMA ReceiveStep ==
  ASSUME LogInv, ConnInv, NEW p \in Process, Receive(p),
         \A p1 \in Process : p1 # p => stack'[p1] = stack[p1] /\ status'[p1] = status[p1]
  PROVE  LogInv'
<1>1. PICK q \in Requests : /\ stack' = [stack EXCEPT ![p] = <<Serve(Len(ledger) + 1, q)>>]
                            /\ ledger' = Append(ledger, Fresh(q))
  BY DEF Receive, Fresh
<1>2. UNCHANGED <<rows, poolOf>> /\ stack[p] = <<>>
  BY DEF Receive
<1>3. PICK s, r, f : s = stack'[p] /\ r = Len(ledger) + 1 /\ f = ledger'[r]
  OBVIOUS
<1>4. RequestOK(q)
  BY BackendAssumption
<1>5. s = <<Serve(r, q)>>
  BY <1>1, <1>3 DEF ConnInv, StacksOK
<1>6. /\ IsSequence(ledger') /\ Len(ledger) \in Nat
      /\ DOMAIN ledger = 1 .. Len(ledger) /\ DOMAIN ledger' = 1 .. Len(ledger) + 1
      /\ \A i \in 1 .. Len(ledger) : ledger'[i] = ledger[i]
      /\ f = Fresh(q)
  <2>1. IsSequence(ledger)
    BY DEF LogInv, BookOK
  <2>2. /\ IsSequence(ledger') /\ Len(ledger) \in Nat /\ Len(ledger') = Len(ledger) + 1
        /\ \A i \in 1 .. Len(ledger) : ledger'[i] = ledger[i]
        /\ ledger'[Len(ledger) + 1] = Fresh(q)
    BY <1>1, <2>1, OneMore
  <2>3. DOMAIN ledger = 1 .. Len(ledger) /\ DOMAIN ledger' = 1 .. Len(ledger')
    BY <2>1, <2>2, DomainIs
  <2> QED
    BY <1>3, <2>2, <2>3
<1>7. \A i \in DOMAIN ledger' : i \notin DOMAIN ledger => i = r
  BY <1>3, <1>6
<1>8. r \in DOMAIN ledger' /\ r \notin DOMAIN ledger
  BY <1>3, <1>6
<1>9. ~ InRequest(p)
  BY <1>2 DEF InRequest
<1>10. RecordOK(f)
  BY <1>6, FreshIs
<1>11. AtWork(s, 1, f)' /\ s # <<>> /\ Head(s).call = "request" /\ Head(s).r = r
  <2>1. AtWork(s, 1, f) /\ s # <<>> /\ Head(s).call = "request" /\ Head(s).r = r
    BY <1>4, <1>5, <1>6, FreshWork
  <2>2. Stayed(f, f)
    BY <1>2, <1>6, FreshIs DEF Stayed
  <2> QED
    BY <2>1, <2>2, StayedWork
<1>12. DataOK'
  BY <1>2 DEF LogInv, DataOK
<1>13. OthersBeside(p)
  <2>1. \A i \in DOMAIN ledger : Beside(ledger[i], ledger'[i])
    BY <1>2, <1>6 DEF Beside
  <2>2. DOMAIN ledger \subseteq DOMAIN ledger'
    BY <1>6
  <2> QED
    BY <1>6, <2>1, <2>2 DEF OthersBeside
<1>14. \A i \in DOMAIN ledger' : i \notin DOMAIN ledger \/ Mine(p, i) => RecordOK(ledger'[i])
  BY <1>3, <1>7, <1>9, <1>10 DEF Mine
<1>15. OwnWork(p, s)
  BY <1>3, <1>8, <1>11 DEF OwnWork
<1> QED
  BY <1>3, <1>11, <1>12, <1>13, <1>14, <1>15, WorkStep

-----------------------------------------------------------------------------
(* The theorems.                                                           *)

LEMMA LogInit == Init => LogInv
<1> SUFFICES ASSUME Init PROVE LogInv
  OBVIOUS
<1>1. \A p \in Process : stack[p] = <<>>
  BY DEF Init, ConnInit
<1>2. DataOK
  <2>1. rows \subseteq Row /\ \A x \in rows \cap Prefix : VrfOf(x) \in rows
    BY RowsAssumption DEF Init
  <2> QED
    BY <2>1 DEF Init, DataOK
<1>3. BookOK
  <2>1. IsSequence(ledger) /\ Len(ledger) = 0
    BY Lists DEF Init
  <2>2. DOMAIN ledger = 1 .. 0
    BY <2>1, DomainIs
  <2>3. \A r \in DOMAIN ledger : FALSE
    BY <2>2
  <2> QED
    BY <2>1, <2>3 DEF BookOK
<1> QED
  BY <1>1, <1>2, <1>3 DEF LogInv, WorkOK, Idle, Apart, InRequest

LEMMA LogStill ==
  ASSUME LogInv, UNCHANGED vars
  PROVE  LogInv'
<1>1. UNCHANGED <<stack, status, rows, poolOf, ledger>>
  BY DEF vars, connVars, dataVars
<1>2. DataOK'
  BY <1>1 DEF LogInv, DataOK
<1>3. BookOK'
  BY <1>1 DEF LogInv, BookOK, RecordOK, NamedOf
<1>4. Idle' /\ Apart'
  BY <1>1 DEF LogInv, Idle, Apart, InRequest, RequestOf
<1>5. WorkOK'
  <2> SUFFICES ASSUME NEW p \in Process, InRequest(p)'
               PROVE  /\ RequestOf(p)' \in DOMAIN ledger'
                      /\ (\E n \in {1, 2} : AtWork(stack[p], n, ledger[RequestOf(p)]))'
    BY DEF WorkOK
  <2>1. InRequest(p) /\ RequestOf(p)' = RequestOf(p)
    BY <1>1 DEF InRequest, RequestOf
  <2>2. PICK e, s : e = ledger[RequestOf(p)] /\ s = stack[p]
    OBVIOUS
  <2>3. RequestOf(p) \in DOMAIN ledger
    BY <2>1 DEF LogInv, WorkOK
  <2>4. PICK n \in {1, 2} : AtWork(s, n, e)
    BY <2>1, <2>2 DEF LogInv, WorkOK
  <2>5. Beside(e, e)
    BY <1>1 DEF Beside
  <2>6. AtWork(s, n, e)'
    BY <2>4, <2>5, BesideWork
  <2> QED
    BY <1>1, <2>1, <2>2, <2>3, <2>6
<1> QED
  BY <1>2, <1>3, <1>4, <1>5 DEF LogInv

LEMMA LogStep == LogInv /\ ConnInv /\ [Next]_vars => LogInv'
<1> SUFFICES ASSUME LogInv, ConnInv, [Next]_vars PROVE LogInv'
  OBVIOUS
<1>1. CASE UNCHANGED vars
  BY <1>1, LogStill
<1>2. ASSUME NEW p \in Process,
             \/ Works(p) \/ Disconnects(p) \/ LoseStatement(p) \/ Receive(p)
             \/ (Start(p) \/ Crash(p)) /\ UNCHANGED dataVars
      PROVE  LogInv'
  <2>1. Steps(p)
    BY <1>2 DEF Works, Reconnects, Disconnects, Steps, Serves
  <2>2. \A p1 \in Process : p1 # p => stack'[p1] = stack[p1] /\ status'[p1] = status[p1]
    BY <2>1, OthersStill
  <2>3. CASE Reconnects(p) \/ Disconnects(p)
    <3>1. StacksOK'
      BY ConnStep DEF ConnInv
    <3> QED
      BY <2>2, <2>3, <3>1, ActsStep
  <2>4. CASE Continue(p)
    BY <2>2, <2>4, ContinueStep
  <2>5. CASE RunStatement(p)
    BY <2>2, <2>5, RunStep
  <2>6. CASE RefuseStatement(p)
    BY <2>2, <2>6, RefuseStep
  <2>7. CASE LoseStatement(p)
    BY <2>2, <2>7, LoseStep
  <2>8. CASE Receive(p)
    BY <2>2, <2>8, ReceiveStep
  <2>9. CASE (Start(p) \/ Crash(p)) /\ UNCHANGED dataVars
    BY <2>2, <2>9, StartStep
  <2> QED
    BY <1>2, <2>3, <2>4, <2>5, <2>6, <2>7, <2>8, <2>9 DEF Works
<1> QED
  BY <1>1, <1>2 DEF Next

LEMMA ConnInitial == Init => ConnInv
BY ConnInitOK DEF Init

LEMMA LogHolds == Spec => []LogInv
BY LogInit, LogStep, ConnInitial, ConnStep, PTL DEF Spec

\* Whatever connections are lost and processes crash on the way: an operation that
\* returned has written every change of the rows that its specification fits to
\* ip_net_log, if no other operation changed rows between the list it took first and its
\* own change (the add_, edit_ and remove_ functions of backend.py and _execute, which
\* repeats a statement whose answer it did not get).
THEOREM AnsweredLogs == Spec => []AnsweredIsLogged
<1>1. LogInv => AnsweredIsLogged
  BY RecordsSay DEF LogInv
<1> QED
  BY <1>1, LogHolds, PTL

\* What an operation has written to ip_net_log it has really changed, at every moment and
\* also when it fails half-way, as long as no answer to it was lost and no other operation
\* got in between; the exception are the pools that edit_prefix without a pool says a
\* prefix has left (what the functions of backend.py "write to audit table").
THEOREM LogTells == Spec => []LogIsTrue
<1>1. LogInv => LogIsTrue
  BY RecordsSay DEF LogInv
<1> QED
  BY <1>1, LogHolds, PTL

\* An operation that the database refused has changed nothing, although each of its
\* statements is a transaction of its own, unless it was to remove the default VRF:
\* remove_vrf has removed the prefixes by the time the database refuses to remove the VRF.
THEOREM RefusedHasChangedNothing == Spec => []RefusedChangesNothing
<1>1. LogInv => RefusedChangesNothing
  BY RecordsSay DEF LogInv
<1> QED
  BY <1>1, LogHolds, PTL

=============================================================================
