------------------------------ MODULE KafkaQueue ------------------------------
(***************************************************************************)
(* The event queue between the database and Kafka: the trigger function    *)
(* tf_kafka_produce_event puts a row in kafka_produce_event for every      *)
(* changed row of a watched table, in the transaction of the change, and   *)
(* the processes of nipap/kafka_producer.py forward committed events.      *)
(*                                                                         *)
(* nipapd launches a producer at every start and never stops one, so there *)
(* may be several.  Of an event the model keeps its id and the row it is   *)
(* about, which is the key it is sent under.                               *)
(***************************************************************************)
EXTENDS Naturals, Sequences, Functions

CONSTANTS
  Row,          \* rows of the watched tables
  Poison,       \* rows whose events KafkaProducer.send always refuses
  Worker,       \* database sessions that change rows
  Producer,     \* producer processes
  Batch,        \* the LIMIT of 100 events
  MaxEvents,    \* bound: events written
  MaxFailures   \* bound: crashes, lost sessions, failed sends and deliveries

ASSUME QueueAssumption == /\ Poison \subseteq Row
                          /\ Batch \in Nat \ {0}
                          /\ MaxEvents \in Nat
                          /\ MaxFailures \in Nat

VARIABLES
  nextId,      \* kafka_produce_event_id_seq: drawn and never given back
  open,        \* events of each worker's open transaction: id to row
  events,      \* committed rows of kafka_produce_event: id to row
  processed,   \* ids with processed = TRUE
  phase,       \* where each producer is in its loop
  batch,       \* ids each producer has selected
  sent,        \* how many of them it has handed to its KafkaProducer
  session,     \* producers whose transaction still exists in the database
  buffer,      \* ids in the KafkaProducer's own queue
  newest,      \* id of the last message about each row in its topic, 0 for none
  copies,      \* messages per event, counted up to 2
  refused,     \* events whose delivery failed; nobody looks at their futures
  failures

database == <<nextId, open, events>>
topics == <<newest, copies>>
vars == <<nextId, open, events, processed, phase, batch, sent, session,
          buffer, newest, copies, refused, failures>>

Ids == 1 .. MaxEvents

-----------------------------------------------------------------------------
(* The workers.  A changed row is locked until its transaction ends.       *)

Change(w, r) ==
  /\ nextId <= MaxEvents
  /\ \A v \in Worker \ {w} : r \notin Range(open[v])
  /\ open' = [open EXCEPT ![w] =
                [i \in DOMAIN @ \cup {nextId} |-> IF i = nextId THEN r ELSE @[i]]]
  /\ nextId' = nextId + 1
  /\ UNCHANGED <<events, processed, phase, batch, sent, session, buffer, topics,
                 refused, failures>>

Commit(w) ==
  /\ open[w] # <<>>
  /\ events' = [i \in DOMAIN events \cup DOMAIN open[w] |->
                  IF i \in DOMAIN events THEN events[i] ELSE open[w][i]]
  /\ open' = [open EXCEPT ![w] = <<>>]
  /\ UNCHANGED <<nextId, processed, phase, batch, sent, session, buffer, topics,
                 refused, failures>>

Abort(w) ==
  /\ open[w] # <<>>
  /\ open' = [open EXCEPT ![w] = <<>>]
  /\ UNCHANGED <<nextId, events, processed, phase, batch, sent, session, buffer,
                 topics, refused, failures>>

-----------------------------------------------------------------------------
(* The loop of a producer.                                                 *)

Waiting == DOMAIN events \ processed

Held(p) == IF p \in session THEN Range(batch[p]) ELSE {}

\* A mutation: no SKIP LOCKED.
WaitingForAny(p) == Waiting

\* WHERE processed = FALSE ... FOR UPDATE SKIP LOCKED.
Free(p) == Waiting \ UNION {Held(q) : q \in Producer \ {p}}

\* A mutation: ORDER BY id DESC.
NewestFirst(s, S) ==
  /\ \A j, k \in DOMAIN s : j < k => s[j] > s[k]
  /\ \A i \in S \ Range(s), k \in DOMAIN s : s[k] > i

\* ORDER BY id ... LIMIT.
OldestFirst(s, S) ==
  /\ \A j, k \in DOMAIN s : j < k => s[j] < s[k]
  /\ \A i \in S \ Range(s), k \in DOMAIN s : s[k] < i

Fetch(p) ==
  /\ phase[p] = "polling"
  /\ \E n \in 1 .. Batch : \E s \in [1 .. n -> Free(p)] :
       /\ OldestFirst(s, Free(p))
       /\ n = Batch \/ Free(p) \subseteq Range(s)
       /\ batch' = [batch EXCEPT ![p] = s]
  /\ phase' = [phase EXCEPT ![p] = "sending"]
  /\ session' = session \cup {p}
  /\ UNCHANGED <<database, processed, sent, buffer, topics, refused, failures>>

\* The event _send_with_backoff is called for.
Current(p) == batch[p][sent[p] + 1]
Sending(p) == phase[p] = "sending" /\ sent[p] < Len(batch[p])

\* producer.send: asynchronous, returns when the message is in its queue.
Send(p) ==
  /\ Sending(p)
  /\ events[Current(p)] \notin Poison
  /\ buffer' = [buffer EXCEPT ![p] = Append(@, Current(p))]
  /\ sent' = [sent EXCEPT ![p] = @ + 1]
  /\ UNCHANGED <<database, processed, phase, batch, session, topics, refused, failures>>

\* A mutation: the ids sent are not forgotten when the batch goes back.
ResetKeepsCount(p, next) ==
  /\ phase' = [phase EXCEPT ![p] = next]
  /\ batch' = [batch EXCEPT ![p] = <<>>]
  /\ session' = session \ {p}
  /\ buffer' = [buffer EXCEPT ![p] = <<>>]
  /\ UNCHANGED sent

\* conn.rollback(), and a new KafkaProducer in place of the old one, or a new
\* process: what the old one had in its queue is gone with it.
Reset(p, next) ==
  /\ phase' = [phase EXCEPT ![p] = next]
  /\ batch' = [batch EXCEPT ![p] = <<>>]
  /\ sent' = [sent EXCEPT ![p] = 0]
  /\ session' = session \ {p}
  /\ buffer' = [buffer EXCEPT ![p] = <<>>]

Failure == failures < MaxFailures /\ failures' = failures + 1

\* send_failed: the whole batch goes back, whichever event it was.
GiveUp(p) ==
  /\ Sending(p)
  /\ IF events[Current(p)] \in Poison THEN UNCHANGED failures ELSE Failure
  /\ Reset(p, "polling")
  /\ UNCHANGED <<database, processed, topics, refused>>

\* A mutation: the producer does not wait for its queue to drain.
FlushAtOnce(p) ==
  /\ phase[p] = "sending"
  /\ sent[p] = Len(batch[p])
  /\ phase' = [phase EXCEPT ![p] = "flushed"]
  /\ UNCHANGED <<database, processed, batch, sent, session, buffer, topics, refused,
                 failures>>

\* producer.flush returns once every message has been answered, well or not.
Flush(p) ==
  /\ phase[p] = "sending"
  /\ sent[p] = Len(batch[p])
  /\ buffer[p] = <<>>
  /\ phase' = [phase EXCEPT ![p] = "flushed"]
  /\ UNCHANGED <<database, processed, batch, sent, session, buffer, topics, refused,
                 failures>>

\* producer.flush(timeout=10) raises KafkaTimeoutError.
FlushTimesOut(p) ==
  /\ phase[p] = "sending"
  /\ sent[p] = Len(batch[p])
  /\ buffer[p] # <<>>
  /\ Failure
  /\ Reset(p, "polling")
  /\ UNCHANGED <<database, processed, topics, refused>>

\* A mutation: the transaction is never committed.
MarkWithoutCommit(p) ==
  /\ phase[p] = "flushed"
  /\ p \in session
  /\ Reset(p, "polling")
  /\ UNCHANGED <<database, processed, topics, refused, failures>>

\* UPDATE kafka_produce_event SET processed = TRUE, and COMMIT.
Mark(p) ==
  /\ phase[p] = "flushed"
  /\ p \in session
  /\ processed' = processed \cup Range(batch[p])
  /\ Reset(p, "polling")
  /\ UNCHANGED <<database, topics, refused, failures>>

\* The session is found dead: except psycopg2.InterfaceError, or the general
\* handler whose rollback fails and leaves it to the next round.
MarkFails(p) ==
  /\ phase[p] = "flushed"
  /\ p \notin session
  /\ Reset(p, "polling")
  /\ UNCHANGED <<database, processed, topics, refused, failures>>

-----------------------------------------------------------------------------
(* What happens to a producer.                                             *)

\* The broker appends the oldest message of the queue to its topic.
Deliver(p) ==
  /\ buffer[p] # <<>>
  /\ LET i == Head(buffer[p])
     IN  /\ newest' = [newest EXCEPT ![events[i]] = i]
         /\ copies' = [copies EXCEPT ![i] = IF @ < 2 THEN @ + 1 ELSE @]
  /\ buffer' = [buffer EXCEPT ![p] = Tail(@)]
  /\ UNCHANGED <<database, processed, phase, batch, sent, session, refused, failures>>

\* The message is given up by the client library, its future fails.
Refuse(p) ==
  /\ buffer[p] # <<>>
  /\ Failure
  /\ refused' = refused \cup {Head(buffer[p])}
  /\ buffer' = [buffer EXCEPT ![p] = Tail(@)]
  /\ UNCHANGED <<database, processed, phase, batch, sent, session, topics>>

\* The database ends the session and its locks, between two statements.
LoseSession(p) ==
  /\ p \in session
  /\ Failure
  /\ session' = session \ {p}
  /\ UNCHANGED <<database, processed, phase, batch, sent, buffer, topics, refused>>

Crash(p) ==
  /\ phase[p] # "down"
  /\ Failure
  /\ Reset(p, "down")
  /\ UNCHANGED <<database, processed, topics, refused>>

\* nipapd is started again.
Start(p) ==
  /\ phase[p] = "down"
  /\ Reset(p, "polling")
  /\ UNCHANGED <<database, processed, topics, refused, failures>>

-----------------------------------------------------------------------------
Init ==
  /\ nextId = 1
  /\ open = [w \in Worker |-> <<>>]
  /\ events = <<>>
  /\ processed = {}
  /\ phase = [p \in Producer |-> "down"]
  /\ batch = [p \in Producer |-> <<>>]
  /\ sent = [p \in Producer |-> 0]
  /\ session = {}
  /\ buffer = [p \in Producer |-> <<>>]
  /\ newest = [r \in Row |-> 0]
  /\ copies = [i \in Ids |-> 0]
  /\ refused = {}
  /\ failures = 0

\* One round of the loop in run(), failures apart.
Loop(p) ==
  \/ Fetch(p)
  \/ Send(p)
  \/ GiveUp(p)
  \/ Flush(p)
  \/ Mark(p)
  \/ MarkFails(p)

Next ==
  \/ \E w \in Worker, r \in Row : Change(w, r)
  \/ \E w \in Worker : Commit(w) \/ Abort(w)
  \/ \E p \in Producer : Loop(p)
  \/ \E p \in Producer : Deliver(p) \/ Refuse(p)
  \/ \E p \in Producer : FlushTimesOut(p) \/ LoseSession(p)
  \/ \E p \in Producer : Crash(p) \/ Start(p)

Spec == Init /\ [][Next]_vars

\* A running producer goes on, and a broker that is there answers.  No worker
\* has to change anything, and nobody has to start nipapd again.
FairSpec == Spec /\ \A p \in Producer : WF_vars(Loop(p)) /\ WF_vars(Deliver(p))

-----------------------------------------------------------------------------
QueueTypeOK ==
  /\ nextId \in 1 .. MaxEvents + 1
  /\ \A w \in Worker : /\ DOMAIN open[w] \subseteq 1 .. nextId - 1
                       /\ Range(open[w]) \subseteq Row
  /\ DOMAIN events \subseteq 1 .. nextId - 1
  /\ Range(events) \subseteq Row
  /\ processed \subseteq DOMAIN events
  /\ phase \in [Producer -> {"down", "polling", "sending", "flushed"}]
  /\ batch \in [Producer -> Seq(Ids)]
  /\ buffer \in [Producer -> Seq(Ids)]
  /\ sent \in [Producer -> Nat]
  /\ \A p \in Producer : /\ Range(batch[p]) \subseteq DOMAIN events
                         /\ sent[p] \in 0 .. Len(batch[p])
                         /\ Range(buffer[p]) \subseteq Range(batch[p])
  /\ session \subseteq Producer
  /\ newest \in [Row -> Ids \cup {0}]
  /\ copies \in [Ids -> 0 .. 2]
  /\ refused \subseteq DOMAIN events
  /\ failures \in 0 .. MaxFailures

\* No event is marked as processed before it has been in its topic or has been
\* refused: "flush to ensure delivery or at least attempt" (kafka_producer.py),
\* whatever crashes, timeouts and second producers come between.
ProcessedWasAttempted ==
  \A i \in processed : copies[i] > 0 \/ i \in refused

\* While nothing fails, and no event is one that send() always refuses, several
\* producers send no event twice (FOR UPDATE SKIP LOCKED of kafka_producer.py).
SentOnceUnlessFailed ==
  failures = 0 /\ Poison = {} => \A i \in Ids : copies[i] <= 1

\* With one producer, retries notwithstanding, the last message about a row is
\* its last change once all its events are processed and none was refused: the
\* order of the ids, of the batch and of the retries agree.
TopicIsCurrent ==
  \A r \in Row :
    LET about == {i \in DOMAIN events : events[i] = r}
    IN  about \subseteq processed \ refused => \A i \in about : i <= newest[r]

\* If some producer stays up, and no event is one that send() always refuses,
\* every committed event is processed in the end (the loop of run(), "will
\* attempt to recreate producer"); one event of the other kind is enough to
\* hold up all the others of its batch for good.
EventsGetOut ==
  /\ <>[](\E p \in Producer : phase[p] # "down")
  /\ [](\A i \in DOMAIN events : events[i] \notin Poison)
  => \A i \in Ids : i \in Waiting ~> i \in processed

=============================================================================
