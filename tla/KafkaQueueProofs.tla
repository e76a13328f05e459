--------------------------- MODULE KafkaQueueProofs ---------------------------
(***************************************************************************)
(* Three promises of the event queue, for any number of producers,         *)
(* workers, failures and events:                                           *)
(*   - an event is marked as processed only after it was attempted         *)
(*     (QueueInv: what a producer has sent is attempted or still in its    *)
(*     KafkaProducer's queue);                                             *)
(*   - with one producer a topic is never behind what was processed        *)
(*     (TopicInv: an event is selected, sent and answered only after the   *)
(*     earlier ones about its row);                                        *)
(*   - with any number of them, while nothing fails, nothing is sent twice *)
(*     (QuietInv: batches are disjoint, and what has been delivered is     *)
(*     processed or in the answered part of a batch).                      *)
(***************************************************************************)
EXTENDS KafkaQueue, TLAPS

Attempted(i) == copies[i] > 0 \/ i \in refused

\* A producer that is not busy has nothing selected.
IdleHasNoBatch ==
  \A p \in Producer : phase[p] \in {"down", "polling"} => batch[p] = <<>>

SentIsOnItsWay ==
  \A p \in Producer : \A k \in 1 .. sent[p] :
    Attempted(batch[p][k]) \/ batch[p][k] \in Range(buffer[p])

FlushedIsSent ==
  \A p \in Producer : phase[p] = "flushed" =>
    buffer[p] = <<>> /\ sent[p] = Len(batch[p])

\* open and events are functions, whatever their domains.
Tables ==
  /\ open = [w \in Worker |-> open[w]]
  /\ \A w \in Worker : open[w] = [i \in DOMAIN open[w] |-> open[w][i]]
  /\ events = [i \in DOMAIN events |-> events[i]]

QueueInv ==
  /\ QueueTypeOK
  /\ Tables
  /\ IdleHasNoBatch
  /\ SentIsOnItsWay
  /\ FlushedIsSent
  /\ ProcessedWasAttempted

-----------------------------------------------------------------------------
LEMMA InitQueue == Init => QueueInv
<1> SUFFICES ASSUME Init PROVE QueueInv
  OBVIOUS
<1> USE QueueAssumption DEF Init
<1>1. QueueTypeOK
  BY DEF QueueTypeOK, Ids, Range
<1>2. Tables
  BY DEF Tables
<1>3. IdleHasNoBatch /\ SentIsOnItsWay /\ FlushedIsSent /\ ProcessedWasAttempted
  BY DEF IdleHasNoBatch, SentIsOnItsWay, FlushedIsSent, ProcessedWasAttempted
<1> QED
  BY <1>1, <1>2, <1>3 DEF QueueInv

\* The workers touch neither the producers nor the topics.
LEMMA WorkersKeepQueue ==
  ASSUME QueueInv, NEW w \in Worker,
         (\E r \in Row : Change(w, r)) \/ Commit(w) \/ Abort(w)
  PROVE  QueueInv'
<1> USE QueueAssumption
<1>1. UNCHANGED <<processed, phase, batch, sent, session, buffer, topics, refused, failures>>
  BY DEF Change, Commit, Abort
<1>2. /\ nextId' \in 1 .. MaxEvents + 1
      /\ nextId <= nextId'
      /\ \A v \in Worker : /\ DOMAIN open'[v] \subseteq 1 .. nextId' - 1
                           /\ Range(open'[v]) \subseteq Row
      /\ DOMAIN events \subseteq DOMAIN events'
      /\ DOMAIN events' \subseteq 1 .. nextId' - 1
      /\ Range(events') \subseteq Row
      /\ Tables'
  <2>1. CASE \E r \in Row : Change(w, r)
    <3>1. PICK r \in Row : Change(w, r)
      BY <2>1
    <3> DEFINE more == [i \in DOMAIN open[w] \cup {nextId} |->
                          IF i = nextId THEN r ELSE open[w][i]]
    <3>2. /\ open' = [open EXCEPT ![w] = more]
          /\ nextId' = nextId + 1 /\ nextId <= MaxEvents
          /\ UNCHANGED events
      BY <3>1 DEF Change
    <3>3. DOMAIN more \subseteq 1 .. nextId
      BY DEF QueueInv, QueueTypeOK
    <3>3a. Range(more) \subseteq Row
      <4> SUFFICES ASSUME NEW i \in DOMAIN more PROVE more[i] \in Row
        BY DEF Range
      <4>1. \A j \in DOMAIN open[w] : open[w][j] \in Row
        BY DEF QueueInv, QueueTypeOK, Range
      <4> QED
        BY <4>1
    <3> HIDE DEF more
    <3>4. \A v \in Worker : open'[v] = IF v = w THEN more ELSE open[v]
      BY <3>2 DEF QueueInv, Tables
    <3>5. more = [i \in DOMAIN more |-> more[i]]
      BY DEF more
    <3>6. /\ nextId' \in 1 .. MaxEvents + 1 /\ nextId' - 1 = nextId
          /\ DOMAIN events \subseteq 1 .. nextId
      BY <3>2 DEF QueueInv, QueueTypeOK
    <3>7. \A v \in Worker : DOMAIN open'[v] \subseteq 1 .. nextId /\ Range(open'[v]) \subseteq Row
      <4> TAKE v \in Worker
      <4>1. CASE v = w
        BY <4>1, <3>3, <3>3a, <3>4
      <4>2. CASE v # w
        <5>1. open'[v] = open[v]
          BY <4>2, <3>4
        <5>2. DOMAIN open[v] \subseteq 1 .. nextId - 1 /\ Range(open[v]) \subseteq Row
          BY DEF QueueInv, QueueTypeOK
        <5>3. 1 .. nextId - 1 \subseteq 1 .. nextId
          BY DEF QueueInv, QueueTypeOK
        <5> QED
          BY <5>1, <5>2, <5>3
      <4> QED
        BY <4>1, <4>2
    <3>8. Tables'
      <4>1. open' = [v \in Worker |-> open'[v]]
        BY <3>2 DEF QueueInv, Tables
      <4>2. \A v \in Worker : open'[v] = [i \in DOMAIN open'[v] |-> open'[v][i]]
        BY <3>4, <3>5 DEF QueueInv, Tables
      <4> QED
        BY <4>1, <4>2, <3>2 DEF QueueInv, Tables
    <3> QED
      BY <3>2, <3>6, <3>7, <3>8 DEF QueueInv, QueueTypeOK
  <2>2. CASE Commit(w)
    <3> DEFINE all == [i \in DOMAIN events \cup DOMAIN open[w] |->
                         IF i \in DOMAIN events THEN events[i] ELSE open[w][i]]
    <3>1. events' = all /\ open' = [open EXCEPT ![w] = <<>>] /\ UNCHANGED nextId
      BY <2>2 DEF Commit
    <3>2. /\ DOMAIN all = DOMAIN events \cup DOMAIN open[w]
          /\ Range(all) \subseteq Row
          /\ all = [i \in DOMAIN all |-> all[i]]
      BY DEF QueueInv, QueueTypeOK, Range
    <3> HIDE DEF all
    <3>3. \A v \in Worker : open'[v] = IF v = w THEN <<>> ELSE open[v]
      BY <3>1 DEF QueueInv, Tables
    <3>4. DOMAIN <<>> = {} /\ Range(<<>>) = {} /\ <<>> = [i \in DOMAIN <<>> |-> <<>>[i]]
      BY DEF Range
    <3> QED
      <4>1. /\ nextId' \in 1 .. MaxEvents + 1 /\ nextId <= nextId'
            /\ DOMAIN events' \subseteq 1 .. nextId' - 1
            /\ Range(events') \subseteq Row
            /\ DOMAIN events \subseteq DOMAIN events'
        BY <3>1, <3>2 DEF QueueInv, QueueTypeOK
      <4>2. \A v \in Worker : /\ DOMAIN open'[v] \subseteq 1 .. nextId' - 1
                               /\ Range(open'[v]) \subseteq Row
        BY <3>1, <3>3, <3>4 DEF QueueInv, QueueTypeOK
      <4>3. Tables'
        BY <3>1, <3>2, <3>3, <3>4 DEF QueueInv, Tables
      <4> QED
        BY <4>1, <4>2, <4>3
  <2>3. CASE Abort(w)
    <3>1. open' = [open EXCEPT ![w] = <<>>] /\ UNCHANGED <<nextId, events>>
      BY <2>3 DEF Abort
    <3>2. \A v \in Worker : open'[v] = IF v = w THEN <<>> ELSE open[v]
      BY <3>1 DEF QueueInv, Tables
    <3>3. DOMAIN <<>> = {} /\ Range(<<>>) = {} /\ <<>> = [i \in DOMAIN <<>> |-> <<>>[i]]
      BY DEF Range
    <3> QED
      <4>1. \A v \in Worker : /\ DOMAIN open'[v] \subseteq 1 .. nextId' - 1
                               /\ Range(open'[v]) \subseteq Row
        BY <3>1, <3>2, <3>3 DEF QueueInv, QueueTypeOK
      <4>2. Tables'
        BY <3>1, <3>2, <3>3 DEF QueueInv, Tables
      <4> QED
        BY <4>1, <4>2, <3>1 DEF QueueInv, QueueTypeOK
  <2> QED
    BY <2>1, <2>2, <2>3
<1>3. QueueTypeOK'
  BY <1>1, <1>2 DEF QueueInv, QueueTypeOK, topics
<1>4. (IdleHasNoBatch /\ SentIsOnItsWay /\ FlushedIsSent /\ ProcessedWasAttempted)'
  BY <1>1 DEF QueueInv, IdleHasNoBatch, SentIsOnItsWay, FlushedIsSent,
              ProcessedWasAttempted, Attempted, topics
<1> QED
  BY <1>2, <1>3, <1>4 DEF QueueInv

\* A batch goes back or is done with; what it marks has been attempted.
LEMMA ResetKeepsQueue ==
  ASSUME QueueInv, NEW p \in Producer, NEW next \in {"down", "polling"},
         Reset(p, next),
         UNCHANGED <<database, topics, refused>>,
         failures' \in 0 .. MaxFailures,
         processed' \subseteq DOMAIN events,
         \A i \in processed' : i \in processed \/ Attempted(i)
  PROVE  QueueInv'
<1> USE QueueAssumption
<1>1. /\ \A q \in Producer :
           /\ phase'[q] = IF q = p THEN next ELSE phase[q]
           /\ batch'[q] = IF q = p THEN <<>> ELSE batch[q]
           /\ sent'[q] = IF q = p THEN 0 ELSE sent[q]
           /\ buffer'[q] = IF q = p THEN <<>> ELSE buffer[q]
      /\ phase' \in [Producer -> {"down", "polling", "sending", "flushed"}]
      /\ batch' \in [Producer -> Seq(Ids)]
      /\ sent' \in [Producer -> Nat]
      /\ buffer' \in [Producer -> Seq(Ids)]
      /\ session' \subseteq Producer
  BY DEF Reset, QueueInv, QueueTypeOK
<1>2. Range(<<>>) = {} /\ Len(<<>>) = 0
  BY DEF Range
<1>3. \A q \in Producer : /\ Range(batch'[q]) \subseteq DOMAIN events'
                          /\ sent'[q] \in 0 .. Len(batch'[q])
                          /\ Range(buffer'[q]) \subseteq Range(batch'[q])
  BY <1>1, <1>2 DEF QueueInv, QueueTypeOK, database
<1>4. QueueTypeOK' /\ Tables'
  <2>1. UNCHANGED <<nextId, open, events, newest, copies, refused>>
    BY DEF database, topics
  <2>2. Tables'
    BY <2>1 DEF QueueInv, Tables
  <2> QED
    BY <1>1, <1>3, <2>1, <2>2 DEF QueueInv, QueueTypeOK
<1>5. (IdleHasNoBatch /\ SentIsOnItsWay /\ FlushedIsSent)'
  <2>1. IdleHasNoBatch'
    BY <1>1 DEF QueueInv, IdleHasNoBatch
  <2>2. FlushedIsSent'
    BY <1>1 DEF QueueInv, FlushedIsSent
  <2>3. SentIsOnItsWay'
    <3> SUFFICES ASSUME NEW q \in Producer, NEW k \in 1 .. sent'[q]
                 PROVE  Attempted(batch'[q][k]) \/ batch'[q][k] \in Range(buffer'[q])
      BY DEF SentIsOnItsWay, Attempted, topics
    <3>1. q # p
      BY <1>1
    <3> QED
      BY <1>1, <3>1 DEF QueueInv, SentIsOnItsWay
  <2> QED
    BY <2>1, <2>2, <2>3
<1>6. ProcessedWasAttempted'
  BY DEF QueueInv, ProcessedWasAttempted, Attempted, topics
<1> QED
  BY <1>4, <1>5, <1>6 DEF QueueInv

LEMMA FetchKeepsQueue ==
  ASSUME QueueInv, NEW p \in Producer, Fetch(p)
  PROVE  QueueInv'
<1> USE QueueAssumption
<1>1. PICK n \in 1 .. Batch : \E s \in [1 .. n -> Free(p)] :
        batch' = [batch EXCEPT ![p] = s]
  BY DEF Fetch
<1>2. PICK s \in [1 .. n -> Free(p)] : batch' = [batch EXCEPT ![p] = s]
  BY <1>1
<1>3. Free(p) \subseteq DOMAIN events /\ DOMAIN events \subseteq Ids
  BY QueueAssumption DEF Free, Waiting, QueueInv, QueueTypeOK, Ids
<1>4. s \in Seq(Ids) /\ Range(s) \subseteq DOMAIN events /\ Len(s) \in Nat
  BY <1>2, <1>3 DEF Range
<1>5. phase[p] = "polling" /\ batch[p] = <<>>
  BY DEF Fetch, QueueInv, IdleHasNoBatch
<1>6. sent[p] = 0 /\ Range(buffer[p]) = {}
  <2>1. Len(batch[p]) = 0 /\ Range(batch[p]) = {}
    BY <1>5 DEF Range
  <2>2. sent[p] \in 0 .. Len(batch[p]) /\ Range(buffer[p]) \subseteq Range(batch[p])
    BY DEF QueueInv, QueueTypeOK
  <2> QED
    BY <2>1, <2>2
<1>7. /\ \A q \in Producer : /\ batch'[q] = IF q = p THEN s ELSE batch[q]
                             /\ phase'[q] = IF q = p THEN "sending" ELSE phase[q]
      /\ batch' \in [Producer -> Seq(Ids)]
      /\ phase' \in [Producer -> {"down", "polling", "sending", "flushed"}]
      /\ session' \subseteq Producer
  BY <1>2, <1>4 DEF Fetch, QueueInv, QueueTypeOK
<1>8. UNCHANGED <<database, processed, sent, buffer, topics, refused, failures>>
  BY DEF Fetch
<1>9. \A q \in Producer : /\ Range(batch'[q]) \subseteq DOMAIN events'
                          /\ sent'[q] \in 0 .. Len(batch'[q])
                          /\ Range(buffer'[q]) \subseteq Range(batch'[q])
  <2> TAKE q \in Producer
  <2>1. CASE q = p
    BY <2>1, <1>4, <1>6, <1>7, <1>8 DEF database
  <2>2. CASE q # p
    BY <2>2, <1>7, <1>8 DEF QueueInv, QueueTypeOK, database
  <2> QED
    BY <2>1, <2>2
<1>10. QueueTypeOK' /\ Tables'
  BY <1>7, <1>8, <1>9 DEF QueueInv, QueueTypeOK, Tables, database, topics
<1>11. SentIsOnItsWay'
  BY <1>6, <1>7, <1>8 DEF QueueInv, SentIsOnItsWay, Attempted, topics
<1>12. (IdleHasNoBatch /\ FlushedIsSent /\ ProcessedWasAttempted)'
  BY <1>7, <1>8 DEF QueueInv, IdleHasNoBatch, FlushedIsSent, ProcessedWasAttempted, topics
<1> QED
  BY <1>10, <1>11, <1>12 DEF QueueInv

\* Sequences as functions on their indices.
LEMMA AppendRange ==
  ASSUME NEW S, NEW s \in Seq(S), NEW e \in S
  PROVE  /\ Append(s, e) \in Seq(S)
         /\ \A x : x \in Range(Append(s, e)) <=> x \in Range(s) \/ x = e
<1>1. /\ Append(s, e) \in Seq(S)
      /\ DOMAIN Append(s, e) = 1 .. Len(s) + 1
      /\ \A k \in 1 .. Len(s) : Append(s, e)[k] = s[k]
      /\ Append(s, e)[Len(s) + 1] = e
      /\ DOMAIN s = 1 .. Len(s) /\ Len(s) \in Nat
  OBVIOUS
<1>2. DOMAIN Append(s, e) = DOMAIN s \cup {Len(s) + 1}
  BY <1>1
<1> QED
  BY <1>1, <1>2 DEF Range

LEMMA TailRange ==
  ASSUME NEW S, NEW s \in Seq(S), s # <<>>
  PROVE  /\ Tail(s) \in Seq(S)
         /\ Head(s) \in Range(s)
         /\ Range(Tail(s)) \subseteq Range(s)
         /\ \A x \in Range(s) : x = Head(s) \/ x \in Range(Tail(s))
<1>1. /\ Tail(s) \in Seq(S) /\ Len(s) \in Nat \ {0}
      /\ DOMAIN s = 1 .. Len(s) /\ DOMAIN Tail(s) = 1 .. Len(s) - 1
      /\ \A k \in 1 .. Len(s) - 1 : Tail(s)[k] = s[k + 1]
      /\ Head(s) = s[1]
  OBVIOUS
<1> DEFINE t == Tail(s)
<1>2. /\ t \in Seq(S) /\ Len(s) \in Nat \ {0} /\ Head(s) = s[1]
      /\ DOMAIN s = 1 .. Len(s) /\ DOMAIN t = 1 .. Len(s) - 1
      /\ \A k \in 1 .. Len(s) - 1 : t[k] = s[k + 1]
  BY <1>1
<1> HIDE DEF t
<1>3. Head(s) \in Range(s)
  <2>1. 1 \in DOMAIN s
    BY <1>2
  <2>2. QED
    BY <1>2, <2>1 DEF Range
<1>4. Range(t) \subseteq Range(s)
  <2>1. \A k \in DOMAIN t : k + 1 \in DOMAIN s /\ t[k] = s[k + 1]
    BY <1>2
  <2>2. QED
    BY <2>1 DEF Range
<1>5. ASSUME NEW x \in Range(s) PROVE x = Head(s) \/ x \in Range(t)
  <2>1. PICK k \in DOMAIN s : s[k] = x
    BY DEF Range
  <2>2. k = 1 \/ (k - 1 \in DOMAIN t /\ t[k - 1] = s[k])
    BY <1>2
  <2>3. QED
    BY <1>2, <2>1, <2>2 DEF Range
<1> QED
  BY <1>2, <1>3, <1>4, <1>5 DEF t

LEMMA SendKeepsQueue ==
  ASSUME QueueInv, NEW p \in Producer, Send(p)
  PROVE  QueueInv'
<1> USE QueueAssumption
<1> DEFINE i == Current(p)
<1>1. /\ phase[p] = "sending" /\ sent[p] < Len(batch[p])
      /\ buffer' = [buffer EXCEPT ![p] = Append(@, i)]
      /\ sent' = [sent EXCEPT ![p] = @ + 1]
      /\ UNCHANGED <<database, processed, phase, batch, session, topics, refused, failures>>
  BY DEF Send, Sending
<1>2. /\ batch[p] \in Seq(Ids) /\ buffer[p] \in Seq(Ids) /\ sent[p] \in Nat
      /\ Len(batch[p]) \in Nat
  BY DEF QueueInv, QueueTypeOK
<1>3. i = batch[p][sent[p] + 1] /\ i \in Range(batch[p]) /\ i \in Ids
  BY <1>1, <1>2 DEF Current, Range
<1> HIDE DEF i
<1>4. /\ Append(buffer[p], i) \in Seq(Ids)
      /\ \A x : x \in Range(Append(buffer[p], i)) <=> x \in Range(buffer[p]) \/ x = i
  BY <1>2, <1>3, AppendRange
<1>5. /\ \A q \in Producer :
           /\ buffer'[q] = IF q = p THEN Append(buffer[p], i) ELSE buffer[q]
           /\ sent'[q] = IF q = p THEN sent[p] + 1 ELSE sent[q]
      /\ buffer' \in [Producer -> Seq(Ids)]
      /\ sent' \in [Producer -> Nat]
  BY <1>1, <1>2, <1>4 DEF QueueInv, QueueTypeOK
<1>6. \A q \in Producer : /\ Range(batch'[q]) \subseteq DOMAIN events'
                          /\ sent'[q] \in 0 .. Len(batch'[q])
                          /\ Range(buffer'[q]) \subseteq Range(batch'[q])
  <2> TAKE q \in Producer
  <2>1. CASE q = p
    BY <2>1, <1>1, <1>2, <1>3, <1>4, <1>5 DEF QueueInv, QueueTypeOK, database
  <2>2. CASE q # p
    BY <2>2, <1>1, <1>5 DEF QueueInv, QueueTypeOK, database
  <2> QED
    BY <2>1, <2>2
<1>7. QueueTypeOK' /\ Tables'
  <2>1. UNCHANGED <<nextId, open, events, newest, copies>>
    BY <1>1 DEF database, topics
  <2>2. Tables'
    BY <2>1 DEF QueueInv, Tables
  <2> QED
    BY <1>1, <1>5, <1>6, <2>1, <2>2 DEF QueueInv, QueueTypeOK
<1>8. SentIsOnItsWay'
  <2> SUFFICES ASSUME NEW q \in Producer, NEW k \in 1 .. sent'[q]
               PROVE  Attempted(batch[q][k]) \/ batch[q][k] \in Range(buffer'[q])
    BY <1>1 DEF SentIsOnItsWay, Attempted, topics
  <2>1. CASE q # p
    BY <2>1, <1>5 DEF QueueInv, SentIsOnItsWay
  <2>2. CASE q = p /\ k = sent[p] + 1
    BY <2>2, <1>3, <1>4, <1>5
  <2>3. CASE q = p /\ k # sent[p] + 1
    <3>1. k \in 1 .. sent[p]
      BY <2>3, <1>2, <1>5
    <3> QED
      BY <3>1, <2>3, <1>4, <1>5 DEF QueueInv, SentIsOnItsWay
  <2> QED
    BY <2>1, <2>2, <2>3
<1>9. FlushedIsSent'
  BY <1>1, <1>5 DEF QueueInv, FlushedIsSent
<1>10. (IdleHasNoBatch /\ ProcessedWasAttempted)'
  BY <1>1 DEF QueueInv, IdleHasNoBatch, ProcessedWasAttempted, topics
<1> QED
  BY <1>7, <1>8, <1>9, <1>10 DEF QueueInv

LEMMA FlushKeepsQueue ==
  ASSUME QueueInv, NEW p \in Producer, Flush(p)
  PROVE  QueueInv'
<1>1. /\ sent[p] = Len(batch[p]) /\ buffer[p] = <<>>
      /\ phase' = [phase EXCEPT ![p] = "flushed"]
      /\ UNCHANGED <<database, processed, batch, sent, session, buffer, topics, refused,
                     failures>>
  BY DEF Flush
<1>2. /\ \A q \in Producer : phase'[q] = IF q = p THEN "flushed" ELSE phase[q]
      /\ phase' \in [Producer -> {"down", "polling", "sending", "flushed"}]
  BY <1>1 DEF QueueInv, QueueTypeOK
<1>3. QueueTypeOK' /\ Tables'
  BY <1>1, <1>2 DEF QueueInv, QueueTypeOK, Tables, database, topics
<1>4. (IdleHasNoBatch /\ SentIsOnItsWay /\ FlushedIsSent /\ ProcessedWasAttempted)'
  BY <1>1, <1>2 DEF QueueInv, IdleHasNoBatch, SentIsOnItsWay, FlushedIsSent,
                    ProcessedWasAttempted, Attempted, topics
<1> QED
  BY <1>3, <1>4 DEF QueueInv

\* A message leaves the queue of p by being attempted, in one way or the other.
LEMMA AnswerKeepsQueue ==
  ASSUME QueueInv, NEW p \in Producer, Deliver(p) \/ Refuse(p)
  PROVE  QueueInv'
<1> USE QueueAssumption
<1> DEFINE i == Head(buffer[p])
<1>1. /\ buffer[p] # <<>>
      /\ buffer' = [buffer EXCEPT ![p] = Tail(@)]
      /\ UNCHANGED <<database, processed, phase, batch, sent, session>>
  BY DEF Deliver, Refuse
<1>2. buffer[p] \in Seq(Ids)
  BY DEF QueueInv, QueueTypeOK
<1>3. /\ Tail(buffer[p]) \in Seq(Ids)
      /\ i \in Range(buffer[p])
      /\ Range(Tail(buffer[p])) \subseteq Range(buffer[p])
      /\ \A x \in Range(buffer[p]) : x = i \/ x \in Range(Tail(buffer[p]))
  BY <1>1, <1>2, TailRange
<1>4. i \in DOMAIN events /\ i \in Ids /\ events[i] \in Row
  <2>1. i \in DOMAIN events
    BY <1>3 DEF QueueInv, QueueTypeOK
  <2>2. i \in Ids
    BY <2>1 DEF QueueInv, QueueTypeOK, Ids
  <2>3. events[i] \in Row
    BY <2>1 DEF QueueInv, QueueTypeOK, Range
  <2> QED
    BY <2>1, <2>2, <2>3
<1> HIDE DEF i
<1>5. /\ \A q \in Producer :
           buffer'[q] = IF q = p THEN Tail(buffer[p]) ELSE buffer[q]
      /\ buffer' \in [Producer -> Seq(Ids)]
  BY <1>1, <1>3 DEF QueueInv, QueueTypeOK
<1>6. /\ newest' \in [Row -> Ids \cup {0}]
      /\ copies' \in [Ids -> 0 .. 2]
      /\ refused' \subseteq DOMAIN events
      /\ failures' \in 0 .. MaxFailures
      /\ (copies'[i] > 0 \/ i \in refused')
      /\ \A j \in DOMAIN events : Attempted(j) => Attempted(j)'
  <2>1. CASE Deliver(p)
    <3>1. /\ newest' = [newest EXCEPT ![events[i]] = i]
          /\ copies' = [copies EXCEPT ![i] = IF @ < 2 THEN @ + 1 ELSE @]
          /\ UNCHANGED <<refused, failures>>
      BY <2>1 DEF Deliver, i
    <3>2. newest' \in [Row -> Ids \cup {0}]
      BY <3>1, <1>4 DEF QueueInv, QueueTypeOK
    <3>3. copies \in [Ids -> 0 .. 2] /\ DOMAIN events \subseteq Ids
      BY DEF QueueInv, QueueTypeOK, Ids
    <3>4. /\ copies' \in [Ids -> 0 .. 2]
          /\ copies'[i] > 0
          /\ \A j \in Ids : copies[j] > 0 => copies'[j] > 0
      BY <3>1, <3>3, <1>4
    <3>5. (copies'[i] > 0 \/ i \in refused') /\ \A j \in DOMAIN events : Attempted(j) => Attempted(j)'
      BY <3>1, <3>3, <3>4 DEF Attempted
    <3> QED
      BY <3>1, <3>2, <3>4, <3>5 DEF QueueInv, QueueTypeOK
  <2>2. CASE Refuse(p)
    <3>1. /\ refused' = refused \cup {i}
          /\ failures < MaxFailures /\ failures' = failures + 1
          /\ UNCHANGED <<newest, copies>>
      BY <2>2 DEF Refuse, Failure, topics, i
    <3>2. (copies'[i] > 0 \/ i \in refused') /\ \A j \in DOMAIN events : Attempted(j) => Attempted(j)'
      BY <3>1 DEF Attempted
    <3>3. failures' \in 0 .. MaxFailures
      BY <3>1 DEF QueueInv, QueueTypeOK
    <3> QED
      BY <3>1, <3>2, <3>3, <1>4 DEF QueueInv, QueueTypeOK
  <2> QED
    BY <2>1, <2>2
<1>7. \A q \in Producer : /\ Range(batch'[q]) \subseteq DOMAIN events'
                          /\ sent'[q] \in 0 .. Len(batch'[q])
                          /\ Range(buffer'[q]) \subseteq Range(batch'[q])
  BY <1>1, <1>3, <1>5 DEF QueueInv, QueueTypeOK, database
<1>8. QueueTypeOK' /\ Tables'
  <2>1. UNCHANGED <<nextId, open, events>>
    BY <1>1 DEF database
  <2>2. Tables'
    BY <2>1 DEF QueueInv, Tables
  <2> QED
    BY <1>1, <1>5, <1>6, <1>7, <2>1, <2>2 DEF QueueInv, QueueTypeOK
<1>9. SentIsOnItsWay'
  <2> SUFFICES ASSUME NEW q \in Producer, NEW k \in 1 .. sent[q]
               PROVE  Attempted(batch[q][k])' \/ batch[q][k] \in Range(buffer'[q])
    BY <1>1 DEF SentIsOnItsWay, Attempted
  <2>1. batch[q][k] \in DOMAIN events
    BY DEF QueueInv, QueueTypeOK, Range
  <2>2. Attempted(batch[q][k]) \/ batch[q][k] \in Range(buffer[q])
    BY DEF QueueInv, SentIsOnItsWay
  <2>3. batch' = batch
    BY <1>1
  <2> QED
    <3>1. CASE Attempted(batch[q][k])
      BY <3>1, <2>1, <2>3, <1>6 DEF Attempted
    <3>2. CASE batch[q][k] \in Range(buffer[q]) /\ q # p
      BY <3>2, <1>5
    <3>3. CASE batch[q][k] \in Range(buffer[q]) /\ q = p
      <4>1. batch[q][k] = i \/ batch[q][k] \in Range(Tail(buffer[p]))
        BY <3>3, <1>3
      <4> QED
        BY <4>1, <3>3, <2>3, <1>5, <1>6 DEF Attempted
    <3> QED
      BY <2>2, <3>1, <3>2, <3>3
<1>10. FlushedIsSent'
  BY <1>1, <1>5 DEF QueueInv, FlushedIsSent
<1>11. IdleHasNoBatch'
  BY <1>1 DEF QueueInv, IdleHasNoBatch
<1>12. ProcessedWasAttempted'
  BY <1>1, <1>6 DEF QueueInv, QueueTypeOK, ProcessedWasAttempted, Attempted
<1> QED
  BY <1>8, <1>9, <1>10, <1>11, <1>12 DEF QueueInv

LEMMA LoseSessionKeepsQueue ==
  ASSUME QueueInv, NEW p \in Producer, LoseSession(p)
  PROVE  QueueInv'
<1>1. /\ session' = session \ {p}
      /\ failures < MaxFailures /\ failures' = failures + 1
      /\ UNCHANGED <<database, processed, phase, batch, sent, buffer, topics, refused>>
  BY DEF LoseSession, Failure
<1>2. QueueTypeOK' /\ Tables'
  BY <1>1, QueueAssumption, SMTT(30) DEF QueueInv, QueueTypeOK, Tables, database, topics
<1>3. (IdleHasNoBatch /\ SentIsOnItsWay /\ FlushedIsSent /\ ProcessedWasAttempted)'
  BY <1>1 DEF QueueInv, IdleHasNoBatch, SentIsOnItsWay, FlushedIsSent,
              ProcessedWasAttempted, Attempted, topics
<1> QED
  BY <1>2, <1>3 DEF QueueInv

\* What Mark marks was sent and its queue was empty: it was attempted.
LEMMA MarkKeepsQueue ==
  ASSUME QueueInv, NEW p \in Producer, Mark(p)
  PROVE  QueueInv'
<1>1. /\ phase[p] = "flushed"
      /\ processed' = processed \cup Range(batch[p])
      /\ Reset(p, "polling")
      /\ UNCHANGED <<database, topics, refused, failures>>
  BY DEF Mark
<1>2. buffer[p] = <<>> /\ sent[p] = Len(batch[p]) /\ Range(buffer[p]) = {}
  BY <1>1 DEF QueueInv, FlushedIsSent, Range
<1>3. \A i \in Range(batch[p]) : Attempted(i)
  <2>1. DOMAIN batch[p] = 1 .. sent[p]
    BY <1>2 DEF QueueInv, QueueTypeOK
  <2> QED
    BY <2>1, <1>2 DEF QueueInv, SentIsOnItsWay, Range
<1>4. Range(batch[p]) \subseteq DOMAIN events /\ processed \subseteq DOMAIN events
  BY DEF QueueInv, QueueTypeOK
<1>5. failures' \in 0 .. MaxFailures
  BY <1>1 DEF QueueInv, QueueTypeOK
<1>6. \A i \in processed' : i \in processed \/ Attempted(i)
  BY <1>1, <1>3
<1> QED
  BY <1>1, <1>4, <1>5, <1>6, ResetKeepsQueue DEF Attempted

LEMMA GoBackKeepsQueue ==
  ASSUME QueueInv, NEW p \in Producer,
         GiveUp(p) \/ FlushTimesOut(p) \/ MarkFails(p) \/ Crash(p) \/ Start(p)
  PROVE  QueueInv'
<1>1. \E next \in {"down", "polling"} : Reset(p, next)
  BY DEF GiveUp, FlushTimesOut, MarkFails, Crash, Start
<1>2. /\ UNCHANGED <<database, topics, refused>>
      /\ UNCHANGED processed
      /\ failures' = failures \/ (failures < MaxFailures /\ failures' = failures + 1)
  BY DEF GiveUp, FlushTimesOut, MarkFails, Crash, Start, Failure
<1>3. failures' \in 0 .. MaxFailures /\ processed' \subseteq DOMAIN events
  BY <1>2, QueueAssumption DEF QueueInv, QueueTypeOK
<1>4. \A i \in processed' : i \in processed \/ Attempted(i)
  BY <1>2
<1> QED
  BY <1>1, <1>2, <1>3, <1>4, ResetKeepsQueue DEF Attempted

LEMMA StepKeepsQueue == QueueInv /\ [Next]_vars => QueueInv'
<1> SUFFICES ASSUME QueueInv, [Next]_vars PROVE QueueInv'
  OBVIOUS
<1>1. CASE \E w \in Worker : (\E r \in Row : Change(w, r)) \/ Commit(w) \/ Abort(w)
  BY <1>1, WorkersKeepQueue
<1>2. CASE \E p \in Producer : Fetch(p)
  BY <1>2, FetchKeepsQueue
<1>3. CASE \E p \in Producer : Send(p)
  BY <1>3, SendKeepsQueue
<1>4. CASE \E p \in Producer : Flush(p)
  BY <1>4, FlushKeepsQueue
<1>5. CASE \E p \in Producer : Mark(p)
  BY <1>5, MarkKeepsQueue
<1>6. CASE \E p \in Producer :
             GiveUp(p) \/ FlushTimesOut(p) \/ MarkFails(p) \/ Crash(p) \/ Start(p)
  BY <1>6, GoBackKeepsQueue
<1>7. CASE \E p \in Producer : Deliver(p) \/ Refuse(p)
  BY <1>7, AnswerKeepsQueue
<1>8. CASE \E p \in Producer : LoseSession(p)
  BY <1>8, LoseSessionKeepsQueue
<1>9. CASE UNCHANGED vars
  BY <1>9 DEF vars, topics, QueueInv, QueueTypeOK, Tables, IdleHasNoBatch, SentIsOnItsWay,
              FlushedIsSent, ProcessedWasAttempted, Attempted
<1> QED
  BY <1>1, <1>2, <1>3, <1>4, <1>5, <1>6, <1>7, <1>8, <1>9 DEF Next, Loop

\* The rows of the queue, the producers and the topics keep their types and
\* what they refer to exists (kafka_produce_event, run() of kafka_producer.py).
THEOREM QueueHasItsShape == Spec => []QueueTypeOK
<1>1. QueueInv => QueueTypeOK
  BY DEF QueueInv
<1> QED
  BY <1>1, InitQueue, StepKeepsQueue, PTL DEF Spec

\* Nothing is marked as processed unattempted, however many producers there
\* are and wherever they fail (run() of kafka_producer.py).
THEOREM MarkedIsAttempted == Spec => []ProcessedWasAttempted
<1>1. QueueInv => ProcessedWasAttempted
  BY DEF QueueInv
<1> QED
  BY <1>1, InitQueue, StepKeepsQueue, PTL DEF Spec

-----------------------------------------------------------------------------
(* The order of events.  A batch b of which n are sent and f are still in   *)
(* the KafkaProducer's queue: it is sent and answered front to back.        *)

Ascending(s) == \A j, k \in DOMAIN s : j < k => s[j] < s[k]

\* The events that have been sent and answered.
Passed(b, n, f) == {b[k] : k \in 1 .. n} \ Range(f)

InStep(b, n, f) ==
  /\ Ascending(b)
  /\ Ascending(f)
  /\ Range(f) \subseteq {b[k] : k \in 1 .. n}
  /\ \A i \in Passed(b, n, f), j \in Range(f) : i < j

Through(p) == Passed(batch[p], sent[p], buffer[p])

BatchesInStep == \A p \in Producer : InStep(batch[p], sent[p], buffer[p])

\* An id is drawn once, and a changed row stays locked until its event is there:
\* about a row, events are committed in the order of their ids.
IdsAreOnce ==
  /\ \A w \in Worker : DOMAIN open[w] \cap DOMAIN events = {}
  /\ \A v, w \in Worker : v # w => /\ DOMAIN open[v] \cap DOMAIN open[w] = {}
                                   /\ Range(open[v]) \cap Range(open[w]) = {}

RowsInOrder ==
  \A w \in Worker : \A i \in DOMAIN open[w], j \in DOMAIN events :
    events[j] = open[w][i] => j < i

\* About a row, events are selected and processed in the order of their ids.
EarlierFirst ==
  \A i, j \in DOMAIN events : events[i] = events[j] /\ j < i =>
    /\ i \in processed => j \in processed
    /\ \A p \in Producer : i \in Range(batch[p]) => j \in processed \cup Range(batch[p])

BatchesAreWaiting == \A p \in Producer : Range(batch[p]) \cap processed = {}

\* What was answered well is not behind what the topic has last.
NotOvertaken ==
  \A i \in (processed \cup UNION {Through(p) : p \in Producer}) \ refused :
    i <= newest[events[i]]

OneProducer == \A p, q \in Producer : p = q

OrderInv ==
  /\ QueueInv
  /\ BatchesInStep
  /\ IdsAreOnce
  /\ RowsInOrder

TopicInv ==
  /\ OrderInv
  /\ EarlierFirst
  /\ BatchesAreWaiting
  /\ NotOvertaken

\* While nothing fails, every busy producer holds the locks on its batch, and a
\* message is in a topic once its event has been answered.
Quiet ==
  /\ \A p \in Producer : phase[p] \in {"sending", "flushed"} => p \in session
  /\ BatchesAreWaiting
  /\ \A p, q \in Producer : p # q => Range(batch[p]) \cap Range(batch[q]) = {}
  /\ \A i \in Ids : copies[i] <= 1
  /\ \A i \in Ids : copies[i] > 0 => i \in processed \cup UNION {Through(p) : p \in Producer}

QuietInv ==
  /\ OrderInv
  /\ failures = 0 /\ Poison = {} => Quiet

LEMMA NothingInStep ==
  ASSUME NEW s, Ascending(s)
  PROVE  InStep(s, 0, <<>>) /\ Passed(s, 0, <<>>) = {}
BY DEF InStep, Ascending, Passed, Range

LEMMA PassedIsInBatch ==
  ASSUME NEW b \in Seq(Ids), NEW n \in 0 .. Len(b), NEW f
  PROVE  Passed(b, n, f) \subseteq Range(b)
BY DEF Passed, Range

\* One more event is sent.
LEMMA SendInStep ==
  ASSUME NEW b \in Seq(Ids), NEW f \in Seq(Ids), NEW n \in Nat, n < Len(b), InStep(b, n, f)
  PROVE  /\ InStep(b, n + 1, Append(f, b[n + 1]))
         /\ Passed(b, n + 1, Append(f, b[n + 1])) = Passed(b, n, f)
<1> DEFINE i == b[n + 1]
           g == Append(f, i)
           old == {b[k] : k \in 1 .. n}
           new == {b[k] : k \in 1 .. n + 1}
<1>0. \A k \in 1 .. Len(b) : b[k] \in Nat
  <2>1. \A k \in 1 .. Len(b) : b[k] \in Ids
    OBVIOUS
  <2> QED
    BY <2>1 DEF Ids
<1>1. i \in Ids /\ \A k \in 1 .. n : b[k] < i
  BY DEF InStep, Ascending
<1>2. new = old \cup {i} /\ i \notin old
  <2>1. 1 .. n + 1 = (1 .. n) \cup {n + 1}
    OBVIOUS
  <2>2. i \notin old
    BY <1>0, <1>1, SMTT(30)
  <2> QED
    BY <2>1, <2>2
<1>3. Range(g) = Range(f) \cup {i}
  BY <1>1, AppendRange
<1>4. Range(f) \subseteq old /\ \A x \in Passed(b, n, f), j \in Range(f) : x < j
  BY DEF InStep
<1>5. /\ DOMAIN g = 1 .. Len(f) + 1 /\ DOMAIN f = 1 .. Len(f) /\ Len(f) \in Nat
      /\ \A k \in 1 .. Len(f) : g[k] = f[k]
      /\ g[Len(f) + 1] = i
  BY <1>1
<1>6. \A j \in old : j < i
  BY <1>1
<1> HIDE DEF i, g, old, new
<1>7. Ascending(g)
  <2> SUFFICES ASSUME NEW j \in DOMAIN g, NEW k \in DOMAIN g, j < k PROVE g[j] < g[k]
    BY DEF Ascending
  <2>1. CASE k = Len(f) + 1
    <3>1. j \in DOMAIN f /\ f[j] \in Range(f)
      BY <1>5, <2>1 DEF Range
    <3> QED
      BY <1>4, <1>5, <1>6, <2>1, <3>1
  <2>2. CASE k # Len(f) + 1
    <3>1. j \in DOMAIN f /\ k \in DOMAIN f
      BY <1>5, <2>2
    <3> QED
      BY <1>5, <3>1 DEF InStep, Ascending
  <2> QED
    BY <2>1, <2>2
<1>8. Passed(b, n + 1, g) = Passed(b, n, f)
  BY <1>2, <1>3, <1>4 DEF Passed, old, new
<1>9. \A x \in Passed(b, n + 1, g), j \in Range(g) : x < j
  <2>1. Passed(b, n, f) \subseteq old
    BY DEF Passed, old
  <2> QED
    BY <1>3, <1>4, <1>6, <1>8, <2>1
<1>10. Range(g) \subseteq new
  BY <1>2, <1>3, <1>4
<1>11. Ascending(b)
  BY DEF InStep
<1> QED
  BY <1>7, <1>8, <1>9, <1>10, <1>11 DEF InStep, g, i, new

\* The oldest message of the queue is answered.
LEMMA AnswerInStep ==
  ASSUME NEW b \in Seq(Ids), NEW f \in Seq(Ids), NEW n, f # <<>>, InStep(b, n, f)
  PROVE  /\ InStep(b, n, Tail(f))
         /\ Passed(b, n, Tail(f)) = Passed(b, n, f) \cup {Head(f)}
         /\ \A x \in Passed(b, n, f) : x < Head(f)
         /\ Head(f) \in Range(f)
<1> DEFINE h == Head(f)
           t == Tail(f)
<1>1. /\ t \in Seq(Ids) /\ h = f[1] /\ h \in Range(f)
      /\ \A x : x \in Range(f) <=> x = h \/ x \in Range(t)
  BY TailRange
<1>2. /\ DOMAIN f = 1 .. Len(f) /\ Len(f) \in Nat \ {0}
      /\ DOMAIN t = 1 .. Len(f) - 1
      /\ \A k \in 1 .. Len(f) - 1 : t[k] = f[k + 1]
      /\ \A k \in DOMAIN f : f[k] \in Ids
  OBVIOUS
<1> HIDE DEF h, t
<1>3. Ascending(t)
  <2> SUFFICES ASSUME NEW j \in DOMAIN t, NEW k \in DOMAIN t, j < k PROVE t[j] < t[k]
    BY DEF Ascending
  <2>1. j + 1 \in DOMAIN f /\ k + 1 \in DOMAIN f /\ j + 1 < k + 1
    BY <1>2
  <2>2. f[j + 1] < f[k + 1]
    BY <2>1 DEF InStep, Ascending
  <2> QED
    BY <1>2, <2>2
<1>4. \A x \in Range(t) : h < x
  <2> SUFFICES ASSUME NEW k \in DOMAIN t PROVE h < t[k]
    BY DEF Range
  <2>1. 1 \in DOMAIN f /\ k + 1 \in DOMAIN f /\ 1 < k + 1 /\ t[k] = f[k + 1]
    BY <1>2
  <2>2. f[1] < f[k + 1]
    BY <2>1 DEF InStep, Ascending
  <2> QED
    BY <1>1, <2>1, <2>2
<1>5. h \in Nat /\ h \notin Range(t)
  <2>1. h \in Nat
    BY <1>1, <1>2 DEF Ids
  <2> QED
    BY <1>4, <2>1
<1>6. Range(f) \subseteq {b[k] : k \in 1 .. n}
  BY DEF InStep
<1>7. Passed(b, n, t) = Passed(b, n, f) \cup {h}
  BY <1>1, <1>5, <1>6 DEF Passed
<1>8. \A x \in Passed(b, n, f), j \in Range(f) : x < j
  BY DEF InStep
<1>9. \A x \in Passed(b, n, t), j \in Range(t) : x < j
  BY <1>1, <1>4, <1>7, <1>8
<1>10. InStep(b, n, t)
  BY <1>1, <1>3, <1>6, <1>9 DEF InStep
<1> QED
  BY <1>1, <1>7, <1>8, <1>10 DEF h, t

-----------------------------------------------------------------------------
(* What the steps of a producer do to its batch.                           *)

LEMMA IdleIsEmpty ==
  ASSUME QueueInv, NEW p \in Producer, batch[p] = <<>>
  PROVE  sent[p] = 0 /\ buffer[p] = <<>>
<1>1. Len(batch[p]) = 0 /\ Range(batch[p]) = {}
  BY DEF Range
<1>2. sent[p] \in 0 .. Len(batch[p]) /\ Range(buffer[p]) \subseteq Range(batch[p])
      /\ buffer[p] \in Seq(Ids)
  BY DEF QueueInv, QueueTypeOK
<1>3. \A s \in Seq(Ids) : s # <<>> => Range(s) # {}
  BY TailRange
<1> QED
  BY <1>1, <1>2, <1>3

LEMMA FetchSelects ==
  ASSUME QueueInv, NEW p \in Producer, Fetch(p)
  PROVE  \E s \in Seq(Ids) :
           /\ Ascending(s)
           /\ Range(s) \subseteq Free(p)
           /\ \A i \in Free(p) \ Range(s), k \in DOMAIN s : s[k] < i
           /\ \A q \in Producer : batch'[q] = IF q = p THEN s ELSE batch[q]
<1>1. PICK n \in 1 .. Batch : \E s \in [1 .. n -> Free(p)] :
        OldestFirst(s, Free(p)) /\ batch' = [batch EXCEPT ![p] = s]
  BY DEF Fetch
<1>2. PICK s \in [1 .. n -> Free(p)] :
        OldestFirst(s, Free(p)) /\ batch' = [batch EXCEPT ![p] = s]
  BY <1>1
<1>3. Free(p) \subseteq Ids
  BY QueueAssumption DEF Free, Waiting, QueueInv, QueueTypeOK, Ids
<1>4. s \in Seq(Ids) /\ Range(s) \subseteq Free(p)
  BY <1>2, <1>3, QueueAssumption DEF Range
<1>5. \A q \in Producer : batch'[q] = IF q = p THEN s ELSE batch[q]
  BY <1>2 DEF QueueInv, QueueTypeOK
<1> QED
  BY <1>2, <1>4, <1>5 DEF OldestFirst, Ascending

LEMMA ResetEmpties ==
  ASSUME QueueInv, NEW p \in Producer, NEW next, Reset(p, next)
  PROVE  /\ \A q \in Producer :
              /\ batch'[q] = IF q = p THEN <<>> ELSE batch[q]
              /\ sent'[q] = IF q = p THEN 0 ELSE sent[q]
              /\ buffer'[q] = IF q = p THEN <<>> ELSE buffer[q]
              /\ phase'[q] = IF q = p THEN next ELSE phase[q]
         /\ session' = session \ {p}
BY DEF Reset, QueueInv, QueueTypeOK

LEMMA SendAppends ==
  ASSUME QueueInv, NEW p \in Producer, Send(p)
  PROVE  /\ sent[p] < Len(batch[p])
         /\ UNCHANGED <<database, processed, phase, batch, session, topics, refused, failures>>
         /\ \A q \in Producer :
              /\ sent'[q] = IF q = p THEN sent[p] + 1 ELSE sent[q]
              /\ buffer'[q] = IF q = p THEN Append(buffer[p], batch[p][sent[p] + 1])
                                       ELSE buffer[q]
BY DEF Send, Sending, Current, QueueInv, QueueTypeOK

LEMMA AnswerTakes ==
  ASSUME QueueInv, NEW p \in Producer, Deliver(p) \/ Refuse(p)
  PROVE  /\ buffer[p] # <<>>
         /\ UNCHANGED <<database, processed, phase, batch, sent, session>>
         /\ \A q \in Producer : buffer'[q] = IF q = p THEN Tail(buffer[p]) ELSE buffer[q]
BY DEF Deliver, Refuse, QueueInv, QueueTypeOK

\* Every action of a producer is one of these.
BatchStep(p) ==
  \/ Fetch(p)
  \/ Send(p)
  \/ Deliver(p) \/ Refuse(p)
  \/ \E next \in {"down", "polling"} : Reset(p, next)
  \/ UNCHANGED <<batch, sent, buffer>>

LEMMA BatchStepInStep ==
  ASSUME QueueInv, BatchesInStep, NEW p \in Producer, BatchStep(p)
  PROVE  BatchesInStep'
<1> SUFFICES ASSUME NEW q \in Producer
             PROVE  InStep(batch'[q], sent'[q], buffer'[q])
  BY DEF BatchesInStep
<1>1. InStep(batch[q], sent[q], buffer[q])
  BY DEF BatchesInStep
<1>2. batch[p] \in Seq(Ids) /\ buffer[p] \in Seq(Ids) /\ sent[p] \in Nat
  BY DEF QueueInv, QueueTypeOK
<1>3. CASE Fetch(p)
  <2>1. PICK s \in Seq(Ids) :
          /\ Ascending(s)
          /\ \A r \in Producer : batch'[r] = IF r = p THEN s ELSE batch[r]
    BY <1>3, FetchSelects
  <2>2. sent' = sent /\ buffer' = buffer /\ sent[p] = 0 /\ buffer[p] = <<>>
    <3>1. batch[p] = <<>>
      BY <1>3 DEF Fetch, QueueInv, IdleHasNoBatch
    <3> QED
      BY <1>3, <3>1, IdleIsEmpty DEF Fetch
  <2>3. InStep(s, 0, <<>>)
    BY <2>1, NothingInStep
  <2> QED
    BY <1>1, <2>1, <2>2, <2>3
<1>4. CASE Send(p)
  <2>1. InStep(batch[p], sent[p], buffer[p])
    BY DEF BatchesInStep
  <2>2. sent[p] < Len(batch[p])
    BY <1>4, SendAppends
  <2>3. InStep(batch[p], sent[p] + 1, Append(buffer[p], batch[p][sent[p] + 1]))
    BY <1>2, <2>1, <2>2, SendInStep
  <2> QED
    BY <1>1, <1>4, <2>3, SendAppends
<1>5. CASE Deliver(p) \/ Refuse(p)
  <2>1. InStep(batch[p], sent[p], buffer[p]) /\ buffer[p] # <<>>
    BY <1>5, AnswerTakes DEF BatchesInStep
  <2>2. InStep(batch[p], sent[p], Tail(buffer[p]))
    BY <1>2, <2>1, AnswerInStep
  <2> QED
    BY <1>1, <1>5, <2>2, AnswerTakes
<1>6. CASE \E next \in {"down", "polling"} : Reset(p, next)
  <2>1. Ascending(<<>>)
    BY DEF Ascending
  <2> QED
    BY <1>1, <1>6, <2>1, ResetEmpties, NothingInStep
<1>7. CASE UNCHANGED <<batch, sent, buffer>>
  BY <1>1, <1>7
<1> QED
  BY <1>3, <1>4, <1>5, <1>6, <1>7 DEF BatchStep

LEMMA ProducerSteps ==
  ASSUME NEW p \in Producer,
         Loop(p) \/ Deliver(p) \/ Refuse(p) \/ FlushTimesOut(p) \/ LoseSession(p)
           \/ Crash(p) \/ Start(p)
  PROVE  BatchStep(p) /\ UNCHANGED database
BY DEF Loop, BatchStep, Fetch, Send, GiveUp, Flush, Mark, MarkFails, FlushTimesOut,
       LoseSession, Crash, Start, Deliver, Refuse

-----------------------------------------------------------------------------
(* What the steps of a worker do to the events.                            *)

LEMMA ChangeAdds ==
  ASSUME QueueInv, NEW w \in Worker, NEW r \in Row, Change(w, r)
  PROVE  /\ \A v \in Worker : v # w => open'[v] = open[v]
         /\ DOMAIN open'[w] = DOMAIN open[w] \cup {nextId}
         /\ open'[w][nextId] = r
         /\ \A i \in DOMAIN open[w] : open'[w][i] = open[w][i]
         /\ \A v \in Worker : nextId \notin DOMAIN open[v]
         /\ \A i \in DOMAIN events : i < nextId
         /\ events' = events
         /\ \A v \in Worker \ {w} : r \notin Range(open[v])
<1> DEFINE more == [i \in DOMAIN open[w] \cup {nextId} |->
                      IF i = nextId THEN r ELSE open[w][i]]
<1>1. /\ open' = [open EXCEPT ![w] = more]
      /\ events' = events
      /\ \A v \in Worker \ {w} : r \notin Range(open[v])
  BY DEF Change
<1>2. \A v \in Worker : DOMAIN open[v] \subseteq 1 .. nextId - 1
  BY DEF QueueInv, QueueTypeOK
<1>3. DOMAIN events \subseteq 1 .. nextId - 1 /\ nextId \in Nat
  BY QueueAssumption DEF QueueInv, QueueTypeOK
<1>4. DOMAIN more = DOMAIN open[w] \cup {nextId} /\ nextId \notin DOMAIN open[w]
  BY <1>2, <1>3
<1>5. more[nextId] = r /\ \A i \in DOMAIN open[w] : more[i] = open[w][i]
  BY <1>4
<1> HIDE DEF more
<1>6. \A v \in Worker : open'[v] = IF v = w THEN more ELSE open[v]
  BY <1>1 DEF QueueInv, Tables
<1> QED
  BY <1>1, <1>2, <1>3, <1>4, <1>5, <1>6

LEMMA CommitMoves ==
  ASSUME QueueInv, IdsAreOnce, NEW w \in Worker, Commit(w)
  PROVE  /\ \A v \in Worker : open'[v] = IF v = w THEN <<>> ELSE open[v]
         /\ DOMAIN events' = DOMAIN events \cup DOMAIN open[w]
         /\ \A i \in DOMAIN events : events'[i] = events[i]
         /\ \A i \in DOMAIN open[w] : events'[i] = open[w][i] /\ i \notin DOMAIN events
BY DEF Commit, QueueInv, Tables, IdsAreOnce

LEMMA WorkersKeepOrder ==
  ASSUME OrderInv, NEW w \in Worker,
         (\E r \in Row : Change(w, r)) \/ Commit(w) \/ Abort(w)
  PROVE  (IdsAreOnce /\ RowsInOrder)'
<1> DEFINE Both(o, e) ==
      /\ \A v \in Worker : DOMAIN o[v] \cap DOMAIN e = {}
      /\ \A u, v \in Worker : u # v => /\ DOMAIN o[u] \cap DOMAIN o[v] = {}
                                       /\ Range(o[u]) \cap Range(o[v]) = {}
      /\ \A v \in Worker : \A i \in DOMAIN o[v], j \in DOMAIN e : e[j] = o[v][i] => j < i
<1>1. Both(open, events)
  BY DEF OrderInv, IdsAreOnce, RowsInOrder
<1>2. DOMAIN <<>> = {} /\ Range(<<>>) = {}
  BY DEF Range
<1>3. CASE \E r \in Row : Change(w, r)
  <2>1. PICK r \in Row : Change(w, r)
    BY <1>3
  <2>2. /\ \A v \in Worker : v # w => open'[v] = open[v]
        /\ DOMAIN open'[w] = DOMAIN open[w] \cup {nextId}
        /\ open'[w][nextId] = r
        /\ \A i \in DOMAIN open[w] : open'[w][i] = open[w][i]
        /\ \A v \in Worker : nextId \notin DOMAIN open[v]
        /\ \A i \in DOMAIN events : i < nextId
        /\ events' = events
        /\ \A v \in Worker \ {w} : r \notin Range(open[v])
    BY <2>1, ChangeAdds DEF OrderInv
  <2>3. nextId \notin DOMAIN events
    <3>1. nextId \in Nat
      BY QueueAssumption DEF OrderInv, QueueInv, QueueTypeOK
    <3> QED
      BY <2>2, <3>1
  <2>4. Range(open'[w]) = Range(open[w]) \cup {r}
    BY <2>2 DEF Range
  <2>5. \A v \in Worker : DOMAIN open'[v] \cap DOMAIN events' = {}
    BY <1>1, <2>2, <2>3
  <2>6. \A u, v \in Worker : u # v => /\ DOMAIN open'[u] \cap DOMAIN open'[v] = {}
                                      /\ Range(open'[u]) \cap Range(open'[v]) = {}
    BY <1>1, <2>2, <2>4
  <2>7. \A v \in Worker : \A i \in DOMAIN open'[v], j \in DOMAIN events' :
          events'[j] = open'[v][i] => j < i
    BY <1>1, <2>2
  <2> QED
    BY <2>5, <2>6, <2>7 DEF IdsAreOnce, RowsInOrder
<1>4. CASE Commit(w)
  <2>1. /\ \A v \in Worker : open'[v] = IF v = w THEN <<>> ELSE open[v]
        /\ DOMAIN events' = DOMAIN events \cup DOMAIN open[w]
        /\ \A i \in DOMAIN events : events'[i] = events[i]
        /\ \A i \in DOMAIN open[w] : events'[i] = open[w][i] /\ i \notin DOMAIN events
    BY <1>4, CommitMoves DEF OrderInv
  <2>2. \A v \in Worker : DOMAIN open'[v] \cap DOMAIN events' = {}
    BY <1>1, <1>2, <2>1
  <2>3. \A u, v \in Worker : u # v => /\ DOMAIN open'[u] \cap DOMAIN open'[v] = {}
                                      /\ Range(open'[u]) \cap Range(open'[v]) = {}
    BY <1>1, <1>2, <2>1
  <2>4. ASSUME NEW v \in Worker, NEW i \in DOMAIN open'[v], NEW j \in DOMAIN events',
               events'[j] = open'[v][i]
        PROVE  j < i
    <3>1. v # w /\ open'[v] = open[v]
      BY <1>2, <2>1
    <3>2. CASE j \in DOMAIN events
      BY <1>1, <2>1, <2>4, <3>1, <3>2
    <3>3. CASE j \in DOMAIN open[w]
      <4>1. open[w][j] \in Range(open[w]) /\ open[v][i] \in Range(open[v])
        BY <3>1, <3>3 DEF Range
      <4> QED
        BY <1>1, <2>1, <2>4, <3>1, <3>3, <4>1
    <3> QED
      BY <2>1, <3>2, <3>3
  <2> QED
    BY <2>2, <2>3, <2>4 DEF IdsAreOnce, RowsInOrder
<1>5. CASE Abort(w)
  <2>1. events' = events /\ \A v \in Worker : open'[v] = IF v = w THEN <<>> ELSE open[v]
    BY <1>5 DEF Abort, OrderInv, QueueInv, Tables
  <2>2. \A v \in Worker : DOMAIN open'[v] \cap DOMAIN events' = {}
    BY <1>1, <1>2, <2>1
  <2>3. \A u, v \in Worker : u # v => /\ DOMAIN open'[u] \cap DOMAIN open'[v] = {}
                                      /\ Range(open'[u]) \cap Range(open'[v]) = {}
    BY <1>1, <1>2, <2>1
  <2>4. \A v \in Worker : \A i \in DOMAIN open'[v], j \in DOMAIN events' :
          events'[j] = open'[v][i] => j < i
    BY <1>1, <1>2, <2>1
  <2> QED
    BY <2>2, <2>3, <2>4 DEF IdsAreOnce, RowsInOrder
<1> QED
  BY <1>3, <1>4, <1>5

LEMMA StepKeepsOrder == OrderInv /\ [Next]_vars => OrderInv'
<1> SUFFICES ASSUME OrderInv, [Next]_vars PROVE OrderInv'
  OBVIOUS
<1>1. QueueInv'
  BY StepKeepsQueue DEF OrderInv
<1>2. ASSUME NEW w \in Worker, (\E r \in Row : Change(w, r)) \/ Commit(w) \/ Abort(w)
      PROVE  (BatchesInStep /\ IdsAreOnce /\ RowsInOrder)'
  <2>1. UNCHANGED <<batch, sent, buffer>>
    BY <1>2 DEF Change, Commit, Abort
  <2> QED
    BY <1>2, <2>1, WorkersKeepOrder DEF OrderInv, BatchesInStep
<1>3. ASSUME NEW p \in Producer, BatchStep(p), UNCHANGED database
      PROVE  (BatchesInStep /\ IdsAreOnce /\ RowsInOrder)'
  BY <1>3, BatchStepInStep DEF OrderInv, IdsAreOnce, RowsInOrder, database
<1>4. ASSUME UNCHANGED vars
      PROVE  (BatchesInStep /\ IdsAreOnce /\ RowsInOrder)'
  BY <1>4 DEF vars, OrderInv, BatchesInStep, IdsAreOnce, RowsInOrder
<1>5. (BatchesInStep /\ IdsAreOnce /\ RowsInOrder)'
  BY <1>2, <1>3, <1>4, ProducerSteps DEF Next
<1> QED
  BY <1>1, <1>5 DEF OrderInv

LEMMA InitOrder == Init => OrderInv
<1> SUFFICES ASSUME Init PROVE OrderInv
  OBVIOUS
<1>1. DOMAIN <<>> = {} /\ Range(<<>>) = {} /\ Ascending(<<>>)
  BY DEF Range, Ascending
<1>2. InStep(<<>>, 0, <<>>)
  BY <1>1, NothingInStep
<1> QED
  BY <1>1, <1>2, InitQueue DEF Init, OrderInv, BatchesInStep, IdsAreOnce, RowsInOrder

-----------------------------------------------------------------------------
(* What has been answered.                                                 *)

LEMMA ThroughIsKnown ==
  ASSUME QueueInv, NEW p \in Producer
  PROVE  Through(p) \subseteq Range(batch[p]) /\ Range(batch[p]) \subseteq DOMAIN events
<1>1. /\ batch[p] \in Seq(Ids) /\ sent[p] \in 0 .. Len(batch[p])
      /\ Range(batch[p]) \subseteq DOMAIN events
  BY DEF QueueInv, QueueTypeOK
<1> QED
  BY <1>1, PassedIsInBatch DEF Through

LEMMA ThroughOfOthers ==
  ASSUME QueueInv, NEW p \in Producer, BatchStep(p), NEW q \in Producer, q # p
  PROVE  Through(q)' = Through(q) /\ batch'[q] = batch[q]
<1>1. batch'[q] = batch[q] /\ sent'[q] = sent[q] /\ buffer'[q] = buffer[q]
  <2>1. CASE Fetch(p)
    BY <2>1, FetchSelects DEF Fetch
  <2>2. CASE ~ Fetch(p)
    BY <2>2, SendAppends, AnswerTakes, ResetEmpties DEF BatchStep, Send, Deliver, Refuse
  <2> QED
    BY <2>1, <2>2
<1> QED
  BY <1>1 DEF Through

LEMMA ThroughAfterFetch ==
  ASSUME QueueInv, NEW p \in Producer, Fetch(p)
  PROVE  Through(p)' = {}
<1>1. batch[p] = <<>> /\ sent' = sent /\ buffer' = buffer
  BY DEF Fetch, QueueInv, IdleHasNoBatch
<1>2. sent[p] = 0
  BY <1>1, IdleIsEmpty
<1> QED
  BY <1>1, <1>2 DEF Through, Passed

LEMMA ThroughAfterReset ==
  ASSUME QueueInv, NEW p \in Producer, NEW next, Reset(p, next)
  PROVE  Through(p)' = {} /\ Range(batch'[p]) = {}
BY ResetEmpties DEF Through, Passed, Range

LEMMA ThroughAfterSend ==
  ASSUME OrderInv, NEW p \in Producer, Send(p)
  PROVE  Through(p)' = Through(p)
<1>1. batch[p] \in Seq(Ids) /\ buffer[p] \in Seq(Ids) /\ sent[p] \in Nat
  BY DEF OrderInv, QueueInv, QueueTypeOK
<1>2. sent[p] < Len(batch[p]) /\ InStep(batch[p], sent[p], buffer[p])
  BY SendAppends DEF OrderInv, BatchesInStep
<1>3. Passed(batch[p], sent[p] + 1, Append(buffer[p], batch[p][sent[p] + 1]))
        = Passed(batch[p], sent[p], buffer[p])
  BY <1>1, <1>2, SendInStep
<1> QED
  BY <1>3, SendAppends DEF Through, OrderInv

LEMMA ThroughAfterAnswer ==
  ASSUME OrderInv, NEW p \in Producer, Deliver(p) \/ Refuse(p)
  PROVE  /\ Through(p)' = Through(p) \cup {Head(buffer[p])}
         /\ \A i \in Through(p) : i < Head(buffer[p])
         /\ Head(buffer[p]) \in Range(buffer[p])
         /\ Head(buffer[p]) \in Range(batch[p])
         /\ Head(buffer[p]) \in DOMAIN events
<1>1. /\ batch[p] \in Seq(Ids) /\ buffer[p] \in Seq(Ids)
      /\ Range(buffer[p]) \subseteq Range(batch[p]) /\ Range(batch[p]) \subseteq DOMAIN events
  BY DEF OrderInv, QueueInv, QueueTypeOK
<1>2. buffer[p] # <<>> /\ InStep(batch[p], sent[p], buffer[p])
  BY AnswerTakes DEF OrderInv, BatchesInStep
<1>3. /\ Passed(batch[p], sent[p], Tail(buffer[p])) =
           Passed(batch[p], sent[p], buffer[p]) \cup {Head(buffer[p])}
      /\ \A x \in Passed(batch[p], sent[p], buffer[p]) : x < Head(buffer[p])
      /\ Head(buffer[p]) \in Range(buffer[p])
  BY <1>1, <1>2, AnswerInStep
<1>4. Through(p)' = Passed(batch[p], sent[p], Tail(buffer[p]))
  BY AnswerTakes DEF Through, OrderInv
<1> QED
  BY <1>1, <1>3, <1>4 DEF Through

\* A flushed batch has been answered to the last event.
LEMMA ThroughOfFlushed ==
  ASSUME QueueInv, NEW p \in Producer, phase[p] = "flushed"
  PROVE  Through(p) = Range(batch[p])
<1>1. buffer[p] = <<>> /\ sent[p] = Len(batch[p]) /\ batch[p] \in Seq(Ids)
  BY DEF QueueInv, FlushedIsSent, QueueTypeOK
<1>2. Range(<<>>) = {} /\ DOMAIN batch[p] = 1 .. Len(batch[p])
  BY <1>1 DEF Range
<1> QED
  BY <1>1, <1>2 DEF Through, Passed, Range

-----------------------------------------------------------------------------
(* One producer keeps the topics current.                                  *)

LEMMA WorkersKeepTopics ==
  ASSUME TopicInv, NEW w \in Worker,
         (\E r \in Row : Change(w, r)) \/ Commit(w) \/ Abort(w)
  PROVE  (EarlierFirst /\ BatchesAreWaiting /\ NotOvertaken)'
<1>1. UNCHANGED <<processed, batch, sent, buffer, newest, refused>>
  BY DEF Change, Commit, Abort, topics
<1>2. \A p \in Producer : Through(p)' = Through(p)
  BY <1>1 DEF Through
<1>3. BatchesAreWaiting'
  BY <1>1 DEF TopicInv, BatchesAreWaiting
<1>4. /\ processed \subseteq DOMAIN events
      /\ \A p \in Producer : /\ Through(p) \subseteq DOMAIN events
                             /\ Range(batch[p]) \subseteq DOMAIN events
  BY ThroughIsKnown DEF TopicInv, OrderInv, QueueInv, QueueTypeOK
<1>5. CASE events' = events
  BY <1>1, <1>2, <1>3, <1>5 DEF TopicInv, EarlierFirst, NotOvertaken
<1>6. CASE Commit(w)
  <2>1. /\ DOMAIN events' = DOMAIN events \cup DOMAIN open[w]
        /\ \A i \in DOMAIN events : events'[i] = events[i]
        /\ \A i \in DOMAIN open[w] : events'[i] = open[w][i] /\ i \notin DOMAIN events
    BY <1>6, CommitMoves DEF TopicInv, OrderInv
  <2>2. NotOvertaken'
    BY <1>1, <1>2, <1>4, <2>1 DEF TopicInv, NotOvertaken
  <2>3. ASSUME NEW i \in DOMAIN events', NEW j \in DOMAIN events', events'[i] = events'[j], j < i,
               i \in DOMAIN events
        PROVE  j \in DOMAIN events
    <3> SUFFICES ASSUME j \in DOMAIN open[w] PROVE FALSE
      BY <2>1
    <3>1. i < j
      BY <2>1, <2>3 DEF TopicInv, OrderInv, RowsInOrder
    <3>2. i \in 1 .. nextId - 1 /\ j \in 1 .. nextId - 1
      BY <2>3 DEF TopicInv, OrderInv, QueueInv, QueueTypeOK
    <3> QED
      BY <2>3, <3>1, <3>2
  <2>4. EarlierFirst'
    BY <1>1, <1>4, <2>1, <2>3 DEF TopicInv, EarlierFirst
  <2> QED
    BY <1>3, <2>2, <2>4
<1> QED
  BY <1>5, <1>6 DEF Change, Abort

LEMMA ProducerKeepsTopics ==
  ASSUME OneProducer, TopicInv, NEW p \in Producer,
         Loop(p) \/ Deliver(p) \/ Refuse(p) \/ FlushTimesOut(p) \/ LoseSession(p)
           \/ Crash(p) \/ Start(p)
  PROVE  (EarlierFirst /\ BatchesAreWaiting /\ NotOvertaken)'
<1>1. UNCHANGED events /\ \A q \in Producer : q = p
  BY ProducerSteps DEF database, OneProducer
<1>2. /\ processed \subseteq DOMAIN events /\ DOMAIN events \subseteq Ids
      /\ Through(p) \subseteq Range(batch[p]) /\ Range(batch[p]) \subseteq DOMAIN events
  BY ThroughIsKnown, QueueAssumption DEF TopicInv, OrderInv, QueueInv, QueueTypeOK, Ids
<1>3. QueueInv /\ OrderInv /\ EarlierFirst /\ BatchesAreWaiting /\ NotOvertaken
  BY DEF TopicInv, OrderInv
<1>4. CASE Fetch(p)
  <2>1. PICK s \in Seq(Ids) :
          /\ Range(s) \subseteq Free(p)
          /\ \A i \in Free(p) \ Range(s), k \in DOMAIN s : s[k] < i
          /\ batch'[p] = s
    BY <1>3, <1>4, FetchSelects
  <2>2. Free(p) = DOMAIN events \ processed
    BY <1>1 DEF Free, Waiting
  <2>3. UNCHANGED <<processed, newest, refused>>
    BY <1>4 DEF Fetch, topics
  <2>4. Through(p)' = {}
    BY <1>3, <1>4, ThroughAfterFetch
  <2>5. ASSUME NEW i \in DOMAIN events, NEW j \in DOMAIN events, j < i,
               i \in Range(s), j \notin processed
        PROVE  j \in Range(s)
    <3> SUFFICES ASSUME j \notin Range(s) PROVE FALSE
      OBVIOUS
    <3>1. PICK k \in DOMAIN s : s[k] = i
      BY <2>5 DEF Range
    <3>2. i < j
      BY <2>1, <2>2, <2>5, <3>1
    <3> QED
      BY <1>2, <2>5, <3>2 DEF Ids
  <2>6. EarlierFirst'
    BY <1>1, <1>3, <2>1, <2>3, <2>5 DEF EarlierFirst
  <2>7. BatchesAreWaiting'
    BY <1>1, <2>1, <2>2, <2>3 DEF BatchesAreWaiting
  <2>8. NotOvertaken'
    BY <1>1, <1>3, <2>3, <2>4 DEF NotOvertaken
  <2> QED
    BY <2>6, <2>7, <2>8
<1>5. CASE Send(p)
  <2>1. UNCHANGED <<processed, batch, newest, refused>>
    BY <1>5 DEF Send, topics
  <2>2. Through(p)' = Through(p)
    BY <1>3, <1>5, ThroughAfterSend
  <2> QED
    BY <1>1, <1>3, <2>1, <2>2 DEF EarlierFirst, BatchesAreWaiting, NotOvertaken
<1>6. CASE Deliver(p) \/ Refuse(p)
  <2> DEFINE j == Head(buffer[p])
  <2>1. UNCHANGED <<processed, batch>>
    BY <1>6 DEF Deliver, Refuse
  <2>2. /\ Through(p)' = Through(p) \cup {j}
        /\ \A i \in Through(p) : i < j
        /\ j \in Range(batch[p]) /\ j \in DOMAIN events
    BY <1>3, <1>6, ThroughAfterAnswer
  <2>3. EarlierFirst' /\ BatchesAreWaiting'
    BY <1>1, <1>3, <2>1 DEF EarlierFirst, BatchesAreWaiting
  <2>4. CASE Refuse(p)
    <3>1. refused' = refused \cup {j} /\ UNCHANGED newest
      BY <2>4 DEF Refuse, topics
    <3> HIDE DEF j
    <3> QED
      BY <1>1, <1>3, <2>1, <2>2, <2>3, <3>1 DEF NotOvertaken
  <2>5. CASE Deliver(p)
    <3>1. newest' = [newest EXCEPT ![events[j]] = j] /\ UNCHANGED refused
      BY <2>5 DEF Deliver
    <3> HIDE DEF j
    <3>2. events[j] \in Row /\ newest \in [Row -> Ids \cup {0}]
      BY <2>2 DEF TopicInv, OrderInv, QueueInv, QueueTypeOK, Range
    <3>3. ASSUME NEW i \in processed \cup Through(p), events[i] = events[j]
          PROVE  i < j
      <4>1. CASE i \in Through(p)
        BY <2>2, <4>1
      <4>2. CASE i \in processed
        <5>1. j \notin processed
          BY <1>3, <2>2 DEF BatchesAreWaiting
        <5>2. ~ (j < i)
          BY <1>2, <1>3, <2>2, <3>3, <4>2, <5>1 DEF EarlierFirst
        <5>3. i \in Nat /\ j \in Nat /\ i # j
          BY <1>2, <2>2, <4>2, <5>1 DEF Ids
        <5> QED
          BY <5>2, <5>3
      <4> QED
        BY <3>3, <4>1, <4>2
    <3>4. ASSUME NEW i \in (processed \cup Through(p) \cup {j}) \ refused
          PROVE  i <= newest'[events[i]]
      <4>1. i \in DOMAIN events /\ events[i] \in Row /\ i \in Nat
        <5>1. i \in DOMAIN events
          BY <1>2, <2>2
        <5> QED
          BY <1>2, <5>1 DEF TopicInv, OrderInv, QueueInv, QueueTypeOK, Range, Ids
      <4>2. CASE events[i] = events[j]
        <5>1. newest'[events[i]] = j
          BY <3>1, <3>2, <4>2
        <5>2. i < j \/ i = j
          BY <3>3, <3>4, <4>2
        <5>3. j \in Nat
          BY <1>2, <2>2 DEF Ids
        <5> QED
          BY <4>1, <5>1, <5>2, <5>3
      <4>3. CASE events[i] # events[j]
        <5>1. newest'[events[i]] = newest[events[i]] /\ i # j
          BY <3>1, <3>2, <4>1, <4>3
        <5> QED
          BY <1>3, <3>4, <5>1 DEF NotOvertaken
      <4> QED
        BY <4>2, <4>3
    <3>5. NotOvertaken'
      BY <1>1, <2>1, <2>2, <3>1, <3>4 DEF NotOvertaken
    <3> QED
      BY <2>3, <3>5
  <2> QED
    BY <1>6, <2>4, <2>5
<1>7. CASE Mark(p)
  <2>1. /\ phase[p] = "flushed" /\ Reset(p, "polling")
        /\ processed' = processed \cup Range(batch[p])
        /\ UNCHANGED <<newest, refused>>
    BY <1>7 DEF Mark, topics
  <2>2. Through(p)' = {} /\ Range(batch'[p]) = {}
    BY <1>3, <2>1, ThroughAfterReset
  <2>3. Through(p) = Range(batch[p])
    BY <1>3, <2>1, ThroughOfFlushed
  <2>4. EarlierFirst'
    BY <1>1, <1>3, <2>1, <2>2 DEF EarlierFirst
  <2>5. BatchesAreWaiting'
    BY <1>1, <2>2 DEF BatchesAreWaiting
  <2>6. NotOvertaken'
    BY <1>1, <1>3, <2>1, <2>2, <2>3 DEF NotOvertaken
  <2> QED
    BY <2>4, <2>5, <2>6
<1>8. CASE GiveUp(p) \/ FlushTimesOut(p) \/ MarkFails(p) \/ Crash(p) \/ Start(p)
  <2>1. /\ \E next \in {"down", "polling"} : Reset(p, next)
        /\ UNCHANGED <<processed, newest, refused>>
    BY <1>8 DEF GiveUp, FlushTimesOut, MarkFails, Crash, Start, topics
  <2>2. Through(p)' = {} /\ Range(batch'[p]) = {}
    BY <1>3, <2>1, ThroughAfterReset
  <2> QED
    BY <1>1, <1>3, <2>1, <2>2 DEF EarlierFirst, BatchesAreWaiting, NotOvertaken
<1>9. CASE Flush(p) \/ LoseSession(p)
  <2>1. UNCHANGED <<processed, batch, sent, buffer, newest, refused>>
    BY <1>9 DEF Flush, LoseSession, topics
  <2>2. Through(p)' = Through(p)
    BY <2>1 DEF Through
  <2> QED
    BY <1>1, <1>3, <2>1, <2>2 DEF EarlierFirst, BatchesAreWaiting, NotOvertaken
<1> QED
  BY <1>4, <1>5, <1>6, <1>7, <1>8, <1>9 DEF Loop

LEMMA StepKeepsTopics ==
  ASSUME OneProducer
  PROVE  TopicInv /\ [Next]_vars => TopicInv'
<1> SUFFICES ASSUME TopicInv, [Next]_vars PROVE TopicInv'
  OBVIOUS
<1>1. OrderInv'
  BY StepKeepsOrder DEF TopicInv
<1>2. CASE UNCHANGED vars
  BY <1>1, <1>2 DEF vars, topics, TopicInv, EarlierFirst, BatchesAreWaiting, NotOvertaken, Through
<1>3. CASE Next
  BY <1>1, <1>3, WorkersKeepTopics, ProducerKeepsTopics DEF Next, TopicInv
<1> QED
  BY <1>2, <1>3

\* With one producer, what a topic says last about a row is never behind an event
\* that was processed and not refused, through crashes, timeouts, lost sessions and
\* repeated batches, as long as workers keep a row locked until they commit
\* (tf_kafka_produce_event, and run() of kafka_producer.py).
THEOREM TopicsAreCurrent ==
  ASSUME OneProducer
  PROVE  Spec => []TopicIsCurrent
<1>1. Init => TopicInv
  <2> SUFFICES ASSUME Init PROVE TopicInv
    OBVIOUS
  <2>1. \A p \in Producer : Through(p) = {} /\ Range(batch[p]) = {}
    BY DEF Init, Through, Passed, Range
  <2> QED
    BY <2>1, InitOrder DEF Init, TopicInv, EarlierFirst, BatchesAreWaiting, NotOvertaken
<1>2. TopicInv => TopicIsCurrent
  BY DEF TopicInv, NotOvertaken, TopicIsCurrent
<1> QED
  BY <1>1, <1>2, StepKeepsTopics, PTL DEF Spec

-----------------------------------------------------------------------------
(* While nothing fails, no event is sent twice.                            *)

\* A step after which nothing has failed is none of the failures.
LEMMA NothingFailed ==
  ASSUME QueueInv, Poison = {}, failures' = 0, NEW p \in Producer
  PROVE  ~ (GiveUp(p) \/ FlushTimesOut(p) \/ LoseSession(p) \/ Crash(p) \/ Refuse(p))
<1>1. failures \in Nat
  BY DEF QueueInv, QueueTypeOK
<1>2. ~ Failure
  BY <1>1 DEF Failure
<1> QED
  BY <1>2 DEF GiveUp, FlushTimesOut, LoseSession, Crash, Refuse

LEMMA WorkersKeepQuiet ==
  ASSUME QueueInv, Quiet, NEW w \in Worker,
         (\E r \in Row : Change(w, r)) \/ Commit(w) \/ Abort(w)
  PROVE  Quiet' /\ UNCHANGED failures
<1>1. UNCHANGED <<phase, session, processed, batch, sent, buffer, copies, failures>>
  BY DEF Change, Commit, Abort, topics
<1> QED
  BY <1>1 DEF Quiet, BatchesAreWaiting, Through

LEMMA ProducerKeepsQuiet ==
  ASSUME OrderInv, Quiet, NEW p \in Producer,
         Fetch(p) \/ Send(p) \/ Flush(p) \/ Mark(p) \/ Deliver(p) \/ Start(p) \/ MarkFails(p)
  PROVE  Quiet'
<1>1. /\ QueueInv
      /\ \A q \in Producer : phase[q] \in {"sending", "flushed"} => q \in session
      /\ \A q \in Producer : Range(batch[q]) \cap processed = {}
      /\ \A q, r \in Producer : q # r => Range(batch[q]) \cap Range(batch[r]) = {}
      /\ \A i \in Ids : copies[i] <= 1
      /\ \A i \in Ids : copies[i] > 0 => i \in processed \cup UNION {Through(q) : q \in Producer}
  BY DEF OrderInv, Quiet, BatchesAreWaiting
<1>2. /\ phase \in [Producer -> {"down", "polling", "sending", "flushed"}]
      /\ session \subseteq Producer
      /\ copies \in [Ids -> 0 .. 2]
      /\ DOMAIN events \subseteq Ids
      /\ processed \subseteq DOMAIN events
  BY <1>1, QueueAssumption DEF QueueInv, QueueTypeOK, Ids
<1>3. \A q \in Producer : Through(q) \subseteq Range(batch[q]) /\ Range(batch[q]) \subseteq DOMAIN events
  BY <1>1, ThroughIsKnown
<1>4. BatchStep(p)
  BY ProducerSteps DEF Loop
<1>5. \A q \in Producer : q # p => Through(q)' = Through(q) /\ batch'[q] = batch[q]
  BY <1>1, <1>4, ThroughOfOthers
<1>6. ~ MarkFails(p)
  BY <1>1 DEF MarkFails
<1>7. CASE Fetch(p)
  <2>1. PICK s \in Seq(Ids) : Range(s) \subseteq Free(p) /\ batch'[p] = s
    BY <1>1, <1>7, FetchSelects
  <2>2. /\ phase' = [phase EXCEPT ![p] = "sending"]
        /\ session' = session \cup {p}
        /\ UNCHANGED <<processed, copies>>
    BY <1>7 DEF Fetch, topics
  <2>3. Through(p) = {} /\ Through(p)' = {}
    <3>1. batch[p] = <<>> /\ Range(<<>>) = {}
      BY <1>1, <1>7 DEF Fetch, QueueInv, IdleHasNoBatch, Range
    <3> QED
      BY <1>1, <1>3, <1>7, <3>1, ThroughAfterFetch
  <2>4. \A q \in Producer : q # p => Range(batch[q]) \subseteq Held(q)
    <3> SUFFICES ASSUME NEW q \in Producer, q # p, q \notin session
                 PROVE  Range(batch[q]) = {}
      BY DEF Held
    <3>1. phase[q] \in {"down", "polling"}
      BY <1>1, <1>2
    <3> QED
      BY <1>1, <3>1 DEF QueueInv, IdleHasNoBatch, Range
  <2>5. Range(s) \cap processed = {} /\ \A q \in Producer : q # p => Range(s) \cap Range(batch[q]) = {}
    BY <2>1, <2>4 DEF Free, Waiting
  <2>6. \A q \in Producer : Through(q)' = Through(q)
    BY <1>5, <2>3
  <2> QED
    BY <1>1, <1>2, <1>5, <2>1, <2>2, <2>5, <2>6 DEF Quiet, BatchesAreWaiting
<1>8. CASE Send(p)
  <2>1. UNCHANGED <<phase, session, processed, batch, copies>>
    BY <1>8 DEF Send, topics
  <2>2. \A q \in Producer : Through(q)' = Through(q)
    BY <1>5, <1>8, ThroughAfterSend
  <2> QED
    BY <1>1, <2>1, <2>2 DEF Quiet, BatchesAreWaiting
<1>9. CASE Flush(p)
  <2>1. /\ phase' = [phase EXCEPT ![p] = "flushed"]
        /\ phase[p] = "sending"
        /\ UNCHANGED <<session, processed, batch, sent, buffer, copies>>
    BY <1>9 DEF Flush, topics
  <2>2. \A q \in Producer : Through(q)' = Through(q)
    BY <2>1 DEF Through
  <2> QED
    BY <1>1, <1>2, <2>1, <2>2 DEF Quiet, BatchesAreWaiting
<1>10. CASE Deliver(p)
  <2> DEFINE j == Head(buffer[p])
  <2>1. /\ UNCHANGED <<phase, session, processed, batch>>
        /\ copies' = [copies EXCEPT ![j] = IF @ < 2 THEN @ + 1 ELSE @]
    BY <1>10 DEF Deliver
  <2>2. /\ Through(p)' = Through(p) \cup {j}
        /\ \A i \in Through(p) : i < j
        /\ j \in Range(batch[p]) /\ j \in DOMAIN events
    BY <1>10, ThroughAfterAnswer
  <2> HIDE DEF j
  <2>3. j \in Ids /\ j \in Nat
    BY <1>2, <2>2 DEF Ids
  <2>4. j \notin Through(p)
    BY <2>2, <2>3
  <2>5. j \notin processed /\ \A q \in Producer : q # p => j \notin Through(q)
    BY <1>1, <1>3, <2>2
  <2>6. copies[j] = 0
    BY <1>1, <1>2, <2>3, <2>4, <2>5
  <2>7. \A i \in Ids : copies'[i] = IF i = j THEN 1 ELSE copies[i]
    BY <1>2, <2>1, <2>3, <2>6
  <2>8. \A q \in Producer : Through(q) \subseteq Through(q)'
    BY <1>5, <2>2
  <2>9. \A i \in Ids : copies'[i] > 0 => i \in processed' \cup UNION {Through(q)' : q \in Producer}
    <3> SUFFICES ASSUME NEW i \in Ids, copies'[i] > 0, i \notin processed'
                 PROVE  \E q \in Producer : i \in Through(q)'
      OBVIOUS
    <3>1. CASE i = j
      BY <2>2, <3>1
    <3>2. CASE i # j
      BY <1>1, <2>1, <2>7, <2>8, <3>2
    <3> QED
      BY <3>1, <3>2
  <2> QED
    BY <1>1, <2>1, <2>7, <2>9 DEF Quiet, BatchesAreWaiting
<1>11. CASE Mark(p) \/ Start(p)
  <2>1. /\ Reset(p, "polling") /\ UNCHANGED copies
        /\ processed' = processed \cup Range(batch[p])
    <3>1. CASE Mark(p)
      BY <3>1 DEF Mark, topics
    <3>2. CASE Start(p)
      <4>1. Range(batch[p]) = {}
        BY <1>1, <3>2 DEF Start, QueueInv, IdleHasNoBatch, Range
      <4> QED
        BY <3>2, <4>1 DEF Start, topics
    <3> QED
      BY <1>11, <3>1, <3>2
  <2>2. Through(p)' = {} /\ Range(batch'[p]) = {}
    BY <1>1, <2>1, ThroughAfterReset
  <2>3. phase' = [phase EXCEPT ![p] = "polling"] /\ session' = session \ {p}
    BY <2>1 DEF Reset
  <2>4. \A q \in Producer : q # p => Range(batch[q]) \cap processed' = {}
    BY <1>1, <2>1
  <2>5. \A i \in Ids : copies'[i] > 0 => i \in processed' \cup UNION {Through(q)' : q \in Producer}
    <3> SUFFICES ASSUME NEW i \in Ids, copies[i] > 0, i \notin processed'
                 PROVE  \E q \in Producer : i \in Through(q)'
      BY <2>1
    <3>1. PICK q \in Producer : i \in Through(q)
      BY <1>1, <2>1
    <3>2. q # p
      BY <1>3, <2>1, <3>1
    <3> QED
      BY <1>5, <3>1, <3>2
  <2> QED
    BY <1>1, <1>2, <1>5, <2>1, <2>2, <2>3, <2>4, <2>5 DEF Quiet, BatchesAreWaiting
<1> QED
  BY <1>6, <1>7, <1>8, <1>9, <1>10, <1>11

LEMMA StepKeepsQuiet == QuietInv /\ [Next]_vars => QuietInv'
<1> SUFFICES ASSUME QuietInv, [Next]_vars PROVE QuietInv'
  OBVIOUS
<1>1. OrderInv /\ QueueInv /\ OrderInv'
  BY StepKeepsOrder DEF QuietInv, OrderInv
<1> SUFFICES ASSUME failures' = 0, Poison = {} PROVE Quiet'
  BY <1>1 DEF QuietInv
<1>2. failures = 0
  <2>1. failures \in Nat /\ MaxFailures \in Nat
    BY <1>1, QueueAssumption DEF QueueInv, QueueTypeOK
  <2>2. ~ Failure
    BY <2>1 DEF Failure
  <2>3. UNCHANGED failures
    BY <2>2 DEF Next, Loop, Change, Commit, Abort, Fetch, Send, GiveUp, Flush, Mark,
       MarkFails, Deliver, Refuse, FlushTimesOut, LoseSession, Crash, Start, vars
  <2> QED
    BY <2>3
<1>3. Quiet
  BY <1>2 DEF QuietInv
<1>4. CASE UNCHANGED vars
  BY <1>3, <1>4 DEF vars, topics, Quiet, BatchesAreWaiting, Through
<1>5. CASE \E w \in Worker : (\E r \in Row : Change(w, r)) \/ Commit(w) \/ Abort(w)
  BY <1>1, <1>3, <1>5, WorkersKeepQuiet
<1>6. CASE \E p \in Producer : Loop(p) \/ Deliver(p) \/ Refuse(p) \/ FlushTimesOut(p)
                                 \/ LoseSession(p) \/ Crash(p) \/ Start(p)
  BY <1>1, <1>3, <1>6, NothingFailed, ProducerKeepsQuiet DEF Loop
<1> QED
  BY <1>4, <1>5, <1>6 DEF Next

\* While nothing fails, no two producers send the same event and none sends one
\* twice: what is selected is locked, what is locked is skipped (FOR UPDATE SKIP
\* LOCKED), and the lock is kept until the event is marked, in one transaction
\* (run() of kafka_producer.py), however many producers nipapd has started.
THEOREM SentOnce == Spec => []SentOnceUnlessFailed
<1>1. Init => QuietInv
  <2> SUFFICES ASSUME Init PROVE QuietInv
    OBVIOUS
  <2>1. \A p \in Producer : Range(batch[p]) = {}
    BY DEF Init, Range
  <2> QED
    BY <2>1, InitOrder DEF Init, QuietInv, Quiet, BatchesAreWaiting, Ids
<1>2. QuietInv => SentOnceUnlessFailed
  BY DEF QuietInv, Quiet, SentOnceUnlessFailed
<1> QED
  BY <1>1, <1>2, StepKeepsQuiet, PTL DEF Spec

=============================================================================
