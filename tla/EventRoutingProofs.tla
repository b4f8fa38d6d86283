------------------------- MODULE EventRoutingProofs -------------------------
(***************************************************************************)
(* Theorems about EventRouting, for any picks, malformed bodies, retries,  *)
(* delays and faults: no retry waits longer than the configured maximum,   *)
(* no event escapes the audit, every line of the audit log names its       *)
(* event, and what is logged or dead-lettered more than once is accounted  *)
(* for by retries and faults.                                              *)
(***************************************************************************)
EXTENDS EventRouting, FiniteSetTheorems, SequenceTheorems, TLAPS

(* What is found in a queue: only a delay queue keeps time; both inventory *)
(* queues hold what was published as pick.created; only what never parses  *)
(* is retried by the audit worker, so whatever else is delivered to it     *)
(* still has the key it was published under.                               *)
Belongs(q, m) ==
    /\ q \notin DelayQueues => m.waited = 0
    /\ q \in {"picks.inventory", "picks.inventory.retry"} => m.body[2] = "pick.created"
    /\ q = "picks.audit.retry" => m.body[1] \in unparsable
    /\ q = "picks.audit" => m.body[1] \in unparsable \/ m.key = m.body[2]

BelongInv == \A q \in Queues : \A i \in DOMAIN queue[q] : Belongs(q, queue[q][i])

(* In a delay queue nobody has waited longer than who came before.         *)
OrderInv ==
    \A q \in DelayQueues : \A i, j \in DOMAIN queue[q] :
      i < j => queue[q][j].waited <= queue[q][i].waited

(* A worker that is done with a delivery has not acknowledged it yet.      *)
HeldInv == \A w \in Workers : done[w] => queue[Source[w]] # <<>>

(* The body b is in the audit log or in an audit queue, a delivery the     *)
(* audit worker is done with left out.                                     *)
Handled == IF done["audit"] THEN 1 ELSE 0

Behind(n, s, b) == \E i \in DOMAIN s : i > n /\ s[i].body = b

Audited(b) ==
    \/ logged[b] > 0
    \/ Behind(0, queue["picks.audit.retry"], b)
    \/ Behind(0, queue["picks.audit.dlq"], b)
    \/ Behind(Handled, queue["picks.audit"], b)

AuditInv == \A b \in sent : Audited(b)

Inv == /\ TypeOK /\ BelongInv /\ OrderInv /\ HeldInv /\ AuditInv /\ LinesNameTheEvent

-----------------------------------------------------------------------------
(* Sequences, at their ends.                                               *)
LEMMA AppendFacts ==
    ASSUME NEW S, NEW s \in Seq(S), NEW m \in S
    PROVE  /\ Append(s, m) \in Seq(S) /\ Append(s, m) # <<>>
           /\ DOMAIN s = 1..Len(s) /\ Len(s) \in Nat
           /\ DOMAIN Append(s, m) = 1..(Len(s) + 1)
           /\ \A i \in DOMAIN s : Append(s, m)[i] = s[i]
           /\ Append(s, m)[Len(s) + 1] = m
  OBVIOUS

LEMMA TailFacts ==
    ASSUME NEW S, NEW s \in Seq(S), s # <<>>
    PROVE  /\ Tail(s) \in Seq(S) /\ Head(s) \in S /\ Head(s) = s[1]
           /\ Len(s) \in Nat \ {0}
           /\ DOMAIN s = 1..Len(s) /\ DOMAIN Tail(s) = 1..(Len(s) - 1)
           /\ \A i \in DOMAIN Tail(s) : Tail(s)[i] = s[i + 1]
  BY EmptySeq, HeadTailProperties, LenProperties

-----------------------------------------------------------------------------
(* The exchange: which queues a key reaches.                               *)
LEMMA Destinations ==
    ASSUME NEW q \in Queues
    PROVE  /\ "pick.created" \in BindingKeys(q)
                <=> q \in {"picks.inventory", "picks.audit"}
           /\ \A key \in {"pick.completed", "pick.failed", "pick.audit.redeliver"} :
                key \in BindingKeys(q) <=> q = "picks.audit"
           /\ "pick.created.retry" \in BindingKeys(q) <=> q = "picks.inventory.retry"
           /\ "pick.created.dead" \in BindingKeys(q) <=> q = "picks.inventory.dlq"
           /\ "pick.audit.retry" \in BindingKeys(q) <=> q = "picks.audit.retry"
           /\ "pick.audit.dead" \in BindingKeys(q) <=> q = "picks.audit.dlq"
  BY DEF Queues, DelayQueues, DeadLetters, WorkQueues, BindingKeys, OwnKey, Lifecycle

LEMMA RoutedEffect ==
    ASSUME NEW Q \in [Queues -> Seq(Message)], NEW m \in Message
    PROVE  /\ Routed(Q, m) \in [Queues -> Seq(Message)]
           /\ \A q \in Queues :
                /\ m.key \in BindingKeys(q) => Routed(Q, m)[q] = Append(Q[q], m)
                /\ m.key \notin BindingKeys(q) => Routed(Q, m)[q] = Q[q]
  BY DEF Routed

LEMMA EventTyped ==
    ASSUME NEW k \in Picks, NEW key \in Lifecycle
    PROVE  /\ Event(k, key) \in Message
           /\ Event(k, key).body = <<k, key>> /\ Event(k, key).key = key
           /\ Event(k, key).waited = 0 /\ Event(k, key).retries = 0
           /\ <<k, key>> \in Bodies
  BY RoutingAssumption DEF Event, Message, Bodies, Keys

LEMMA SourceTyped ==
    ASSUME NEW w \in Workers
    PROVE  Source[w] \in Queues /\ Source[w] \in WorkQueues
  BY DEF Workers, Source, Queues, WorkQueues

(* The delivery a worker is at.                                            *)
LEMMA DeliveryTyped ==
    ASSUME TypeOK, BelongInv, NEW w \in Workers, queue[Source[w]] # <<>>
    PROVE  /\ Delivery(w) \in Message /\ Delivery(w) = queue[Source[w]][1]
           /\ 1 \in DOMAIN queue[Source[w]]
           /\ Belongs(Source[w], Delivery(w)) /\ Delivery(w).waited = 0
<1>1. Source[w] \in Queues /\ Source[w] \notin DelayQueues
  BY DEF Workers, Source, Queues, WorkQueues, DelayQueues
<1>2. queue[Source[w]] \in Seq(Message)
  BY <1>1 DEF TypeOK
<1>3. /\ Delivery(w) \in Message /\ Delivery(w) = queue[Source[w]][1]
      /\ 1 \in DOMAIN queue[Source[w]]
  BY <1>2, TailFacts DEF Delivery
<1>4. QED
  BY <1>1, <1>3 DEF BelongInv, Belongs

(* Delays never exceed the configured maximum.                             *)
LEMMA DelaysTyped ==
    ASSUME NEW n \in 0..MaxRetries, NEW d \in Delays(n)
    PROVE  d \in 0..MaxDelay
<1>1. 2^n \in Nat /\ BaseDelay \in Nat /\ MaxDelay \in Nat
  BY RoutingAssumption
<1>2. Exponential(n) \in 0..MaxDelay
  <2> DEFINE p == 2^n
  <2>1. BaseDelay * p \in Nat
    <3> HIDE DEF p
    <3>1. p \in Nat
      BY <1>1 DEF p
    <3>2. QED
      BY <1>1, <3>1
  <2>2. QED
    BY <1>1, <2>1 DEF Exponential
<1>3. QED
  BY <1>1, <1>2 DEF Delays

(* The fields a copy keeps and those it gets, one field at a time.         *)
LEMMA Rekeyed ==
    ASSUME NEW d \in Message, NEW key \in Keys
    PROVE  LET m == [d EXCEPT !.key = key]
           IN  /\ m \in Message /\ m.key = key /\ m.body = d.body
               /\ m.retries = d.retries /\ m.waited = d.waited
  BY DEF Message

LEMMA Delayed ==
    ASSUME NEW d \in Message, NEW t \in 0..MaxDelay
    PROVE  LET m == [d EXCEPT !.delay = t]
           IN  /\ m \in Message /\ m.key = d.key /\ m.body = d.body
               /\ m.retries = d.retries /\ m.waited = d.waited
  BY DEF Message

LEMMA Waited ==
    ASSUME NEW d \in Message, NEW t \in 0..MaxDelay
    PROVE  LET m == [d EXCEPT !.waited = t]
           IN  /\ m \in Message /\ m.key = d.key /\ m.body = d.body
               /\ m.retries = d.retries /\ m.waited = t
  BY DEF Message

LEMMA Retried ==
    ASSUME NEW d \in Message, d.retries < MaxRetries
    PROVE  LET m == [d EXCEPT !.retries = @ + 1]
           IN  /\ m \in Message /\ m.key = d.key /\ m.body = d.body
               /\ m.retries = d.retries + 1 /\ m.waited = d.waited
<1>1. d.retries + 1 \in 0..MaxRetries
  BY RoutingAssumption DEF Message
<1>2. QED
  BY <1>1 DEF Message

RetryOf(d, key, t) == [d EXCEPT !.key = key, !.retries = @ + 1, !.delay = t]

LEMMA RetryCopy ==
    ASSUME NEW d \in Message, d.retries < MaxRetries,
           NEW key \in Keys, NEW t \in 0..MaxDelay
    PROVE  LET m == RetryOf(d, key, t)
           IN  /\ m \in Message /\ m.key = key /\ m.body = d.body
               /\ m.retries = d.retries + 1 /\ m.waited = d.waited
<1> DEFINE a == [d EXCEPT !.key = key]
           b == [a EXCEPT !.retries = @ + 1]
           c == [b EXCEPT !.delay = t]
<1>1. c = RetryOf(d, key, t)
  BY DEF RetryOf
<1>2. /\ a \in Message /\ a.key = key /\ a.body = d.body
      /\ a.retries = d.retries /\ a.waited = d.waited
  BY Rekeyed
<1> HIDE DEF a
<1>3. /\ b \in Message /\ b.key = key /\ b.body = d.body
      /\ b.retries = d.retries + 1 /\ b.waited = d.waited
  BY <1>2, Retried
<1> HIDE DEF b
<1>4. /\ c \in Message /\ c.key = key /\ c.body = d.body
      /\ c.retries = d.retries + 1 /\ c.waited = d.waited
  BY <1>3, Delayed
<1> HIDE DEF c
<1>5. QED
  BY <1>1, <1>4

RoutedOn(d, key) == [d EXCEPT !.key = key, !.delay = 0, !.waited = 0]

LEMMA RoutedAgain ==
    ASSUME NEW d \in Message, NEW key \in Keys
    PROVE  LET m == RoutedOn(d, key)
           IN  /\ m \in Message /\ m.key = key /\ m.body = d.body
               /\ m.retries = d.retries /\ m.waited = 0
<1> DEFINE a == [d EXCEPT !.key = key]
           b == [a EXCEPT !.delay = 0]
           c == [b EXCEPT !.waited = 0]
<1>1. c = RoutedOn(d, key)
  BY DEF RoutedOn
<1>2. /\ a \in Message /\ a.key = key /\ a.body = d.body /\ a.retries = d.retries
  BY Rekeyed
<1>3. 0 \in 0..MaxDelay
  BY RoutingAssumption
<1> HIDE DEF a
<1>4. /\ b \in Message /\ b.key = key /\ b.body = d.body /\ b.retries = d.retries
  BY <1>2, <1>3, Delayed
<1> HIDE DEF b
<1>5. /\ c \in Message /\ c.key = key /\ c.body = d.body /\ c.retries = d.retries
      /\ c.waited = 0
  BY <1>3, <1>4, Waited
<1> HIDE DEF c
<1>6. QED
  BY <1>1, <1>5

(* The catch block sends a copy of the delivery to the worker's delay      *)
(* queue, with one more retry, or to its dead letters.                     *)
LEMMA FailsEffect ==
    ASSUME TypeOK, BelongInv, NEW w \in Workers, queue[Source[w]] # <<>>, Fails(w)
    PROVE  \E m \in Message :
             /\ queue' = Routed(queue, m)
             /\ m.body = Delivery(w).body /\ m.waited = 0
             /\ \/ m.key = RetryKey[w] /\ m.retries = Delivery(w).retries + 1
                \/ /\ m.key = DeadKey[w] /\ m.retries = Delivery(w).retries
                   /\ m.retries = MaxRetries
<1> DEFINE d == Delivery(w)
<1>1. d \in Message /\ d.waited = 0
  BY DeliveryTyped
<1>2. RetryKey[w] \in Keys /\ DeadKey[w] \in Keys /\ MaxRetries \in Nat
  BY RoutingAssumption DEF Workers, RetryKey, DeadKey, Keys
<1>3. CASE d.retries < MaxRetries
  <2>1. PICK t \in Delays(d.retries) :
          queue' = Routed(queue, RetryOf(d, RetryKey[w], t))
    BY <1>3 DEF Fails, RetryOf
  <2>2. t \in 0..MaxDelay
    BY <1>1, <2>1, DelaysTyped DEF Message
  <2> DEFINE m == RetryOf(d, RetryKey[w], t)
  <2>3. /\ m \in Message /\ m.key = RetryKey[w] /\ m.body = d.body
        /\ m.waited = 0 /\ m.retries = d.retries + 1
    BY <1>1, <1>2, <1>3, <2>2, RetryCopy
  <2>4. QED
    BY <2>1, <2>3
<1>4. CASE ~(d.retries < MaxRetries)
  <2> DEFINE m == [d EXCEPT !.key = DeadKey[w]]
  <2>1. queue' = Routed(queue, m)
    BY <1>4 DEF Fails
  <2>2. /\ m \in Message /\ m.key = DeadKey[w] /\ m.body = d.body
        /\ m.waited = 0 /\ m.retries = d.retries /\ d.retries = MaxRetries
    BY <1>1, <1>2, <1>4 DEF Message
  <2>3. QED
    BY <2>1, <2>2
<1>5. QED
  BY <1>3, <1>4

-----------------------------------------------------------------------------
(* The steps, queue by queue.                                              *)
QueueMoves(q) ==
    \/ queue'[q] = queue[q]
    \/ \E m \in Message :
         m.waited = 0 /\ Belongs(q, m) /\ queue'[q] = Append(queue[q], m)
    \/ queue[q] # <<>> /\ queue'[q] = Tail(queue[q])
    \/ /\ q \in DelayQueues /\ queue'[q] = Waiting(q)
       /\ \A p \in DelayQueues : ~Due(p)

(* A message that belongs wherever its key takes it.                       *)
LEMMA RoutedMoves ==
    ASSUME TypeOK, NEW q \in Queues, NEW m \in Message, m.waited = 0,
           m.key \in BindingKeys(q) => Belongs(q, m),
           queue' = Routed(queue, m)
    PROVE  QueueMoves(q)
<1>1. \/ queue'[q] = Append(queue[q], m) /\ m.key \in BindingKeys(q)
      \/ queue'[q] = queue[q]
  BY RoutedEffect DEF TypeOK
<1>2. QED
  BY <1>1 DEF QueueMoves

LEMMA FailsMoves ==
    ASSUME TypeOK, BelongInv, NEW q \in Queues, NEW w \in Workers,
           queue[Source[w]] # <<>>, Fails(w),
           w = "audit" => Delivery(w).body[1] \in unparsable
    PROVE  QueueMoves(q)
<1>1. PICK m \in Message :
        /\ queue' = Routed(queue, m)
        /\ m.body = Delivery(w).body /\ m.waited = 0
        /\ m.key = RetryKey[w] \/ m.key = DeadKey[w]
  BY FailsEffect
<1>2. w = "inventory" => m.body[2] = "pick.created"
  BY <1>1, DeliveryTyped DEF Belongs, Source
<1>3. w = "audit" => m.body[1] \in unparsable
  BY <1>1
<1>4. m.key \in BindingKeys(q) =>
        \/ w = "inventory" /\ q \in {"picks.inventory.retry", "picks.inventory.dlq"}
        \/ w = "audit" /\ q \in {"picks.audit.retry", "picks.audit.dlq"}
  BY <1>1, Destinations DEF Workers, RetryKey, DeadKey
<1>5. m.key \in BindingKeys(q) => Belongs(q, m)
  BY <1>1, <1>2, <1>3, <1>4 DEF Belongs
<1>6. QED
  BY <1>1, <1>5, RoutedMoves

(* The head of a delay queue goes back to where it was retried from.       *)
LEMMA ExpireEffect ==
    ASSUME TypeOK, BelongInv, NEW p \in DelayQueues, Expire(p)
    PROVE  \E m \in Message :
             /\ p \in Queues /\ queue[p] # <<>>
             /\ m.body = Head(queue[p]).body /\ m.retries = Head(queue[p]).retries
             /\ m.key = DeadLetterKey(p) /\ m.waited = 0
             /\ Belongs(p, Head(queue[p]))
             /\ queue'[p] = Tail(queue[p])
             /\ \A q \in Queues \ {p} :
                  /\ m.key \in BindingKeys(q) => queue'[q] = Append(queue[q], m)
                  /\ m.key \notin BindingKeys(q) => queue'[q] = queue[q]
<1> DEFINE h == Head(queue[p])
           m == RoutedOn(h, DeadLetterKey(p))
           Q == [queue EXCEPT ![p] = Tail(@)]
<1>1. p \in Queues /\ queue[p] # <<>> /\ queue' = Routed(Q, m)
  BY DEF Queues, Expire, Due, RoutedOn
<1>2. queue[p] \in Seq(Message)
  BY <1>1 DEF TypeOK
<1>3. h \in Message /\ h = queue[p][1] /\ 1 \in DOMAIN queue[p] /\ Tail(queue[p]) \in Seq(Message)
  BY <1>1, <1>2, TailFacts
<1>4. DeadLetterKey(p) \in Keys
  BY DEF DeadLetterKey, Keys, Lifecycle
<1>5. /\ m \in Message /\ m.body = h.body /\ m.retries = h.retries
      /\ m.key = DeadLetterKey(p) /\ m.waited = 0
  BY <1>3, <1>4, RoutedAgain
<1>6. Belongs(p, h)
  BY <1>1, <1>3 DEF BelongInv
<1>7. /\ Q \in [Queues -> Seq(Message)] /\ Q[p] = Tail(queue[p])
      /\ \A q \in Queues \ {p} : Q[q] = queue[q]
  BY <1>1, <1>3 DEF TypeOK
<1>8. m.key \notin BindingKeys(p)
  BY <1>1, <1>5, Destinations DEF DeadLetterKey, DelayQueues
<1> HIDE DEF Q, m
<1>9. /\ queue'[p] = Tail(queue[p])
      /\ \A q \in Queues \ {p} :
           /\ m.key \in BindingKeys(q) => queue'[q] = Append(queue[q], m)
           /\ m.key \notin BindingKeys(q) => queue'[q] = queue[q]
  <2>1. \A q \in Queues : /\ m.key \in BindingKeys(q) => queue'[q] = Append(Q[q], m)
                          /\ m.key \notin BindingKeys(q) => queue'[q] = Q[q]
    BY <1>1, <1>5, <1>7, RoutedEffect
  <2>2. QED
    BY <1>1, <1>7, <1>8, <2>1
<1>10. QED
  BY <1>1, <1>5, <1>6, <1>9

LEMMA EveryQueueMoves ==
    ASSUME TypeOK, BelongInv, HeldInv, [Next]_vars, NEW q \in Queues
    PROVE  QueueMoves(q)
<1>1. ASSUME NEW k \in Picks, PublishCreated(k) PROVE QueueMoves(q)
  <2> DEFINE m == Event(k, "pick.created")
  <2>1. /\ m \in Message /\ m.waited = 0 /\ m.key = "pick.created"
        /\ m.body = <<k, "pick.created">>
    BY EventTyped DEF Lifecycle
  <2>2. m.key \in BindingKeys(q) => q \in {"picks.inventory", "picks.audit"}
    BY <2>1, Destinations
  <2>3. m.key \in BindingKeys(q) => Belongs(q, m)
    BY <2>1, <2>2 DEF Belongs
  <2>4. queue' = Routed(queue, m)
    BY <1>1 DEF PublishCreated
  <2> HIDE DEF m
  <2>5. QED
    BY <2>1, <2>3, <2>4, RoutedMoves
<1>2. ASSUME NEW p \in DelayQueues, Expire(p) PROVE QueueMoves(q)
  <2>1. PICK m \in Message :
          /\ p \in Queues /\ queue[p] # <<>>
          /\ m.body = Head(queue[p]).body
          /\ m.key = DeadLetterKey(p) /\ m.waited = 0
          /\ Belongs(p, Head(queue[p]))
          /\ queue'[p] = Tail(queue[p])
          /\ \A o \in Queues \ {p} :
               /\ m.key \in BindingKeys(o) => queue'[o] = Append(queue[o], m)
               /\ m.key \notin BindingKeys(o) => queue'[o] = queue[o]
    BY <1>2, ExpireEffect
  <2>2. CASE q = p
    BY <2>1, <2>2 DEF QueueMoves
  <2>3. CASE q # p /\ m.key \notin BindingKeys(q)
    BY <2>1, <2>3 DEF QueueMoves
  <2>4. CASE q # p /\ m.key \in BindingKeys(q)
    <3>1. \/ /\ p = "picks.inventory.retry" /\ q \in {"picks.inventory", "picks.audit"}
             /\ m.key = "pick.created"
          \/ p = "picks.audit.retry" /\ q = "picks.audit"
      BY <2>1, <2>4, Destinations DEF DeadLetterKey, DelayQueues
    <3>2. Belongs(q, m)
      BY <2>1, <3>1 DEF Belongs
    <3>3. QED
      BY <2>1, <2>4, <3>2 DEF QueueMoves
  <2>5. QED
    BY <2>2, <2>3, <2>4
<1>3. ASSUME Tick PROVE QueueMoves(q)
  BY <1>3 DEF Tick, QueueMoves
<1>4. ASSUME NEW w \in Workers, Ack(w) PROVE QueueMoves(q)
  <2>1. queue[Source[w]] # <<>>
    BY <1>4 DEF Ack, HeldInv
  <2>2. queue' = [queue EXCEPT ![Source[w]] = Tail(@)]
    BY <1>4 DEF Ack
  <2>3. (queue'[q] = Tail(queue[q]) /\ q = Source[w]) \/ queue'[q] = queue[q]
    BY <2>2 DEF TypeOK
  <2>4. QED
    BY <2>1, <2>3 DEF QueueMoves
<1>5. ASSUME Picked PROVE QueueMoves(q)
  <2>1. /\ queue["picks.inventory"] # <<>>
        /\ "inventory" \in Workers /\ Source["inventory"] = "picks.inventory"
    BY <1>5 DEF Picked, Handles, Source, Workers
  <2>2. Delivery("inventory").body[1] \in Picks
    BY <2>1, DeliveryTyped DEF Message, Bodies
  <2>3. PICK k \in Picks, key \in {"pick.completed", "pick.failed"} :
          queue' = Routed(queue, Event(k, key))
    BY <1>5, <2>2 DEF Picked
  <2> DEFINE m == Event(k, key)
  <2>4. m \in Message /\ m.waited = 0 /\ m.key = key /\ m.body[2] = key
    <3>1. key \in Lifecycle
      BY DEF Lifecycle
    <3>2. m \in Message /\ m.waited = 0 /\ m.key = key /\ m.body = <<k, key>>
      BY <3>1, EventTyped
    <3>3. QED
      BY <3>2
  <2>5. m.key \in BindingKeys(q) => Belongs(q, m)
    BY <2>4, Destinations DEF Belongs, DelayQueues
  <2> HIDE DEF m
  <2>6. QED
    BY <2>3, <2>4, <2>5, RoutedMoves DEF m
<1>6. ASSUME Rejected \/ DatabaseFails PROVE QueueMoves(q)
  <2>1. /\ queue[Source["inventory"]] # <<>> /\ Fails("inventory")
        /\ "inventory" \in Workers
    BY <1>6 DEF Rejected, DatabaseFails, Handles, Workers
  <2>2. QED
    BY <2>1, FailsMoves
<1>7. ASSUME NotParsed PROVE QueueMoves(q)
  <2>1. /\ queue[Source["audit"]] # <<>> /\ Fails("audit")
        /\ "audit" \in Workers /\ Delivery("audit").body[1] \in unparsable
    BY <1>7 DEF NotParsed, Handles, Workers
  <2>2. QED
    BY <2>1, FailsMoves
<1>8. CASE queue' = queue
  BY <1>8 DEF QueueMoves
<1>9. CASE UNCHANGED vars \/ Log \/ \E w \in Workers : Crash(w)
  BY <1>8, <1>9 DEF vars, Log, Crash
<1>10. QED
  BY <1>1, <1>2, <1>3, <1>4, <1>5, <1>6, <1>7, <1>9 DEF Next

-----------------------------------------------------------------------------
(* Time: no queue's head is due, so its delay bounds what everybody behind *)
(* it has waited.                                                          *)
OneMore(d) == [d EXCEPT !.waited = @ + 1]

LEMMA OneMoreTyped ==
    ASSUME NEW d \in Message, d.waited < MaxDelay
    PROVE  LET m == OneMore(d)
           IN  /\ m \in Message /\ m.key = d.key /\ m.body = d.body
               /\ m.retries = d.retries /\ m.waited = d.waited + 1
<1>1. d.waited + 1 \in 0..MaxDelay
  BY RoutingAssumption DEF Message
<1>2. QED
  BY <1>1 DEF Message, OneMore

LEMMA WaitingEffect ==
    ASSUME TypeOK, OrderInv, NEW q \in DelayQueues, ~Due(q)
    PROVE  /\ Waiting(q) \in Seq(Message)
           /\ DOMAIN Waiting(q) = DOMAIN queue[q]
           /\ \A i \in DOMAIN queue[q] :
                LET m == Waiting(q)[i]
                    d == queue[q][i]
                IN  /\ m.key = d.key /\ m.body = d.body
                    /\ m.retries = d.retries /\ m.waited = d.waited + 1
<1> DEFINE s == queue[q]
<1>1. s \in Seq(Message) /\ q \in Queues
  BY DEF TypeOK, Queues
<1>2. /\ Len(s) \in Nat /\ DOMAIN s = 1..Len(s)
      /\ \A i \in DOMAIN s : s[i] \in Message
  BY <1>1, LenProperties
<1>3. \A i \in DOMAIN s : s[i].waited < MaxDelay
  <2> SUFFICES ASSUME NEW i \in DOMAIN s PROVE s[i].waited < MaxDelay
    OBVIOUS
  <2>1. s # <<>> /\ 1 \in DOMAIN s
    BY <1>1, <1>2
  <2>2. ~(s[1].waited >= s[1].delay)
    BY <1>1, <2>1, TailFacts DEF Due
  <2>3. s[i].waited <= s[1].waited
    <3>1. CASE i = 1
      <4>1. s[1].waited \in 0..MaxDelay
        BY <1>2, <2>1 DEF Message
      <4>2. QED
        BY <3>1, <4>1, RoutingAssumption
    <3>2. CASE 1 < i
      BY <2>1, <3>2 DEF OrderInv
    <3>3. QED
      BY <1>2, <3>1, <3>2
  <2>4. /\ s[1].waited \in 0..MaxDelay /\ s[1].delay \in 0..MaxDelay
        /\ s[i].waited \in 0..MaxDelay
    BY <1>2, <2>1 DEF Message
  <2>5. QED
    BY <2>2, <2>3, <2>4, RoutingAssumption
<1>4. Waiting(q) = [i \in DOMAIN s |-> OneMore(s[i])]
  BY DEF Waiting, OneMore
<1>5. \A i \in DOMAIN s :
        LET m == OneMore(s[i])
            d == s[i]
        IN  /\ m \in Message /\ m.key = d.key /\ m.body = d.body
            /\ m.retries = d.retries /\ m.waited = d.waited + 1
  BY <1>2, <1>3, OneMoreTyped
<1>6. Waiting(q) \in [1..Len(s) -> Message]
  BY <1>2, <1>4, <1>5
<1>7. QED
  BY <1>2, <1>4, <1>5, <1>6, SeqDef

(* The queues keep their messages' types, and time its order.              *)
LEMMA QueueStep ==
    ASSUME TypeOK, BelongInv, OrderInv, HeldInv, [Next]_vars, NEW q \in Queues
    PROVE  /\ queue'[q] \in Seq(Message)
           /\ \A i \in DOMAIN queue'[q] : Belongs(q, queue'[q][i])
           /\ q \in DelayQueues =>
                \A i, j \in DOMAIN queue'[q] :
                  i < j => queue'[q][j].waited <= queue'[q][i].waited
<1> DEFINE s == queue[q]
           t == queue'[q]
<1>1. /\ s \in Seq(Message) /\ Len(s) \in Nat /\ DOMAIN s = 1..Len(s)
      /\ \A i \in DOMAIN s : s[i] \in Message
      /\ \A i \in DOMAIN s : s[i].waited \in Nat
      /\ \A i \in DOMAIN s : Belongs(q, s[i])
      /\ q \in DelayQueues =>
           \A i, j \in DOMAIN s : i < j => s[j].waited <= s[i].waited
  <2>1. s \in Seq(Message) /\ \A i \in DOMAIN s : Belongs(q, s[i])
    BY DEF TypeOK, BelongInv
  <2>2. /\ Len(s) \in Nat /\ DOMAIN s = 1..Len(s)
        /\ \A i \in DOMAIN s : s[i] \in Message
    BY <2>1, LenProperties
  <2>3. \A i \in DOMAIN s : s[i].waited \in Nat
    BY <2>2, RoutingAssumption DEF Message
  <2>4. QED
    BY <2>1, <2>2, <2>3 DEF OrderInv
<1>2. CASE t = s
  BY <1>1, <1>2
<1>3. CASE \E m \in Message : m.waited = 0 /\ Belongs(q, m) /\ t = Append(s, m)
  <2>1. PICK m \in Message : m.waited = 0 /\ Belongs(q, m) /\ t = Append(s, m)
    BY <1>3
  <2>2. /\ t \in Seq(Message) /\ DOMAIN t = 1..(Len(s) + 1)
        /\ \A i \in DOMAIN s : t[i] = s[i]
        /\ t[Len(s) + 1] = m
    BY <1>1, <2>1, AppendFacts
  <2> HIDE DEF s, t
  <2>3. \A i \in DOMAIN t : Belongs(q, t[i])
    BY <1>1, <2>1, <2>2
  <2>4. ASSUME q \in DelayQueues, NEW i \in DOMAIN t, NEW j \in DOMAIN t, i < j
        PROVE  t[j].waited <= t[i].waited
    <3>1. i \in DOMAIN s /\ t[i] = s[i]
      BY <1>1, <2>2, <2>4
    <3>2. CASE j \in DOMAIN s
      BY <1>1, <2>2, <2>4, <3>1, <3>2
    <3>3. CASE j = Len(s) + 1
      BY <1>1, <2>1, <2>2, <3>1, <3>3
    <3>4. QED
      BY <1>1, <2>2, <2>4, <3>2, <3>3
  <2>5. QED
    BY <2>2, <2>3, <2>4 DEF t
<1>4. CASE s # <<>> /\ t = Tail(s)
  <2>1. /\ t \in Seq(Message) /\ DOMAIN t = 1..(Len(s) - 1)
        /\ \A i \in DOMAIN t : t[i] = s[i + 1]
    BY <1>1, <1>4, TailFacts
  <2> HIDE DEF s, t
  <2>2. \A i \in DOMAIN t : i \in Nat /\ i + 1 \in DOMAIN s
    BY <1>1, <2>1
  <2>3. \A i \in DOMAIN t : Belongs(q, t[i])
    BY <1>1, <2>1, <2>2
  <2>4. ASSUME q \in DelayQueues, NEW i \in DOMAIN t, NEW j \in DOMAIN t, i < j
        PROVE  t[j].waited <= t[i].waited
    <3>1. i + 1 < j + 1 /\ i + 1 \in DOMAIN s /\ j + 1 \in DOMAIN s
      BY <2>2, <2>4
    <3>2. t[i] = s[i + 1] /\ t[j] = s[j + 1]
      BY <2>1
    <3>3. s[j + 1].waited <= s[i + 1].waited
      BY <1>1, <2>4, <3>1
    <3>4. QED
      BY <3>2, <3>3
  <2>5. QED
    BY <2>1, <2>3, <2>4 DEF t
<1>5. CASE /\ q \in DelayQueues /\ t = Waiting(q)
           /\ \A p \in DelayQueues : ~Due(p)
  <2>1. /\ t \in Seq(Message) /\ DOMAIN t = DOMAIN s
        /\ \A i \in DOMAIN s :
             /\ t[i].key = s[i].key /\ t[i].body = s[i].body
             /\ t[i].waited = s[i].waited + 1
    BY <1>5, WaitingEffect
  <2>2. \A i \in DOMAIN t : Belongs(q, t[i])
    BY <1>1, <1>5, <2>1 DEF Belongs
  <2> HIDE DEF s, t
  <2>3. \A i, j \in DOMAIN t : i < j => t[j].waited <= t[i].waited
    BY <1>1, <1>5, <2>1
  <2>4. QED
    BY <2>1, <2>2, <2>3 DEF t
<1>6. QED
  BY <1>2, <1>3, <1>4, <1>5, EveryQueueMoves DEF QueueMoves

-----------------------------------------------------------------------------
(* The types.                                                              *)
LEMMA Fixed ==
    ASSUME [Next]_vars
    PROVE  unparsable' = unparsable
  BY DEF Next, vars, PublishCreated, Expire, Tick, Ack, Crash, Picked, Rejected,
         DatabaseFails, Log, NotParsed, Handles

LEMMA QueuesTyped ==
    ASSUME TypeOK, BelongInv, OrderInv, HeldInv, [Next]_vars
    PROVE  queue' \in [Queues -> Seq(Message)]
<1>1. \A m : Routed(queue, m) = [q \in Queues |-> Routed(queue, m)[q]]
  BY DEF Routed
<1>2. ASSUME NEW w \in Workers, Fails(w)
      PROVE  queue' = [q \in Queues |-> queue'[q]]
  BY <1>1, <1>2 DEF Fails
<1>3. queue' = [q \in Queues |-> queue'[q]]
  <2>1. CASE \E k \in Picks : PublishCreated(k)
    BY <1>1, <2>1 DEF PublishCreated
  <2>2. CASE \E q \in DelayQueues : Expire(q)
    BY <2>2 DEF Expire, Routed
  <2>3. CASE Tick
    BY <2>3 DEF Tick
  <2>4. CASE \E w \in Workers : Ack(w)
    BY <2>4 DEF Ack, TypeOK
  <2>5. CASE Picked
    BY <1>1, <2>5 DEF Picked
  <2>6. CASE Rejected \/ DatabaseFails \/ NotParsed
    BY <1>2, <2>6 DEF Rejected, DatabaseFails, NotParsed, Workers
  <2>7. CASE UNCHANGED vars \/ Log \/ \E w \in Workers : Crash(w)
    BY <2>7 DEF vars, Log, Crash, TypeOK
  <2>8. QED
    BY <2>1, <2>2, <2>3, <2>4, <2>5, <2>6, <2>7 DEF Next
<1>4. QED
  BY <1>3, QueueStep

LEMMA DeliveredBody ==
    ASSUME TypeOK, BelongInv, NEW w \in Workers, queue[Source[w]] # <<>>
    PROVE  Delivery(w).body \in Bodies /\ Delivery(w).body[1] \in Picks
  BY DeliveryTyped DEF Message, Bodies

LEMMA TypeStep ==
    ASSUME TypeOK, BelongInv, OrderInv, HeldInv, [Next]_vars
    PROVE  TypeOK'
<1>1. queue' \in [Queues -> Seq(Message)] /\ unparsable' = unparsable
  BY QueuesTyped, Fixed
<1>2. done' \in [Workers -> BOOLEAN]
  <2>1. \A w \in Workers, b \in BOOLEAN : [done EXCEPT ![w] = b] \in [Workers -> BOOLEAN]
    BY DEF TypeOK
  <2>2. \/ done' = done
        \/ \E w \in Workers, b \in BOOLEAN : done' = [done EXCEPT ![w] = b]
    BY DEF Next, vars, PublishCreated, Expire, Tick, Ack, Crash, Picked, Rejected,
           DatabaseFails, Log, NotParsed, Handles, Workers
  <2>3. QED
    BY <2>1, <2>2 DEF TypeOK
<1>3. sent' \subseteq Bodies
  <2>1. ASSUME NEW k \in Picks, PublishCreated(k) PROVE sent' \subseteq Bodies
    BY <2>1, EventTyped DEF PublishCreated, TypeOK, Lifecycle
  <2>2. ASSUME Picked PROVE sent' \subseteq Bodies
    <3>1. Delivery("inventory").body[1] \in Picks
      BY <2>2, DeliveredBody DEF Picked, Handles, Workers
    <3>2. QED
      BY <2>2, <3>1, EventTyped DEF Picked, TypeOK, Lifecycle
  <2>3. CASE sent' = sent
    BY <2>3 DEF TypeOK
  <2>4. QED
    BY <2>1, <2>2, <2>3 DEF Next, vars, Expire, Tick, Ack, Crash, Rejected,
                            DatabaseFails, Log, NotParsed
<1>4. logged' \in [Bodies -> Nat] /\ misnamed' \in BOOLEAN
  <2>1. ASSUME Log PROVE logged' \in [Bodies -> Nat] /\ misnamed' \in BOOLEAN
    <3>1. Delivery("audit").body \in Bodies
      BY <2>1, DeliveredBody DEF Log, Handles, Workers
    <3>2. logged' = [logged EXCEPT ![Delivery("audit").body] = @ + 1]
      BY <2>1 DEF Log
    <3>3. misnamed' \in BOOLEAN
      BY <2>1 DEF Log
    <3>4. QED
      BY <3>1, <3>2, <3>3 DEF TypeOK
  <2>2. CASE UNCHANGED <<logged, misnamed>>
    BY <2>2 DEF TypeOK
  <2>3. QED
    BY <2>1, <2>2 DEF Next, vars, PublishCreated, Expire, Tick, Ack, Crash, Picked,
                      Rejected, DatabaseFails, NotParsed
<1>5. faults' \in 0..MaxFaults
  <2>1. CASE faults' = faults
    BY <2>1 DEF TypeOK
  <2>2. CASE faults < MaxFaults /\ faults' = faults + 1
    BY <2>2, RoutingAssumption DEF TypeOK
  <2>3. QED
    BY <2>1, <2>2 DEF Next, vars, PublishCreated, Expire, Tick, Ack, Crash, Picked,
                      Rejected, DatabaseFails, Log, NotParsed, Fault
<1>6. QED
  BY <1>1, <1>2, <1>3, <1>4, <1>5 DEF TypeOK

LEMMA BelongStep ==
    ASSUME TypeOK, BelongInv, OrderInv, HeldInv, [Next]_vars
    PROVE  BelongInv' /\ OrderInv'
<1>1. unparsable' = unparsable
  BY Fixed
<1>2. BelongInv'
  BY <1>1, QueueStep DEF BelongInv, Belongs
<1>3. OrderInv'
  BY QueueStep DEF OrderInv, Queues
<1>4. QED
  BY <1>2, <1>3

-----------------------------------------------------------------------------
(* The workers' own queues: only its acknowledgement takes a delivery.     *)
LEMMA WorkQueueMoves ==
    ASSUME TypeOK, BelongInv, HeldInv, [Next]_vars, NEW w \in Workers
    PROVE  \/ Ack(w)
           \/ /\ done'[w] => queue[Source[w]] # <<>>
              /\ \/ queue'[Source[w]] = queue[Source[w]]
                 \/ \E m \in Message :
                      queue'[Source[w]] = Append(queue[Source[w]], m)
<1> DEFINE q == Source[w]
           Grows == \/ queue'[q] = queue[q]
                    \/ \E m \in Message : queue'[q] = Append(queue[q], m)
<1>1. q \in Queues /\ q \notin DelayQueues
  BY DEF Workers, Source, Queues, WorkQueues, DelayQueues
<1>2. ASSUME NEW m \in Message, queue' = Routed(queue, m) PROVE Grows
  BY <1>1, <1>2, RoutedEffect DEF TypeOK
<1>3. ASSUME NEW v \in Workers, Handles(v)
      PROVE  done'[w] => queue[q] # <<>>
  BY <1>3 DEF Handles, HeldInv, TypeOK
<1>4. ASSUME NEW v \in Workers, Handles(v), Fails(v) PROVE Grows
  <2>1. queue[Source[v]] # <<>>
    BY <1>4 DEF Handles
  <2>2. \E m \in Message : queue' = Routed(queue, m)
    BY <1>4, <2>1, FailsEffect
  <2>3. QED
    BY <1>2, <2>2
<1>5. CASE \E k \in Picks : PublishCreated(k)
  <2>1. Grows
    BY <1>2, <1>5, EventTyped DEF PublishCreated, Lifecycle
  <2>2. QED
    BY <1>5, <2>1 DEF PublishCreated, HeldInv
<1>6. CASE \E p \in DelayQueues : Expire(p)
  <2>1. Grows
    BY <1>1, <1>6, ExpireEffect
  <2>2. QED
    BY <1>6, <2>1 DEF Expire, HeldInv
<1>7. CASE Tick \/ Log \/ UNCHANGED vars
  <2>1. queue'[q] = queue[q]
    BY <1>1, <1>7 DEF Tick, Log, vars
  <2>2. done'[w] => queue[q] # <<>>
    BY <1>3, <1>7 DEF Tick, Log, vars, HeldInv, Workers
  <2>3. QED
    BY <2>1, <2>2
<1>8. CASE \E v \in Workers : Ack(v)
  <2>1. PICK v \in Workers : Ack(v)
    BY <1>8
  <2>2. CASE v # w
    <3>1. Source[v] # q
      BY <2>2 DEF Workers, Source
    <3>2. queue'[q] = queue[q] /\ done'[w] = done[w]
      BY <1>1, <2>1, <2>2, <3>1 DEF Ack, TypeOK
    <3>3. QED
      BY <3>2 DEF HeldInv
  <2>3. QED
    BY <2>1, <2>2
<1>9. CASE \E v \in Workers : Crash(v)
  <2>1. queue' = queue /\ (done'[w] => done[w])
    BY <1>9 DEF Crash, TypeOK
  <2>2. QED
    BY <2>1 DEF HeldInv
<1>10. CASE Picked
  <2>1. Handles("inventory") /\ "inventory" \in Workers
    BY <1>10 DEF Picked, Workers
  <2>2. Delivery("inventory").body[1] \in Picks
    BY <2>1, DeliveredBody DEF Handles
  <2>3. Grows
    BY <1>2, <1>10, <2>2, EventTyped DEF Picked, Lifecycle
  <2>4. QED
    BY <1>3, <2>1, <2>3
<1>11. CASE Rejected \/ DatabaseFails \/ NotParsed
  <2>1. \E v \in Workers : Handles(v) /\ Fails(v)
    BY <1>11 DEF Rejected, DatabaseFails, NotParsed, Workers
  <2>2. QED
    BY <1>3, <1>4, <2>1
<1>12. QED
  BY <1>5, <1>6, <1>7, <1>8, <1>9, <1>10, <1>11 DEF Next

LEMMA HeldStep ==
    ASSUME TypeOK, BelongInv, HeldInv, [Next]_vars
    PROVE  HeldInv'
<1> SUFFICES ASSUME NEW w \in Workers, done'[w] PROVE queue'[Source[w]] # <<>>
  BY DEF HeldInv
<1>1. queue[Source[w]] \in Seq(Message)
  BY SourceTyped DEF TypeOK
<1>2. ~Ack(w)
  BY DEF Ack, TypeOK
<1>3. QED
  BY <1>1, <1>2, WorkQueueMoves, AppendFacts

-----------------------------------------------------------------------------
(* The audit: where a body is found again after a step.                    *)
LEMMA NamesStep ==
    ASSUME TypeOK, BelongInv, LinesNameTheEvent, [Next]_vars
    PROVE  LinesNameTheEvent'
<1>1. ASSUME Log PROVE ~misnamed'
  <2> DEFINE m == Delivery("audit")
  <2>1. Belongs("picks.audit", m) /\ m.body[1] \notin unparsable
    BY <1>1, DeliveryTyped DEF Log, Handles, Workers, Source
  <2>2. m.key = m.body[2]
    BY <2>1 DEF Belongs
  <2>3. misnamed' = (misnamed \/ m.key # m.body[2])
    BY <1>1 DEF Log
  <2> HIDE DEF m
  <2>4. QED
    BY <2>2, <2>3 DEF LinesNameTheEvent
<1>2. CASE misnamed' = misnamed
  BY <1>2 DEF LinesNameTheEvent
<1>3. QED
  BY <1>1, <1>2 DEF Next, vars, LinesNameTheEvent, PublishCreated, Expire, Tick, Ack,
                    Crash, Picked, Rejected, DatabaseFails, NotParsed

LEMMA BehindAppend ==
    ASSUME NEW s \in Seq(Message), NEW m \in Message, NEW n \in Nat, NEW b
    PROVE  /\ Behind(n, s, b) => Behind(n, Append(s, m), b)
           /\ m.body = b /\ n <= Len(s) => Behind(n, Append(s, m), b)
<1>1. /\ Len(s) \in Nat /\ DOMAIN s = 1..Len(s)
      /\ DOMAIN Append(s, m) = 1..(Len(s) + 1)
      /\ \A i \in DOMAIN s : Append(s, m)[i] = s[i]
      /\ Append(s, m)[Len(s) + 1] = m
  BY AppendFacts
<1>2. ASSUME Behind(n, s, b) PROVE Behind(n, Append(s, m), b)
  <2>1. PICK i \in DOMAIN s : i > n /\ s[i].body = b
    BY <1>2 DEF Behind
  <2>2. i \in DOMAIN Append(s, m)
    BY <1>1
  <2>3. QED
    BY <1>1, <2>1, <2>2 DEF Behind
<1>3. ASSUME m.body = b, n <= Len(s) PROVE Behind(n, Append(s, m), b)
  <2>1. Len(s) + 1 \in DOMAIN Append(s, m) /\ Len(s) + 1 > n
    BY <1>1, <1>3
  <2>2. QED
    BY <1>1, <1>3, <2>1 DEF Behind
<1>4. QED
  BY <1>2, <1>3

LEMMA BehindTail ==
    ASSUME NEW s \in Seq(Message), s # <<>>, NEW b
    PROVE  /\ Behind(1, s, b) => Behind(0, Tail(s), b)
           /\ Behind(0, s, b) => Head(s).body = b \/ Behind(1, s, b)
<1>1. /\ Len(s) \in Nat \ {0} /\ DOMAIN s = 1..Len(s) /\ Head(s) = s[1]
      /\ DOMAIN Tail(s) = 1..(Len(s) - 1)
      /\ \A i \in DOMAIN Tail(s) : Tail(s)[i] = s[i + 1]
  BY TailFacts
<1>2. ASSUME Behind(1, s, b) PROVE Behind(0, Tail(s), b)
  <2>1. PICK i \in DOMAIN s : i > 1 /\ s[i].body = b
    BY <1>2 DEF Behind
  <2>2. i - 1 \in DOMAIN Tail(s) /\ i - 1 > 0 /\ (i - 1) + 1 = i
    BY <1>1, <2>1
  <2>3. Tail(s)[i - 1].body = b
    BY <1>1, <2>1, <2>2
  <2>4. QED
    BY <2>2, <2>3 DEF Behind
<1>3. ASSUME Behind(0, s, b) PROVE Head(s).body = b \/ Behind(1, s, b)
  BY <1>1, <1>3 DEF Behind
<1>4. QED
  BY <1>2, <1>3

LEMMA BehindWeaker ==
    ASSUME NEW s, NEW b, NEW n \in {0, 1}, Behind(1, s, b), DOMAIN s \subseteq Nat
    PROVE  Behind(n, s, b)
  BY DEF Behind

(* What was behind the audit worker's delivery, and what it was at, is     *)
(* still to be found unless the step logs it.                              *)
AuditQueues == {"picks.audit", "picks.audit.retry", "picks.audit.dlq"}

LEMMA AuditedStays ==
    ASSUME TypeOK, NEW b, Audited(b),
           logged'[b] >= logged[b], logged[b] \in Nat, logged'[b] \in Nat,
           done'["audit"] => done["audit"],
           \A q \in AuditQueues :
             \/ queue'[q] = queue[q]
             \/ \E m \in Message : queue'[q] = Append(queue[q], m)
    PROVE  Audited(b)'
<1>1. \A q \in AuditQueues : queue[q] \in Seq(Message)
  BY DEF TypeOK, AuditQueues, Queues, DelayQueues, DeadLetters, WorkQueues
<1>2. \A q \in AuditQueues : DOMAIN queue[q] \subseteq Nat
  BY <1>1, LenProperties
<1>3. ASSUME NEW q \in AuditQueues, NEW n \in {0, 1}, Behind(n, queue[q], b)
      PROVE  Behind(n, queue'[q], b)
  BY <1>1, <1>3, BehindAppend
<1>4. Handled \in {0, 1} /\ Handled' \in {Handled, 0}
  BY DEF Handled
<1>5. ASSUME Behind(Handled, queue["picks.audit"], b)
      PROVE  Behind(Handled', queue'["picks.audit"], b)
  <2>1. "picks.audit" \in AuditQueues
    BY DEF AuditQueues
  <2>2. Behind(Handled', queue["picks.audit"], b)
    BY <1>2, <1>4, <1>5, <2>1, BehindWeaker
  <2>3. QED
    BY <1>3, <1>4, <2>1, <2>2
<1>6. CASE logged[b] > 0
  BY <1>6 DEF Audited
<1>7. QED
  BY <1>3, <1>5, <1>6 DEF Audited, AuditQueues

LEMMA AuditStep ==
    ASSUME TypeOK, BelongInv, OrderInv, HeldInv, AuditInv, [Next]_vars
    PROVE  AuditInv'
<1> DEFINE A == queue["picks.audit"]
           R == queue["picks.audit.retry"]
           D == queue["picks.audit.dlq"]
<1>1. /\ A \in Seq(Message) /\ R \in Seq(Message) /\ D \in Seq(Message)
      /\ AuditQueues \subseteq Queues
  BY DEF TypeOK, AuditQueues, Queues, DelayQueues, DeadLetters, WorkQueues
<1>2. Handled \in {0, 1} /\ Handled \in Nat /\ Handled <= Len(A)
  <2>1. done["audit"] => A # <<>>
    BY DEF HeldInv, Workers, Source
  <2>2. Len(A) \in Nat /\ (A # <<>> => Len(A) >= 1)
    BY <1>1, EmptySeq, LenProperties
  <2>3. QED
    BY <2>1, <2>2 DEF Handled
<1>3. \A b \in sent : Audited(b) /\ b \in Bodies /\ logged[b] \in Nat
  BY DEF AuditInv, TypeOK
<1>4. ASSUME NEW m \in Message, queue' = Routed(queue, m), NEW q \in AuditQueues
      PROVE  queue'[q] = queue[q] \/ queue'[q] = Append(queue[q], m)
  BY <1>1, <1>4, RoutedEffect DEF TypeOK
<1>5. ASSUME logged' = logged, done'["audit"] => done["audit"], NEW b \in sent,
             \A q \in AuditQueues :
               \/ queue'[q] = queue[q]
               \/ \E m \in Message : queue'[q] = Append(queue[q], m)
      PROVE  Audited(b)'
  BY <1>3, <1>5, AuditedStays
<1>6. ASSUME NEW k \in Picks, NEW key \in Lifecycle,
             queue' = Routed(queue, Event(k, key)), sent' = sent \cup {<<k, key>>},
             logged' = logged, done'["audit"] = done["audit"]
      PROVE  AuditInv'
  <2> DEFINE m == Event(k, key)
  <2>1. m \in Message /\ m.key = key /\ m.body = <<k, key>>
    BY EventTyped
  <2>2. \A b \in sent : Audited(b)'
    BY <1>4, <1>5, <1>6, <2>1
  <2>3. queue'["picks.audit"] = Append(A, m)
    <3>1. "picks.audit" \in Queues
      BY <1>1 DEF AuditQueues
    <3>2. key \in BindingKeys("picks.audit")
      BY <3>1, Destinations DEF Lifecycle
    <3>3. QED
      BY <1>6, <2>1, <3>1, <3>2, RoutedEffect DEF TypeOK
  <2>4. Behind(Handled, Append(A, m), <<k, key>>)
    BY <1>1, <1>2, <2>1, BehindAppend
  <2>5. Handled' = Handled
    BY <1>6 DEF Handled
  <2>6. \A b : b = <<k, key>> => Audited(b)'
    BY <2>3, <2>4, <2>5 DEF Audited
  <2>7. QED
    BY <1>6, <2>2, <2>6 DEF AuditInv
<1>7. CASE \E k \in Picks : PublishCreated(k)
  BY <1>6, <1>7 DEF PublishCreated, Lifecycle
<1>8. CASE Picked
  <2>1. Delivery("inventory").body[1] \in Picks
    BY <1>8, DeliveredBody DEF Picked, Handles, Workers
  <2>2. done'["audit"] = done["audit"]
    BY <1>8 DEF Picked, Handles, TypeOK, Workers
  <2>3. \E k \in Picks, key \in Lifecycle :
          queue' = Routed(queue, Event(k, key)) /\ sent' = sent \cup {<<k, key>>}
    BY <1>8, <2>1 DEF Picked, Lifecycle
  <2>4. QED
    BY <1>6, <1>8, <2>2, <2>3 DEF Picked
<1>9. CASE Rejected \/ DatabaseFails
  <2>1. /\ Handles("inventory") /\ Fails("inventory") /\ "inventory" \in Workers
        /\ logged' = logged /\ sent' = sent
    BY <1>9 DEF Rejected, DatabaseFails, Workers
  <2>2. \E m \in Message : queue' = Routed(queue, m)
    BY <2>1, FailsEffect DEF Handles
  <2>3. done'["audit"] = done["audit"]
    BY <2>1 DEF Handles, TypeOK
  <2>4. \A b \in sent : Audited(b)'
    BY <1>4, <1>5, <2>1, <2>2, <2>3
  <2>5. QED
    BY <2>1, <2>4 DEF AuditInv
<1>10. CASE \E p \in DelayQueues : Expire(p)
  <2>1. PICK p \in DelayQueues : Expire(p)
    BY <1>10
  <2>2. UNCHANGED <<logged, sent, done>>
    BY <2>1 DEF Expire
  <2>3. PICK m \in Message :
          /\ p \in Queues /\ queue[p] # <<>>
          /\ m.body = Head(queue[p]).body /\ m.key = DeadLetterKey(p)
          /\ queue'[p] = Tail(queue[p])
          /\ \A q \in Queues \ {p} :
               /\ m.key \in BindingKeys(q) => queue'[q] = Append(queue[q], m)
               /\ m.key \notin BindingKeys(q) => queue'[q] = queue[q]
    BY <2>1, ExpireEffect
  <2>4. CASE p = "picks.inventory.retry"
    <3>1. \A q \in AuditQueues :
            queue'[q] = queue[q] \/ queue'[q] = Append(queue[q], m)
      BY <1>1, <2>3, <2>4 DEF AuditQueues
    <3>2. \A b \in sent : Audited(b)'
      BY <1>5, <2>2, <3>1
    <3>3. QED
      BY <2>2, <3>2 DEF AuditInv
  <2>5. CASE p = "picks.audit.retry"
    <3>1. /\ queue'["picks.audit"] = Append(A, m) /\ queue'["picks.audit.dlq"] = D
          /\ queue'["picks.audit.retry"] = Tail(R) /\ R # <<>> /\ m.body = Head(R).body
      BY <1>1, <2>3, <2>5, Destinations DEF AuditQueues, DeadLetterKey
    <3>2. Handled' = Handled
      BY <2>2 DEF Handled
    <3>3. ASSUME NEW b \in sent PROVE Audited(b)'
      <4>1. CASE logged[b] > 0
        BY <2>2, <4>1 DEF Audited
      <4>2. CASE Behind(0, D, b)
        BY <3>1, <4>2 DEF Audited
      <4>3. CASE Behind(Handled, A, b) \/ m.body = b
        <5>1. Behind(Handled, Append(A, m), b)
          BY <1>1, <1>2, <4>3, BehindAppend
        <5>2. QED
          BY <3>1, <3>2, <5>1 DEF Audited
      <4>4. CASE Behind(0, R, b) /\ m.body # b
        <5>1. Behind(0, Tail(R), b)
          BY <1>1, <3>1, <4>4, BehindTail
        <5>2. QED
          BY <3>1, <5>1 DEF Audited
      <4>5. QED
        BY <1>3, <4>1, <4>2, <4>3, <4>4 DEF Audited
    <3>4. QED
      BY <2>2, <3>3 DEF AuditInv
  <2>6. QED
    BY <2>4, <2>5 DEF DelayQueues
<1>11. CASE Tick
  <2>1. /\ queue'["picks.audit"] = A /\ queue'["picks.audit.dlq"] = D
        /\ queue'["picks.audit.retry"] = Waiting("picks.audit.retry")
        /\ UNCHANGED <<logged, sent, done>>
    BY <1>1, <1>11 DEF Tick, AuditQueues, DelayQueues
  <2>2. /\ DOMAIN Waiting("picks.audit.retry") = DOMAIN R
        /\ \A i \in DOMAIN R : Waiting("picks.audit.retry")[i].body = R[i].body
    BY <1>11, WaitingEffect DEF Tick, DelayQueues
  <2>3. \A b : Behind(0, R, b) => Behind(0, Waiting("picks.audit.retry"), b)
    BY <2>2 DEF Behind
  <2>4. Handled' = Handled
    BY <2>1 DEF Handled
  <2>5. \A b \in sent : Audited(b)'
    BY <1>3, <2>1, <2>3, <2>4 DEF Audited
  <2>6. QED
    BY <2>1, <2>5 DEF AuditInv
<1>12. CASE \E w \in Workers : Ack(w)
  <2>1. PICK w \in Workers : Ack(w)
    BY <1>12
  <2>2. UNCHANGED <<logged, sent>> /\ done[w]
        /\ queue' = [queue EXCEPT ![Source[w]] = Tail(@)]
        /\ done' = [done EXCEPT ![w] = FALSE]
    BY <2>1 DEF Ack
  <2>3. CASE w = "inventory"
    <3>1. \A q \in AuditQueues : queue'[q] = queue[q]
      BY <1>1, <2>2, <2>3 DEF AuditQueues, Source, TypeOK
    <3>2. done'["audit"] => done["audit"]
      BY <2>2, <2>3 DEF TypeOK, Workers
    <3>3. \A b \in sent : Audited(b)'
      BY <1>5, <2>2, <3>1, <3>2
    <3>4. QED
      BY <2>2, <3>3 DEF AuditInv
  <2>4. CASE w = "audit"
    <3>1. /\ queue'["picks.audit"] = Tail(A) /\ queue'["picks.audit.dlq"] = D
          /\ queue'["picks.audit.retry"] = R
      BY <1>1, <2>2, <2>4 DEF AuditQueues, Source, TypeOK
    <3>2. Handled = 1 /\ Handled' = 0 /\ A # <<>>
      BY <2>2, <2>4 DEF Handled, TypeOK, Workers, HeldInv, Source
    <3>3. \A b : Behind(Handled, A, b) => Behind(Handled', Tail(A), b)
      BY <1>1, <3>2, BehindTail
    <3>4. \A b \in sent : Audited(b)'
      BY <1>3, <2>2, <3>1, <3>3 DEF Audited
    <3>5. QED
      BY <2>2, <3>4 DEF AuditInv
  <2>5. QED
    BY <2>3, <2>4 DEF Workers
<1>13. CASE \E w \in Workers : Crash(w)
  <2>1. UNCHANGED <<queue, logged, sent>> /\ (done'["audit"] => done["audit"])
    BY <1>13 DEF Crash, TypeOK, Workers
  <2>2. \A b \in sent : Audited(b)'
    BY <1>5, <2>1
  <2>3. QED
    BY <2>1, <2>2 DEF AuditInv
<1>14. ASSUME Handles("audit"), sent' = sent
       PROVE  /\ Handled = 0 /\ Handled' = 1 /\ A # <<>>
              /\ Delivery("audit") = Head(A)
              /\ \A b : Behind(Handled, A, b) => Delivery("audit").body = b \/ Behind(1, A, b)
  <2>1. Handled = 0 /\ Handled' = 1 /\ A # <<>> /\ Delivery("audit") = Head(A)
    BY <1>14 DEF Handles, Handled, TypeOK, Workers, Source, Delivery
  <2>2. QED
    BY <1>1, <2>1, BehindTail
<1>15. CASE Log
  <2>1. Handles("audit") /\ UNCHANGED <<queue, sent>>
    BY <1>15 DEF Log
  <2>2. Delivery("audit").body \in Bodies
    BY <2>1, DeliveredBody DEF Handles, Workers
  <2>3. logged' = [logged EXCEPT ![Delivery("audit").body] = @ + 1]
    BY <1>15 DEF Log
  <2>4. \A b \in Bodies : /\ logged'[b] \in Nat /\ logged'[b] >= logged[b]
                          /\ b = Delivery("audit").body => logged'[b] > 0
    BY <2>2, <2>3 DEF TypeOK
  <2>5. ASSUME NEW b \in sent PROVE Audited(b)'
    <3>1. CASE logged[b] > 0
      BY <1>3, <2>4, <3>1 DEF Audited, TypeOK
    <3>2. CASE Behind(0, R, b) \/ Behind(0, D, b)
      BY <2>1, <3>2 DEF Audited
    <3>3. CASE Behind(Handled, A, b)
      <4>1. Delivery("audit").body = b \/ Behind(1, A, b)
        BY <1>14, <2>1, <3>3
      <4>2. Handled' = 1
        BY <1>14, <2>1
      <4>3. CASE Delivery("audit").body = b
        BY <1>3, <2>4, <4>3 DEF Audited
      <4>4. CASE Behind(1, A, b)
        BY <2>1, <4>2, <4>4 DEF Audited
      <4>5. QED
        BY <4>1, <4>3, <4>4
    <3>4. QED
      BY <1>3, <3>1, <3>2, <3>3 DEF Audited
  <2>6. QED
    BY <2>1, <2>5 DEF AuditInv
<1>16. CASE NotParsed
  <2>1. Handles("audit") /\ Fails("audit") /\ UNCHANGED <<sent, logged>>
    BY <1>16 DEF NotParsed
  <2>2. PICK m \in Message :
          /\ queue' = Routed(queue, m) /\ m.body = Delivery("audit").body
          /\ m.key = RetryKey["audit"] \/ m.key = DeadKey["audit"]
    BY <2>1, FailsEffect DEF Handles, Workers
  <2>3. /\ queue'["picks.audit"] = A
        /\ \/ queue'["picks.audit.retry"] = Append(R, m) /\ queue'["picks.audit.dlq"] = D
           \/ queue'["picks.audit.retry"] = R /\ queue'["picks.audit.dlq"] = Append(D, m)
    <3>1. m.key = "pick.audit.retry" \/ m.key = "pick.audit.dead"
      BY <2>2 DEF RetryKey, DeadKey
    <3>2. \A q \in AuditQueues :
            /\ m.key \in BindingKeys(q) => queue'[q] = Append(queue[q], m)
            /\ m.key \notin BindingKeys(q) => queue'[q] = queue[q]
      BY <1>1, <2>2, RoutedEffect DEF TypeOK
    <3>3. \A q \in AuditQueues :
            m.key \in BindingKeys(q) <=>
              \/ m.key = "pick.audit.retry" /\ q = "picks.audit.retry"
              \/ m.key = "pick.audit.dead" /\ q = "picks.audit.dlq"
      BY <1>1, <3>1, Destinations
    <3>4. QED
      BY <3>1, <3>2, <3>3 DEF AuditQueues
  <2>4. \A b : /\ Behind(0, R, b) => Behind(0, Append(R, m), b)
               /\ Behind(0, D, b) => Behind(0, Append(D, m), b)
               /\ m.body = b => Behind(0, Append(R, m), b) /\ Behind(0, Append(D, m), b)
    BY <1>1, BehindAppend, LenProperties
  <2>5. \A b : Behind(Handled, A, b) => m.body = b \/ Behind(Handled', A, b)
    BY <1>14, <2>1, <2>2
  <2>6. \A b \in sent : Audited(b)'
    BY <1>3, <2>1, <2>3, <2>4, <2>5 DEF Audited
  <2>7. QED
    BY <2>1, <2>6 DEF AuditInv
<1>17. CASE UNCHANGED vars
  BY <1>17 DEF vars, AuditInv, Audited, Handled
<1>18. QED
  BY <1>7, <1>8, <1>9, <1>10, <1>11, <1>12, <1>13, <1>15, <1>16, <1>17 DEF Next

-----------------------------------------------------------------------------
LEMMA InvInit == Init => Inv
<1> SUFFICES ASSUME Init PROVE Inv
  OBVIOUS
<1>1. TypeOK
  <2>1. queue \in [Queues -> Seq(Message)]
    BY EmptySeq DEF Init
  <2>2. done \in [Workers -> BOOLEAN] /\ logged \in [Bodies -> Nat]
    BY DEF Init
  <2>3. /\ unparsable \subseteq Malformed /\ sent \subseteq Bodies
        /\ misnamed \in BOOLEAN
    BY DEF Init
  <2>4. faults \in 0..MaxFaults
    BY RoutingAssumption DEF Init
  <2>5. QED
    BY <2>1, <2>2, <2>3, <2>4 DEF TypeOK
<1>2. \A q \in Queues : DOMAIN queue[q] = {}
  BY DEF Init
<1>3. BelongInv /\ OrderInv
  BY <1>2 DEF BelongInv, OrderInv, Queues
<1>4. HeldInv /\ AuditInv /\ LinesNameTheEvent
  BY DEF Init, HeldInv, AuditInv, LinesNameTheEvent
<1>5. QED
  BY <1>1, <1>3, <1>4 DEF Inv

LEMMA InvHolds == Spec => []Inv
<1>1. Inv /\ [Next]_vars => Inv'
  BY TypeStep, BelongStep, HeldStep, AuditStep, NamesStep DEF Inv
<1>2. QED
  BY InvInit, <1>1, PTL DEF Spec

-----------------------------------------------------------------------------
(* What every event, copy and retry may still lead to is an account: a     *)
(* message in a queue is worth w[q][<<body, retries>>] units, a delivery   *)
(* its worker is done with none, a line of the log about b is worth l.     *)
Shares == [Bodies \X (0..MaxRetries) -> 0..(MaxRetries + 1)]

Share(f, m) == f[<<m.body, m.retries>>]

Units(s, n, f) ==
    {p \in (DOMAIN s) \X (0..MaxRetries) : p[1] > n /\ p[2] < Share(f, s[p[1]])}

Weight(s, n, f) == Cardinality(Units(s, n, f))

Skipped(q) ==
    IF (q = "picks.audit" /\ done["audit"]) \/ (q = "picks.inventory" /\ done["inventory"])
      THEN 1 ELSE 0

Worth(w, q) == Weight(queue[q], Skipped(q), w[q])

Balance(w, l, b) ==
    Worth(w, "picks.inventory") + Worth(w, "picks.inventory.retry")
      + Worth(w, "picks.inventory.dlq") + Worth(w, "picks.audit")
      + Worth(w, "picks.audit.retry") + Worth(w, "picks.audit.dlq")
      + (IF l = 1 THEN logged[b] ELSE 0)

(* The account of pick k is credited c units when k is published and for   *)
(* every fault.                                                            *)
Published(k) == IF <<k, "pick.created">> \in sent THEN 1 ELSE 0

Covered(w, c, k, l, b) == Balance(w, l, b) <= c * (Published(k) + faults)

(* Which shares no step can overdraw.                                      *)
Created(k) == <<k, "pick.created">>

Sound(w, c, k, l, b) ==
    /\ \A j \in Picks :
         w["picks.inventory"][<<Created(j), 0>>] + w["picks.audit"][<<Created(j), 0>>]
           <= IF j = k THEN c ELSE 0
    /\ \A j \in Picks \ Malformed, r \in 0..MaxRetries,
          key \in {"pick.completed", "pick.failed"} :
         w["picks.audit"][<<<<j, key>>, 0>>] <= w["picks.inventory"][<<Created(j), r>>]
    /\ \A j \in Picks, r \in 0..MaxRetries :
         LET price == w["picks.inventory"][<<Created(j), r>>]
                        + (IF j \in Malformed THEN 0 ELSE c)
         IN  /\ r < MaxRetries => w["picks.inventory.retry"][<<Created(j), r + 1>>] <= price
             /\ w["picks.inventory.dlq"][<<Created(j), r>>] <= price
    /\ \A j \in Picks, r \in 0..MaxRetries :
         w["picks.inventory"][<<Created(j), r>>] + w["picks.audit"][<<Created(j), r>>]
           <= w["picks.inventory.retry"][<<Created(j), r>>]
    /\ \A x \in Bodies, r \in 0..MaxRetries :
         /\ w["picks.audit"][<<x, r>>] <= w["picks.audit.retry"][<<x, r>>]
         /\ x = b /\ l = 1 => 1 <= w["picks.audit"][<<x, r>>]
         /\ x[1] \in Malformed =>
              /\ r < MaxRetries =>
                   w["picks.audit.retry"][<<x, r + 1>>] <= w["picks.audit"][<<x, r>>]
              /\ w["picks.audit.dlq"][<<x, r>>] <= w["picks.audit"][<<x, r>>]
         /\ w["picks.audit"][<<x, r>>] <= c
         /\ w["picks.inventory"][<<x, r>>] <= c

(* The lines of the log about the event b of a pick that is one: what may  *)
(* still be logged is in the audit queue, or waits to be attempted again.  *)
None == [x \in Bodies \X (0..MaxRetries) |-> 0]
OfPick(k) == [x \in Bodies \X (0..MaxRetries) |-> IF x[1][1] = k THEN 1 ELSE 0]
OfBody(b) == [x \in Bodies \X (0..MaxRetries) |-> IF x[1] = b THEN 1 ELSE 0]

LineShares(b) ==
    [q \in Queues |->
       CASE q = "picks.inventory" ->
              IF b[2] = "pick.created" THEN None ELSE OfPick(b[1])
         [] q = "picks.inventory.retry" -> OfPick(b[1])
         [] q \in {"picks.audit", "picks.audit.retry"} -> OfBody(b)
         [] OTHER -> None]

(* The dead letters of the inventory worker.                               *)
DeadShares(k) ==
    [q \in Queues |->
       IF q \in {"picks.inventory", "picks.inventory.retry", "picks.inventory.dlq"}
         THEN OfPick(k) ELSE None]

(* The audit of what always fails: every attempt the inventory worker has  *)
(* left is one more copy for the audit queue.                              *)
AttemptsLeft(k, more) ==
    [x \in Bodies \X (0..MaxRetries) |->
       IF x[1][1] = k THEN more + MaxRetries - x[2] ELSE 0]

AuditShares(k) ==
    [q \in Queues |->
       CASE q = "picks.inventory" -> AttemptsLeft(k, 0)
         [] q = "picks.inventory.retry" -> AttemptsLeft(k, 1)
         [] q = "picks.inventory.dlq" -> None
         [] OTHER -> OfPick(k)]

AccountInv ==
    /\ \A k \in Picks \ Malformed, key \in Lifecycle :
         Covered(LineShares(<<k, key>>), 1, k, 1, <<k, key>>)
    /\ \A k \in Malformed :
         /\ Covered(DeadShares(k), 1, k, 0, Created(k))
         /\ Covered(AuditShares(k), 1 + MaxRetries, k, 1, Created(k))

-----------------------------------------------------------------------------
(* Weights of sequences, at their ends.                                    *)
LEMMA ShareTyped ==
    ASSUME NEW f \in Shares, NEW m \in Message
    PROVE  /\ Share(f, m) \in 0..(MaxRetries + 1) /\ Share(f, m) \in Nat
           /\ MaxRetries \in Nat
<1>1. <<m.body, m.retries>> \in Bodies \X (0..MaxRetries)
  BY DEF Message
<1>2. QED
  BY <1>1, RoutingAssumption DEF Shares, Share

(* The units of the message at place i.                                    *)
Slab(i, v) == {i} \X {j \in 0..MaxRetries : j < v}

LEMMA SlabWeight ==
    ASSUME NEW i, NEW v \in 0..(MaxRetries + 1)
    PROVE  IsFiniteSet(Slab(i, v)) /\ Cardinality(Slab(i, v)) = v
<1>1. MaxRetries \in Nat
  BY RoutingAssumption
<1>2. {j \in 0..MaxRetries : j < v} = 0..(v - 1)
  BY <1>1
<1>3. IsFiniteSet(0..(v - 1)) /\ Cardinality(0..(v - 1)) = v
  BY <1>1, FS_Interval
<1>4. IsFiniteSet({i}) /\ Cardinality({i}) = 1
  BY FS_Singleton
<1>5. QED
  BY <1>1, <1>2, <1>3, <1>4, FS_Product DEF Slab

LEMMA WeightTyped ==
    ASSUME NEW s \in Seq(Message), NEW n \in {0, 1}, NEW f \in Shares
    PROVE  IsFiniteSet(Units(s, n, f)) /\ Weight(s, n, f) \in Nat
<1>1. DOMAIN s = 1..Len(s) /\ Len(s) \in Nat /\ MaxRetries \in Nat
  BY LenProperties, RoutingAssumption
<1>2. IsFiniteSet((1..Len(s)) \X (0..MaxRetries))
  <2>1. IsFiniteSet(1..Len(s)) /\ IsFiniteSet(0..MaxRetries)
    BY <1>1, FS_Interval
  <2>2. QED
    BY <2>1, FS_Product
<1>3. Units(s, n, f) \subseteq (1..Len(s)) \X (0..MaxRetries)
  BY <1>1 DEF Units
<1>4. QED
  BY <1>2, <1>3, FS_Subset, FS_CardinalityType DEF Weight

LEMMA WeightAppend ==
    ASSUME NEW s \in Seq(Message), NEW m \in Message, NEW n \in {0, 1}, n <= Len(s),
           NEW f \in Shares
    PROVE  Weight(Append(s, m), n, f) = Weight(s, n, f) + Share(f, m)
<1> DEFINE t == Append(s, m)
           e == Len(s) + 1
           v == Share(f, m)
<1>1. /\ Len(s) \in Nat /\ DOMAIN s = 1..Len(s) /\ DOMAIN t = 1..e
      /\ \A i \in DOMAIN s : t[i] = s[i]
      /\ t[e] = m
  BY AppendFacts
<1>2. v \in 0..(MaxRetries + 1)
  BY ShareTyped
<1> HIDE DEF t, v
<1>3. Units(t, n, f) = Units(s, n, f) \cup Slab(e, v)
  <2>1. ASSUME NEW p PROVE p \in Units(t, n, f) <=> p \in Units(s, n, f) \cup Slab(e, v)
    <3>1. CASE p \in (DOMAIN s) \X (0..MaxRetries)
      <4>1. t[p[1]] = s[p[1]] /\ p[1] \in DOMAIN t /\ p[1] # e
        BY <1>1, <3>1
      <4>2. QED
        BY <3>1, <4>1 DEF Units, Slab
    <3>2. CASE p \in {e} \X (0..MaxRetries)
      <4>1. p[1] = e /\ p[1] \in DOMAIN t /\ p[1] \notin DOMAIN s /\ p[1] > n
        BY <1>1, <3>2
      <4>2. Share(f, t[p[1]]) = v
        BY <1>1, <4>1 DEF v
      <4>3. p \in Slab(e, v) <=> p[2] < v
        BY <3>2 DEF Slab
      <4>4. p \in Units(t, n, f) <=> p[2] < v
        BY <1>1, <3>2, <4>1, <4>2 DEF Units
      <4>5. p \notin Units(s, n, f)
        BY <4>1 DEF Units
      <4>6. QED
        BY <4>3, <4>4, <4>5
    <3>3. CASE p \notin (DOMAIN t) \X (0..MaxRetries)
      BY <1>1, <3>3 DEF Units, Slab
    <3>4. QED
      BY <1>1, <3>1, <3>2, <3>3
  <2>2. QED
    BY <2>1
<1>4. Units(s, n, f) \cap Slab(e, v) = {}
  BY <1>1 DEF Units, Slab
<1>5. /\ IsFiniteSet(Units(s, n, f)) /\ IsFiniteSet(Slab(e, v))
      /\ Cardinality(Slab(e, v)) = v /\ Cardinality(Units(s, n, f)) \in Nat
  BY <1>2, WeightTyped, SlabWeight DEF Weight
<1>6. Cardinality(Units(s, n, f) \cup Slab(e, v))
        = Cardinality(Units(s, n, f)) + Cardinality(Slab(e, v))
            - Cardinality(Units(s, n, f) \cap Slab(e, v))
  BY <1>5, FS_Union
<1>7. Cardinality(Units(s, n, f) \cap Slab(e, v)) = 0
  BY <1>4, FS_EmptySet
<1>8. QED
  BY <1>2, <1>3, <1>5, <1>6, <1>7 DEF Weight, t, v

LEMMA WeightHead ==
    ASSUME NEW s \in Seq(Message), s # <<>>, NEW f \in Shares
    PROVE  Weight(s, 0, f) = Weight(s, 1, f) + Share(f, Head(s))
<1> DEFINE v == Share(f, Head(s))
<1>1. /\ Len(s) \in Nat \ {0} /\ DOMAIN s = 1..Len(s) /\ 1 \in DOMAIN s
      /\ s[1] = Head(s) /\ Head(s) \in Message
  BY TailFacts
<1>2. v \in 0..(MaxRetries + 1)
  BY <1>1, ShareTyped
<1>3. v = Share(f, s[1])
  BY <1>1
<1> HIDE DEF v
<1>4. Units(s, 0, f) = Units(s, 1, f) \cup Slab(1, v)
  <2>1. ASSUME NEW p \in (DOMAIN s) \X (0..MaxRetries)
        PROVE  p \in Units(s, 0, f) <=> p \in Units(s, 1, f) \cup Slab(1, v)
    <3>1. CASE p[1] = 1
      BY <1>1, <1>3, <2>1, <3>1 DEF Units, Slab
    <3>2. CASE p[1] # 1
      BY <1>1, <1>3, <2>1, <3>2 DEF Units, Slab
    <3>3. QED
      BY <3>1, <3>2
  <2>2. Units(s, 0, f) \subseteq (DOMAIN s) \X (0..MaxRetries)
    BY DEF Units
  <2>3. Units(s, 1, f) \cup Slab(1, v) \subseteq (DOMAIN s) \X (0..MaxRetries)
    BY <1>1 DEF Units, Slab
  <2>4. QED
    BY <2>1, <2>2, <2>3
<1>5. Units(s, 1, f) \cap Slab(1, v) = {}
  BY <1>1 DEF Units, Slab
<1>6. /\ IsFiniteSet(Units(s, 1, f)) /\ IsFiniteSet(Slab(1, v))
      /\ Cardinality(Slab(1, v)) = v /\ Cardinality(Units(s, 1, f)) \in Nat
  BY <1>2, WeightTyped, SlabWeight DEF Weight
<1>7. Cardinality(Units(s, 1, f) \cup Slab(1, v))
        = Cardinality(Units(s, 1, f)) + Cardinality(Slab(1, v))
            - Cardinality(Units(s, 1, f) \cap Slab(1, v))
  BY <1>6, FS_Union
<1>8. Cardinality(Units(s, 1, f) \cap Slab(1, v)) = 0
  BY <1>5, FS_EmptySet
<1>9. Weight(s, 0, f) = Weight(s, 1, f) + v
  <2>1. Cardinality(Units(s, 0, f))
          = Cardinality(Units(s, 1, f)) + Cardinality(Slab(1, v)) - 0
    BY <1>4, <1>7, <1>8
  <2>2. Cardinality(Slab(1, v)) = v /\ v \in Nat
    BY <1>2, <1>6, RoutingAssumption
  <2>3. QED
    BY <1>6, <2>1, <2>2 DEF Weight
<1>10. QED
  BY <1>9 DEF v

LEMMA WeightTail ==
    ASSUME NEW s \in Seq(Message), s # <<>>, NEW f \in Shares
    PROVE  Weight(Tail(s), 0, f) = Weight(s, 1, f)
<1> DEFINE t == Tail(s)
           T == Units(t, 0, f)
           S == Units(s, 1, f)
           g == [p \in T |-> <<p[1] + 1, p[2]>>]
<1>1. /\ Len(s) \in Nat \ {0} /\ DOMAIN s = 1..Len(s) /\ t \in Seq(Message)
      /\ DOMAIN t = 1..(Len(s) - 1)
      /\ \A i \in DOMAIN t : t[i] = s[i + 1]
  BY TailFacts
<1>2. IsFiniteSet(T)
  BY <1>1, WeightTyped
<1> HIDE DEF t
<1>3. ASSUME NEW p \in T
      PROVE  /\ p[1] \in Nat /\ p[2] \in 0..MaxRetries /\ p = <<p[1], p[2]>>
             /\ <<p[1] + 1, p[2]>> \in S
  <2>1. /\ p[1] \in DOMAIN t /\ p[2] \in 0..MaxRetries /\ p = <<p[1], p[2]>>
        /\ p[2] < Share(f, t[p[1]])
    BY <1>3 DEF Units
  <2>2. p[1] + 1 \in DOMAIN s /\ p[1] + 1 > 1 /\ t[p[1]] = s[p[1] + 1]
    BY <1>1, <2>1
  <2>3. p[2] < Share(f, s[p[1] + 1])
    BY <2>1, <2>2
  <2>4. QED
    BY <1>1, <2>1, <2>2, <2>3 DEF Units
<1>4. ASSUME NEW p \in S
      PROVE  <<p[1] - 1, p[2]>> \in T /\ p = <<(p[1] - 1) + 1, p[2]>>
  <2>1. /\ p[1] \in DOMAIN s /\ p[2] \in 0..MaxRetries /\ p = <<p[1], p[2]>>
        /\ p[1] > 1 /\ p[2] < Share(f, s[p[1]])
    BY <1>4 DEF Units
  <2>2. p[1] - 1 \in DOMAIN t /\ p[1] - 1 > 0 /\ (p[1] - 1) + 1 = p[1]
    BY <1>1, <2>1
  <2>3. t[p[1] - 1] = s[p[1]]
    BY <1>1, <2>2
  <2>4. QED
    BY <2>1, <2>2, <2>3 DEF Units
<1> HIDE DEF S, T
<1>5. g \in [T -> S]
  BY <1>3
<1>6. ASSUME NEW p \in T, NEW q \in T, g[p] = g[q] PROVE p = q
  BY <1>3, <1>6
<1>7. \A p \in S : \E q \in T : g[q] = p
  <2> SUFFICES ASSUME NEW p \in S PROVE \E q \in T : g[q] = p
    OBVIOUS
  <2>1. <<p[1] - 1, p[2]>> \in T /\ p = <<(p[1] - 1) + 1, p[2]>>
    BY <1>4
  <2>2. g[<<p[1] - 1, p[2]>>] = p
    BY <2>1
  <2>3. QED
    BY <2>1, <2>2
<1>8. g \in Bijection(T, S)
  BY <1>5, <1>6, <1>7 DEF Bijection, Injection, Surjection, IsInjective
<1>9. QED
  BY <1>2, <1>8, FS_Bijection DEF Weight, ExistsBijection, S, T, t

(* Keys and clocks have no weight.                                         *)
LEMMA WeightSame ==
    ASSUME NEW s, NEW t, NEW n, NEW f, DOMAIN t = DOMAIN s,
           \A i \in DOMAIN s : t[i].body = s[i].body /\ t[i].retries = s[i].retries
    PROVE  Weight(t, n, f) = Weight(s, n, f)
<1>1. \A i \in DOMAIN s : Share(f, t[i]) = Share(f, s[i])
  BY DEF Share
<1>2. Units(t, n, f) = Units(s, n, f)
  BY <1>1 DEF Units
<1>3. QED
  BY <1>2 DEF Weight

LEMMA WeightEmpty ==
    ASSUME NEW n, NEW f
    PROVE  Weight(<<>>, n, f) = 0
<1>1. Units(<<>>, n, f) = {}
  BY DEF Units
<1>2. QED
  BY <1>1, FS_EmptySet DEF Weight

-----------------------------------------------------------------------------
(* How a step changes what a queue is worth.                               *)
Safe == TypeOK /\ BelongInv /\ OrderInv /\ HeldInv

LEMMA SkippedTyped ==
    ASSUME Safe, NEW q \in Queues
    PROVE  /\ Skipped(q) \in {0, 1} /\ Skipped(q) <= Len(queue[q])
           /\ queue[q] \in Seq(Message)
           /\ q \notin {"picks.audit", "picks.inventory"} => Skipped(q) = 0
<1>1. queue[q] \in Seq(Message)
  BY DEF Safe, TypeOK
<1>2. Len(queue[q]) \in Nat /\ (queue[q] # <<>> => Len(queue[q]) >= 1)
  BY <1>1, EmptySeq, LenProperties
<1>3. Skipped(q) = 1 => queue[q] # <<>>
  BY DEF Safe, Skipped, HeldInv, Workers, Source
<1>4. QED
  BY <1>1, <1>2, <1>3 DEF Skipped

LEMMA WorthTyped ==
    ASSUME Safe, NEW q \in Queues, NEW w \in [Queues -> Shares]
    PROVE  Worth(w, q) \in Nat
  BY SkippedTyped, WeightTyped DEF Worth

LEMMA WorthSame ==
    ASSUME NEW q, NEW w, queue'[q] = queue[q], Skipped(q)' = Skipped(q)
    PROVE  Worth(w, q)' = Worth(w, q)
  BY DEF Worth

LEMMA WorthArrives ==
    ASSUME Safe, NEW q \in Queues, NEW w \in [Queues -> Shares], NEW m \in Message,
           queue'[q] = Append(queue[q], m), Skipped(q)' = Skipped(q)
    PROVE  Worth(w, q)' = Worth(w, q) + Share(w[q], m)
<1>1. w[q] \in Shares
  OBVIOUS
<1>2. QED
  BY <1>1, SkippedTyped, WeightAppend DEF Worth

(* A worker is done with its delivery, or is not after all.                *)
LEMMA WorthHandled ==
    ASSUME Safe, NEW v \in Workers, NEW w \in [Queues -> Shares], Handles(v),
           queue'[Source[v]] = queue[Source[v]]
    PROVE  Worth(w, Source[v]) = Worth(w, Source[v])' + Share(w[Source[v]], Delivery(v))
<1> DEFINE q == Source[v]
<1>1. /\ q \in Queues /\ w[q] \in Shares /\ queue[q] \in Seq(Message)
      /\ queue[q] # <<>>
  BY SourceTyped DEF Safe, TypeOK, Handles
<1>2. Skipped(q) = 0 /\ Skipped(q)' = 1
  BY DEF Safe, TypeOK, Skipped, Handles, Source, Workers
<1>3. QED
  BY <1>1, <1>2, WeightHead DEF Worth, Delivery

LEMMA WorthRedelivered ==
    ASSUME Safe, NEW v \in Workers, NEW w \in [Queues -> Shares], Crash(v)
    PROVE  Worth(w, Source[v])' = Worth(w, Source[v]) + Share(w[Source[v]], Delivery(v))
<1> DEFINE q == Source[v]
<1>1. /\ q \in Queues /\ w[q] \in Shares /\ queue[q] \in Seq(Message)
      /\ queue[q] # <<>> /\ queue' = queue
  BY SourceTyped DEF Safe, TypeOK, Crash, HeldInv
<1>2. Skipped(q) = 1 /\ Skipped(q)' = 0
  BY DEF Safe, TypeOK, Skipped, Crash, Source, Workers
<1>3. QED
  BY <1>1, <1>2, WeightHead DEF Worth, Delivery

LEMMA WorthAcked ==
    ASSUME Safe, NEW v \in Workers, NEW w \in [Queues -> Shares], Ack(v)
    PROVE  Worth(w, Source[v])' = Worth(w, Source[v])
<1> DEFINE q == Source[v]
<1>1. /\ q \in Queues /\ w[q] \in Shares /\ queue[q] \in Seq(Message)
      /\ queue[q] # <<>> /\ queue'[q] = Tail(queue[q])
  BY SourceTyped DEF Safe, TypeOK, Ack, HeldInv
<1>2. Skipped(q) = 1 /\ Skipped(q)' = 0
  BY DEF Safe, TypeOK, Skipped, Ack, Source, Workers
<1>3. QED
  BY <1>1, <1>2, WeightTail DEF Worth

LEMMA WorthExpired ==
    ASSUME Safe, NEW p \in DelayQueues, NEW w \in [Queues -> Shares],
           queue[p] # <<>>, queue'[p] = Tail(queue[p]), done' = done
    PROVE  Worth(w, p) = Worth(w, p)' + Share(w[p], Head(queue[p]))
<1>1. p \in Queues /\ w[p] \in Shares /\ queue[p] \in Seq(Message)
  BY DEF Safe, TypeOK, Queues
<1>2. Skipped(p) = 0 /\ Skipped(p)' = 0
  BY DEF Skipped, DelayQueues
<1>3. QED
  BY <1>1, <1>2, WeightHead, WeightTail DEF Worth

LEMMA WorthWaiting ==
    ASSUME Safe, NEW p \in DelayQueues, NEW w \in [Queues -> Shares],
           ~Due(p), queue'[p] = Waiting(p), done' = done
    PROVE  Worth(w, p)' = Worth(w, p)
<1>1. Skipped(p)' = Skipped(p)
  BY DEF Skipped
<1>2. /\ DOMAIN Waiting(p) = DOMAIN queue[p]
      /\ \A i \in DOMAIN queue[p] :
           /\ Waiting(p)[i].body = queue[p][i].body
           /\ Waiting(p)[i].retries = queue[p][i].retries
  BY WaitingEffect DEF Safe
<1>3. QED
  BY <1>1, <1>2, WeightSame DEF Worth

LEMMA WorthRouted ==
    ASSUME Safe, NEW q \in Queues, NEW w \in [Queues -> Shares], NEW m \in Message,
           queue' = Routed(queue, m), Skipped(q)' = Skipped(q)
    PROVE  /\ m.key \in BindingKeys(q) => Worth(w, q)' = Worth(w, q) + Share(w[q], m)
           /\ m.key \notin BindingKeys(q) => Worth(w, q)' = Worth(w, q)
<1>1. /\ m.key \in BindingKeys(q) => queue'[q] = Append(queue[q], m)
      /\ m.key \notin BindingKeys(q) => queue'[q] = queue[q]
  BY RoutedEffect DEF Safe, TypeOK
<1>2. QED
  BY <1>1, WorthSame, WorthArrives

LEMMA QueueNames ==
    Queues = {"picks.inventory", "picks.inventory.retry", "picks.inventory.dlq",
              "picks.audit", "picks.audit.retry", "picks.audit.dlq"}
  BY DEF Queues, DelayQueues, DeadLetters, WorkQueues

(* The six terms of a balance, and the lines of the log.                   *)
LEMMA BalanceTerms ==
    ASSUME Safe, NEW w \in [Queues -> Shares], NEW b \in Bodies, NEW l
    PROVE  /\ \A q \in Queues : Worth(w, q) \in Nat
           /\ logged[b] \in Nat
           /\ Balance(w, l, b) \in Nat
<1>1. \A q \in Queues : Worth(w, q) \in Nat
  BY WorthTyped
<1>2. logged[b] \in Nat
  BY DEF Safe, TypeOK
<1>3. QED
  BY <1>1, <1>2, QueueNames DEF Balance

(* A step that leaves every queue its worth.                               *)
LEMMA BalanceSame ==
    ASSUME NEW w, NEW l, NEW b, logged' = logged,
           \A q \in Queues : Worth(w, q)' = Worth(w, q)
    PROVE  Balance(w, l, b)' = Balance(w, l, b)
  BY QueueNames DEF Balance

(* A step that changes the worth of one queue, or of two.                  *)
LEMMA BalanceOne ==
    ASSUME Safe, NEW w \in [Queues -> Shares], NEW b \in Bodies, NEW l,
           NEW q \in Queues, NEW x \in Int, logged' = logged,
           Worth(w, q)' = Worth(w, q) + x,
           \A o \in Queues \ {q} : Worth(w, o)' = Worth(w, o)
    PROVE  Balance(w, l, b)' = Balance(w, l, b) + x
<1>1. /\ \A o \in Queues : Worth(w, o) \in Nat
      /\ logged[b] \in Nat
  BY BalanceTerms
<1>2. \A o \in Queues : Worth(w, o)' = Worth(w, o) + (IF o = q THEN x ELSE 0)
  BY <1>1
<1>3. CASE q = "picks.inventory"
  BY <1>1, <1>2, <1>3, QueueNames DEF Balance
<1>4. CASE q = "picks.inventory.retry"
  BY <1>1, <1>2, <1>4, QueueNames DEF Balance
<1>5. CASE q = "picks.inventory.dlq"
  BY <1>1, <1>2, <1>5, QueueNames DEF Balance
<1>6. CASE q = "picks.audit"
  BY <1>1, <1>2, <1>6, QueueNames DEF Balance
<1>7. CASE q = "picks.audit.retry"
  BY <1>1, <1>2, <1>7, QueueNames DEF Balance
<1>8. CASE q = "picks.audit.dlq"
  BY <1>1, <1>2, <1>8, QueueNames DEF Balance
<1>9. QED
  BY <1>3, <1>4, <1>5, <1>6, <1>7, <1>8, QueueNames

LEMMA BalanceTwo ==
    ASSUME Safe, NEW w \in [Queues -> Shares], NEW b \in Bodies, NEW l,
           NEW q \in Queues, NEW t \in Queues \ {q}, NEW x \in Int, NEW y \in Int,
           logged' = logged,
           Worth(w, q)' = Worth(w, q) + x, Worth(w, t)' = Worth(w, t) + y,
           \A o \in Queues \ {q, t} : Worth(w, o)' = Worth(w, o)
    PROVE  Balance(w, l, b)' = Balance(w, l, b) + x + y
<1>1. /\ \A o \in Queues : Worth(w, o) \in Nat
      /\ logged[b] \in Nat
  BY BalanceTerms
<1>2. \A o \in Queues : Worth(w, o)' = Worth(w, o) + (IF o = q THEN x ELSE 0)
                                                   + (IF o = t THEN y ELSE 0)
  BY <1>1
<1>3. CASE q = "picks.inventory"
  BY <1>1, <1>2, <1>3, QueueNames DEF Balance
<1>4. CASE q = "picks.inventory.retry"
  BY <1>1, <1>2, <1>4, QueueNames DEF Balance
<1>5. CASE q = "picks.inventory.dlq"
  BY <1>1, <1>2, <1>5, QueueNames DEF Balance
<1>6. CASE q = "picks.audit"
  BY <1>1, <1>2, <1>6, QueueNames DEF Balance
<1>7. CASE q = "picks.audit.retry"
  BY <1>1, <1>2, <1>7, QueueNames DEF Balance
<1>8. CASE q = "picks.audit.dlq"
  BY <1>1, <1>2, <1>8, QueueNames DEF Balance
<1>9. QED
  BY <1>3, <1>4, <1>5, <1>6, <1>7, <1>8, QueueNames

LEMMA BodyTyped ==
    ASSUME NEW m \in Message
    PROVE  /\ m.body \in Bodies /\ m.body[1] \in Picks /\ m.body[2] \in Lifecycle
           /\ m.body = <<m.body[1], m.body[2]>> /\ m.retries \in 0..MaxRetries
  BY DEF Message, Bodies

(* pick.created goes to both worker queues.                                *)
LEMMA PublishPaid ==
    ASSUME Safe, NEW w \in [Queues -> Shares], NEW c \in Nat, NEW k \in Picks,
           NEW l \in {0, 1}, NEW b \in Bodies, Sound(w, c, k, l, b),
           NEW j \in Picks, PublishCreated(j)
    PROVE  Balance(w, l, b)' <= Balance(w, l, b) + (IF j = k THEN c ELSE 0)
<1> DEFINE m == Event(j, "pick.created")
           x == <<Created(j), 0>>
<1>1. /\ m \in Message /\ m.key = "pick.created" /\ m.body = Created(j) /\ m.retries = 0
  BY EventTyped DEF Lifecycle, Created
<1>2. /\ queue' = Routed(queue, m) /\ logged' = logged
      /\ \A q \in Queues : Skipped(q)' = Skipped(q)
  BY DEF PublishCreated, Skipped
<1> HIDE DEF m
<1>3. /\ Share(w["picks.inventory"], m) = w["picks.inventory"][x]
      /\ Share(w["picks.audit"], m) = w["picks.audit"][x]
  BY <1>1 DEF Share
<1>4. /\ Worth(w, "picks.inventory")' = Worth(w, "picks.inventory") + w["picks.inventory"][x]
      /\ Worth(w, "picks.audit")' = Worth(w, "picks.audit") + w["picks.audit"][x]
      /\ \A q \in Queues \ {"picks.inventory", "picks.audit"} : Worth(w, q)' = Worth(w, q)
  BY <1>1, <1>2, <1>3, WorthRouted, Destinations, QueueNames
<1>5. w["picks.inventory"][x] + w["picks.audit"][x] <= IF j = k THEN c ELSE 0
  BY DEF Sound
<1>6. w["picks.inventory"][x] \in Nat /\ w["picks.audit"][x] \in Nat
  BY <1>1, <1>3, ShareTyped, QueueNames
<1>7. QED
  <2>1. /\ \A q \in Queues : Worth(w, q) \in Nat
        /\ logged[b] \in Nat
    BY BalanceTerms
  <2>2. QED
    BY <1>2, <1>4, <1>5, <1>6, <2>1, QueueNames DEF Balance

(* An inventory retry goes back to both worker queues, an audit retry to   *)
(* the audit queue.                                                        *)
LEMMA ExpirePaid ==
    ASSUME Safe, NEW w \in [Queues -> Shares], NEW c \in Nat, NEW k \in Picks,
           NEW l \in {0, 1}, NEW b \in Bodies, Sound(w, c, k, l, b),
           NEW p \in DelayQueues, Expire(p)
    PROVE  Balance(w, l, b)' <= Balance(w, l, b)
<1>1. PICK m \in Message :
        /\ p \in Queues /\ queue[p] # <<>>
        /\ m.body = Head(queue[p]).body /\ m.retries = Head(queue[p]).retries
        /\ m.key = DeadLetterKey(p) /\ Belongs(p, Head(queue[p]))
        /\ queue'[p] = Tail(queue[p])
        /\ \A q \in Queues \ {p} :
             /\ m.key \in BindingKeys(q) => queue'[q] = Append(queue[q], m)
             /\ m.key \notin BindingKeys(q) => queue'[q] = queue[q]
  BY ExpireEffect DEF Safe
<1>2. UNCHANGED <<done, logged>> /\ \A q \in Queues : Skipped(q)' = Skipped(q)
  BY DEF Expire, Skipped
<1> DEFINE j == m.body[1]
           x == <<m.body, m.retries>>
<1>3. /\ \A q \in Queues : Share(w[q], m) = w[q][x] /\ w[q][x] \in Nat
      /\ Share(w[p], Head(queue[p])) = w[p][x]
  BY <1>1, ShareTyped DEF Share
<1>4. Worth(w, p) = Worth(w, p)' + w[p][x]
  BY <1>1, <1>2, <1>3, WorthExpired
<1>5. \A q \in Queues \ {p} :
        /\ m.key \in BindingKeys(q) => Worth(w, q)' = Worth(w, q) + w[q][x]
        /\ m.key \notin BindingKeys(q) => Worth(w, q)' = Worth(w, q)
  BY <1>1, <1>2, <1>3, WorthSame, WorthArrives
<1>6. /\ \A q \in Queues : Worth(w, q) \in Nat
      /\ Worth(w, p)' \in Nat
      /\ logged[b] \in Nat
  <2>1. queue[p] \in Seq(Message) /\ w[p] \in Shares /\ Skipped(p)' = 0
    BY <1>1, <1>2 DEF Safe, TypeOK, Skipped, DelayQueues
  <2>2. Worth(w, p)' \in Nat
    BY <1>1, <2>1, TailFacts, WeightTyped DEF Worth
  <2>3. QED
    BY <2>2, BalanceTerms
<1>7. CASE p = "picks.inventory.retry"
  <2>1. m.body = Created(j) /\ j \in Picks /\ m.retries \in 0..MaxRetries
    BY <1>1, <1>7, BodyTyped DEF Belongs, Created
  <2>2. w["picks.inventory"][x] + w["picks.audit"][x] <= w["picks.inventory.retry"][x]
    BY <2>1 DEF Sound
  <2>3. /\ Worth(w, "picks.inventory")' = Worth(w, "picks.inventory") + w["picks.inventory"][x]
        /\ Worth(w, "picks.audit")' = Worth(w, "picks.audit") + w["picks.audit"][x]
        /\ \A q \in Queues \ {"picks.inventory", "picks.audit", p} :
             Worth(w, q)' = Worth(w, q)
    BY <1>1, <1>5, <1>7, Destinations, QueueNames DEF DeadLetterKey
  <2> HIDE DEF x
  <2>4. QED
    BY <1>2, <1>3, <1>4, <1>6, <1>7, <2>2, <2>3, QueueNames DEF Balance
<1>8. CASE p = "picks.audit.retry"
  <2>1. w["picks.audit"][x] <= w["picks.audit.retry"][x]
    BY BodyTyped DEF Sound
  <2>2. /\ Worth(w, "picks.audit")' = Worth(w, "picks.audit") + w["picks.audit"][x]
        /\ \A q \in Queues \ {"picks.audit", p} : Worth(w, q)' = Worth(w, q)
    BY <1>1, <1>5, <1>8, Destinations, QueueNames DEF DeadLetterKey
  <2> HIDE DEF x
  <2>3. QED
    BY <1>2, <1>3, <1>4, <1>6, <1>8, <2>1, <2>2, QueueNames DEF Balance
<1>9. QED
  BY <1>7, <1>8 DEF DelayQueues

(* Time, acknowledgements.                                                 *)
LEMMA TickPaid ==
    ASSUME Safe, NEW w \in [Queues -> Shares], NEW l, NEW b, Tick
    PROVE  Balance(w, l, b)' = Balance(w, l, b)
<1>1. UNCHANGED <<done, logged>>
  BY DEF Tick
<1>2. ASSUME NEW q \in Queues PROVE Worth(w, q)' = Worth(w, q)
  <2>1. CASE q \in DelayQueues
    BY <1>1, <2>1, WorthWaiting DEF Tick
  <2>2. CASE q \notin DelayQueues
    BY <1>1, <2>2, WorthSame DEF Tick, Skipped
  <2>3. QED
    BY <2>1, <2>2
<1>3. QED
  BY <1>1, <1>2, BalanceSame

LEMMA AckPaid ==
    ASSUME Safe, NEW w \in [Queues -> Shares], NEW l, NEW b, NEW v \in Workers, Ack(v)
    PROVE  Balance(w, l, b)' = Balance(w, l, b)
<1>1. logged' = logged
  BY DEF Ack
<1>2. ASSUME NEW q \in Queues PROVE Worth(w, q)' = Worth(w, q)
  <2>1. CASE q = Source[v]
    BY <2>1, WorthAcked
  <2>2. CASE q # Source[v]
    <3>1. queue'[q] = queue[q]
      BY <2>2 DEF Ack, Safe, TypeOK
    <3>2. Skipped(q)' = Skipped(q)
      BY <2>2 DEF Ack, Safe, TypeOK, Skipped, Workers, Source
    <3>3. QED
      BY <3>1, <3>2, WorthSame
  <2>3. QED
    BY <2>1, <2>2
<1>3. QED
  BY <1>1, <1>2, BalanceSame

(* A crash puts one delivery back.                                         *)
LEMMA CrashPaid ==
    ASSUME Safe, NEW w \in [Queues -> Shares], NEW c \in Nat, NEW k \in Picks,
           NEW l \in {0, 1}, NEW b \in Bodies, Sound(w, c, k, l, b),
           NEW v \in Workers, Crash(v)
    PROVE  Balance(w, l, b)' <= Balance(w, l, b) + c
<1> DEFINE d == Delivery(v)
<1>1. UNCHANGED <<queue, logged>> /\ queue[Source[v]] # <<>>
  BY DEF Crash, Safe, HeldInv
<1>2. d \in Message
  BY <1>1, DeliveryTyped DEF Safe
<1>3. Share(w[Source[v]], d) <= c /\ Share(w[Source[v]], d) \in Nat
  <2>1. Share(w[Source[v]], d) \in Nat
    BY <1>2, SourceTyped, ShareTyped
  <2>2. d.body \in Bodies /\ d.retries \in 0..MaxRetries
    BY <1>2, BodyTyped
  <2> HIDE DEF d
  <2>3. Share(w[Source[v]], d) <= c
    <3>1. \A x \in Bodies, r \in 0..MaxRetries :
            w["picks.audit"][<<x, r>>] <= c /\ w["picks.inventory"][<<x, r>>] <= c
      BY DEF Sound
    <3>2. Source[v] \in {"picks.inventory", "picks.audit"}
      BY DEF Workers, Source
    <3>3. QED
      BY <2>2, <3>1, <3>2 DEF Share
  <2>4. QED
    BY <2>1, <2>3
<1>4. Worth(w, Source[v])' = Worth(w, Source[v]) + Share(w[Source[v]], d)
  BY WorthRedelivered
<1>5. \A q \in Queues \ {Source[v]} : Worth(w, q)' = Worth(w, q)
  BY <1>1, WorthSame DEF Crash, Safe, TypeOK, Skipped, Workers, Source
<1>6. /\ \A q \in Queues : Worth(w, q) \in Nat
      /\ logged[b] \in Nat
  BY BalanceTerms
<1> HIDE DEF d
<1>7. Balance(w, l, b)' = Balance(w, l, b) + Share(w[Source[v]], d)
  <2>1. PICK q \in Queues, x \in Int : q = Source[v] /\ x = Share(w[Source[v]], d)
    BY <1>3, SourceTyped
  <2>2. Worth(w, q)' = Worth(w, q) + x
    BY <1>4, <2>1
  <2>3. Balance(w, l, b)' = Balance(w, l, b) + x
    BY <1>1, <1>5, <2>1, <2>2, BalanceOne
  <2>4. QED
    BY <2>1, <2>3
<1>8. Balance(w, l, b) \in Nat
  BY BalanceTerms
<1>9. QED
  BY <1>3, <1>7, <1>8

(* The inventory worker's handler: what the delivery was worth pays for    *)
(* the event, the retry or the dead letter it leads to.                    *)
LEMMA HandledElsewhere ==
    ASSUME Safe, NEW v \in Workers, Handles(v)
    PROVE  /\ Source[v] \in Queues /\ queue[Source[v]] # <<>>
           /\ \A q \in Queues \ {Source[v]} : Skipped(q)' = Skipped(q)
           /\ Delivery(v) \in Message /\ Belongs(Source[v], Delivery(v))
<1>1. queue[Source[v]] # <<>>
  BY DEF Handles
<1>2. \A q \in Queues \ {Source[v]} : Skipped(q)' = Skipped(q)
  BY DEF Handles, Safe, TypeOK, Skipped, Workers, Source
<1>3. QED
  BY <1>1, <1>2, SourceTyped, DeliveryTyped DEF Safe

LEMMA PickedPaid ==
    ASSUME Safe, NEW w \in [Queues -> Shares], NEW c \in Nat, NEW k \in Picks,
           NEW l \in {0, 1}, NEW b \in Bodies, Sound(w, c, k, l, b), Picked
    PROVE  Balance(w, l, b)' <= Balance(w, l, b)
<1> DEFINE d == Delivery("inventory")
           j == d.body[1]
<1>1. /\ Handles("inventory") /\ "inventory" \in Workers
      /\ Source["inventory"] = "picks.inventory" /\ j \notin Malformed /\ logged' = logged
  BY DEF Picked, Workers, Source
<1>2. /\ \A q \in Queues \ {"picks.inventory"} : Skipped(q)' = Skipped(q)
      /\ d \in Message /\ Belongs("picks.inventory", d)
  BY <1>1, HandledElsewhere
<1>3. j \in Picks /\ d.body = Created(j) /\ d.retries \in 0..MaxRetries
  BY <1>2, BodyTyped DEF Belongs, Created
<1>4. PICK key \in {"pick.completed", "pick.failed"} : queue' = Routed(queue, Event(j, key))
  BY DEF Picked
<1> DEFINE m == Event(j, key)
<1>5. /\ m \in Message /\ m.key = key /\ m.body = <<j, key>> /\ m.retries = 0
  <2>1. key \in Lifecycle
    BY DEF Lifecycle
  <2>2. QED
    BY <1>3, <2>1, EventTyped
<1> HIDE DEF m
<1>6. queue'["picks.inventory"] = queue["picks.inventory"]
  <2>1. m.key \notin BindingKeys("picks.inventory")
    BY <1>5, Destinations, QueueNames
  <2>2. QED
    BY <1>4, <1>5, <2>1, RoutedEffect, QueueNames DEF Safe, TypeOK, m
<1>7. Worth(w, "picks.inventory")
        = Worth(w, "picks.inventory")' + Share(w["picks.inventory"], d)
  BY <1>1, <1>6, WorthHandled
<1>8. /\ Worth(w, "picks.audit")' = Worth(w, "picks.audit") + Share(w["picks.audit"], m)
      /\ \A q \in Queues \ {"picks.inventory", "picks.audit"} : Worth(w, q)' = Worth(w, q)
  BY <1>2, <1>4, <1>5, WorthRouted, Destinations, QueueNames DEF m
<1>9. Share(w["picks.audit"], m) <= Share(w["picks.inventory"], d)
  BY <1>1, <1>3, <1>5 DEF Sound, Share
<1>10. /\ Share(w["picks.audit"], m) \in Nat /\ Share(w["picks.inventory"], d) \in Nat
  BY <1>2, <1>5, ShareTyped, QueueNames
<1>11. /\ \A q \in Queues : Worth(w, q) \in Nat
       /\ logged[b] \in Nat
  BY BalanceTerms
<1>12. Worth(w, "picks.inventory")' \in Int
  <2>1. /\ queue'["picks.inventory"] \in Seq(Message)
        /\ Skipped("picks.inventory")' \in {0, 1}
    BY <1>6, QueueNames DEF Safe, TypeOK, Skipped
  <2>2. QED
    BY <2>1, WeightTyped, QueueNames DEF Worth
<1> HIDE DEF d
<1>13. QED
  BY <1>1, <1>7, <1>8, <1>9, <1>10, <1>11, <1>12, QueueNames DEF Balance

(* A failed attempt leads to one message, in the delay queue or in the     *)
(* dead letters; the delivery pays for it, and so does the fault if the    *)
(* attempt failed for one.                                                 *)
LEMMA FailurePaid ==
    ASSUME Safe, NEW w \in [Queues -> Shares], NEW c \in Nat, NEW price \in Nat,
           NEW l \in {0, 1}, NEW b \in Bodies, NEW v \in Workers,
           Handles(v), Fails(v), logged' = logged,
           LET x == Delivery(v).body
               r == Delivery(v).retries
               R == [inventory |-> "picks.inventory.retry", audit |-> "picks.audit.retry"]
               D == [inventory |-> "picks.inventory.dlq", audit |-> "picks.audit.dlq"]
           IN  /\ r < MaxRetries =>
                    w[R[v]][<<x, r + 1>>] <= w[Source[v]][<<x, r>>] + price
               /\ w[D[v]][<<x, r>>] <= w[Source[v]][<<x, r>>] + price
    PROVE  Balance(w, l, b)' <= Balance(w, l, b) + price
<1>1. PICK q \in Queues, d \in Message :
        /\ q = Source[v] /\ d = Delivery(v) /\ queue[q] # <<>>
        /\ \A o \in Queues \ {q} : Skipped(o)' = Skipped(o)
  BY HandledElsewhere
<1>2. PICK m \in Message :
        /\ queue' = Routed(queue, m) /\ m.body = d.body
        /\ \/ m.key = RetryKey[v] /\ m.retries = d.retries + 1
           \/ m.key = DeadKey[v] /\ m.retries = d.retries
  BY <1>1, FailsEffect DEF Safe
<1>3. \E t \in Queues \ {q} :
        /\ \A o \in Queues : m.key \in BindingKeys(o) <=> o = t
        /\ Share(w[t], m) <= Share(w[q], d) + price
  <2>1. m.retries \in 0..MaxRetries /\ d.retries \in 0..MaxRetries /\ MaxRetries \in Nat
    BY <1>1, <1>2, BodyTyped, RoutingAssumption
  <2>2. CASE m.key = RetryKey[v] /\ m.retries = d.retries + 1
    <3>1. d.retries < MaxRetries
      BY <2>1, <2>2
    <3>2. CASE v = "inventory"
      <4>1. /\ \A o \in Queues : m.key \in BindingKeys(o) <=> o = "picks.inventory.retry"
            /\ "picks.inventory.retry" \in Queues \ {q}
        BY <1>1, <2>2, <3>2, Destinations, QueueNames DEF RetryKey, Source
      <4>2. Share(w["picks.inventory.retry"], m) <= Share(w[q], d) + price
        BY <1>1, <1>2, <2>2, <3>1, <3>2 DEF Share
      <4>3. QED
        BY <4>1, <4>2
    <3>3. CASE v = "audit"
      <4>1. /\ \A o \in Queues : m.key \in BindingKeys(o) <=> o = "picks.audit.retry"
            /\ "picks.audit.retry" \in Queues \ {q}
        BY <1>1, <2>2, <3>3, Destinations, QueueNames DEF RetryKey, Source
      <4>2. Share(w["picks.audit.retry"], m) <= Share(w[q], d) + price
        BY <1>1, <1>2, <2>2, <3>1, <3>3 DEF Share
      <4>3. QED
        BY <4>1, <4>2
    <3>4. QED
      BY <3>2, <3>3 DEF Workers
  <2>3. CASE m.key = DeadKey[v] /\ m.retries = d.retries
    <3>1. CASE v = "inventory"
      <4>1. /\ \A o \in Queues : m.key \in BindingKeys(o) <=> o = "picks.inventory.dlq"
            /\ "picks.inventory.dlq" \in Queues \ {q}
        BY <1>1, <2>3, <3>1, Destinations, QueueNames DEF DeadKey, Source
      <4>2. Share(w["picks.inventory.dlq"], m) <= Share(w[q], d) + price
        BY <1>1, <1>2, <2>3, <3>1 DEF Share
      <4>3. QED
        BY <4>1, <4>2
    <3>2. CASE v = "audit"
      <4>1. /\ \A o \in Queues : m.key \in BindingKeys(o) <=> o = "picks.audit.dlq"
            /\ "picks.audit.dlq" \in Queues \ {q}
        BY <1>1, <2>3, <3>2, Destinations, QueueNames DEF DeadKey, Source
      <4>2. Share(w["picks.audit.dlq"], m) <= Share(w[q], d) + price
        BY <1>1, <1>2, <2>3, <3>2 DEF Share
      <4>3. QED
        BY <4>1, <4>2
    <3>3. QED
      BY <3>1, <3>2 DEF Workers
  <2>4. QED
    BY <1>2, <2>2, <2>3
<1>4. PICK t \in Queues \ {q} :
        /\ \A o \in Queues : m.key \in BindingKeys(o) <=> o = t
        /\ Share(w[t], m) <= Share(w[q], d) + price
  BY <1>3
<1>5. queue'[q] = queue[q]
  BY <1>1, <1>2, <1>4, RoutedEffect DEF Safe, TypeOK
<1>6. Worth(w, q) = Worth(w, q)' + Share(w[q], d)
  BY <1>1, <1>5, WorthHandled
<1>7. /\ Worth(w, t)' = Worth(w, t) + Share(w[t], m)
      /\ \A o \in Queues \ {q, t} : Worth(w, o)' = Worth(w, o)
  BY <1>1, <1>2, <1>4, WorthRouted
<1>8. Share(w[t], m) \in Nat /\ Share(w[q], d) \in Nat
  BY <1>1, <1>4, ShareTyped
<1>9. /\ \A o \in Queues : Worth(w, o) \in Nat
      /\ logged[b] \in Nat
  BY BalanceTerms
<1>10. Worth(w, q)' \in Nat
  <2>1. queue'[q] \in Seq(Message) /\ Skipped(q)' \in {0, 1} /\ w[q] \in Shares
    BY <1>1, <1>5 DEF Safe, TypeOK, Skipped
  <2>2. QED
    BY <2>1, WeightTyped DEF Worth
<1>11. Worth(w, q)' = Worth(w, q) - Share(w[q], d)
  BY <1>1, <1>6, <1>8, <1>9, <1>10
<1>12. Balance(w, l, b)' = Balance(w, l, b) - Share(w[q], d) + Share(w[t], m)
  <2>1. PICK x \in Int, y \in Int : x = -Share(w[q], d) /\ y = Share(w[t], m)
    BY <1>8
  <2>2. Worth(w, q)' = Worth(w, q) + x /\ Worth(w, t)' = Worth(w, t) + y
    BY <1>7, <1>8, <1>9, <1>11, <2>1
  <2>3. Balance(w, l, b)' = Balance(w, l, b) + x + y
    BY <1>7, <2>2, BalanceTwo
  <2>4. Balance(w, l, b) \in Nat
    BY BalanceTerms
  <2>5. QED
    BY <1>8, <2>1, <2>3, <2>4
<1>13. Balance(w, l, b) \in Nat
  BY BalanceTerms
<1>14. QED
  BY <1>4, <1>8, <1>12, <1>13

(* A line of the log is paid by the delivery it is written for.            *)
LEMMA LogPaid ==
    ASSUME Safe, NEW w \in [Queues -> Shares], NEW c \in Nat, NEW k \in Picks,
           NEW l \in {0, 1}, NEW b \in Bodies, Sound(w, c, k, l, b), Log
    PROVE  Balance(w, l, b)' <= Balance(w, l, b)
<1>1. /\ Handles("audit") /\ "audit" \in Workers /\ Source["audit"] = "picks.audit"
      /\ queue' = queue /\ logged' = [logged EXCEPT ![Delivery("audit").body] = @ + 1]
  BY DEF Log, Workers, Source
<1>2. PICK d \in Message :
        /\ d = Delivery("audit")
        /\ \A q \in Queues \ {"picks.audit"} : Skipped(q)' = Skipped(q)
  BY <1>1, HandledElsewhere
<1>3. d.body \in Bodies /\ d.retries \in 0..MaxRetries
  BY BodyTyped
<1>4. Worth(w, "picks.audit") = Worth(w, "picks.audit")' + Share(w["picks.audit"], d)
  BY <1>1, <1>2, WorthHandled
<1>5. \A q \in Queues \ {"picks.audit"} : Worth(w, q)' = Worth(w, q)
  BY <1>1, <1>2, WorthSame
<1>6. /\ \A q \in Queues : Worth(w, q) \in Nat
      /\ logged[b] \in Nat
  BY BalanceTerms
<1>7. logged'[b] = IF b = d.body THEN logged[b] + 1 ELSE logged[b]
  BY <1>1, <1>2, <1>3 DEF Safe, TypeOK
<1>8. b = d.body /\ l = 1 => 1 <= Share(w["picks.audit"], d)
  BY <1>3 DEF Sound, Share
<1>9. Share(w["picks.audit"], d) \in Nat
  BY ShareTyped, QueueNames
<1>10. Worth(w, "picks.audit")' \in Nat
  <2>1. /\ queue'["picks.audit"] \in Seq(Message) /\ Skipped("picks.audit")' \in {0, 1}
        /\ w["picks.audit"] \in Shares
    BY <1>1, QueueNames DEF Safe, TypeOK, Skipped
  <2>2. QED
    BY <2>1, WeightTyped DEF Worth
<1>11. CASE l = 1
  BY <1>4, <1>5, <1>6, <1>7, <1>8, <1>9, <1>10, <1>11, QueueNames DEF Balance
<1>12. CASE l = 0
  BY <1>4, <1>5, <1>6, <1>9, <1>10, <1>12, QueueNames DEF Balance
<1>13. QED
  BY <1>11, <1>12

-----------------------------------------------------------------------------
(* No step overdraws a sound account.                                      *)
LEMMA AccountStep ==
    ASSUME Safe, [Next]_vars, NEW w \in [Queues -> Shares], NEW c \in Nat, NEW k \in Picks,
           NEW l \in {0, 1}, NEW b \in Bodies, Sound(w, c, k, l, b),
           Covered(w, c, k, l, b)
    PROVE  Covered(w, c, k, l, b)'
<1>1. /\ Balance(w, l, b) \in Nat /\ faults \in Nat /\ Published(k) \in {0, 1}
      /\ Balance(w, l, b) <= c * (Published(k) + faults)
  BY BalanceTerms, RoutingAssumption DEF Covered, Safe, TypeOK, Published
<1>2. ASSUME NEW x \in Nat PROVE c * (x + 1) = c * x + c /\ c * x \in Nat
  OBVIOUS
<1>3. ASSUME Published(k)' = Published(k), faults' = faults,
             Balance(w, l, b)' <= Balance(w, l, b), Balance(w, l, b)' \in Int
      PROVE  Covered(w, c, k, l, b)'
  BY <1>1, <1>2, <1>3 DEF Covered
<1>4. ASSUME Published(k)' = Published(k), faults' = faults + 1,
             Balance(w, l, b)' <= Balance(w, l, b) + c, Balance(w, l, b)' \in Int
      PROVE  Covered(w, c, k, l, b)'
  <2>1. PICK x \in Nat : x = Published(k) + faults
    BY <1>1
  <2>2. Published(k)' + faults' = x + 1
    BY <1>1, <1>4, <2>1
  <2>3. QED
    BY <1>1, <1>2, <1>4, <2>1, <2>2 DEF Covered
<1>5. Balance(w, l, b)' \in Int
  <2>1. Safe'
    BY TypeStep, BelongStep, HeldStep DEF Safe
  <2>2. \A q \in Queues : Worth(w, q)' \in Nat
    <3> SUFFICES ASSUME NEW q \in Queues PROVE Worth(w, q)' \in Nat
      OBVIOUS
    <3>1. queue'[q] \in Seq(Message) /\ Skipped(q)' \in {0, 1} /\ w[q] \in Shares
      BY <2>1 DEF Safe, TypeOK, Skipped
    <3>2. QED
      BY <3>1, WeightTyped DEF Worth
  <2>3. logged'[b] \in Nat
    BY <2>1 DEF Safe, TypeOK
  <2>4. QED
    BY <2>2, <2>3, QueueNames DEF Balance
<1>6. ASSUME NEW j \in Picks, PublishCreated(j) PROVE Covered(w, c, k, l, b)'
  <2>1. Balance(w, l, b)' <= Balance(w, l, b) + (IF j = k THEN c ELSE 0)
    BY <1>6, PublishPaid
  <2>2. faults' = faults
    BY <1>6 DEF PublishCreated
  <2>3. CASE j = k
    <3>1. Published(k) = 0 /\ Published(k)' = 1
      BY <1>6, <2>3 DEF PublishCreated, Published
    <3>2. c * (0 + faults + 1) = c * faults + c
      BY <1>1, <1>2
    <3>3. QED
      BY <1>1, <1>2, <1>5, <2>1, <2>2, <2>3, <3>1, <3>2 DEF Covered
  <2>4. CASE j # k
    <3>1. Published(k)' = Published(k)
      BY <1>6, <2>4 DEF PublishCreated, Published
    <3>2. QED
      BY <1>1, <1>3, <1>5, <2>1, <2>2, <2>4, <3>1
  <2>5. QED
    BY <2>3, <2>4
<1>7. ASSUME sent' = sent PROVE Published(k)' = Published(k)
  BY <1>7 DEF Published
<1>8. CASE \E p \in DelayQueues : Expire(p)
  BY <1>3, <1>5, <1>7, <1>8, ExpirePaid DEF Expire
<1>9. CASE Tick
  BY <1>1, <1>3, <1>5, <1>7, <1>9, TickPaid DEF Tick
<1>10. CASE \E v \in Workers : Ack(v)
  <2>1. PICK v \in Workers : Ack(v)
    BY <1>10
  <2>2. sent' = sent /\ faults' = faults
    BY <2>1 DEF Ack
  <2>3. Balance(w, l, b)' = Balance(w, l, b)
    BY <2>1, AckPaid
  <2>4. QED
    BY <1>1, <1>3, <1>5, <1>7, <2>2, <2>3
<1>11. CASE \E v \in Workers : Crash(v)
  BY <1>4, <1>5, <1>7, <1>11, CrashPaid DEF Crash, Fault
<1>12. CASE Picked
  <2>1. Published(k)' = Published(k) /\ faults' = faults
    BY <1>12 DEF Picked, Published
  <2>2. QED
    BY <1>3, <1>5, <1>12, <2>1, PickedPaid
<1>13. CASE Rejected \/ DatabaseFails
  <2> DEFINE d == Delivery("inventory")
             j == d.body[1]
  <2>1. /\ Handles("inventory") /\ Fails("inventory") /\ "inventory" \in Workers
        /\ Source["inventory"] = "picks.inventory" /\ UNCHANGED <<sent, logged>>
    BY <1>13 DEF Rejected, DatabaseFails, Workers, Source
  <2>2. d \in Message /\ Belongs("picks.inventory", d)
    BY <2>1, HandledElsewhere
  <2>3. j \in Picks /\ d.body = Created(j) /\ d.retries \in 0..MaxRetries
    BY <2>2, BodyTyped DEF Belongs, Created
  <2>4. PICK price \in Nat : price = IF j \in Malformed THEN 0 ELSE c
    OBVIOUS
  <2>5. /\ d.retries < MaxRetries =>
             w["picks.inventory.retry"][<<d.body, d.retries + 1>>]
               <= w["picks.inventory"][<<d.body, d.retries>>] + price
        /\ w["picks.inventory.dlq"][<<d.body, d.retries>>]
             <= w["picks.inventory"][<<d.body, d.retries>>] + price
    BY <2>3, <2>4 DEF Sound
  <2>6. Balance(w, l, b)' <= Balance(w, l, b) + price
    BY <2>1, <2>5, FailurePaid
  <2>7. CASE Rejected
    <3>1. price = 0 /\ faults' = faults
      BY <2>4, <2>7 DEF Rejected
    <3>2. QED
      BY <1>1, <1>3, <1>5, <1>7, <2>1, <2>6, <3>1
  <2>8. CASE DatabaseFails
    <3>1. price = c /\ faults' = faults + 1
      BY <2>4, <2>8 DEF DatabaseFails, Fault
    <3>2. QED
      BY <1>1, <1>4, <1>5, <1>7, <2>1, <2>6, <3>1
  <2>9. QED
    BY <1>13, <2>7, <2>8
<1>14. CASE Log
  BY <1>3, <1>5, <1>7, <1>14, LogPaid DEF Log
<1>15. CASE NotParsed
  <2> DEFINE d == Delivery("audit")
  <2>1. /\ Handles("audit") /\ Fails("audit") /\ "audit" \in Workers
        /\ Source["audit"] = "picks.audit" /\ UNCHANGED <<sent, logged, faults>>
        /\ d.body[1] \in unparsable
    BY <1>15 DEF NotParsed, Workers, Source
  <2>2. d \in Message /\ d.body[1] \in Malformed
    BY <2>1, HandledElsewhere DEF Safe, TypeOK
  <2>3. d.body \in Bodies /\ d.retries \in 0..MaxRetries
    BY <2>2, BodyTyped
  <2>4. PICK price \in Nat : price = 0
    OBVIOUS
  <2>5. w["picks.audit"][<<d.body, d.retries>>] + price
          = w["picks.audit"][<<d.body, d.retries>>]
    <3>1. w["picks.audit"][<<d.body, d.retries>>] \in Nat
      BY <2>2, ShareTyped, QueueNames DEF Share
    <3>2. QED
      BY <2>4, <3>1
  <2>6. /\ d.retries < MaxRetries =>
             w["picks.audit.retry"][<<d.body, d.retries + 1>>]
               <= w["picks.audit"][<<d.body, d.retries>>] + price
        /\ w["picks.audit.dlq"][<<d.body, d.retries>>]
             <= w["picks.audit"][<<d.body, d.retries>>] + price
    BY <2>2, <2>3, <2>5 DEF Sound
  <2>7. Balance(w, l, b)' <= Balance(w, l, b) + price
    BY <2>1, <2>6, FailurePaid
  <2>8. QED
    BY <1>1, <1>3, <1>5, <1>7, <2>1, <2>4, <2>7
<1>16. CASE UNCHANGED vars
  <2>1. queue' = queue /\ done' = done /\ logged' = logged /\ sent' = sent /\ faults' = faults
    BY <1>16 DEF vars
  <2>2. Balance(w, l, b)' = Balance(w, l, b)
    BY <2>1, BalanceSame DEF Worth, Skipped
  <2>3. QED
    BY <1>1, <1>3, <1>5, <1>7, <2>1, <2>2
<1>17. QED
  BY <1>6, <1>8, <1>9, <1>10, <1>11, <1>12, <1>13, <1>14, <1>15, <1>16 DEF Next

-----------------------------------------------------------------------------
(* The three accounts are sound.                                           *)
LEMMA PlainShares ==
    /\ None \in Shares
    /\ \A k \in Picks : OfPick(k) \in Shares
    /\ \A b \in Bodies : OfBody(b) \in Shares
    /\ \A k \in Picks, more \in {0, 1} : AttemptsLeft(k, more) \in Shares
<1>1. MaxRetries \in Nat /\ 0 \in 0..(MaxRetries + 1) /\ 1 \in 0..(MaxRetries + 1)
  BY RoutingAssumption
<1>2. ASSUME NEW more \in {0, 1}, NEW x \in Bodies \X (0..MaxRetries)
      PROVE  more + MaxRetries - x[2] \in 0..(MaxRetries + 1)
  BY <1>1
<1>3. \A k \in Picks, more \in {0, 1} : AttemptsLeft(k, more) \in Shares
  BY <1>1, <1>2 DEF AttemptsLeft, Shares
<1>4. QED
  BY <1>1, <1>3 DEF None, OfPick, OfBody, Shares

(* What the shares are, message by message.                                *)
LEMMA PlainShareOf ==
    ASSUME NEW x \in Bodies, NEW r \in 0..MaxRetries
    PROVE  /\ None[<<x, r>>] = 0
           /\ \A k : OfPick(k)[<<x, r>>] = IF x[1] = k THEN 1 ELSE 0
           /\ \A b : OfBody(b)[<<x, r>>] = IF x = b THEN 1 ELSE 0
           /\ \A k, more : AttemptsLeft(k, more)[<<x, r>>]
                             = IF x[1] = k THEN more + MaxRetries - r ELSE 0
<1>1. <<x, r>> \in Bodies \X (0..MaxRetries)
  OBVIOUS
<1>2. QED
  BY <1>1 DEF None, OfPick, OfBody, AttemptsLeft

LEMMA EventBodies ==
    ASSUME NEW j \in Picks, NEW key \in Lifecycle
    PROVE  /\ <<j, key>> \in Bodies /\ <<j, key>>[1] = j /\ <<j, key>>[2] = key
           /\ Created(j) \in Bodies /\ Created(j)[1] = j /\ Created(j)[2] = "pick.created"
BY DEF Bodies, Lifecycle, Created

LEMMA DeadSound ==
    ASSUME NEW k \in Malformed
    PROVE  /\ k \in Picks /\ Created(k) \in Bodies /\ DeadShares(k) \in [Queues -> Shares]
           /\ Sound(DeadShares(k), 1, k, 0, Created(k))
<1> DEFINE w == DeadShares(k)
<1>1. k \in Picks /\ MaxRetries \in Nat /\ 0 \in 0..MaxRetries
  BY RoutingAssumption
<1>2. \A j \in Picks : Created(j) \in Bodies /\ Created(j)[1] = j
  BY EventBodies DEF Lifecycle
<1>3. w \in [Queues -> Shares]
  BY <1>1, PlainShares DEF DeadShares
<1>4. ASSUME NEW x \in Bodies, NEW r \in 0..MaxRetries
      PROVE  /\ \A q \in {"picks.inventory", "picks.inventory.retry", "picks.inventory.dlq"} :
                  w[q][<<x, r>>] = IF x[1] = k THEN 1 ELSE 0
             /\ \A q \in {"picks.audit", "picks.audit.retry", "picks.audit.dlq"} :
                  w[q][<<x, r>>] = 0
  BY PlainShareOf, QueueNames DEF DeadShares
<1> HIDE DEF w
<1>5. \A j \in Picks :
        w["picks.inventory"][<<Created(j), 0>>] + w["picks.audit"][<<Created(j), 0>>]
          <= IF j = k THEN 1 ELSE 0
  BY <1>1, <1>2, <1>4
<1>6. \A j \in Picks \ Malformed, r \in 0..MaxRetries,
         key \in {"pick.completed", "pick.failed"} :
        w["picks.audit"][<<<<j, key>>, 0>>] <= w["picks.inventory"][<<Created(j), r>>]
  <2> SUFFICES ASSUME NEW j \in Picks \ Malformed, NEW r \in 0..MaxRetries,
                      NEW key \in {"pick.completed", "pick.failed"}
               PROVE  w["picks.audit"][<<<<j, key>>, 0>>]
                        <= w["picks.inventory"][<<Created(j), r>>]
    OBVIOUS
  <2>1. <<j, key>> \in Bodies
    BY DEF Bodies, Lifecycle
  <2>2. QED
    BY <1>1, <1>2, <1>4, <2>1
<1>7. ASSUME NEW j \in Picks, NEW r \in 0..MaxRetries
      PROVE  LET price == w["picks.inventory"][<<Created(j), r>>]
                            + (IF j \in Malformed THEN 0 ELSE 1)
             IN  /\ r < MaxRetries =>
                      w["picks.inventory.retry"][<<Created(j), r + 1>>] <= price
                 /\ w["picks.inventory.dlq"][<<Created(j), r>>] <= price
  <2>1. r < MaxRetries => r + 1 \in 0..MaxRetries
    BY <1>1
  <2>2. QED
    BY <1>2, <1>4, <2>1
<1>8. \A j \in Picks, r \in 0..MaxRetries :
        w["picks.inventory"][<<Created(j), r>>] + w["picks.audit"][<<Created(j), r>>]
          <= w["picks.inventory.retry"][<<Created(j), r>>]
  BY <1>2, <1>4
<1>9. ASSUME NEW x \in Bodies, NEW r \in 0..MaxRetries
      PROVE  /\ w["picks.audit"][<<x, r>>] <= w["picks.audit.retry"][<<x, r>>]
             /\ r < MaxRetries =>
                  w["picks.audit.retry"][<<x, r + 1>>] <= w["picks.audit"][<<x, r>>]
             /\ w["picks.audit.dlq"][<<x, r>>] <= w["picks.audit"][<<x, r>>]
             /\ w["picks.audit"][<<x, r>>] <= 1
             /\ w["picks.inventory"][<<x, r>>] <= 1
  <2>1. r < MaxRetries => r + 1 \in 0..MaxRetries
    BY <1>1
  <2>2. QED
    BY <1>4, <2>1
<1>10. Sound(w, 1, k, 0, Created(k))
  BY <1>5, <1>6, <1>7, <1>8, <1>9 DEF Sound
<1>11. QED
  BY <1>1, <1>2, <1>3, <1>10 DEF w

LEMMA AuditSound ==
    ASSUME NEW k \in Malformed
    PROVE  /\ AuditShares(k) \in [Queues -> Shares]
           /\ Sound(AuditShares(k), 1 + MaxRetries, k, 1, Created(k))
<1> DEFINE w == AuditShares(k)
           c == 1 + MaxRetries
<1>1. k \in Picks /\ MaxRetries \in Nat /\ 0 \in 0..MaxRetries
  BY RoutingAssumption
<1>2. \A j \in Picks : Created(j) \in Bodies /\ Created(j)[1] = j
  BY EventBodies DEF Lifecycle
<1>3. w \in [Queues -> Shares]
  BY <1>1, PlainShares DEF AuditShares
<1>4. ASSUME NEW x \in Bodies, NEW r \in 0..MaxRetries
      PROVE  /\ w["picks.inventory"][<<x, r>>] = IF x[1] = k THEN MaxRetries - r ELSE 0
             /\ w["picks.inventory.retry"][<<x, r>>]
                  = IF x[1] = k THEN 1 + MaxRetries - r ELSE 0
             /\ w["picks.inventory.dlq"][<<x, r>>] = 0
             /\ \A q \in {"picks.audit", "picks.audit.retry", "picks.audit.dlq"} :
                  w[q][<<x, r>>] = IF x[1] = k THEN 1 ELSE 0
  BY <1>1, PlainShareOf, QueueNames DEF AuditShares
<1> HIDE DEF w
<1>5. \A j \in Picks :
        w["picks.inventory"][<<Created(j), 0>>] + w["picks.audit"][<<Created(j), 0>>]
          <= IF j = k THEN c ELSE 0
  BY <1>1, <1>2, <1>4
<1>6. \A j \in Picks \ Malformed, r \in 0..MaxRetries,
         key \in {"pick.completed", "pick.failed"} :
        w["picks.audit"][<<<<j, key>>, 0>>] <= w["picks.inventory"][<<Created(j), r>>]
  <2> SUFFICES ASSUME NEW j \in Picks \ Malformed, NEW r \in 0..MaxRetries,
                      NEW key \in {"pick.completed", "pick.failed"}
               PROVE  w["picks.audit"][<<<<j, key>>, 0>>]
                        <= w["picks.inventory"][<<Created(j), r>>]
    OBVIOUS
  <2>1. <<j, key>> \in Bodies /\ <<j, key>>[1] = j /\ j # k
    BY DEF Bodies, Lifecycle
  <2>2. QED
    BY <1>1, <1>2, <1>4, <2>1
<1>7. ASSUME NEW j \in Picks, NEW r \in 0..MaxRetries
      PROVE  LET price == w["picks.inventory"][<<Created(j), r>>]
                            + (IF j \in Malformed THEN 0 ELSE c)
             IN  /\ r < MaxRetries =>
                      w["picks.inventory.retry"][<<Created(j), r + 1>>] <= price
                 /\ w["picks.inventory.dlq"][<<Created(j), r>>] <= price
  <2>1. r < MaxRetries => r + 1 \in 0..MaxRetries
    BY <1>1
  <2>2. QED
    BY <1>1, <1>2, <1>4, <2>1
<1>8. \A j \in Picks, r \in 0..MaxRetries :
        w["picks.inventory"][<<Created(j), r>>] + w["picks.audit"][<<Created(j), r>>]
          <= w["picks.inventory.retry"][<<Created(j), r>>]
  BY <1>1, <1>2, <1>4
<1>9. ASSUME NEW x \in Bodies, NEW r \in 0..MaxRetries
      PROVE  /\ w["picks.audit"][<<x, r>>] <= w["picks.audit.retry"][<<x, r>>]
             /\ x = Created(k) => 1 <= w["picks.audit"][<<x, r>>]
             /\ r < MaxRetries =>
                  w["picks.audit.retry"][<<x, r + 1>>] <= w["picks.audit"][<<x, r>>]
             /\ w["picks.audit.dlq"][<<x, r>>] <= w["picks.audit"][<<x, r>>]
             /\ w["picks.audit"][<<x, r>>] <= c
             /\ w["picks.inventory"][<<x, r>>] <= c
  <2>1. r < MaxRetries => r + 1 \in 0..MaxRetries
    BY <1>1
  <2>2. QED
    BY <1>1, <1>2, <1>4, <2>1
<1>10. Sound(w, c, k, 1, Created(k))
  BY <1>5, <1>6, <1>7, <1>8, <1>9 DEF Sound
<1>11. QED
  BY <1>3, <1>10 DEF w

LEMMA LineSound ==
    ASSUME NEW k \in Picks \ Malformed, NEW key \in Lifecycle
    PROVE  /\ <<k, key>> \in Bodies /\ LineShares(<<k, key>>) \in [Queues -> Shares]
           /\ Sound(LineShares(<<k, key>>), 1, k, 1, <<k, key>>)
<1> DEFINE b == <<k, key>>
           w == LineShares(b)
<1>1. /\ MaxRetries \in Nat /\ 0 \in 0..MaxRetries
      /\ b \in Bodies /\ b[1] = k /\ b[2] = key
  BY RoutingAssumption, EventBodies
<1>2. \A j \in Picks :
        /\ Created(j) \in Bodies /\ Created(j)[1] = j
        /\ Created(j) = b <=> j = k /\ key = "pick.created"
  BY EventBodies DEF Lifecycle, Created
<1>3. w \in [Queues -> Shares]
  BY <1>1, PlainShares DEF LineShares
<1>4. ASSUME NEW x \in Bodies, NEW r \in 0..MaxRetries
      PROVE  /\ w["picks.inventory"][<<x, r>>]
                  = IF x[1] = k /\ key # "pick.created" THEN 1 ELSE 0
             /\ w["picks.inventory.retry"][<<x, r>>] = IF x[1] = k THEN 1 ELSE 0
             /\ \A q \in {"picks.audit", "picks.audit.retry"} :
                  w[q][<<x, r>>] = IF x = b THEN 1 ELSE 0
             /\ \A q \in {"picks.inventory.dlq", "picks.audit.dlq"} : w[q][<<x, r>>] = 0
  BY <1>1, PlainShareOf, QueueNames DEF LineShares
<1> HIDE DEF w, b
<1>5. \A j \in Picks :
        w["picks.inventory"][<<Created(j), 0>>] + w["picks.audit"][<<Created(j), 0>>]
          <= IF j = k THEN 1 ELSE 0
  BY <1>1, <1>2, <1>4
<1>6. \A j \in Picks \ Malformed, r \in 0..MaxRetries,
         other \in {"pick.completed", "pick.failed"} :
        w["picks.audit"][<<<<j, other>>, 0>>] <= w["picks.inventory"][<<Created(j), r>>]
  <2> SUFFICES ASSUME NEW j \in Picks \ Malformed, NEW r \in 0..MaxRetries,
                      NEW other \in {"pick.completed", "pick.failed"}
               PROVE  w["picks.audit"][<<<<j, other>>, 0>>]
                        <= w["picks.inventory"][<<Created(j), r>>]
    OBVIOUS
  <2>1. /\ <<j, other>> \in Bodies
        /\ <<j, other>> = b => j = k /\ key # "pick.created"
    BY DEF Bodies, Lifecycle, b
  <2>2. QED
    BY <1>1, <1>2, <1>4, <2>1
<1>7. ASSUME NEW j \in Picks, NEW r \in 0..MaxRetries
      PROVE  LET price == w["picks.inventory"][<<Created(j), r>>]
                            + (IF j \in Malformed THEN 0 ELSE 1)
             IN  /\ r < MaxRetries =>
                      w["picks.inventory.retry"][<<Created(j), r + 1>>] <= price
                 /\ w["picks.inventory.dlq"][<<Created(j), r>>] <= price
  <2>1. r < MaxRetries => r + 1 \in 0..MaxRetries
    BY <1>1
  <2>2. j \in Malformed => j # k
    OBVIOUS
  <2>3. QED
    BY <1>1, <1>2, <1>4, <2>1, <2>2
<1>8. \A j \in Picks, r \in 0..MaxRetries :
        w["picks.inventory"][<<Created(j), r>>] + w["picks.audit"][<<Created(j), r>>]
          <= w["picks.inventory.retry"][<<Created(j), r>>]
  BY <1>1, <1>2, <1>4
<1>9. ASSUME NEW x \in Bodies, NEW r \in 0..MaxRetries
      PROVE  /\ w["picks.audit"][<<x, r>>] <= w["picks.audit.retry"][<<x, r>>]
             /\ x = b => 1 <= w["picks.audit"][<<x, r>>]
             /\ r < MaxRetries =>
                  w["picks.audit.retry"][<<x, r + 1>>] <= w["picks.audit"][<<x, r>>]
             /\ w["picks.audit.dlq"][<<x, r>>] <= w["picks.audit"][<<x, r>>]
             /\ w["picks.audit"][<<x, r>>] <= 1
             /\ w["picks.inventory"][<<x, r>>] <= 1
  <2>1. r < MaxRetries => r + 1 \in 0..MaxRetries
    BY <1>1
  <2>2. QED
    BY <1>1, <1>4, <2>1
<1>10. Sound(w, 1, k, 1, b)
  BY <1>5, <1>6, <1>7, <1>8, <1>9 DEF Sound
<1>11. QED
  BY <1>1, <1>3, <1>10 DEF w, b

-----------------------------------------------------------------------------
(* No account is ever overdrawn.                                           *)
LEMMA AccountInit ==
    ASSUME Init, NEW w \in [Queues -> Shares], NEW c \in Nat, NEW k \in Picks,
           NEW l \in {0, 1}, NEW b \in Bodies
    PROVE  Covered(w, c, k, l, b)
<1>1. \A q \in Queues : Worth(w, q) = 0
  BY WeightEmpty DEF Init, Worth
<1>2. logged[b] = 0 /\ faults = 0 /\ Published(k) = 0
  BY DEF Init, Published
<1>3. c * (0 + 0) = 0
  OBVIOUS
<1>4. QED
  BY <1>1, <1>2, <1>3, QueueNames DEF Covered, Balance

LEMMA AccountHolds == Spec => []AccountInv
<1>1. Init => AccountInv
  <2> SUFFICES ASSUME Init PROVE AccountInv
    OBVIOUS
  <2>1. \A k \in Picks \ Malformed, key \in Lifecycle :
          Covered(LineShares(<<k, key>>), 1, k, 1, <<k, key>>)
    BY LineSound, AccountInit
  <2>2. \A k \in Malformed :
          /\ Covered(DeadShares(k), 1, k, 0, Created(k))
          /\ Covered(AuditShares(k), 1 + MaxRetries, k, 1, Created(k))
    BY DeadSound, AuditSound, AccountInit, RoutingAssumption
  <2>3. QED
    BY <2>1, <2>2 DEF AccountInv
<1>2. Inv /\ AccountInv /\ [Next]_vars => AccountInv'
  <2> SUFFICES ASSUME Inv, AccountInv, [Next]_vars PROVE AccountInv'
    OBVIOUS
  <2>1. Safe
    BY DEF Inv, Safe
  <2>2. ASSUME NEW k \in Picks \ Malformed, NEW key \in Lifecycle
        PROVE  Covered(LineShares(<<k, key>>), 1, k, 1, <<k, key>>)'
    <3>1. PICK w \in [Queues -> Shares], b \in Bodies :
            w = LineShares(<<k, key>>) /\ b = <<k, key>>
      BY LineSound
    <3>2. Sound(w, 1, k, 1, b) /\ Covered(w, 1, k, 1, b)
      BY <3>1, LineSound DEF AccountInv
    <3>3. Covered(w, 1, k, 1, b)'
      BY <2>1, <3>2, AccountStep
    <3>4. QED
      BY <3>1, <3>3
  <2>3. ASSUME NEW k \in Malformed
        PROVE  Covered(DeadShares(k), 1, k, 0, Created(k))'
    <3>1. PICK w \in [Queues -> Shares], b \in Bodies : w = DeadShares(k) /\ b = Created(k)
      BY DeadSound
    <3>2. Sound(w, 1, k, 0, b) /\ Covered(w, 1, k, 0, b) /\ k \in Picks
      BY <3>1, DeadSound DEF AccountInv
    <3>3. Covered(w, 1, k, 0, b)'
      BY <2>1, <3>2, AccountStep
    <3>4. QED
      BY <3>1, <3>3
  <2>4. ASSUME NEW k \in Malformed
        PROVE  Covered(AuditShares(k), 1 + MaxRetries, k, 1, Created(k))'
    <3>1. PICK w \in [Queues -> Shares], b \in Bodies, c \in Nat :
            w = AuditShares(k) /\ b = Created(k) /\ c = 1 + MaxRetries
      BY DeadSound, AuditSound, RoutingAssumption
    <3>2. Sound(w, c, k, 1, b) /\ Covered(w, c, k, 1, b) /\ k \in Picks
      BY <3>1, DeadSound, AuditSound DEF AccountInv
    <3>3. Covered(w, c, k, 1, b)'
      BY <2>1, <3>2, AccountStep
    <3>4. QED
      BY <3>1, <3>3
  <2>5. QED
    BY <2>2, <2>3, <2>4 DEF AccountInv
<1>3. QED
  BY InvHolds, <1>1, <1>2, PTL DEF Spec

-----------------------------------------------------------------------------
(* Every queue, counter and set of the model keeps its type: no retry      *)
(* count passes the maximum that stops the retries of consumeWithRetry.    *)
THEOREM TypeCorrect == Spec => []TypeOK
<1>1. Inv => TypeOK
  BY DEF Inv
<1>2. QED
  BY InvHolds, <1>1, PTL

(* A retry that computeRetryDelayMs delayed never waits longer than the    *)
(* configured maximum, though only the head of its queue can expire: the   *)
(* messages before it are older and their delays are capped.               *)
THEOREM WaitIsBounded == Spec => []WaitBounded
<1>1. Inv => WaitBounded
  <2> SUFFICES ASSUME Inv, NEW q \in DelayQueues, NEW m \in In(q)
               PROVE  m.waited <= MaxDelay
    BY DEF WaitBounded
  <2>1. queue[q] \in Seq(Message)
    BY DEF Inv, TypeOK, Queues
  <2>2. m \in Message
    BY <2>1 DEF In
  <2>3. m.waited \in 0..MaxDelay
    BY <2>2 DEF Message
  <2>4. QED
    BY <2>3, RoutingAssumption
<1>2. QED
  BY InvHolds, <1>1, PTL

(* An event that setupTopology's exchange accepted is logged by the audit  *)
(* worker, is still on its way to it, or is one of its dead letters.       *)
THEOREM NoEventEscapesAudit == Spec => []AuditedOrDead
<1>1. Inv => AuditedOrDead
  <2> SUFFICES ASSUME Inv, NEW b \in sent
               PROVE  \/ logged[b] > 0
                      \/ \E q \in {"picks.audit", "picks.audit.retry", "picks.audit.dlq"} :
                           \E m \in In(q) : m.body = b
    BY DEF AuditedOrDead
  <2>1. ASSUME NEW q, NEW n, Behind(n, queue[q], b) PROVE \E m \in In(q) : m.body = b
    BY <2>1 DEF Behind, In
  <2>2. Audited(b)
    BY DEF Inv, AuditInv
  <2>3. QED
    BY <2>1, <2>2 DEF Audited
<1>2. QED
  BY InvHolds, <1>1, PTL

(* A redelivered event comes back to the audit queue under a key of its    *)
(* own only after its line was refused, and a line never shows that key.   *)
THEOREM LinesAreNamed == Spec => []LinesNameTheEvent
<1>1. Inv => LinesNameTheEvent
  BY DEF Inv
<1>2. QED
  BY InvHolds, <1>1, PTL

(* Every line of the log about an event beyond its first was paid for by   *)
(* a failed attempt of the inventory worker or by a crash before an ack.   *)
THEOREM RepeatsArePaid == Spec => []RepeatsNeedFaults
<1>1. Inv /\ AccountInv => RepeatsNeedFaults
  <2> SUFFICES ASSUME Inv, AccountInv, NEW b \in Bodies, b[1] \notin Malformed
               PROVE  logged[b] <= 1 + faults
    BY DEF RepeatsNeedFaults
  <2>1. PICK k \in Picks \ Malformed, key \in Lifecycle : b = <<k, key>>
    BY DEF Bodies
  <2>2. Safe
    BY DEF Inv, Safe
  <2>3. PICK w \in [Queues -> Shares] : w = LineShares(b)
    BY <2>1, LineSound
  <2>4. Balance(w, 1, b) <= 1 * (Published(k) + faults)
    BY <2>1, <2>3 DEF AccountInv, Covered
  <2>5. /\ \A q \in Queues : Worth(w, q) \in Nat
        /\ logged[b] \in Nat
    BY <2>2, BalanceTerms
  <2>6. logged[b] <= Balance(w, 1, b)
    BY <2>5, QueueNames DEF Balance
  <2>7. Published(k) \in {0, 1} /\ faults \in Nat /\ Balance(w, 1, b) \in Nat
    BY <2>2, BalanceTerms, RoutingAssumption DEF Published, Safe, TypeOK
  <2>8. QED
    BY <2>4, <2>5, <2>6, <2>7
<1>2. QED
  BY InvHolds, AccountHolds, <1>1, PTL

(* The messages of a queue that no worker consumes weigh at least the      *)
(* copies of a pick among them when each copy is worth one.                *)
LEMMA CopiesWeigh ==
    ASSUME TypeOK, NEW w \in [Queues -> Shares], NEW k \in Picks, NEW q \in Queues,
           q \notin {"picks.audit", "picks.inventory"}, w[q] = OfPick(k)
    PROVE  Cardinality(Copies(k, q)) <= Worth(w, q) /\ Cardinality(Copies(k, q)) \in Nat
<1> DEFINE s == queue[q]
           U == Units(s, 0, w[q])
           S == {<<i, 0>> : i \in Copies(k, q)}
           g == [i \in Copies(k, q) |-> <<i, 0>>]
<1>1. /\ s \in Seq(Message) /\ w[q] \in Shares /\ Skipped(q) = 0 /\ MaxRetries \in Nat
  BY RoutingAssumption DEF TypeOK, Skipped
<1>2. IsFiniteSet(U) /\ Worth(w, q) = Cardinality(U)
  BY <1>1, WeightTyped DEF Worth, Weight
<1>3. S \subseteq U
  <2> SUFFICES ASSUME NEW i \in Copies(k, q) PROVE <<i, 0>> \in U
    OBVIOUS
  <2>1. i \in DOMAIN s /\ s[i].body[1] = k
    BY DEF Copies
  <2>2. s[i] \in Message /\ i \in Nat \ {0}
    BY <1>1, <2>1, LenProperties
  <2>3. s[i].body \in Bodies /\ s[i].retries \in 0..MaxRetries
    BY <2>2, BodyTyped
  <2>4. Share(w[q], s[i]) = 1
    BY <2>1, <2>3, PlainShareOf DEF Share
  <2>5. QED
    BY <1>1, <2>1, <2>2, <2>4 DEF Units
<1>4. IsFiniteSet(S) /\ Cardinality(S) <= Cardinality(U) /\ Cardinality(S) \in Nat
  BY <1>2, <1>3, FS_Subset, FS_CardinalityType
<1>5. IsFiniteSet(Copies(k, q))
  <2>1. Copies(k, q) \subseteq 1..Len(s) /\ Len(s) \in Nat
    BY <1>1, LenProperties DEF Copies
  <2>2. IsFiniteSet(1..Len(s))
    BY <2>1, FS_Interval
  <2>3. QED
    BY <2>1, <2>2, FS_Subset
<1>6. g \in Bijection(Copies(k, q), S)
  BY DEF Bijection, Injection, Surjection, IsInjective
<1>7. Cardinality(Copies(k, q)) = Cardinality(S)
  BY <1>5, <1>6, FS_Bijection DEF ExistsBijection
<1>8. QED
  BY <1>2, <1>4, <1>7

(* A body that always fails multiplies, since each of its retries reaches  *)
(* the audit queue again; its dead letters and its lines in the log stay   *)
(* within the attempts that MaxRetries and the faults allow.               *)
THEOREM AmplificationIsBounded == Spec => []AmplificationBounded
<1>1. Inv /\ AccountInv => AmplificationBounded
  <2> SUFFICES ASSUME Inv, AccountInv, NEW k \in Malformed
               PROVE  /\ Cardinality(Copies(k, "picks.inventory.dlq")) <= 1 + faults
                      /\ Cardinality(Copies(k, "picks.audit.dlq"))
                           + logged[<<k, "pick.created">>]
                           <= (1 + faults) * (1 + MaxRetries)
    BY DEF AmplificationBounded
  <2>1. Safe /\ TypeOK
    BY DEF Inv, Safe
  <2>2. k \in Picks /\ Created(k) \in Bodies /\ MaxRetries \in Nat
    BY DeadSound, RoutingAssumption
  <2>3. PICK w \in [Queues -> Shares], v \in [Queues -> Shares] :
          w = DeadShares(k) /\ v = AuditShares(k)
    BY DeadSound, AuditSound
  <2>4. w["picks.inventory.dlq"] = OfPick(k) /\ v["picks.audit.dlq"] = OfPick(k)
    BY <2>3, QueueNames DEF DeadShares, AuditShares
  <2>5. /\ \A q \in Queues : Worth(w, q) \in Nat /\ Worth(v, q) \in Nat
        /\ logged[Created(k)] \in Nat
    BY <2>1, <2>2, BalanceTerms
  <2>6. Published(k) \in {0, 1} /\ faults \in Nat
    BY <2>1, RoutingAssumption DEF Published, TypeOK
  <2>7. Cardinality(Copies(k, "picks.inventory.dlq")) <= 1 + faults
    <3>1. Balance(w, 0, Created(k)) <= 1 * (Published(k) + faults)
      BY <2>3 DEF AccountInv, Covered
    <3>2. Worth(w, "picks.inventory.dlq") <= Balance(w, 0, Created(k))
      BY <2>5, QueueNames DEF Balance
    <3>3. /\ Cardinality(Copies(k, "picks.inventory.dlq")) <= Worth(w, "picks.inventory.dlq")
          /\ Cardinality(Copies(k, "picks.inventory.dlq")) \in Nat
      BY <2>1, <2>2, <2>4, CopiesWeigh, QueueNames
    <3>4. Balance(w, 0, Created(k)) \in Nat
      BY <2>1, <2>2, BalanceTerms
    <3>5. QED
      BY <2>5, <2>6, <3>1, <3>2, <3>3, <3>4, QueueNames
  <2>8. Cardinality(Copies(k, "picks.audit.dlq")) + logged[<<k, "pick.created">>]
          <= (1 + faults) * (1 + MaxRetries)
    <3>1. Balance(v, 1, Created(k)) <= (1 + MaxRetries) * (Published(k) + faults)
      BY <2>3 DEF AccountInv, Covered
    <3>2. Worth(v, "picks.audit.dlq") + logged[Created(k)] <= Balance(v, 1, Created(k))
      BY <2>5, QueueNames DEF Balance
    <3>3. /\ Cardinality(Copies(k, "picks.audit.dlq")) <= Worth(v, "picks.audit.dlq")
          /\ Cardinality(Copies(k, "picks.audit.dlq")) \in Nat
      BY <2>1, <2>2, <2>4, CopiesWeigh, QueueNames
    <3>4. Balance(v, 1, Created(k)) \in Nat
      BY <2>1, <2>2, BalanceTerms
    <3>5. (1 + MaxRetries) * (Published(k) + faults) <= (1 + faults) * (1 + MaxRetries)
      <4>1. PICK c \in Nat, f \in Nat, n \in {0, 1} :
              c = 1 + MaxRetries /\ f = faults /\ n = Published(k)
        BY <2>2, <2>6
      <4>2. c * (1 + f) = (1 + f) * c /\ c * (1 + f) = c + c * f /\ c * (0 + f) = c * f
        OBVIOUS
      <4>3. c * f \in Nat
        OBVIOUS
      <4>4. c * (n + f) <= (1 + f) * c
        BY <4>2, <4>3
      <4>5. QED
        BY <4>1, <4>4
    <3>6. (1 + MaxRetries) * (Published(k) + faults) \in Int
          /\ (1 + faults) * (1 + MaxRetries) \in Int
      BY <2>2, <2>6
    <3>7. QED
      BY <2>5, <3>1, <3>2, <3>3, <3>4, <3>5, <3>6, QueueNames DEF Created
  <2>9. QED
    BY <2>7, <2>8
<1>2. QED
  BY InvHolds, AccountHolds, <1>1, PTL
=============================================================================
