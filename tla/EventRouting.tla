---------------------------- MODULE EventRouting ----------------------------
(***************************************************************************)
(* Every queue of setupTopology and both workers on them: how the exchange *)
(* routes the lifecycle events of a pick, how consumeWithRetry delays,     *)
(* redelivers and dead-letters what fails, and what the audit worker logs. *)
(* The delay queues are FIFO and RabbitMQ expires only their head, so time *)
(* counts here: one tick is a unit of the configured delays.               *)
(*                                                                         *)
(* What a pick does to the stock is in PickPipeline; here it completes or  *)
(* fails.  docker-compose.yml runs one process per worker.                 *)
(***************************************************************************)
EXTENDS Integers, Sequences, FiniteSets

CONSTANTS
    Picks,          \* the bodies published under pick.created
    Malformed,      \* those that are no picks, sent by another publisher
    MaxRetries,     \* PICK_RETRY_MAX
    BaseDelay,      \* PICK_RETRY_DELAY_MS
    MaxDelay,       \* PICK_RETRY_MAX_DELAY_MS
    MaxFaults       \* bound on crashes and on failures of the database

ASSUME RoutingAssumption ==
    /\ Malformed \subseteq Picks
    /\ MaxRetries \in Nat
    /\ BaseDelay \in Nat \ {0} /\ MaxDelay \in Nat \ {0}
    /\ \A n \in 0..MaxRetries : 2^n \in Nat \ {0}
    /\ MaxFaults \in Nat

Workers == {"inventory", "audit"}

Lifecycle == {"pick.created", "pick.completed", "pick.failed"}

Keys == Lifecycle \cup {"pick.created.retry", "pick.created.dead",
                        "pick.audit.retry", "pick.audit.dead",
                        "pick.audit.redeliver"}

(* The keys and queues one worker hands to consumeWithRetry.               *)
Source == [inventory |-> "picks.inventory", audit |-> "picks.audit"]
RetryKey == [inventory |-> "pick.created.retry", audit |-> "pick.audit.retry"]
DeadKey == [inventory |-> "pick.created.dead", audit |-> "pick.audit.dead"]

DelayQueues == {"picks.inventory.retry", "picks.audit.retry"}
DeadLetters == {"picks.inventory.dlq", "picks.audit.dlq"}
WorkQueues == {"picks.inventory", "picks.audit"}
Queues == DelayQueues \cup DeadLetters \cup WorkQueues

(* The one key each of the other queues is bound with.                     *)
OwnKey(q) ==
    CASE q = "picks.inventory" -> "pick.created"
      [] q = "picks.inventory.retry" -> "pick.created.retry"
      [] q = "picks.inventory.dlq" -> "pick.created.dead"
      [] q = "picks.audit.retry" -> "pick.audit.retry"
      [] q = "picks.audit.dlq" -> "pick.audit.dead"

(* Mutant: the audit queue is bound with the wildcard pick.#.              *)
WildcardKeys(q) == IF q = "picks.audit" THEN Keys ELSE {OwnKey(q)}

(* Mutant: pick.failed is missing from AUDIT_BINDING_KEYS.                 *)
FailedNotBound(q) ==
    IF q = "picks.audit"
      THEN {"pick.created", "pick.completed", "pick.audit.redeliver"}
      ELSE {OwnKey(q)}

(* The bindings of a queue to the exchange.                                *)
BindingKeys(q) ==
    IF q = "picks.audit" THEN Lifecycle \cup {"pick.audit.redeliver"}
                         ELSE {OwnKey(q)}

(* Mutant: audit retries come back as pick.created.                        *)
RedeliversCreated(q) == "pick.created"

(* x-dead-letter-routing-key of a delay queue.                             *)
DeadLetterKey(q) ==
    IF q = "picks.inventory.retry" THEN "pick.created"
                                       ELSE "pick.audit.redeliver"

VARIABLES
    queue,      \* queue[q]: the messages in q, oldest first; a worker's unacked
                \* delivery is still the head of its queue
    done,       \* done[w]: w's handler or catch block has run, the ack has not
    unparsable, \* the malformed bodies that are not even JSON
    sent,       \* history: the <<pick, event>> bodies that reached the exchange
    logged,     \* the audit log: logged[<<pick, event>>] lines for a body ...
    misnamed,   \* ... and whether a line got another eventType than its event
    faults      \* how many faults happened

vars == <<queue, done, unparsable, sent, logged, misnamed, faults>>

Bodies == Picks \X Lifecycle

(* body: what was published first and as what; key: the routing key now;   *)
(* retries: x-retry-count; delay: expiration, 0 for none; waited: the time *)
(* spent in a delay queue.                                                 *)
Message == [body : Bodies, key : Keys, retries : 0..MaxRetries,
            delay : 0..MaxDelay, waited : 0..MaxDelay]

Init ==
    /\ queue = [q \in Queues |-> <<>>]
    /\ done = [w \in Workers |-> FALSE]
    /\ unparsable \in SUBSET Malformed
    /\ sent = {}
    /\ logged = [b \in Bodies |-> 0]
    /\ misnamed = FALSE
    /\ faults = 0

-----------------------------------------------------------------------------
(* The exchange.                                                           *)

(* Queues Q with m appended to each one that m's key is bound to.          *)
Routed(Q, m) ==
    [q \in Queues |-> IF m.key \in BindingKeys(q) THEN Append(Q[q], m) ELSE Q[q]]

(* A lifecycle event, as RabbitMQPickQueue publishes it.                   *)
Event(k, key) == [body |-> <<k, key>>, key |-> key, retries |-> 0,
                  delay |-> 0, waited |-> 0]

PublishCreated(k) ==
    /\ <<k, "pick.created">> \notin sent
    /\ queue' = Routed(queue, Event(k, "pick.created"))
    /\ sent' = sent \cup {<<k, "pick.created">>}
    /\ UNCHANGED <<done, unparsable, logged, misnamed, faults>>

Due(q) == queue[q] # <<>> /\ Head(queue[q]).waited >= Head(queue[q]).delay

(* Mutant: the retry is published without an expiration and never expires. *)
ExpireNever(q) == FALSE /\ UNCHANGED vars

(* The head of a delay queue expires: it loses its expiration and goes     *)
(* back to the exchange under the queue's dead-letter key.                 *)
Expire(q) ==
    /\ Due(q)
    /\ queue' = Routed([queue EXCEPT ![q] = Tail(@)],
                       [Head(queue[q]) EXCEPT !.key = DeadLetterKey(q),
                                              !.delay = 0, !.waited = 0])
    /\ UNCHANGED <<done, unparsable, sent, logged, misnamed, faults>>

Waiting(q) == [i \in DOMAIN queue[q] |-> [queue[q][i] EXCEPT !.waited = @ + 1]]

(* Time passes; the broker expires what is due before it does.             *)
Tick ==
    /\ \E q \in DelayQueues : queue[q] # <<>>
    /\ \A q \in DelayQueues : ~Due(q)
    /\ queue' = [q \in Queues |-> IF q \in DelayQueues THEN Waiting(q) ELSE queue[q]]
    /\ UNCHANGED <<done, unparsable, sent, logged, misnamed, faults>>

-----------------------------------------------------------------------------
(* consumeWithRetry.                                                       *)

(* Prefetch 1: a worker has one unacked delivery, the oldest message.      *)
Delivery(w) == Head(queue[Source[w]])

Handles(w) ==
    /\ queue[Source[w]] # <<>>
    /\ ~done[w]
    /\ done' = [done EXCEPT ![w] = TRUE]
    /\ UNCHANGED unparsable

(* Mutant: the exponential delay is not capped.                            *)
Uncapped(n) == BaseDelay * 2^n

(* computeRetryDelayMs before the jitter.                                  *)
Exponential(n) ==
    IF MaxDelay <= BaseDelay * 2^n THEN MaxDelay ELSE BaseDelay * 2^n

(* Half of it is fixed, half random, rounded.                              *)
Delays(n) == ((Exponential(n) + 1) \div 2)..Exponential(n)

(* Mutant: retryCount <= maxRetries.                                       *)
FailsOnceMore(w) ==
    LET m == Delivery(w) IN
    IF m.retries <= MaxRetries
      THEN \E d \in Delays(m.retries) :
             queue' = Routed(queue, [m EXCEPT !.key = RetryKey[w],
                                              !.retries = @ + 1, !.delay = d])
      ELSE queue' = Routed(queue, [m EXCEPT !.key = DeadKey[w]])

(* The catch block: a copy with one more retry and a delay of its own, or  *)
(* a dead letter with the headers it had.                                  *)
Fails(w) ==
    LET m == Delivery(w) IN
    IF m.retries < MaxRetries
      THEN \E d \in Delays(m.retries) :
             queue' = Routed(queue, [m EXCEPT !.key = RetryKey[w],
                                              !.retries = @ + 1, !.delay = d])
      ELSE queue' = Routed(queue, [m EXCEPT !.key = DeadKey[w]])

Ack(w) ==
    /\ done[w]
    /\ queue' = [queue EXCEPT ![Source[w]] = Tail(@)]
    /\ done' = [done EXCEPT ![w] = FALSE]
    /\ UNCHANGED <<unparsable, sent, logged, misnamed, faults>>

-----------------------------------------------------------------------------
(* The inventory worker: handlePickCreated.                                *)

(* A pick completes or fails, and its outcome is published.                *)
Picked ==
    LET k == Delivery("inventory").body[1] IN
    /\ Handles("inventory")
    /\ k \notin Malformed
    /\ \E key \in {"pick.completed", "pick.failed"} :
         /\ queue' = Routed(queue, Event(k, key))
         /\ sent' = sent \cup {<<k, key>>}
    /\ UNCHANGED <<logged, misnamed, faults>>

Rejected ==
    /\ Handles("inventory")
    /\ Delivery("inventory").body[1] \in Malformed
    /\ Fails("inventory")
    /\ UNCHANGED <<sent, logged, misnamed, faults>>

Fault == faults < MaxFaults /\ faults' = faults + 1

(* The database is unreachable.                                            *)
DatabaseFails ==
    /\ Fault
    /\ Handles("inventory")
    /\ Delivery("inventory").body[1] \notin Malformed
    /\ Fails("inventory")
    /\ UNCHANGED <<sent, logged, misnamed>>

-----------------------------------------------------------------------------
(* The audit worker.                                                       *)

(* handlePickAuditEvent logs the event under the key it was delivered with. *)
Log ==
    LET m == Delivery("audit") IN
    /\ Handles("audit")
    /\ m.body[1] \notin unparsable
    /\ logged' = [logged EXCEPT ![m.body] = @ + 1]
    /\ misnamed' = (misnamed \/ m.key # m.body[2])
    /\ UNCHANGED <<queue, sent, faults>>

(* Mutant: whatever is no pick is retried, as the inventory worker does.   *)
RejectsMalformed ==
    /\ Handles("audit")
    /\ Delivery("audit").body[1] \in Malformed
    /\ Fails("audit")
    /\ UNCHANGED <<sent, logged, misnamed, faults>>

(* JSON.parse throws.                                                      *)
NotParsed ==
    /\ Handles("audit")
    /\ Delivery("audit").body[1] \in unparsable
    /\ Fails("audit")
    /\ UNCHANGED <<sent, logged, misnamed, faults>>

-----------------------------------------------------------------------------
(* A worker dies or loses its channel before the ack: the delivery is      *)
(* requeued in its place, and the restarted worker starts over.            *)
Crash(w) ==
    /\ Fault
    /\ done[w]
    /\ done' = [done EXCEPT ![w] = FALSE]
    /\ UNCHANGED <<queue, unparsable, sent, logged, misnamed>>

Next ==
    \/ \E k \in Picks : PublishCreated(k)
    \/ \E q \in DelayQueues : Expire(q)
    \/ Tick
    \/ \E w \in Workers : Ack(w) \/ Crash(w)
    \/ Picked \/ Rejected \/ DatabaseFails
    \/ Log \/ NotParsed

Spec == Init /\ [][Next]_vars

(* The broker expires and delivers, time passes, handlers end; nothing     *)
(* obliges clients to publish or faults to happen.                         *)
Fairness ==
    /\ WF_vars(Tick)
    /\ \A q \in DelayQueues : WF_vars(Expire(q))
    /\ \A w \in Workers : WF_vars(Ack(w))
    /\ WF_vars(Picked) /\ WF_vars(Rejected) /\ WF_vars(Log) /\ WF_vars(NotParsed)

FairSpec == Spec /\ Fairness

-----------------------------------------------------------------------------
TypeOK ==
    /\ queue \in [Queues -> Seq(Message)]
    /\ done \in [Workers -> BOOLEAN]
    /\ unparsable \subseteq Malformed
    /\ sent \subseteq Bodies
    /\ logged \in [Bodies -> Nat]
    /\ misnamed \in BOOLEAN
    /\ faults \in 0..MaxFaults

In(q) == {queue[q][i] : i \in DOMAIN queue[q]}

(* Only the head of a delay queue expires, yet a retry never waits longer  *)
(* than the configured maximum: whatever blocks it is older and capped.    *)
WaitBounded == \A q \in DelayQueues : \A m \in In(q) : m.waited <= MaxDelay

(* No event that reached the exchange escapes the audit: it is logged, on  *)
(* its way to the log, or an audit dead letter.                            *)
AuditedOrDead ==
    \A b \in sent :
      \/ logged[b] > 0
      \/ \E q \in {"picks.audit", "picks.audit.retry", "picks.audit.dlq"} :
           \E m \in In(q) : m.body = b

(* A pick's event is logged twice only for a failed attempt or a crash:    *)
(* retry and dead-letter traffic is never logged for its own sake.         *)
RepeatsNeedFaults ==
    \A b \in Bodies : b[1] \notin Malformed => logged[b] <= 1 + faults

(* A line of the audit log names the event it is about, never the key of a *)
(* redelivery: handlePickAuditEvent takes the type from the routing key.   *)
LinesNameTheEvent == ~misnamed

(* What always fails multiplies, because each retry of the inventory       *)
(* worker is audited again: but a body leaves no more dead letters, and no *)
(* more lines in the log, than its attempts and the faults account for.    *)
Copies(k, q) == {i \in DOMAIN queue[q] : queue[q][i].body[1] = k}

AmplificationBounded ==
    \A k \in Malformed :
      /\ Cardinality(Copies(k, "picks.inventory.dlq")) <= 1 + faults
      /\ Cardinality(Copies(k, "picks.audit.dlq")) + logged[<<k, "pick.created">>]
           <= (1 + faults) * (1 + MaxRetries)

(* Once clients stop, every queue but the dead-letter queues runs empty:   *)
(* nothing goes round between a delay queue and the exchange for ever.     *)
Drains ==
    <>[](\A q \in WorkQueues \cup DelayQueues : queue[q] = <<>>)
=============================================================================
