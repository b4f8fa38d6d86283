---------------------------- MODULE PickPipeline ----------------------------
(***************************************************************************)
(* A pick from its pick.created event to its outcome: the inventory queue, *)
(* the delay queue and the dead-letter queue of setupTopology, the         *)
(* inventory worker replicas running consumeWithRetry around               *)
(* ProcessInventoryPickUseCase, and the products table they decrement      *)
(* while the API edits it.  Worker processes crash and restart, the broker *)
(* closes their connection, and the database fails: before it ran the      *)
(* UPDATE, after it committed, or with the UPDATE still to run, since      *)
(* nothing cancels what the server has received.                           *)
(*                                                                         *)
(* The order within a queue is left out: with competing workers, requeued  *)
(* deliveries and random delays any ready message may be handled next.  So *)
(* a queue is a bag: how many copies of each message it holds.             *)
(***************************************************************************)
EXTENDS ProductTable

CONSTANTS
    Picks,          \* pickIds
    Order,          \* Order[k]: the product_code and quantity of pick k
    Malformed,      \* the messages another publisher sent that are no picks
    Workers,        \* inventory-worker replicas
    MaxRetries,     \* PICK_RETRY_MAX
    NoMessage,      \* a worker holds no delivery
    MaxFaults,      \* bound on crashes, lost connections and database failures
    MaxEdits        \* bound on the API's edits of the table

(* The content of a delivery: the pick and its x-retry-count header.       *)
Message == [pick : Picks, retries : 0..MaxRetries]

ASSUME PipelineAssumption ==
    /\ Order \in [Picks -> [product : Products, quantity : 1..MaxQuantity]]
    /\ Malformed \subseteq Picks
    /\ MaxRetries \in Nat
    /\ NoMessage \notin Message
    /\ MaxFaults \in Nat
    /\ MaxEdits \in Nat

VARIABLES
    table,      \* the products table
    published,  \* the picks whose pick.created event reached the exchange
    ready,      \* picks.inventory: copies not handed to a worker
    delayed,    \* picks.inventory.retry
    dead,       \* picks.inventory.dlq
    pc,         \* pc[w]: where worker w is in consumeWithRetry and the use case
    held,       \* held[w]: the delivery w works on
    open,       \* open[w]: w's connection and channel are up
    late,       \* late[k]: UPDATEs of k that the server may still run although
                \* nobody awaits them any more
    completed,  \* completed[k]: pick.completed events published for k
    failed,     \* failed[k]: pick.failed events published for k
    audited,    \* audited[k]: pick.created messages of k routed to picks.audit
    taken,      \* history: times k's quantity was taken from the stock
    errors,     \* history: attempts of k that consumeWithRetry caught an error of
    faults,     \* how many faults happened
    edits       \* how many edits the API made

queues == <<ready, delayed, dead>>
outcomes == <<completed, failed>>
vars == <<table, published, queues, pc, held, open, late, outcomes, audited,
          taken, errors, faults, edits>>

States == {"idle", "handle", "recheck", "completed", "failed", "error", "ack",
           "down"}

EmptyQueue == [m \in Message |-> 0]
None == [k \in Picks |-> 0]

Put(q, m) == [q EXCEPT ![m] = @ + 1]
Take(q, m) == [q EXCEPT ![m] = @ - 1]
Counted(f, k) == [f EXCEPT ![k] = @ + 1]
Uncounted(f, k) == [f EXCEPT ![k] = @ - 1]

Init ==
    /\ table \in Table
    /\ published = {}
    /\ ready = EmptyQueue /\ delayed = EmptyQueue /\ dead = EmptyQueue
    /\ pc = [w \in Workers |-> "idle"]
    /\ held = [w \in Workers |-> NoMessage]
    /\ open = [w \in Workers |-> TRUE]
    /\ late = None
    /\ completed = None /\ failed = None
    /\ audited = None /\ taken = None /\ errors = None
    /\ faults = 0 /\ edits = 0

-----------------------------------------------------------------------------
(* The API and the broker.                                                 *)

(* publishPickCreated: routed to picks.inventory and to picks.audit.       *)
Publish(k) ==
    /\ k \notin published
    /\ published' = published \cup {k}
    /\ ready' = Put(ready, [pick |-> k, retries |-> 0])
    /\ audited' = Counted(audited, k)
    /\ UNCHANGED <<table, delayed, dead, pc, held, open, late, outcomes, taken,
                   errors, faults, edits>>

(* POST, PUT or DELETE of a product while picks are in flight.             *)
Edit ==
    /\ edits < MaxEdits
    /\ \E p \in Products :
         table' \in {Deleted(table, p)}
                    \cup {Written(table, p, q, l) : q \in 0..Int4Max,
                                                    l \in Locations}
    /\ edits' = edits + 1
    /\ UNCHANGED <<published, queues, pc, held, open, late, outcomes, audited,
                   taken, errors, faults>>

(* basic.deliver under prefetch(1): a worker holds one unacked delivery.   *)
Deliver(w, m) ==
    /\ pc[w] = "idle" /\ open[w]
    /\ ready[m] > 0
    /\ ready' = Take(ready, m)
    /\ held' = [held EXCEPT ![w] = m]
    /\ pc' = [pc EXCEPT ![w] = "handle"]
    /\ UNCHANGED <<table, published, delayed, dead, open, late, outcomes,
                   audited, taken, errors, faults, edits>>

(* Mutant: the retry is published without its expiration option.           *)
ExpireNever(m) == FALSE

(* The delay of a retry elapses: the message is dead-lettered back to the  *)
(* exchange under the key pick.created, which picks.audit is bound to too. *)
Expire(m) ==
    /\ delayed[m] > 0
    /\ delayed' = Take(delayed, m)
    /\ ready' = Put(ready, m)
    /\ audited' = Counted(audited, m.pick)
    /\ UNCHANGED <<table, published, dead, pc, held, open, late, outcomes,
                   taken, errors, faults, edits>>

-----------------------------------------------------------------------------
(* A worker.  Its publishes and acks share one channel, so the broker sees *)
(* them in order: a crash loses a suffix of them, never an earlier one.    *)

Moves(w, s) == pc' = [pc EXCEPT ![w] = s]

(* handlePickCreated rejects what is not a pick.                           *)
Reject(w) ==
    /\ pc[w] = "handle" /\ held[w].pick \in Malformed
    /\ Moves(w, "error")
    /\ UNCHANGED <<table, published, queues, held, open, late, outcomes,
                   audited, taken, errors, faults, edits>>

(* The guarded UPDATE of applyQuantityDelta matches the row of pick k.     *)
Covers(k) == Matches(table, Order[k].product, -Order[k].quantity)

(* Mutant: the quantity is passed without its minus sign.                  *)
AddsStock(k) ==
    /\ Matches(table, Order[k].product, Order[k].quantity)
    /\ table' = Adjusted(table, Order[k].product, Order[k].quantity, NoLocation)
    /\ taken' = Counted(taken, k)

Commits(k) ==
    /\ Covers(k)
    /\ table' = Adjusted(table, Order[k].product, -Order[k].quantity, NoLocation)
    /\ taken' = Counted(taken, k)

(* The worker awaits that statement.                                       *)
Updating(w) == pc[w] = "handle" /\ held[w].pick \notin Malformed

TakesStock(w) ==
    /\ Updating(w)
    /\ Commits(held[w].pick)
    /\ UNCHANGED <<published, queues, held, open, late, outcomes, audited,
                   errors, edits>>

(* applyQuantityDelta(-quantity) commits and returns the row.              *)
Decrement(w) == TakesStock(w) /\ Moves(w, "completed") /\ UNCHANGED faults

(* The guarded UPDATE matches no row: missing product, or too little stock. *)
Unmatched(w) ==
    /\ Updating(w) /\ ~Covers(held[w].pick)
    /\ Moves(w, "recheck")
    /\ UNCHANGED <<table, published, queues, held, open, late, outcomes,
                   audited, taken, errors, faults, edits>>

(* The explaining SELECT: ProductNotFoundError or InvalidQuantityDelta-    *)
(* Error, a business failure either way.                                   *)
Explain(w) ==
    /\ pc[w] = "recheck"
    /\ Moves(w, "failed")
    /\ UNCHANGED <<table, published, queues, held, open, late, outcomes,
                   audited, taken, errors, faults, edits>>

Fault == faults < MaxFaults /\ faults' = faults + 1

(* Mutant: execute does not rethrow an unexpected error.                   *)
FailureSwallowed(w) ==
    /\ Fault
    /\ pc[w] \in {"handle", "recheck"} /\ held[w].pick \notin Malformed
    /\ Moves(w, "completed")
    /\ UNCHANGED <<table, published, queues, held, open, late, outcomes,
                   audited, taken, errors, edits>>

(* The client of the UPDATE is gone: the server never got the statement, or *)
(* may still run it, when the lock it waits for is free.                   *)
LeavesUpdate(w) ==
    \/ UNCHANGED late
    \/ Updating(w) /\ late' = Counted(late, held[w].pick)

(* A statement of the use case rejects: it has not run (yet) ...           *)
DatabaseFails(w) ==
    /\ Fault
    /\ pc[w] \in {"handle", "recheck"} /\ held[w].pick \notin Malformed
    /\ Moves(w, "error")
    /\ LeavesUpdate(w)
    /\ UNCHANGED <<table, published, queues, held, open, outcomes, audited,
                   taken, errors, edits>>

(* ... or the UPDATE committed and its result was lost.                    *)
ResultLost(w) == Fault /\ TakesStock(w) /\ Moves(w, "error")

(* An UPDATE runs that nobody awaits any more.                             *)
RunsLate(k) ==
    /\ late[k] > 0
    /\ late' = Uncounted(late, k)
    /\ Commits(k) \/ (~Covers(k) /\ UNCHANGED <<table, taken>>)
    /\ UNCHANGED <<published, queues, pc, held, open, outcomes, audited, errors,
                   faults, edits>>

(* Mutant: execute does not return after publishPickFailed.                *)
EmitAndFallThrough(w) ==
    LET k == held[w].pick IN
    /\ pc[w] \in {"completed", "failed"}
    /\ open[w]
    /\ completed' = Counted(completed, k)
    /\ failed' = IF pc[w] = "failed" THEN Counted(failed, k) ELSE failed
    /\ Moves(w, "ack")
    /\ UNCHANGED <<table, published, queues, held, open, late, audited, taken,
                   errors, faults, edits>>

(* publishPickCompleted and publishPickFailed; on a closed channel publish *)
(* throws, and consumeWithRetry catches it.                                *)
Emit(w) ==
    LET k == held[w].pick IN
    /\ pc[w] \in {"completed", "failed"}
    /\ IF open[w]
         THEN /\ completed' = IF pc[w] = "completed" THEN Counted(completed, k)
                                                     ELSE completed
              /\ failed' = IF pc[w] = "failed" THEN Counted(failed, k)
                                               ELSE failed
              /\ Moves(w, "ack")
         ELSE Moves(w, "error") /\ UNCHANGED outcomes
    /\ UNCHANGED <<table, published, queues, held, open, late, audited, taken,
                   errors, faults, edits>>

(* The x-retry-count header of the copy a failed attempt publishes.        *)
Retried(m) == [m EXCEPT !.retries = @ + 1]

(* Mutant: no dead letter once the retries are spent.                      *)
DropExhausted(w) ==
    LET m == held[w] IN
    /\ pc[w] = "error" /\ open[w]
    /\ IF m.retries < MaxRetries THEN delayed' = Put(delayed, Retried(m))
                                 ELSE UNCHANGED delayed
    /\ errors' = Counted(errors, m.pick)
    /\ Moves(w, "ack")
    /\ UNCHANGED <<table, published, ready, dead, held, open, late, outcomes,
                   audited, taken, faults, edits>>

(* Mutant: retryCount + 1 < maxRetries.                                    *)
GiveUpEarly(w) ==
    LET m == held[w] IN
    /\ pc[w] = "error" /\ open[w]
    /\ IF m.retries + 1 < MaxRetries
         THEN delayed' = Put(delayed, Retried(m)) /\ UNCHANGED dead
         ELSE dead' = Put(dead, m) /\ UNCHANGED delayed
    /\ errors' = Counted(errors, m.pick)
    /\ Moves(w, "ack")
    /\ UNCHANGED <<table, published, ready, held, open, late, outcomes,
                   audited, taken, faults, edits>>

(* The catch block: schedule a retry, or give up on the message.  On a     *)
(* closed channel its publish throws, the rejection is unhandled and the   *)
(* process exits.                                                          *)
OnError(w) ==
    LET m == held[w] IN
    /\ pc[w] = "error"
    /\ IF ~open[w]
         THEN Moves(w, "down") /\ UNCHANGED <<delayed, dead, errors>>
         ELSE /\ IF m.retries < MaxRetries
                   THEN delayed' = Put(delayed, Retried(m)) /\ UNCHANGED dead
                   ELSE dead' = Put(dead, m) /\ UNCHANGED delayed
              /\ errors' = Counted(errors, m.pick)
              /\ Moves(w, "ack")
    /\ UNCHANGED <<table, published, ready, held, open, late, outcomes,
                   audited, taken, faults, edits>>

(* channel.ack, at the end of either path; it throws on a closed channel.  *)
Ack(w) ==
    /\ pc[w] = "ack"
    /\ Moves(w, IF open[w] THEN "idle" ELSE "down")
    /\ held' = [held EXCEPT ![w] = NoMessage]
    /\ UNCHANGED <<table, published, queues, open, late, outcomes, audited,
                   taken, errors, faults, edits>>

-----------------------------------------------------------------------------
(* Faults.                                                                 *)

(* The broker requeues the unacked delivery of a channel that closes.      *)
Requeued(w) == IF open[w] /\ held[w] # NoMessage THEN Put(ready, held[w])
                                                 ELSE ready

(* The process dies, by itself, by SIGTERM's shutdown or by the connection's *)
(* 'error' handler.                                                        *)
Crash(w) ==
    /\ Fault
    /\ pc[w] # "down"
    /\ LeavesUpdate(w)
    /\ ready' = Requeued(w)
    /\ Moves(w, "down")
    /\ held' = [held EXCEPT ![w] = NoMessage]
    /\ open' = [open EXCEPT ![w] = FALSE]
    /\ UNCHANGED <<table, published, delayed, dead, outcomes, audited, taken,
                   errors, edits>>

(* The broker closes the connection without an 'error' (a forced close), or *)
(* shutdown closes it: the handler in progress runs on.                    *)
Disconnect(w) ==
    /\ Fault
    /\ open[w]
    /\ ready' = Requeued(w)
    /\ open' = [open EXCEPT ![w] = FALSE]
    /\ UNCHANGED <<table, published, delayed, dead, pc, held, late, outcomes,
                   audited, taken, errors, edits>>

(* The container's restart policy.  A worker left without a consumer has   *)
(* nothing to wait for: its process ends and is restarted too.             *)
Restart(w) ==
    /\ pc[w] = "down" \/ (pc[w] = "idle" /\ ~open[w])
    /\ Moves(w, "idle")
    /\ held' = [held EXCEPT ![w] = NoMessage]
    /\ open' = [open EXCEPT ![w] = TRUE]
    /\ UNCHANGED <<table, published, queues, late, outcomes, audited, taken,
                   errors, faults, edits>>

Step(w) ==
    \/ Reject(w) \/ Decrement(w) \/ Unmatched(w) \/ Explain(w)
    \/ Emit(w) \/ OnError(w) \/ Ack(w)

Faulty(w) == DatabaseFails(w) \/ ResultLost(w) \/ Crash(w) \/ Disconnect(w)

Receive(m) == \E w \in Workers : Deliver(w, m)

Settled(k) ==
    \/ completed[k] > 0
    \/ failed[k] > 0
    \/ \E m \in Message : m.pick = k /\ dead[m] > 0

Quiet ==
    /\ \A k \in Picks : k \in published /\ Settled(k)
    /\ \A m \in Message : ready[m] = 0 /\ delayed[m] = 0
    /\ \A w \in Workers : pc[w] = "idle" /\ open[w]
    /\ UNCHANGED vars

Next ==
    \/ \E k \in Picks : Publish(k) \/ RunsLate(k)
    \/ \E m \in Message : Receive(m) \/ Expire(m)
    \/ \E w \in Workers : Step(w) \/ Faulty(w) \/ Restart(w)
    \/ Edit
    \/ Quiet

Spec == Init /\ [][Next]_vars

(* Node runs a handler to its next await; the broker delivers to an idle   *)
(* consumer and expires delayed messages; the restart policy restarts a    *)
(* dead worker.  Nothing obliges clients to pick or faults to happen.      *)
Fairness ==
    /\ \A w \in Workers : WF_vars(Step(w)) /\ WF_vars(Restart(w))
    /\ \A m \in Message : WF_vars(Receive(m)) /\ WF_vars(Expire(m))

FairSpec == Spec /\ Fairness

-----------------------------------------------------------------------------
TypeOK ==
    /\ table \in Table
    /\ published \subseteq Picks
    /\ ready \in [Message -> Nat]
    /\ delayed \in [Message -> Nat]
    /\ dead \in [Message -> Nat]
    /\ pc \in [Workers -> States]
    /\ held \in [Workers -> Message \cup {NoMessage}]
    /\ open \in [Workers -> BOOLEAN]
    /\ late \in [Picks -> Nat]
    /\ completed \in [Picks -> Nat]
    /\ failed \in [Picks -> Nat]
    /\ audited \in [Picks -> Nat]
    /\ taken \in [Picks -> Nat]
    /\ errors \in [Picks -> Nat]
    /\ faults \in Nat
    /\ edits \in Nat

InFlight(k) ==
    \/ \E m \in Message : m.pick = k /\ (ready[m] > 0 \/ delayed[m] > 0)
    \/ \E w \in Workers : open[w] /\ held[w] # NoMessage /\ held[w].pick = k

(* A pick whose event reached the broker is never lost: through crashes,   *)
(* closed connections and failed attempts, it is queued, delayed, in the   *)
(* hands of a connected worker, or it has an outcome event or a dead       *)
(* letter (consumeWithRetry publishes before it acks, and always acks).    *)
NoPickLost == \A k \in published : InFlight(k) \/ Settled(k)

(* pick.completed is only ever said of a pick whose stock was taken.       *)
CompletedWasTaken == \A k \in Picks : completed[k] > 0 => taken[k] > 0

(* Every attempt beyond the first that reaches an effect, a decrement or a *)
(* pick.failed event, is paid for by a fault.  Without faults a pick is    *)
(* handled exactly once, whatever the interleaving of workers and edits.   *)
RepeatsNeedFaults ==
    \A k \in Picks : /\ taken[k] + failed[k] <= 1 + faults
                     /\ completed[k] + failed[k] <= 1 + faults

(* A message is dead-lettered only after MaxRetries + 1 attempts of its    *)
(* pick ended in an error: redeliveries and restarts never lose count in   *)
(* the direction that gives up early.                                      *)
DeadAfterAllRetries ==
    \A m \in Message : dead[m] > 0 => errors[m.pick] >= MaxRetries + 1

(* Once faults stop, every published pick gets an outcome or a dead letter. *)
PicksSettle == \A k \in Picks : k \in published ~> Settled(k)

(* The contract's view of the pipeline: the picks a worker has found the   *)
(* stock too short for and not yet reported, those with a dead letter, and *)
(* the quantities of the table.                                            *)
Short == {held[w].pick : w \in {v \in Workers : pc[v] \in {"recheck", "failed"}}}

DeadLettered == {m.pick : m \in {n \in Message : dead[n] > 0}}

Stock == [p \in Products |-> IF Exists(table, p) THEN table[p].quantity ELSE -1]

Contract == INSTANCE PickContract WITH
    stock <- Stock,
    asked <- published, short <- Short, abandoned <- DeadLettered,
    mishaps <- faults

(* Every step of the workers, queues and edits is a step of the contract   *)
(* or invisible to it: in particular the stock only ever moves by an edit  *)
(* or by a pick's exact quantity, and pick.failed is said only of a pick   *)
(* that a worker found too little stock for in this very attempt.          *)
ImplementsContract == Contract!Spec

(* The smoke test and picks.messaging.spec.ts: a pick decrements the stock *)
(* exactly once, never a second time.                                      *)
TakenAtMostOnce == \A k \in Picks : taken[k] <= 1

(* topology.ts, setupTopology.ts: audit gets each lifecycle event once; the *)
(* bindings keep retries out of it.                                        *)
CreatedAuditedOnce == \A k \in Picks : audited[k] <= 1
=============================================================================
